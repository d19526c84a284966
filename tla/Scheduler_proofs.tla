---------------------------- MODULE Scheduler_proofs ----------------------------
(***************************************************************************)
(* Who gets the processor, and who gets the disk: what schedule() promises,*)
(* the queue of requests of a block device, and the driver of the hard     *)
(* disk; and when kernel timers run.  They share lemmas about numbers and  *)
(* about lists in which something is inserted.                             *)
(***************************************************************************)
EXTENDS Scheduler, KernelTimer, BlockRequest, HardDisk, SequenceTheorems, FiniteSetTheorems,
        WellFoundedInduction, TLAPS

(***************************************************************************)
(* What schedule() promises, for any number of tasks and any priorities.   *)
(*                                                                         *)
(* UserHasSlice is not inductive: that the task chosen by schedule() has a *)
(* slice needs that somebody has one when the dealing is over, and so that *)
(* priorities are not 0 and that nobody who can be chosen is "free"; and a *)
(* task that gives the processor away must have been runnable.             *)
(***************************************************************************)
States == {"run", "int", "unint", "free"}
MaxCredit == 2 * MaxPriority

SliceTypes ==
  /\ counter \in [Tasks -> 0..MaxCredit]
  /\ priority \in [Tasks -> 1..MaxPriority]
  /\ state \in [Tasks -> States]
  /\ current \in Tasks \cup {Idle}
  /\ user \subseteq Tasks

RunsRunnable == current # Idle => state[current] = "run"

(* The inductive invariant.                                                *)
SliceInv == SliceTypes /\ RunsRunnable /\ UserHasSlice

(* Task 0 is not one of the tasks that schedule() scans.                   *)
LEMMA IdleIsNoTask == Idle \notin Tasks
BY DEF Idle, Tasks

(* The bound on the ticks a task can save up is a number, and a priority   *)
(* does not exceed it.                                                     *)
LEMMA CreditNat == MaxCredit \in Nat /\ MaxPriority <= MaxCredit
BY SchedulerAssumption DEF MaxCredit

(* Numbers have a least one: the order of the intervals 0..x is that of    *)
(* their sets, which the library shows to be well-founded.                 *)
LEMMA Smallest ==
  ASSUME NEW T, T \subseteq Nat, T # {}
  PROVE  \E x \in T : \A y \in T : x <= y
<1> DEFINE Below == {0..x : x \in T}
           R == StrictSubsetOrdering(Nat)
<1>1. Below \subseteq FiniteSubsetsOf(Nat)
  <2> SUFFICES ASSUME NEW x \in T PROVE 0..x \in FiniteSubsetsOf(Nat)
    OBVIOUS
  <2>1. 0 \in Int /\ x \in Int /\ 0..x \subseteq Nat
    OBVIOUS
  <2>2. IsFiniteSet(0..x)
    BY <2>1, FS_Interval
  <2> QED BY <2>1, <2>2 DEF FiniteSubsetsOf
<1>2. IsWellFoundedOn(R, FiniteSubsetsOf(Nat))
  BY FS_StrictSubsetOrderingWellFounded
<1>3. PICK B \in Below : \A C \in Below : <<C, B>> \notin R
  <2> HIDE DEF R, Below
  <2>1. Below # {}
    BY DEF Below
  <2> QED BY <1>1, <1>2, <2>1, WFMin
<1>4. PICK x \in T : B = 0..x
  BY <1>3
<1>5. \A y \in T : ~ (y < x)
  <2> SUFFICES ASSUME NEW y \in T, y < x PROVE FALSE
    OBVIOUS
  <2>1. 0..y \subseteq 0..x /\ x \in 0..x /\ x \notin 0..y
    OBVIOUS
  <2>2. <<0..y, B>> \in R
    BY <2>1, <1>4 DEF StrictSubsetOrdering
  <2>3. 0..y \in Below
    OBVIOUS
  <2> QED BY <2>2, <2>3, <1>3
<1> QED BY <1>5

(* The scan of schedule() finds a ready task, one with the most ticks left.*)
LEMMA BestIsReady ==
  ASSUME NEW ready, ready \subseteq Tasks, ready # {},
         NEW c \in [Tasks -> 0..MaxCredit]
  PROVE  /\ Best(ready, c) \in ready
         /\ \A u \in ready : c[u] <= c[Best(ready, c)]
<1> DEFINE Spent(t) == MaxCredit - c[t]
           Leaders == {t \in ready : \A u \in ready : Spent(t) <= Spent(u)}
<1>1. \A t \in ready : c[t] \in Nat /\ Spent(t) \in Nat
  BY CreditNat
<1>2. Leaders # {}
  <2>1. {Spent(t) : t \in ready} \subseteq Nat /\ {Spent(t) : t \in ready} # {}
    BY <1>1
  <2>2. PICK x \in {Spent(t) : t \in ready} : \A y \in {Spent(t) : t \in ready} : x <= y
    BY <2>1, Smallest
  <2> QED BY <2>2
<1>3. \E t \in Leaders : \A u \in Leaders : u <= t
  <2>1. {N - t : t \in Leaders} \subseteq Nat /\ {N - t : t \in Leaders} # {}
    <3>1. Leaders \subseteq Tasks
      OBVIOUS
    <3> HIDE DEF Leaders
    <3>2. \A t \in Leaders : N - t \in Nat
      BY <3>1, SchedulerAssumption DEF Tasks
    <3> QED BY <1>2, <3>2
  <2>2. PICK x \in {N - t : t \in Leaders} : \A y \in {N - t : t \in Leaders} : x <= y
    BY <2>1, Smallest
  <2>3. PICK t \in Leaders : x = N - t
    BY <2>2
  <2>4. \A u \in Leaders : N - t <= N - u
    BY <2>2, <2>3
  <2> QED BY <2>3, <2>4, SchedulerAssumption DEF Tasks
<1>4. PICK t \in Leaders : \A u \in Leaders : u <= t
  BY <1>3
<1>5. \A u \in ready : c[u] < c[t] \/ (c[u] = c[t] /\ u <= t)
  <2> SUFFICES ASSUME NEW u \in ready PROVE c[u] < c[t] \/ (c[u] = c[t] /\ u <= t)
    OBVIOUS
  <2>1. c[u] <= c[t]
    BY <1>1, <1>4, CreditNat
  <2>2. CASE c[u] = c[t]
    <3>1. u \in Leaders
      BY <2>2, <1>4
    <3> QED BY <2>2, <3>1, <1>4
  <2>3. CASE c[u] # c[t]
    BY <2>1, <2>3, <1>1, <1>4
  <2> QED BY <2>2, <2>3
<1>6. LET b == Best(ready, c)
      IN  b \in ready /\ \A u \in ready : c[u] < c[b] \/ (c[u] = c[b] /\ u <= b)
  <2> HIDE DEF Leaders
  <2>1. t \in ready
    BY <1>4 DEF Leaders
  <2> QED BY <2>1, <1>5 DEF Best
<1> QED BY <1>1, <1>6

(* Once slices are dealt, a ready task has one.                            *)
LEMMA SomebodyHasSlice ==
  ASSUME SliceTypes, NEW ready, ready \subseteq Tasks, ready # {},
         NEW c \in [Tasks -> 0..MaxCredit],
         \A t \in ready : state[t] # "free"
  PROVE  /\ Dealt(ready, c) \in [Tasks -> 0..MaxCredit]
         /\ \E t \in ready : Dealt(ready, c)[t] > 0
<1>1. CASE \A t \in ready : c[t] = 0
  <2>1. Dealt(ready, c) = Recharge(c)
    BY <1>1 DEF Dealt
  <2>2. \A t \in Tasks : /\ (c[t] \div 2) + priority[t] \in 0..MaxCredit
                         /\ (c[t] \div 2) + priority[t] > 0
    <3> SUFFICES ASSUME NEW t \in Tasks
                 PROVE  /\ (c[t] \div 2) + priority[t] \in 0..MaxCredit
                        /\ (c[t] \div 2) + priority[t] > 0
      OBVIOUS
    <3>1. c[t] \in 0..(2 * MaxPriority) /\ priority[t] \in 1..MaxPriority
      BY DEF SliceTypes, MaxCredit
    <3>2. c[t] \div 2 \in 0..MaxPriority
      BY <3>1, SchedulerAssumption
    <3> QED BY <3>1, <3>2, SchedulerAssumption DEF MaxCredit
  <2> QED BY <2>1, <2>2 DEF Recharge
<1>2. CASE ~ \A t \in ready : c[t] = 0
  BY <1>2, CreditNat DEF Dealt
<1> QED BY <1>1, <1>2

(* schedule() leaves the processor to the idle task or to a runnable task  *)
(* with a slice.                                                           *)
LEMMA ScheduleGivesSlice ==
  ASSUME SliceTypes, NEW st \in [Tasks -> States], NEW c \in [Tasks -> 0..MaxCredit],
         NEW to, NEW al, Schedule(st, c, to, al),
         \A t \in Tasks : st[t] \in {"run", "int"} => state[t] # "free"
  PROVE  /\ counter' \in [Tasks -> 0..MaxCredit]
         /\ state' \in [Tasks -> States]
         /\ current' \in Tasks \cup {Idle}
         /\ current' # Idle => state'[current'] = "run" /\ counter'[current'] > 0
<1> DEFINE ready == Running(state')
<1>1. /\ state' \in [Tasks -> States]
      /\ \A t \in Tasks : state'[t] = "run" => st[t] \in {"run", "int"}
  BY DEF Schedule, Woken, States
<1>2. ready \subseteq Tasks /\ \A t \in ready : state[t] # "free"
  BY <1>1 DEF Running
<1>3. counter' = Dealt(ready, c)
  BY DEF Schedule
<1>4. CASE ready = {}
  BY <1>1, <1>3, <1>4 DEF Schedule, Dealt
<1>5. CASE ready # {}
  <2>1. /\ counter' \in [Tasks -> 0..MaxCredit]
        /\ \E t \in ready : counter'[t] > 0
    BY <1>2, <1>3, <1>5, SomebodyHasSlice
  <2>2. current' = Best(ready, counter')
    BY <1>5 DEF Schedule
  <2>3. current' \in ready /\ \A u \in ready : counter'[u] <= counter'[current']
    BY <1>2, <1>5, <2>1, <2>2, BestIsReady
  <2>4. counter'[current'] > 0
    <3>1. \A u \in ready : counter'[u] \in Nat
      BY <1>2, <2>1, CreditNat
    <3> HIDE DEF ready
    <3> QED BY <2>1, <2>3, <3>1
  <2> QED BY <1>1, <2>1, <2>3, <2>4 DEF Running
<1> QED BY <1>4, <1>5

-----------------------------------------------------------------------------

(* A step that calls schedule() keeps the invariant, whatever it does to   *)
(* the counters and to the states of tasks that are not free.              *)
LEMMA ScheduleKeeps ==
  ASSUME SliceInv, NEW st \in [Tasks -> States], NEW c \in [Tasks -> 0..MaxCredit],
         NEW to, NEW al, Schedule(st, c, to, al),
         \A t \in Tasks : st[t] \in {"run", "int"} => state[t] # "free",
         priority' = priority, user' \subseteq Tasks
  PROVE  SliceInv'
<1>1. SliceTypes
  BY DEF SliceInv
<1>2. /\ counter' \in [Tasks -> 0..MaxCredit]
      /\ state' \in [Tasks -> States]
      /\ current' \in Tasks \cup {Idle}
      /\ current' # Idle => state'[current'] = "run" /\ counter'[current'] > 0
  BY <1>1, ScheduleGivesSlice
<1>3. SliceTypes'
  BY <1>1, <1>2 DEF SliceTypes
<1>4. UserHasSlice'
  BY <1>2, IdleIsNoTask DEF UserHasSlice
<1> QED BY <1>2, <1>3, <1>4 DEF SliceInv, RunsRunnable

(* At the start only task 1 exists, and the idle task runs.                *)
LEMMA InitKeeps == SchedInit => SliceInv
<1> SUFFICES ASSUME SchedInit PROVE SliceInv
  OBVIOUS
<1>1. state \in [Tasks -> States] /\ current = Idle
  BY DEF SchedInit, OneTask, States
<1>2. \A i \in 1..MaxPriority : i \in 0..MaxCredit
  BY CreditNat, SchedulerAssumption
<1>3. priority \in [Tasks -> 1..MaxPriority] /\ counter \in [Tasks -> 0..MaxCredit]
  BY <1>2 DEF SchedInit, OneTask
<1>4. user = {1} /\ 1 \in Tasks
  BY SchedulerAssumption DEF SchedInit, OneTask, Tasks
<1> QED BY <1>1, <1>3, <1>4, IdleIsNoTask DEF SliceInv, SliceTypes, RunsRunnable, UserHasSlice

(* A tick that uses up the slice of a task in user mode calls schedule();  *)
(* any other leaves the running task its slice, or is in the kernel.       *)
LEMMA TickKeeps ==
  ASSUME SliceInv, Tick
  PROVE  SliceInv'
<1> DEFINE c == IF current = Idle THEN counter
                ELSE [counter EXCEPT ![current] = Charged(@)]
<1>1. c \in [Tasks -> 0..MaxCredit]
  <2>1. \A i \in 0..MaxCredit : Charged(i) \in 0..MaxCredit
    BY CreditNat DEF Charged
  <2> QED BY <2>1 DEF SliceInv, SliceTypes
<1>2. CASE current \in user /\ c[current] = 0
  <2>1. /\ Schedule(state, c, Nearer(timeout), Nearer(alarm))
        /\ UNCHANGED <<priority, user>>
    BY <1>2 DEF Tick
  <2>2. state \in [Tasks -> States] /\ user' \subseteq Tasks
    BY <2>1 DEF SliceInv, SliceTypes
  <2>3. \A t \in Tasks : state[t] \in {"run", "int"} => state[t] # "free"
    OBVIOUS
  <2> HIDE DEF c
  <2> QED BY <1>1, <2>1, <2>2, <2>3, ScheduleKeeps
<1>3. CASE ~ (current \in user /\ c[current] = 0)
  <2>1. counter' = c /\ UNCHANGED <<current, state, priority, user>>
    BY <1>3 DEF Tick
  <2>2. SliceTypes' /\ RunsRunnable'
    BY <1>1, <2>1 DEF SliceInv, SliceTypes, RunsRunnable
  <2>3. UserHasSlice'
    <3>1. current \in user => c[current] \in 0..MaxCredit /\ c[current] # 0
      BY <1>1, <1>3 DEF SliceInv, SliceTypes
    <3> HIDE DEF c
    <3> QED BY <2>1, <3>1, CreditNat DEF UserHasSlice
  <2> QED BY <2>2, <2>3 DEF SliceInv
<1> QED BY <1>2, <1>3

(* The way out of a system call is where a slice used up in the kernel is  *)
(* noticed.                                                                *)
LEMMA ReturnKeeps ==
  ASSUME SliceInv, NEW t \in Tasks, ReturnToUser(t)
  PROVE  SliceInv'
<1>1. user' \subseteq Tasks /\ priority' = priority
  BY DEF SliceInv, SliceTypes, ReturnToUser
<1>2. CASE SliceUsed(t)
  <2>1. Schedule(state, counter, timeout, alarm)
    BY <1>2 DEF ReturnToUser
  <2>2. state \in [Tasks -> States] /\ counter \in [Tasks -> 0..MaxCredit]
    BY DEF SliceInv, SliceTypes
  <2>3. \A u \in Tasks : state[u] \in {"run", "int"} => state[u] # "free"
    OBVIOUS
  <2> QED BY <1>1, <2>1, <2>2, <2>3, ScheduleKeeps
<1>3. CASE ~ SliceUsed(t)
  <2>1. UNCHANGED <<current, state, counter>> /\ current = t
    BY <1>3 DEF ReturnToUser
  <2>2. counter[t] \in 0..MaxCredit /\ counter[t] # 0
    BY <1>3 DEF SliceInv, SliceTypes, SliceUsed
  <2> QED BY <1>1, <2>1, <2>2, CreditNat
          DEF SliceInv, SliceTypes, RunsRunnable, UserHasSlice
<1> QED BY <1>2, <1>3

(* The task that gives the processor away was runnable, so not free.       *)
LEMMA SleepKeeps ==
  ASSUME SliceInv, NEW t \in Tasks, NEW st \in {"int", "unint"}, Sleep(t, st)
  PROVE  SliceInv'
<1> DEFINE asleep == [state EXCEPT ![t] = st]
<1>1. Schedule(asleep, counter, timeout, alarm) /\ UNCHANGED <<priority, user>>
  BY DEF Sleep
<1>2. /\ asleep \in [Tasks -> States]
      /\ counter \in [Tasks -> 0..MaxCredit]
      /\ user' \subseteq Tasks
  BY <1>1 DEF SliceInv, SliceTypes, States
<1>3. state[t] = "run"
  BY IdleIsNoTask DEF Sleep, SliceInv, RunsRunnable
<1>4. \A u \in Tasks : asleep[u] \in {"run", "int"} => state[u] # "free"
  BY <1>3 DEF SliceInv, SliceTypes
<1> HIDE DEF asleep
<1> QED BY <1>1, <1>2, <1>4, ScheduleKeeps

(* do_exit: the task that exits is not free until schedule() is called.    *)
LEMMA ExitKeeps ==
  ASSUME SliceInv, NEW t \in Tasks, Exit(t)
  PROVE  SliceInv'
<1> DEFINE gone == [state EXCEPT ![t] = "free"]
<1>1. /\ Schedule(gone, counter, [timeout EXCEPT ![t] = 0], [alarm EXCEPT ![t] = 0])
      /\ UNCHANGED <<priority, user>>
  BY DEF Exit
<1>2. /\ gone \in [Tasks -> States]
      /\ counter \in [Tasks -> 0..MaxCredit]
      /\ user' \subseteq Tasks
  BY <1>1 DEF SliceInv, SliceTypes, States
<1>3. \A u \in Tasks : gone[u] \in {"run", "int"} => state[u] # "free"
  BY DEF SliceInv, SliceTypes
<1> HIDE DEF gone
<1> QED BY <1>1, <1>2, <1>3, ScheduleKeeps

(* The child gets a slice because priorities are not 0; it is not the task *)
(* that forks, which is runnable and so not in the slot it fills.          *)
LEMMA ForkKeeps ==
  ASSUME SliceInv, NEW t \in Tasks, NEW u \in Tasks, Fork(t, u)
  PROVE  SliceInv'
<1>1. state[t] = "run" /\ t # u /\ current = t /\ current' = t /\ t \notin user
  BY IdleIsNoTask DEF SliceInv, RunsRunnable, Fork
<1>2. priority[t] \in 1..MaxPriority /\ priority[t] \in 0..MaxCredit
  BY CreditNat, SchedulerAssumption DEF SliceInv, SliceTypes
<1>3. SliceTypes'
  <2>1. counter' \in [Tasks -> 0..MaxCredit] /\ priority' \in [Tasks -> 1..MaxPriority]
    BY <1>2 DEF SliceInv, SliceTypes, Fork
  <2>2. state' \in [Tasks -> States] /\ user' \subseteq Tasks
    BY DEF SliceInv, SliceTypes, States, Fork
  <2> QED BY <1>1, <2>1, <2>2 DEF SliceTypes
<1>4. RunsRunnable'
  BY <1>1 DEF SliceInv, SliceTypes, RunsRunnable, Fork
<1>5. UserHasSlice'
  BY <1>1 DEF UserHasSlice, Fork
<1> QED BY <1>3, <1>4, <1>5 DEF SliceInv

(* Every step of the scheduler keeps the invariant.                        *)
LEMMA NextKeeps == SliceInv /\ [SchedNext]_schedVars => SliceInv'
<1> SUFFICES ASSUME SliceInv, [SchedNext]_schedVars PROVE SliceInv'
  OBVIOUS
<1>1. CASE Tick
  BY <1>1, TickKeeps
<1>2. CASE IdlePause
  <2>1. /\ Schedule(state, counter, timeout, alarm)
        /\ UNCHANGED <<priority, user>>
    BY <1>2 DEF IdlePause
  <2>2. /\ state \in [Tasks -> States] /\ counter \in [Tasks -> 0..MaxCredit]
        /\ user' \subseteq Tasks
    BY <2>1 DEF SliceInv, SliceTypes
  <2>3. \A t \in Tasks : state[t] \in {"run", "int"} => state[t] # "free"
    OBVIOUS
  <2> QED BY <2>1, <2>2, <2>3, ScheduleKeeps
<1>3. ASSUME NEW t \in Tasks, EnterKernel(t) PROVE SliceInv'
  BY <1>3 DEF EnterKernel, SliceInv, SliceTypes, RunsRunnable, UserHasSlice
<1>4. ASSUME NEW t \in Tasks, ReturnToUser(t) PROVE SliceInv'
  BY <1>4, ReturnKeeps
<1>5. ASSUME NEW t \in Tasks, NEW st \in {"int", "unint"}, Sleep(t, st) PROVE SliceInv'
  BY <1>5, SleepKeeps
<1>6. ASSUME NEW t \in Tasks, Wake(t) PROVE SliceInv'
  BY <1>6 DEF Wake, SliceInv, SliceTypes, States, RunsRunnable, UserHasSlice
<1>7. ASSUME NEW t \in Tasks, Send(t) \/ SetAlarm(t) \/ SetTimeout(t) PROVE SliceInv'
  BY <1>7 DEF Send, SetAlarm, SetTimeout, SliceInv, SliceTypes, RunsRunnable, UserHasSlice
<1>8. ASSUME NEW t \in Tasks, Nice(t) PROVE SliceInv'
  <2>1. priority' \in [Tasks -> 1..MaxPriority]
    BY <1>8 DEF Nice, SliceInv, SliceTypes
  <2> QED BY <1>8, <2>1 DEF Nice, SliceInv, SliceTypes, RunsRunnable, UserHasSlice
<1>9. ASSUME NEW t \in Tasks, NEW u \in Tasks, Fork(t, u) PROVE SliceInv'
  BY <1>9, ForkKeeps
<1>10. ASSUME NEW t \in Tasks, Exit(t) PROVE SliceInv'
  BY <1>10, ExitKeeps
<1>11. CASE UNCHANGED schedVars
  BY <1>11 DEF schedVars, SliceInv, SliceTypes, RunsRunnable, UserHasSlice
<1> QED
  BY <1>1, <1>2, <1>3, <1>4, <1>5, <1>6, <1>7, <1>8, <1>9, <1>10, <1>11 DEF SchedNext

(* With any number of tasks, any priorities and any interleaving of ticks, *)
(* system calls, sleeps, wake-ups, forks and exits, a task in user mode is *)
(* never running on a slice that is used up: do_timer ends a slice that    *)
(* runs out there, and the exit path of system calls one that ran out in   *)
(* the kernel.                                                             *)
THEOREM UserHasSliceAlways == SchedSpec => []UserHasSlice
<1>1. SchedInit => SliceInv
  BY InitKeeps
<1>2. SliceInv /\ [SchedNext]_schedVars => SliceInv'
  BY NextKeeps
<1>3. SliceInv => UserHasSlice
  BY DEF SliceInv
<1> QED BY <1>1, <1>2, <1>3, PTL DEF SchedSpec

------------------------------------------------------------------------------
(***************************************************************************)
(* The request queue of a block device, for any tasks, buffers and slots.  *)
(*                                                                         *)
(* LockedByOne counts owners of a buffer, in the queue and among tasks.    *)
(* Inductive is who they are: each buffer has at most one owner, a used    *)
(* slot or a task, and is locked exactly if it has one.  OneTurn needs     *)
(* that too: the elevator compares strictly, and two requests for one      *)
(* block would turn it once more.                                          *)
(***************************************************************************)
(* A list goes up but for one place; n is its length.                      *)
TurnsAt(list, i) == ~IN_ORDER(list[i], list[i + 1])
TurnsOnce(list, n) ==
  \A i, j \in 1..(n - 1) : TurnsAt(list, i) /\ TurnsAt(list, j) => i = j

BufferRequest == [cmd : {READ, WRITE}, sector : Nat, swap : {FALSE}, used : BOOLEAN]
SlotRequest == [cmd : {READ, WRITE}, sector : Nat, swap : BOOLEAN, used : BOOLEAN]

(* The queue holds used slots, each once.                                  *)
Queued(s) == \E i \in 1..Len(queue) : queue[i] = s
NoSwapping == load.sectors \cap SwapPages = {}

RequestTypes ==
  /\ pc \in [Submitters -> {"idle", "lock", "scan", "full", "missed", "asleep", "page"}]
  /\ job \in [Submitters -> Jobs \cup {NoJob}]
  /\ request \in [Slots -> SlotRequest]
  /\ queue \in Seq(Slots)
JobsFit ==
  \A t \in Submitters :
    /\ pc[t] # "idle" => job[t] \in Jobs /\ (NoSwapping => ~job[t].swap)
    /\ pc[t] = "lock" => ~job[t].swap
QueueFits ==
  /\ \A i, j \in 1..Len(queue) : queue[i] = queue[j] => i = j
  /\ \A s \in Slots : Queued(s) => request[s].used /\ (NoSwapping => ~request[s].swap)

(* Who owns the buffer b: a slot in the queue or a task.                   *)
SlotFor(s, b) == Queued(s) /\ ~request[s].swap /\ request[s].sector = b
OneOwner ==
  \A b \in Buffers :
    /\ \A s, u \in Slots : SlotFor(s, b) /\ SlotFor(u, b) => s = u
    /\ \A t, u \in Submitters : Holds(t, b) /\ Holds(u, b) => t = u
    /\ \A s \in Slots, t \in Submitters : ~(SlotFor(s, b) /\ Holds(t, b))
    /\ b \in b_lock <=> \/ \E s \in Slots : SlotFor(s, b)
                        \/ \E t \in Submitters : Holds(t, b)

Turned == NoSwapping => TurnsOnce(Contents(queue), Len(queue))

(* The inductive invariant.                                                *)
RequestInv == RequestTypes /\ JobsFit /\ QueueFits /\ OneOwner /\ Turned

-----------------------------------------------------------------------------
(* So numbers below a bound have a greatest one.                           *)
LEMMA Largest ==
  ASSUME NEW n \in Nat, NEW T, T \subseteq 0..n, T # {}
  PROVE  \E x \in T : \A y \in T : y <= x
<1> DEFINE Mirror == {n - x : x \in T}
<1>1. Mirror \subseteq Nat /\ Mirror # {}
  <2>1. PICK x \in T : TRUE
    OBVIOUS
  <2>2. n - x \in Mirror
    OBVIOUS
  <2>3. \A y \in T : n - y \in Nat
    OBVIOUS
  <2> QED BY <2>2, <2>3
<1>2. PICK m \in Mirror : \A y \in Mirror : m <= y
  <2> HIDE DEF Mirror
  <2> QED BY <1>1, Smallest
<1>3. PICK x \in T : m = n - x
  BY <1>2
<1>4. ASSUME NEW y \in T PROVE y <= x
  <2>1. n - y \in Mirror
    OBVIOUS
  <2>2. n - x <= n - y
    BY <1>2, <1>3, <2>1
  <2>3. x \in 0..n /\ y \in 0..n
    BY <1>3
  <2> QED BY <2>2, <2>3
<1> QED BY <1>4

(* InsertAt after place k: the new list has s there and is q elsewhere.    *)
Inserts(new, S, q, k, s) ==
  /\ new \in Seq(S) /\ Len(new) = Len(q) + 1
  /\ \A i \in 1..k : new[i] = q[i]
  /\ new[k + 1] = s
  /\ \A i \in (k + 2)..(Len(q) + 1) : new[i] = q[i - 1]

LEMMA Inserted ==
  ASSUME NEW S, NEW q \in Seq(S), NEW s \in S, NEW k \in 0..Len(q)
  PROVE  Inserts(InsertAt(q, k + 1, s), S, q, k, s)
<1> DEFINE front == SubSeq(q, 1, k)
           rest == SubSeq(q, k + 1, Len(q))
           two == front \o <<s>>
<1>1. Len(q) \in Nat /\ k \in Nat /\ k <= Len(q)
      /\ \A i \in 1..Len(q) : q[i] \in S
  BY LenProperties, ElementOfSeq
<1>2. front \in Seq(S) /\ Len(front) = k /\ \A i \in 1..k : front[i] = q[i]
  <2>1. \A i \in 1..k : q[i] \in S
    BY <1>1
  <2>2. /\ front \in Seq(S) /\ Len(front) = IF 1 <= k THEN k - 1 + 1 ELSE 0
        /\ \A i \in 1..(k - 1 + 1) : front[i] = q[1 + i - 1]
    BY <1>1, <2>1, SubSeqProperties
  <2> HIDE DEF front
  <2>3. k - 1 + 1 = k /\ \A i \in 1..k : 1 + i - 1 = i
    BY <1>1
  <2> QED BY <1>1, <2>2, <2>3
<1>3. /\ rest \in Seq(S) /\ Len(rest) = Len(q) - k
      /\ \A i \in 1..(Len(q) - k) : rest[i] = q[k + i]
  <2>1. \A i \in (k + 1)..Len(q) : q[i] \in S
    BY <1>1
  <2>2. /\ rest \in Seq(S)
        /\ Len(rest) = IF k + 1 <= Len(q) THEN Len(q) - (k + 1) + 1 ELSE 0
        /\ \A i \in 1..(Len(q) - (k + 1) + 1) : rest[i] = q[k + 1 + i - 1]
    BY <1>1, <2>1, SubSeqProperties
  <2> HIDE DEF rest
  <2>3. Len(q) - (k + 1) + 1 = Len(q) - k /\ \A i \in 1..Len(q) : k + 1 + i - 1 = k + i
    BY <1>1
  <2>4. Len(rest) = Len(q) - k
    BY <1>1, <2>2
  <2>5. \A i \in 1..(Len(q) - k) : i \in 1..Len(q)
    BY <1>1
  <2> QED BY <2>2, <2>3, <2>4, <2>5
<1>4. <<s>> \in Seq(S) /\ Len(<<s>>) = 1 /\ <<s>>[1] = s
  OBVIOUS
<1> HIDE DEF front, rest
<1>5. /\ two \in Seq(S) /\ Len(two) = k + 1
      /\ \A i \in 1..(k + 1) : two[i] = IF i <= k THEN front[i] ELSE <<s>>[i - k]
  BY <1>1, <1>2, <1>4, ConcatProperties
<1>6. two[k + 1] = s /\ \A i \in 1..k : two[i] = q[i]
  <2>1. k + 1 - k = 1 /\ ~(k + 1 <= k) /\ k + 1 \in 1..(k + 1) /\ \A i \in 1..k : i \in 1..(k + 1)
    BY <1>1
  <2> QED BY <1>2, <1>4, <1>5, <2>1
<1> HIDE DEF two
<1>7. /\ two \o rest \in Seq(S) /\ Len(two \o rest) = Len(q) + 1
      /\ \A i \in 1..(Len(q) + 1) :
           (two \o rest)[i] = IF i <= k + 1 THEN two[i] ELSE rest[i - (k + 1)]
  <2>1. /\ two \o rest \in Seq(S) /\ Len(two \o rest) = Len(two) + Len(rest)
        /\ \A i \in 1..(Len(two) + Len(rest)) :
             (two \o rest)[i] = IF i <= Len(two) THEN two[i] ELSE rest[i - Len(two)]
    BY <1>3, <1>5, ConcatProperties
  <2>2. Len(two) + Len(rest) = Len(q) + 1 /\ Len(two) = k + 1
    BY <1>1, <1>3, <1>5
  <2> QED BY <2>1, <2>2
<1> DEFINE new == two \o rest
<1> HIDE DEF new
<1>9. \A i \in (k + 2)..(Len(q) + 1) : new[i] = q[i - 1]
  <2> SUFFICES ASSUME NEW i \in (k + 2)..(Len(q) + 1) PROVE new[i] = q[i - 1]
    OBVIOUS
  <2>1. i \in 1..(Len(q) + 1) /\ ~(i <= k + 1) /\ i - (k + 1) \in 1..(Len(q) - k)
        /\ k + (i - (k + 1)) = i - 1
    BY <1>1
  <2> QED BY <1>3, <1>7, <2>1 DEF new
<1>10. \A i \in 1..(k + 1) : new[i] = two[i]
  <2>1. \A i \in 1..(k + 1) : i \in 1..(Len(q) + 1) /\ i <= k + 1
    BY <1>1
  <2> QED BY <1>7, <2>1 DEF new
<1>11. new = InsertAt(q, k + 1, s)
  <2>1. (k + 1) - 1 = k
    BY <1>1
  <2>2. InsertAt(q, k + 1, s) = SubSeq(q, 1, (k + 1) - 1) \o <<s>> \o SubSeq(q, k + 1, Len(q))
    BY DEF InsertAt
  <2>3. InsertAt(q, k + 1, s) = SubSeq(q, 1, k) \o <<s>> \o SubSeq(q, k + 1, Len(q))
    BY <2>1, <2>2
  <2> QED BY <2>3, Zenon DEF new, two, front, rest
<1>12. k + 1 \in 1..(k + 1) /\ \A i \in 1..k : i \in 1..(k + 1)
  BY <1>1
<1>13. Inserts(new, S, q, k, s)
  BY <1>6, <1>7, <1>9, <1>10, <1>12 DEF new, Inserts
<1> QED BY <1>11, <1>13


-----------------------------------------------------------------------------
(* The loop of add_request stops at a place in the list.                   *)
LEMMA PlaceFound ==
  ASSUME NEW list, Len(list) \in Nat \ {0}, NEW r
  PROVE  LET k == InsertAfter(list, r)
         IN  /\ k \in 1..Len(list)
             /\ k < Len(list) => StopsAt(list, r, k)
             /\ \A i \in 1..(k - 1) : ~StopsAt(list, r, i)
<1> DEFINE Ends == {k \in 1..Len(list) : k < Len(list) => StopsAt(list, r, k)}
<1>1. Ends \subseteq Nat /\ Len(list) \in Ends
  OBVIOUS
<1>2. PICK k \in Ends : \A y \in Ends : k <= y
  <2> HIDE DEF Ends
  <2> QED BY <1>1, Smallest
<1>3. \A i \in 1..(k - 1) : ~StopsAt(list, r, i)
  <2> SUFFICES ASSUME NEW i \in 1..(k - 1), StopsAt(list, r, i) PROVE FALSE
    OBVIOUS
  <2>1. i \in 1..Len(list) /\ ~(k <= i)
    BY <1>2
  <2>2. i \in Ends
    BY <2>1
  <2> QED BY <1>2, <2>1, <2>2
<1> QED BY <1>2, <1>3 DEF InsertAfter

(* Requests for different blocks are in one order or the other.            *)
LEMMA OrderIsStrict ==
  ASSUME NEW r \in BufferRequest, NEW s \in BufferRequest, NEW u \in BufferRequest
  PROVE  /\ IN_ORDER(r, s) /\ IN_ORDER(s, u) => IN_ORDER(r, u)
         /\ r.sector # s.sector => IN_ORDER(r, s) \/ IN_ORDER(s, r)
         /\ ~(IN_ORDER(r, s) /\ IN_ORDER(s, r))
BY DEF BufferRequest, IN_ORDER, READ, WRITE

(* The elevator: what add_request inserts turns the list no second time.   *)
(* At its end it inserts only what comes after everything since the turn.  *)
LEMMA Elevator ==
  ASSUME NEW list \in Seq(BufferRequest), Len(list) # 0, NEW r \in BufferRequest,
         TurnsOnce(list, Len(list)), \A i \in 1..Len(list) : list[i].sector # r.sector,
         NEW k, k = InsertAfter(list, r),
         NEW new, \A i \in 1..k : new[i] = list[i], new[k + 1] = r,
         \A i \in (k + 2)..(Len(list) + 1) : new[i] = list[i - 1]
  PROVE  TurnsOnce(new, Len(list) + 1)
<1> DEFINE n == Len(list)
<1>1. n \in Nat \ {0} /\ \A i \in 1..n : list[i] \in BufferRequest
  BY LenProperties, ElementOfSeq
<1>2. /\ k \in 1..n
      /\ k < n => StopsAt(list, r, k)
      /\ \A i \in 1..(k - 1) : ~StopsAt(list, r, i)
  BY <1>1, PlaceFound
<1>3. ASSUME NEW i \in 1..(n - 1)
      PROVE  StopsAt(list, r, i) <=> /\ IN_ORDER(list[i], r) \/ TurnsAt(list, i)
                                     /\ IN_ORDER(r, list[i + 1])
  BY DEF StopsAt, TurnsAt, BufferRequest
<1> HIDE DEF n
<1>4. /\ \A i \in 1..(k - 1) : TurnsAt(new, i) <=> TurnsAt(list, i)
      /\ \A i \in (k + 2)..n : TurnsAt(new, i) <=> TurnsAt(list, i - 1)
  <2>1. ASSUME NEW i \in 1..(k - 1) PROVE TurnsAt(new, i) <=> TurnsAt(list, i)
    <3>1. i \in 1..k /\ i + 1 \in 1..k
      BY <1>1, <1>2
    <3> QED BY <3>1 DEF TurnsAt
  <2>2. ASSUME NEW i \in (k + 2)..n PROVE TurnsAt(new, i) <=> TurnsAt(list, i - 1)
    <3>1. i \in (k + 2)..(n + 1) /\ i + 1 \in (k + 2)..(n + 1) /\ i + 1 - 1 = i - 1 + 1
      BY <1>1, <1>2
    <3>2. new[i] = list[i - 1] /\ new[i + 1] = list[i - 1 + 1]
      BY <3>1 DEF n
    <3> QED BY <3>2 DEF TurnsAt
  <2> QED BY <2>1, <2>2
<1>5. TurnsAt(new, k) <=> ~IN_ORDER(list[k], r)
  <2>1. k \in 1..k
    BY <1>1, <1>2
  <2> QED BY <2>1 DEF TurnsAt
<1>6. CASE k < n
  (* The turn of the list stays, or is now in front of r.                  *)
  <2>1. k \in 1..(n - 1) /\ k + 1 \in 1..n /\ k \in 1..n
    BY <1>1, <1>2, <1>6
  <2>2. /\ IN_ORDER(list[k], r) \/ TurnsAt(list, k)
        /\ IN_ORDER(r, list[k + 1])
    BY <1>2, <1>3, <1>6, <2>1
  <2>3. ~TurnsAt(new, k + 1)
    <3>1. k + 2 \in (k + 2)..(n + 1) /\ k + 1 + 1 = k + 2 /\ k + 2 - 1 = k + 1
      BY <1>1, <1>2, <1>6
    <3>2. new[k + 2] = list[k + 2 - 1]
      BY <1>1, <1>2, <3>1 DEF n
    <3>3. new[k + 1 + 1] = list[k + 1]
      BY <3>1, <3>2
    <3> QED BY <2>2, <3>3 DEF TurnsAt
  <2>4. TurnsAt(new, k) => TurnsAt(list, k)
    BY <1>5, <2>2
  <2> DEFINE Old(i) == IF i <= k THEN i ELSE i - 1
  <2>5. ASSUME NEW i \in 1..n, TurnsAt(new, i)
        PROVE  i # k + 1 /\ Old(i) \in 1..(n - 1) /\ TurnsAt(list, Old(i))
    <3>1. i # k + 1
      BY <2>3, <2>5
    <3>2. i \in 1..(k - 1) \/ i = k \/ i \in (k + 2)..n
      BY <1>1, <1>2, <3>1
    <3>3. Old(i) \in 1..(n - 1)
      BY <1>1, <1>2, <2>1, <3>2
    <3>4. TurnsAt(list, Old(i))
      <4>1. CASE i \in 1..(k - 1)
        BY <1>2, <1>4, <2>5, <4>1
      <4>2. CASE i = k
        BY <1>2, <2>4, <2>5, <4>2
      <4>3. CASE i \in (k + 2)..n
        <5>1. Old(i) = i - 1
          BY <1>2, <4>3
        <5> QED BY <1>4, <2>5, <4>3, <5>1
      <4> QED BY <3>2, <4>1, <4>2, <4>3
    <3> QED BY <3>1, <3>3, <3>4
  <2>6. ASSUME NEW i \in 1..n, NEW j \in 1..n, TurnsAt(new, i), TurnsAt(new, j)
        PROVE  i = j
    <3>1. /\ i # k + 1 /\ Old(i) \in 1..(n - 1) /\ TurnsAt(list, Old(i))
          /\ j # k + 1 /\ Old(j) \in 1..(n - 1) /\ TurnsAt(list, Old(j))
      BY <2>5, <2>6
    <3>2. Old(i) = Old(j)
      <4> HIDE DEF Old
      <4> QED BY <3>1 DEF TurnsOnce, n
    <3> QED BY <1>1, <1>2, <3>1, <3>2
  <2>7. n + 1 - 1 = n
    BY <1>1
  <2> QED BY <2>6, <2>7 DEF TurnsOnce, n
<1>7. CASE k = n
  (* r is the last one; if it does not go on, the list had no turn yet.    *)
  <2>1. \A i \in 1..(n - 1) : ~StopsAt(list, r, i)
    BY <1>2, <1>7
  <2>2. ASSUME ~IN_ORDER(list[n], r), NEW p \in 1..(n - 1), TurnsAt(list, p)
        PROVE  FALSE
    <3> DEFINE After == {i \in (p + 1)..n : ~IN_ORDER(list[i], r)}
    <3>1. After \subseteq Nat /\ n \in After
      BY <1>1, <2>2
    <3>2. PICK m \in After : \A i \in After : m <= i
      <4> HIDE DEF After
      <4> QED BY <3>1, Smallest
    <3>3. m \in 1..n /\ m - 1 \in 1..(n - 1) /\ m - 1 + 1 = m /\ m - 1 \in 1..n
      BY <1>1, <3>2
    <3>4. ~StopsAt(list, r, m - 1) /\ list[m] \in BufferRequest /\ list[m].sector # r.sector
      BY <1>1, <2>1, <3>3 DEF n
    <3>5. IN_ORDER(r, list[m])
      <4>1. ~IN_ORDER(list[m], r)
        BY <3>2
      <4> QED BY <3>4, <4>1, OrderIsStrict
    <3>6. ~IN_ORDER(list[m - 1], r) /\ ~TurnsAt(list, m - 1)
      BY <1>3, <3>3, <3>4, <3>5
    <3>7. m - 1 # p
      BY <2>2, <3>6
    <3>8. m - 1 \in After
      BY <1>1, <3>2, <3>6, <3>7
    <3> QED BY <3>2, <3>3, <3>8
  <2>3. ASSUME NEW i \in 1..n, NEW j \in 1..n, TurnsAt(new, i), TurnsAt(new, j)
        PROVE  i = j
    <3>1. ASSUME NEW x \in 1..n, TurnsAt(new, x)
          PROVE  (x \in 1..(n - 1) /\ TurnsAt(list, x)) \/ (x = n /\ ~IN_ORDER(list[n], r))
      <4>1. x \in 1..(k - 1) \/ x = k
        BY <1>1, <1>7
      <4> QED BY <1>4, <1>5, <1>7, <3>1, <4>1
    <3>2. \/ i \in 1..(n - 1) /\ TurnsAt(list, i)
          \/ i = n /\ ~IN_ORDER(list[n], r)
      BY <2>3, <3>1
    <3>3. \/ j \in 1..(n - 1) /\ TurnsAt(list, j)
          \/ j = n /\ ~IN_ORDER(list[n], r)
      BY <2>3, <3>1
    <3> QED BY <2>2, <3>2, <3>3 DEF TurnsOnce, n
  <2>4. n + 1 - 1 = n
    BY <1>1
  <2> QED BY <2>3, <2>4 DEF TurnsOnce, n
<1> QED BY <1>1, <1>2, <1>6, <1>7

-----------------------------------------------------------------------------
(* One owner, or none, is what LockedByOne counts.                         *)
LEMMA OwnersCounted == RequestTypes /\ QueueFits /\ OneOwner => LockedByOne
<1> SUFFICES ASSUME RequestTypes, QueueFits, OneOwner, NEW b \in Buffers
             PROVE  LET A == {i \in DOMAIN queue : /\ ~request[queue[i]].swap
                                                   /\ request[queue[i]].sector = b}
                        H == {t \in Submitters : Holds(t, b)}
                    IN  Cardinality(A) + Cardinality(H) = IF b \in b_lock THEN 1 ELSE 0
  BY DEF LockedByOne
<1> DEFINE A == {i \in DOMAIN queue : /\ ~request[queue[i]].swap
                                      /\ request[queue[i]].sector = b}
           H == {t \in Submitters : Holds(t, b)}
<1>1. DOMAIN queue = 1..Len(queue) /\ \A i \in 1..Len(queue) : queue[i] \in Slots
  BY LenProperties, ElementOfSeq DEF RequestTypes
<1>2. \A i \in A : i \in 1..Len(queue) /\ queue[i] \in Slots /\ SlotFor(queue[i], b)
  BY <1>1 DEF SlotFor, Queued
<1>3. \A s \in Slots : SlotFor(s, b) => \E i \in A : queue[i] = s
  BY <1>1 DEF SlotFor, Queued
<1> HIDE DEF A
<1>4. CASE b \notin b_lock
  <2>1. A = {} /\ H = {}
    BY <1>2, <1>4 DEF OneOwner
  <2> QED BY <1>4, <2>1, FS_EmptySet DEF A
<1>5. CASE b \in b_lock /\ \E s \in Slots : SlotFor(s, b)
  <2>1. PICK i \in A : TRUE
    BY <1>3, <1>5
  <2>2. \A j \in A : queue[j] = queue[i]
    BY <1>2, <2>1 DEF OneOwner
  <2>3. A = {i}
    BY <1>2, <2>1, <2>2 DEF QueueFits
  <2>4. H = {}
    BY <1>5 DEF OneOwner
  <2>5. Cardinality(A) = 1 /\ Cardinality(H) = 0
    BY <2>3, <2>4, FS_Singleton, FS_EmptySet
  <2> QED BY <1>5, <2>5 DEF A
<1>6. CASE b \in b_lock /\ \E t \in Submitters : Holds(t, b)
  <2>1. PICK t \in Submitters : Holds(t, b)
    BY <1>6
  <2>2. H = {t}
    BY <2>1 DEF OneOwner
  <2>3. A = {}
    BY <1>2, <2>1 DEF OneOwner
  <2>4. Cardinality(A) = 0 /\ Cardinality(H) = 1
    BY <2>2, <2>3, FS_Singleton, FS_EmptySet
  <2> QED BY <1>6, <2>4 DEF A
<1> QED BY <1>4, <1>5, <1>6 DEF OneOwner

(* The list of the requests in the queue.                                  *)
LEMMA ContentsOf ==
  ASSUME NEW q \in Seq(Slots), NEW R, \A i \in 1..Len(q) : request[q[i]] \in R
  PROVE  /\ Contents(q) \in Seq(R) /\ Len(Contents(q)) = Len(q)
         /\ \A i \in 1..Len(q) : Contents(q)[i] = request[q[i]]
<1>1. Len(q) \in Nat /\ \A i \in 1..Len(q) : request[q[i]] \in R
  BY LenProperties
<1>2. Contents(q) \in [1..Len(q) -> R]
  BY <1>1 DEF Contents
<1>3. Contents(q) \in Seq(R) /\ DOMAIN Contents(q) = 1..Len(q)
  BY <1>1, <1>2
<1> QED BY <1>1, <1>3, LenProperties DEF Contents

LEMMA TurnsCounted == RequestTypes /\ Turned => OneTurn
<1> SUFFICES ASSUME RequestTypes, TurnsOnce(Contents(queue), Len(queue))
             PROVE  Cardinality(Turns(Contents(queue))) <= 1
  BY DEF Turned, OneTurn, NoSwapping
<1> DEFINE list == Contents(queue)
<1>1. Len(list) = Len(queue)
  <2>1. \A i \in 1..Len(queue) : request[queue[i]] \in SlotRequest
    BY ElementOfSeq DEF RequestTypes
  <2> QED BY <2>1, ContentsOf DEF RequestTypes
<1> HIDE DEF list
<1>2. \A i, j \in Turns(list) : i = j
  BY <1>1 DEF Turns, TurnsOnce, TurnsAt, list
<1>3. CASE Turns(list) = {}
  BY <1>3, FS_EmptySet DEF list
<1>4. CASE Turns(list) # {}
  <2>1. PICK i \in Turns(list) : TRUE
    BY <1>4
  <2>2. Turns(list) = {i}
    BY <1>2, <2>1
  <2>3. Cardinality(Turns(list)) = 1
    BY <2>2, FS_Singleton
  <2> QED BY <2>3 DEF list
<1> QED BY <1>3, <1>4

-----------------------------------------------------------------------------
(* Steps of tasks that leave the queue alone.                              *)
QueueLeft == UNCHANGED <<request, queue, load>>

LEMMA QueueStays == ASSUME RequestInv, QueueLeft PROVE QueueFits' /\ Turned'
<1>1. QueueFits'
  BY DEF RequestInv, QueueLeft, QueueFits, Queued, NoSwapping
<1>2. Contents(queue)' = Contents(queue)
  BY DEF QueueLeft, Contents
<1> QED BY <1>1, <1>2 DEF RequestInv, QueueLeft, Turned, NoSwapping

LEMMA SlotsStay ==
  ASSUME QueueLeft
  PROVE  \A s \in Slots, b \in Buffers : SlotFor(s, b)' <=> SlotFor(s, b)
BY DEF QueueLeft, SlotFor, Queued

LEMMA OwnersStay ==
  ASSUME OneOwner, b_lock' = b_lock,
         \A s \in Slots, b \in Buffers : SlotFor(s, b)' <=> SlotFor(s, b),
         \A t \in Submitters, b \in Buffers : Holds(t, b)' <=> Holds(t, b)
  PROVE  OneOwner'
BY DEF OneOwner

(* A task is at a new place, where it still has its job or none.           *)
LEMMA GotoFits ==
  ASSUME RequestTypes, JobsFit, NEW t \in Submitters,
         NEW label \in {"idle", "scan", "full", "asleep", "page"},
         pc[t] # "idle", Goto(t, label), load' = load
  PROVE  /\ pc' \in [Submitters -> {"idle", "lock", "scan", "full", "missed", "asleep", "page"}]
         /\ job' \in [Submitters -> Jobs \cup {NoJob}]
         /\ JobsFit'
         /\ pc'[t] = label /\ (label # "idle" => job'[t] = job[t])
         /\ \A u \in Submitters \ {t} : pc'[u] = pc[u] /\ job'[u] = job[u]
<1>1. pc' = [pc EXCEPT ![t] = label] /\ job' \in [Submitters -> Jobs \cup {NoJob}]
  BY DEF Goto, RequestTypes
<1>2. /\ pc'[t] = label /\ (label # "idle" => job'[t] = job[t])
      /\ \A u \in Submitters \ {t} : pc'[u] = pc[u] /\ job'[u] = job[u]
  BY DEF Goto, RequestTypes
<1>3. JobsFit'
  BY <1>2 DEF JobsFit, NoSwapping
<1> QED BY <1>1, <1>2, <1>3 DEF RequestTypes

LEMMA SubmitKeeps ==
  ASSUME RequestInv, NEW t \in Submitters, NEW j \in Jobs, MayUse(t, j), Submit(t, j), load' = load
  PROVE  RequestInv'
<1>1. /\ pc[t] = "idle" /\ QueueLeft /\ b_lock' = b_lock
      /\ job' = [job EXCEPT ![t] = j]
      /\ pc' = [pc EXCEPT ![t] = IF j.swap THEN "scan" ELSE "lock"]
  BY DEF Submit, QueueLeft
<1>2. NoSwapping => ~j.swap
  BY DEF NoSwapping, MayUse, Jobs
<1>3. RequestTypes'
  BY <1>1 DEF RequestInv, RequestTypes, QueueLeft
<1>4. /\ job'[t] = j /\ pc'[t] = IF j.swap THEN "scan" ELSE "lock"
      /\ \A u \in Submitters \ {t} : pc'[u] = pc[u] /\ job'[u] = job[u]
  BY <1>1 DEF RequestInv, RequestTypes
<1>5. JobsFit'
  BY <1>2, <1>4 DEF RequestInv, JobsFit, NoSwapping
<1>6. \A u \in Submitters, b \in Buffers : Holds(u, b)' <=> Holds(u, b)
  BY <1>1, <1>4 DEF Holds
<1>7. OneOwner'
  BY <1>1, <1>6, SlotsStay, OwnersStay DEF RequestInv
<1> QED BY <1>1, <1>3, <1>5, <1>7, QueueStays DEF RequestInv

(* lock_buffer returns: the task owns a buffer that nobody owned.          *)
LEMMA LockBufferKeeps ==
  ASSUME RequestInv, NEW t \in Submitters, LockBuffer(t), load' = load
  PROVE  RequestInv'
<1> DEFINE b0 == job[t].sector
<1>1. pc[t] = "lock" /\ b0 \notin b_lock /\ QueueLeft /\ ~job[t].swap
  BY DEF LockBuffer, QueueLeft, RequestInv, JobsFit
<1>2. CASE Goto(t, "idle") /\ b_lock' = b_lock
  <2>1. /\ RequestTypes' /\ JobsFit' /\ pc'[t] = "idle"
        /\ \A u \in Submitters \ {t} : pc'[u] = pc[u] /\ job'[u] = job[u]
    BY <1>1, <1>2, GotoFits DEF RequestInv, RequestTypes, QueueLeft
  <2>2. \A u \in Submitters, b \in Buffers : Holds(u, b)' <=> Holds(u, b)
    BY <1>1, <2>1 DEF Holds
  <2>3. OneOwner'
    BY <1>1, <1>2, <2>2, SlotsStay, OwnersStay DEF RequestInv
  <2> QED BY <1>1, <2>1, <2>3, QueueStays DEF RequestInv
<1>3. CASE Goto(t, "scan") /\ b_lock' = b_lock \cup {b0}
  <2>1. /\ RequestTypes' /\ JobsFit' /\ pc'[t] = "scan" /\ job'[t] = job[t]
        /\ \A u \in Submitters \ {t} : pc'[u] = pc[u] /\ job'[u] = job[u]
    BY <1>1, <1>3, GotoFits DEF RequestInv, RequestTypes, QueueLeft
  <2>2. \A u \in Submitters, b \in Buffers :
          Holds(u, b)' <=> Holds(u, b) \/ (u = t /\ b = b0)
    BY <1>1, <2>1 DEF Holds
  <2>3. \A s \in Slots, b \in Buffers : SlotFor(s, b)' <=> SlotFor(s, b)
    BY <1>1, SlotsStay
  <2>4. OneOwner'
    BY <1>1, <1>3, <2>2, <2>3 DEF OneOwner, RequestInv
  <2> QED BY <1>1, <2>1, <2>4, QueueStays DEF RequestInv
<1> QED BY <1>2, <1>3 DEF LockBuffer

(* No slot: read-ahead unlocks what it owned, the others keep it.          *)
LEMMA NoSlotKeeps ==
  ASSUME RequestInv, NEW t \in Submitters, NoSlot(t), load' = load
  PROVE  RequestInv'
<1> DEFINE b0 == job[t].sector
<1>1. pc[t] = "scan" /\ QueueLeft
  BY DEF NoSlot, QueueLeft
<1>2. CASE job[t].ahead /\ Goto(t, "idle") /\ b_lock' = b_lock \ {b0}
  <2>1. /\ RequestTypes' /\ JobsFit' /\ pc'[t] = "idle"
        /\ \A u \in Submitters \ {t} : pc'[u] = pc[u] /\ job'[u] = job[u]
    BY <1>1, <1>2, GotoFits DEF RequestInv, RequestTypes, QueueLeft
  <2>2. ~job[t].swap
    <3>1. job[t] \in Jobs
      BY <1>1 DEF RequestInv, JobsFit
    <3> QED BY <1>2, <3>1 DEF Jobs
  <2>3. \A u \in Submitters, b \in Buffers :
          Holds(u, b)' <=> Holds(u, b) /\ u # t
    BY <2>1 DEF Holds
  <2>4. \A b \in Buffers : Holds(t, b) <=> b = b0
    BY <1>1, <2>2 DEF Holds
  <2>5. \A s \in Slots, b \in Buffers : SlotFor(s, b)' <=> SlotFor(s, b)
    BY <1>1, SlotsStay
  <2>6. OneOwner'
    BY <1>2, <2>3, <2>4, <2>5 DEF OneOwner, RequestInv
  <2> QED BY <1>1, <2>1, <2>6, QueueStays DEF RequestInv
<1>3. CASE Goto(t, "full") /\ b_lock' = b_lock
  <2>1. /\ RequestTypes' /\ JobsFit' /\ pc'[t] = "full" /\ job'[t] = job[t]
        /\ \A u \in Submitters \ {t} : pc'[u] = pc[u] /\ job'[u] = job[u]
    BY <1>1, <1>3, GotoFits DEF RequestInv, RequestTypes, QueueLeft
  <2>2. \A u \in Submitters, b \in Buffers : Holds(u, b)' <=> Holds(u, b)
    BY <1>1, <2>1 DEF Holds
  <2>3. OneOwner'
    BY <1>1, <1>3, <2>2, SlotsStay, OwnersStay DEF RequestInv
  <2> QED BY <1>1, <2>1, <2>3, QueueStays DEF RequestInv
<1> QED BY <1>2, <1>3 DEF NoSlot

LEMMA GoToSleepKeeps ==
  ASSUME RequestInv, NEW t \in Submitters, GoToSleep(t), load' = load
  PROVE  RequestInv'
<1>1. pc[t] \in {"full", "missed"} /\ Goto(t, "asleep") /\ QueueLeft /\ b_lock' = b_lock
  BY DEF GoToSleep, QueueLeft
<1>2. /\ RequestTypes' /\ JobsFit' /\ pc'[t] = "asleep" /\ job'[t] = job[t]
      /\ \A u \in Submitters \ {t} : pc'[u] = pc[u] /\ job'[u] = job[u]
  BY <1>1, GotoFits DEF RequestInv, RequestTypes, QueueLeft
<1>3. \A u \in Submitters, b \in Buffers : Holds(u, b)' <=> Holds(u, b)
  BY <1>1, <1>2 DEF Holds
<1>4. OneOwner'
  BY <1>1, <1>3, SlotsStay, OwnersStay DEF RequestInv
<1> QED BY <1>1, <1>2, <1>4, QueueStays DEF RequestInv

-----------------------------------------------------------------------------
(* A slot that is free is filled and gets its place in the queue.          *)
Enqueues(s, r) ==
  /\ AddRequest(s, r) /\ load' = load
  /\ s \in Slots /\ ~request[s].used
  /\ r \in SlotRequest /\ r.used /\ (NoSwapping => ~r.swap)

LEMMA FreeSlotQueued ==
  ASSUME RequestTypes, QueueFits, NEW s, NEW r, Enqueues(s, r), queue # <<>>
  PROVE  LET k == InsertAfter(Contents(queue), r)
         IN  /\ k \in 1..Len(queue) /\ Len(queue) \in Nat /\ Len(Contents(queue)) = Len(queue)
             /\ queue' \in Seq(Slots) /\ Len(queue') = Len(queue) + 1
             /\ \A i \in 1..k : queue'[i] = queue[i]
             /\ queue'[k + 1] = s
             /\ \A i \in (k + 2)..(Len(queue) + 1) : queue'[i] = queue[i - 1]
<1> DEFINE k == InsertAfter(Contents(queue), r)
<1>1. queue \in Seq(Slots) /\ Len(queue) \in Nat \ {0} /\ s \in Slots
  BY EmptySeq DEF RequestTypes, Enqueues
<1>2. Len(Contents(queue)) = Len(queue)
  <2>1. \A i \in 1..Len(queue) : request[queue[i]] \in SlotRequest
    BY ElementOfSeq DEF RequestTypes
  <2> QED BY <1>1, <2>1, ContentsOf
<1>3. k \in 1..Len(queue)
  BY <1>1, <1>2, PlaceFound
<1>4. queue' = InsertAt(queue, k + 1, s)
  BY DEF Enqueues, AddRequest
<1> HIDE DEF k
<1>5. Inserts(InsertAt(queue, k + 1, s), Slots, queue, k, s)
  <2>1. k \in 0..Len(queue)
    BY <1>1, <1>3
  <2> QED BY <1>1, <2>1, Inserted
<1> QED BY <1>1, <1>2, <1>3, <1>4, <1>5 DEF k, Inserts

LEMMA EnqueuedOnce ==
  ASSUME RequestTypes, QueueFits, NEW s, NEW r, Enqueues(s, r)
  PROVE  /\ queue' \in Seq(Slots) /\ request' \in [Slots -> SlotRequest]
         /\ request'[s] = r /\ \A u \in Slots \ {s} : request'[u] = request[u]
         /\ ~Queued(s) /\ \A u \in Slots : Queued(u)' <=> Queued(u) \/ u = s
         /\ QueueFits'
<1>1. request' \in [Slots -> SlotRequest] /\ request'[s] = r /\ s \in Slots
      /\ \A u \in Slots \ {s} : request'[u] = request[u]
  BY DEF RequestTypes, Enqueues, AddRequest
<1>2. ~Queued(s)
  BY DEF QueueFits, Enqueues
<1>3. CASE queue = <<>>
  <2>1. queue' = <<s>>
    BY <1>3 DEF Enqueues, AddRequest
  <2>2. queue' \in Seq(Slots) /\ Len(queue') = 1 /\ queue'[1] = s /\ Len(queue) = 0
    BY <1>1, <1>3, <2>1
  <2>3. \A u \in Slots : Queued(u)' <=> Queued(u) \/ u = s
    BY <2>2 DEF Queued
  <2>4. QueueFits'
    BY <1>1, <2>2, <2>3 DEF QueueFits, Queued, Enqueues, NoSwapping
  <2> QED BY <1>1, <1>2, <2>2, <2>3, <2>4
<1>4. CASE queue # <<>>
  <2> DEFINE k == InsertAfter(Contents(queue), r)
  <2>1. /\ k \in 1..Len(queue) /\ Len(queue) \in Nat
        /\ queue' \in Seq(Slots) /\ Len(queue') = Len(queue) + 1
        /\ \A i \in 1..k : queue'[i] = queue[i]
        /\ queue'[k + 1] = s
        /\ \A i \in (k + 2)..(Len(queue) + 1) : queue'[i] = queue[i - 1]
    BY <1>4, FreeSlotQueued
  <2> DEFINE Old(i) == IF i <= k THEN i ELSE i - 1
  <2> HIDE DEF k
  <2>2. \A i \in 1..(Len(queue) + 1) :
          i # k + 1 => Old(i) \in 1..Len(queue) /\ queue'[i] = queue[Old(i)]
    <3> SUFFICES ASSUME NEW i \in 1..(Len(queue) + 1), i # k + 1
                 PROVE  Old(i) \in 1..Len(queue) /\ queue'[i] = queue[Old(i)]
      OBVIOUS
    <3>1. CASE i <= k
      <4>1. i \in 1..k /\ Old(i) = i /\ i \in 1..Len(queue)
        BY <2>1, <3>1
      <4> QED BY <2>1, <4>1
    <3>2. CASE ~(i <= k)
      <4>1. i \in (k + 2)..(Len(queue) + 1) /\ Old(i) = i - 1 /\ i - 1 \in 1..Len(queue)
        BY <2>1, <3>2
      <4> QED BY <2>1, <4>1
    <3> QED BY <3>1, <3>2
  <2>3. \A i \in 1..(Len(queue) + 1) : queue'[i] = s <=> i = k + 1
    BY <1>2, <2>1, <2>2 DEF Queued
  <2>4. \A i \in 1..Len(queue) : \E j \in 1..(Len(queue) + 1) : queue'[j] = queue[i]
    <3> SUFFICES ASSUME NEW i \in 1..Len(queue)
                 PROVE  \E j \in 1..(Len(queue) + 1) : queue'[j] = queue[i]
      OBVIOUS
    <3>1. CASE i <= k
      <4>1. i \in 1..k /\ i \in 1..(Len(queue) + 1)
        BY <2>1, <3>1
      <4> QED BY <2>1, <4>1
    <3>2. CASE ~(i <= k)
      <4>1. i + 1 \in (k + 2)..(Len(queue) + 1) /\ i + 1 \in 1..(Len(queue) + 1)
            /\ (i + 1) - 1 = i
        BY <2>1, <3>2
      <4> QED BY <2>1, <4>1
    <3> QED BY <3>1, <3>2
  <2>5. \A u \in Slots : Queued(u)' <=> Queued(u) \/ u = s
    <3>1. ASSUME NEW u \in Slots, Queued(u)' PROVE Queued(u) \/ u = s
      BY <2>1, <2>2, <3>1 DEF Queued
    <3>2. ASSUME NEW u \in Slots, Queued(u) PROVE Queued(u)'
      BY <2>1, <2>4, <3>2 DEF Queued
    <3>3. Queued(s)'
      <4>1. k + 1 \in 1..(Len(queue) + 1)
        BY <2>1
      <4> QED BY <2>1, <4>1 DEF Queued
    <3> QED BY <3>1, <3>2, <3>3
  <2>6. \A i, j \in 1..(Len(queue) + 1) : queue'[i] = queue'[j] => i = j
    <3> SUFFICES ASSUME NEW i \in 1..(Len(queue) + 1), NEW j \in 1..(Len(queue) + 1),
                        queue'[i] = queue'[j]
                 PROVE  i = j
      OBVIOUS
    <3>1. CASE i = k + 1 \/ j = k + 1
      BY <2>3, <3>1
    <3>2. CASE i # k + 1 /\ j # k + 1
      <4>1. Old(i) \in 1..Len(queue) /\ Old(j) \in 1..Len(queue)
            /\ queue[Old(i)] = queue[Old(j)]
        <5> HIDE DEF Old
        <5> QED BY <2>2, <3>2
      <4>2. Old(i) = Old(j)
        <5> HIDE DEF Old
        <5> QED BY <4>1 DEF QueueFits
      <4> QED BY <2>1, <3>2, <4>2
    <3> QED BY <3>1, <3>2
  <2>7. \A u \in Slots : Queued(u)' => request'[u].used /\ (NoSwapping' => ~request'[u].swap)
    BY <1>1, <2>5 DEF QueueFits, Enqueues, NoSwapping
  <2>8. QueueFits'
    BY <2>1, <2>6, <2>7 DEF QueueFits
  <2> QED BY <1>1, <1>2, <2>1, <2>5, <2>8
<1> QED BY <1>3, <1>4

(* The queue turns no second time.                                         *)
LEMMA EnqueuedInTurn ==
  ASSUME RequestTypes, QueueFits, Turned, NEW s, NEW r, Enqueues(s, r),
         \A u \in Slots : Queued(u) /\ ~request[u].swap /\ ~r.swap
                            => request[u].sector # r.sector
  PROVE  Turned'
<1> SUFFICES ASSUME NoSwapping PROVE TurnsOnce(Contents(queue)', Len(queue'))
  BY DEF Turned, NoSwapping, Enqueues
<1> DEFINE new == Contents(queue)'
<1>1. \A i \in 1..Len(queue') : new[i] = request'[queue'[i]]
  BY DEF Contents
<1> HIDE DEF new
<1>2. request'[s] = r /\ \A u \in Slots \ {s} : request'[u] = request[u]
  BY EnqueuedOnce
<1>3. CASE queue = <<>>
  <2>1. queue' = <<s>>
    BY <1>3 DEF Enqueues, AddRequest
  <2>2. Len(queue') = 1
    BY <2>1
  <2> QED BY <2>2 DEF TurnsOnce
<1>4. CASE queue # <<>>
  <2> DEFINE k == InsertAfter(Contents(queue), r)
             list == Contents(queue)
  <2>1. /\ k \in 1..Len(queue) /\ Len(queue) \in Nat
        /\ queue' \in Seq(Slots) /\ Len(queue') = Len(queue) + 1
        /\ \A i \in 1..k : queue'[i] = queue[i]
        /\ queue'[k + 1] = s
        /\ \A i \in (k + 2)..(Len(queue) + 1) : queue'[i] = queue[i - 1]
    BY <1>4, FreeSlotQueued
  <2>2. \A i \in 1..Len(queue) : /\ queue[i] \in Slots \ {s}
                                 /\ request[queue[i]] \in BufferRequest
                                 /\ request[queue[i]].sector # r.sector
    <3> SUFFICES ASSUME NEW i \in 1..Len(queue)
                 PROVE  /\ queue[i] \in Slots \ {s}
                        /\ request[queue[i]] \in BufferRequest
                        /\ request[queue[i]].sector # r.sector
      OBVIOUS
    <3>1. queue[i] \in Slots /\ Queued(queue[i])
      BY ElementOfSeq DEF RequestTypes, Queued
    <3>2. ~request[queue[i]].swap /\ request[queue[i]] \in SlotRequest
      BY <3>1 DEF QueueFits, RequestTypes
    <3>3. request[queue[i]] \in BufferRequest
      BY <3>2 DEF SlotRequest, BufferRequest
    <3>4. ~Queued(s) /\ ~r.swap
      BY EnqueuedOnce DEF Enqueues
    <3> QED BY <3>1, <3>2, <3>3, <3>4
  <2>3. list \in Seq(BufferRequest) /\ Len(list) = Len(queue)
        /\ \A i \in 1..Len(queue) : list[i] = request[queue[i]]
    BY <2>2, ContentsOf DEF RequestTypes
  <2>4. r \in BufferRequest
    BY DEF Enqueues, SlotRequest, BufferRequest
  <2> HIDE DEF k, list
  <2>5. \A i \in 1..k : new[i] = list[i]
    <3> SUFFICES ASSUME NEW i \in 1..k PROVE new[i] = list[i]
      OBVIOUS
    <3>1. i \in 1..Len(queue) /\ i \in 1..Len(queue')
      BY <2>1
    <3>2. new[i] = request'[queue'[i]] /\ queue'[i] = queue[i] /\ list[i] = request[queue[i]]
      BY <1>1, <2>1, <2>3, <3>1
    <3>3. request'[queue[i]] = request[queue[i]]
      BY <1>2, <2>2, <3>1
    <3> QED BY <3>2, <3>3
  <2>6. new[k + 1] = r
    <3>1. k + 1 \in 1..Len(queue')
      BY <2>1
    <3> QED BY <1>1, <1>2, <2>1, <3>1
  <2>7. \A i \in (k + 2)..(Len(queue) + 1) : new[i] = list[i - 1]
    <3> SUFFICES ASSUME NEW i \in (k + 2)..(Len(queue) + 1) PROVE new[i] = list[i - 1]
      OBVIOUS
    <3>1. i - 1 \in 1..Len(queue) /\ i \in 1..Len(queue')
      BY <2>1
    <3>2. queue'[i] = queue[i - 1] /\ queue[i - 1] \in Slots \ {s}
      BY <2>1, <2>2, <3>1
    <3>3. new[i] = request'[queue'[i]] /\ list[i - 1] = request[queue[i - 1]]
      BY <1>1, <2>3, <3>1
    <3> QED BY <1>2, <3>2, <3>3
  <2>8. TurnsOnce(list, Len(list)) /\ Len(list) # 0
    BY <2>1, <2>3 DEF Turned, list
  <2>9. TurnsOnce(new, Len(list) + 1)
    <3>1. \A i \in 1..Len(list) : list[i].sector # r.sector
      BY <2>2, <2>3
    <3>2. k = InsertAfter(list, r)
      BY DEF k, list
    <3>3. \A i \in (k + 2)..(Len(list) + 1) : new[i] = list[i - 1]
      BY <2>3, <2>7
    <3> QED BY <2>3, <2>4, <2>5, <2>6, <2>8, <3>1, <3>2, <3>3, Elevator
  <2> QED BY <2>1, <2>3, <2>9 DEF new
<1> QED BY <1>3, <1>4 DEF new

(* make_request and ll_rw_page queue a request: the slot owns the buffer   *)
(* that the task owned.                                                    *)
LEMMA QueueKeeps ==
  ASSUME RequestInv, NEW t \in Submitters, Queue(t), load' = load
  PROVE  RequestInv'
<1> DEFINE j == job[t]
           s == CHOOSE x \in FreeSlots(j) : \A u \in FreeSlots(j) : u <= x
           r == [cmd |-> j.cmd, sector |-> j.sector, swap |-> j.swap, used |-> TRUE]
           label == IF j.swap THEN "page" ELSE "idle"
<1>1. /\ pc[t] = "scan" /\ FreeSlots(j) # {} /\ AddRequest(s, r)
      /\ Goto(t, label) /\ b_lock' = b_lock
  BY DEF Queue
<1>2. s \in FreeSlots(j)
  <2>1. FreeSlots(j) \subseteq 0..(NR_REQUEST - 1) /\ NR_REQUEST - 1 \in Nat
    BY BlockAssumption DEF FreeSlots, Slots
  <2>2. \E x \in FreeSlots(j) : \A u \in FreeSlots(j) : u <= x
    BY <1>1, <2>1, Largest
  <2> QED BY <2>2
<1> HIDE DEF s
<1>3. j \in Jobs /\ j.sector \in Nat /\ (NoSwapping => ~j.swap)
  <2>1. j \in Jobs /\ (NoSwapping => ~j.swap)
    BY <1>1 DEF RequestInv, JobsFit
  <2> QED BY <2>1, BlockAssumption DEF Jobs
<1>4. r \in SlotRequest /\ r.used /\ r.swap = j.swap /\ r.sector = j.sector
  BY <1>3 DEF SlotRequest, Jobs
<1> HIDE DEF r
<1>5. Enqueues(s, r)
  BY <1>1, <1>2, <1>3, <1>4 DEF Enqueues, FreeSlots
<1>6. /\ queue' \in Seq(Slots) /\ request' \in [Slots -> SlotRequest]
      /\ request'[s] = r /\ \A u \in Slots \ {s} : request'[u] = request[u]
      /\ ~Queued(s) /\ \A u \in Slots : Queued(u)' <=> Queued(u) \/ u = s
      /\ QueueFits'
  BY <1>5, EnqueuedOnce DEF RequestInv
<1>7. /\ pc' \in [Submitters -> {"idle", "lock", "scan", "full", "missed", "asleep", "page"}]
      /\ job' \in [Submitters -> Jobs \cup {NoJob}]
      /\ JobsFit' /\ pc'[t] = label /\ (label # "idle" => job'[t] = job[t])
      /\ \A u \in Submitters \ {t} : pc'[u] = pc[u] /\ job'[u] = job[u]
  <2>1. label \in {"idle", "scan", "full", "asleep", "page"} /\ pc[t] # "idle"
    BY <1>1
  <2> HIDE DEF label
  <2> QED BY <1>1, <2>1, GotoFits DEF RequestInv
<1>8. \A b \in Buffers : Holds(t, b) <=> ~j.swap /\ j.sector = b
  BY <1>1 DEF Holds
<1>9. \A u \in Submitters, b \in Buffers : Holds(u, b)' <=> Holds(u, b) /\ u # t
  BY <1>7, <1>8 DEF Holds
<1>10. \A u \in Slots, b \in Buffers :
         SlotFor(u, b)' <=> SlotFor(u, b) \/ (u = s /\ Holds(t, b))
  BY <1>4, <1>6, <1>8 DEF SlotFor
<1>11. OneOwner'
  <2>1. s \in Slots
    BY <1>2 DEF FreeSlots
  <2>2. \A b \in Buffers : ~SlotFor(s, b)
    BY <1>6 DEF SlotFor
  <2> QED BY <1>1, <1>9, <1>10, <2>1, <2>2 DEF OneOwner, RequestInv
<1>12. Turned'
  <2> SUFFICES ASSUME NEW u \in Slots, Queued(u), ~request[u].swap, ~r.swap,
                      request[u].sector = r.sector
               PROVE  FALSE
    BY <1>5, EnqueuedInTurn DEF RequestInv
  <2>1. j.sector \in Buffers
    BY <1>3, <1>4 DEF Jobs
  <2>2. SlotFor(u, j.sector) /\ Holds(t, j.sector)
    BY <1>4, <1>8, <2>1 DEF SlotFor
  <2> QED BY <2>1, <2>2 DEF OneOwner, RequestInv
<1> QED BY <1>6, <1>7, <1>11, <1>12 DEF RequestInv, RequestTypes

-----------------------------------------------------------------------------
(* The head leaves the queue; what it owned is owned by nobody.            *)
LEMMA HeadLeaves ==
  ASSUME RequestTypes, QueueFits, queue # <<>>, queue' = Tail(queue),
         request' = Freed(Head(queue)), load' = load
  PROVE  /\ Head(queue) \in Slots /\ Queued(Head(queue))
         /\ queue' \in Seq(Slots) /\ request' \in [Slots -> SlotRequest]
         /\ Len(queue) \in Nat \ {0} /\ Len(queue') = Len(queue) - 1
         /\ \A i \in 1..Len(queue') : /\ i + 1 \in 1..Len(queue)
                                      /\ queue'[i] = queue[i + 1]
                                      /\ request'[queue'[i]] = request[queue[i + 1]]
         /\ \A u \in Slots \ {Head(queue)} : request'[u] = request[u]
         /\ \A u \in Slots : Queued(u)' <=> Queued(u) /\ u # Head(queue)
         /\ QueueFits'
<1> DEFINE h == Head(queue)
<1>1. /\ queue \in Seq(Slots) /\ Len(queue) \in Nat \ {0} /\ h = queue[1] /\ h \in Slots
      /\ queue' \in Seq(Slots) /\ Len(queue') = Len(queue) - 1
      /\ \A i \in 1..Len(queue') : queue'[i] = queue[i + 1]
  BY EmptySeq, HeadTailProperties DEF RequestTypes
<1>2. Queued(h) /\ 1 \in 1..Len(queue)
  BY <1>1 DEF Queued
<1>3. request' \in [Slots -> SlotRequest] /\ \A u \in Slots \ {h} : request'[u] = request[u]
  <2>1. Free \in SlotRequest
    BY DEF Free, SlotRequest
  <2> HIDE DEF h
  <2>2. request' = [request EXCEPT ![h] = Free]
    BY DEF Freed, h
  <2> QED BY <1>1, <2>1, <2>2 DEF RequestTypes
<1> HIDE DEF h
<1>4. \A i \in 1..Len(queue') : /\ i + 1 \in 1..Len(queue) /\ i + 1 # 1
                                /\ queue'[i] = queue[i + 1] /\ queue'[i] \in Slots \ {h}
  <2> SUFFICES ASSUME NEW i \in 1..Len(queue')
               PROVE  /\ i + 1 \in 1..Len(queue) /\ i + 1 # 1
                      /\ queue'[i] = queue[i + 1] /\ queue'[i] \in Slots \ {h}
    OBVIOUS
  <2>1. i + 1 \in 1..Len(queue) /\ i + 1 # 1 /\ queue'[i] = queue[i + 1]
    BY <1>1
  <2>2. queue'[i] \in Slots
    BY <1>1, ElementOfSeq
  <2>3. queue[i + 1] # queue[1]
    BY <1>2, <2>1 DEF QueueFits
  <2> QED BY <1>1, <2>1, <2>2, <2>3
<1>5. \A u \in Slots : Queued(u)' <=> Queued(u) /\ u # h
  <2>1. ASSUME NEW u \in Slots, Queued(u)' PROVE Queued(u) /\ u # h
    BY <1>4, <2>1 DEF Queued
  <2>2. ASSUME NEW u \in Slots, Queued(u), u # h PROVE Queued(u)'
    <3>1. PICK i \in 1..Len(queue) : queue[i] = u
      BY <2>2 DEF Queued
    <3>2. i # 1
      BY <1>1, <2>2, <3>1
    <3>3. i - 1 \in 1..Len(queue') /\ (i - 1) + 1 = i
      BY <1>1, <3>1, <3>2
    <3>4. queue'[i - 1] = u
      BY <1>1, <3>1, <3>3
    <3> QED BY <3>3, <3>4 DEF Queued
  <2> QED BY <2>1, <2>2
<1>6. \A i, j \in 1..Len(queue') : queue'[i] = queue'[j] => i = j
  <2> SUFFICES ASSUME NEW i \in 1..Len(queue'), NEW j \in 1..Len(queue'),
                      queue'[i] = queue'[j]
               PROVE  i = j
    OBVIOUS
  <2>1. i + 1 = j + 1
    BY <1>4 DEF QueueFits
  <2> QED BY <1>1, <2>1
<1>7. QueueFits'
  BY <1>3, <1>5, <1>6 DEF QueueFits, NoSwapping
<1> QED BY <1>1, <1>2, <1>3, <1>4, <1>5, <1>7 DEF h

LEMMA TailInTurn ==
  ASSUME RequestTypes, QueueFits, Turned, queue # <<>>, queue' = Tail(queue),
         request' = Freed(Head(queue)), load' = load
  PROVE  Turned'
<1> SUFFICES ASSUME NoSwapping PROVE TurnsOnce(Contents(queue)', Len(queue'))
  BY DEF Turned, NoSwapping
<1> DEFINE new == Contents(queue)'
           list == Contents(queue)
<1>1. /\ \A i \in 1..Len(queue') : new[i] = request'[queue'[i]]
      /\ \A i \in 1..Len(queue) : list[i] = request[queue[i]]
  BY DEF Contents
<1> HIDE DEF new, list
<1>2. /\ Len(queue) \in Nat \ {0} /\ Len(queue') = Len(queue) - 1
      /\ \A i \in 1..Len(queue') : /\ i + 1 \in 1..Len(queue)
                                   /\ request'[queue'[i]] = request[queue[i + 1]]
  BY HeadLeaves
<1>3. \A i \in 1..(Len(queue') - 1) :
        i + 1 \in 1..(Len(queue) - 1) /\ (TurnsAt(new, i) <=> TurnsAt(list, i + 1))
  <2> SUFFICES ASSUME NEW i \in 1..(Len(queue') - 1)
               PROVE  i + 1 \in 1..(Len(queue) - 1) /\ (TurnsAt(new, i) <=> TurnsAt(list, i + 1))
    OBVIOUS
  <2>1. i \in 1..Len(queue') /\ i + 1 \in 1..Len(queue') /\ i + 1 \in 1..(Len(queue) - 1)
    BY <1>2
  <2>2. \A m \in 1..Len(queue') : new[m] = list[m + 1]
    BY <1>1, <1>2
  <2>3. new[i] = list[i + 1] /\ new[i + 1] = list[i + 1 + 1]
    BY <2>1, <2>2
  <2> QED BY <2>1, <2>3 DEF TurnsAt
<1>4. \A i, j \in 1..(Len(queue) - 1) : TurnsAt(list, i) /\ TurnsAt(list, j) => i = j
  BY DEF Turned, TurnsOnce, list
<1>5. \A i, j \in 1..(Len(queue') - 1) : TurnsAt(new, i) /\ TurnsAt(new, j) => i = j
  <2> SUFFICES ASSUME NEW i \in 1..(Len(queue') - 1), NEW j \in 1..(Len(queue') - 1),
                      TurnsAt(new, i), TurnsAt(new, j)
               PROVE  i = j
    OBVIOUS
  <2>1. i + 1 = j + 1
    BY <1>3, <1>4
  <2> QED BY <1>2, <2>1
<1> QED BY <1>5 DEF TurnsOnce, new

LEMMA EndRequestKeeps ==
  ASSUME RequestInv, NEW ok \in BOOLEAN, EndRequest(ok), load' = load
  PROVE  RequestInv'
<1> DEFINE h == Head(queue)
           r == request[h]
<1>1. /\ queue # <<>> /\ queue' = Tail(queue) /\ request' = Freed(h)
      /\ b_lock' = IF r.swap THEN b_lock ELSE b_lock \ {r.sector}
      /\ pc' = [t \in Submitters |-> WokenUp(t, r)]
      /\ job' = [t \in Submitters |-> IF pc'[t] = "idle" THEN NoJob ELSE job[t]]
  BY DEF EndRequest
<1>2. RequestTypes /\ QueueFits /\ Turned /\ OneOwner /\ JobsFit
  BY DEF RequestInv
<1>3. /\ h \in Slots /\ Queued(h)
      /\ queue' \in Seq(Slots) /\ request' \in [Slots -> SlotRequest]
      /\ \A u \in Slots \ {h} : request'[u] = request[u]
      /\ \A u \in Slots : Queued(u)' <=> Queued(u) /\ u # h
      /\ QueueFits'
  BY <1>1, <1>2, HeadLeaves
<1>4. Turned'
  BY <1>1, <1>2, TailInTurn
<1> HIDE DEF h, r
<1>5. ASSUME NEW t \in Submitters
      PROVE  \/ pc'[t] = pc[t] /\ pc[t] # "idle" /\ job'[t] = job[t]
             \/ pc'[t] = "idle" /\ pc[t] \in {"idle", "page"} /\ job'[t] = NoJob
             \/ /\ \/ pc[t] = "asleep" /\ pc'[t] = "scan"
                   \/ pc[t] = "full" /\ pc'[t] = "missed"
                /\ job'[t] = job[t]
  <2>1. pc'[t] = WokenUp(t, r) /\ job'[t] = IF pc'[t] = "idle" THEN NoJob ELSE job[t]
    BY <1>1
  <2>2. t \in Waiters(r) => pc[t] = "page"
    BY DEF Waiters
  <2>3. \/ pc[t] = "asleep" /\ pc'[t] = "scan"
        \/ pc[t] = "full" /\ pc'[t] = "missed"
        \/ pc[t] = "page" /\ pc'[t] = "idle"
        \/ pc'[t] = pc[t]
    BY <2>1, <2>2 DEF WokenUp
  <2> QED BY <2>1, <2>3
<1>6. RequestTypes'
  <2>1. \A t \in Submitters :
          /\ pc'[t] \in {"idle", "lock", "scan", "full", "missed", "asleep", "page"}
          /\ job'[t] \in Jobs \cup {NoJob}
    BY <1>2, <1>5 DEF RequestTypes
  <2>2. /\ pc' \in [Submitters -> {"idle", "lock", "scan", "full", "missed", "asleep", "page"}]
        /\ job' \in [Submitters -> Jobs \cup {NoJob}]
    BY <1>1, <2>1
  <2> QED BY <1>3, <2>2 DEF RequestTypes
<1>7. JobsFit'
  BY <1>2, <1>5 DEF JobsFit, NoSwapping
<1>8. \A t \in Submitters, b \in Buffers : Holds(t, b)' <=> Holds(t, b)
  BY <1>5 DEF Holds
<1>9. \A u \in Slots, b \in Buffers : SlotFor(u, b)' <=> SlotFor(u, b) /\ u # h
  BY <1>3 DEF SlotFor
<1>10. \A b \in Buffers : SlotFor(h, b) <=> ~r.swap /\ r.sector = b
  BY <1>3 DEF SlotFor, r
<1>11. OneOwner'
  <2> SUFFICES ASSUME NEW b \in Buffers
               PROVE  b \in b_lock' <=> \/ \E u \in Slots : SlotFor(u, b)'
                                        \/ \E t \in Submitters : Holds(t, b)'
    BY <1>2, <1>8, <1>9 DEF OneOwner
  <2>1. CASE SlotFor(h, b)
    <3>1. b \notin b_lock'
      BY <1>1, <1>10, <2>1
    <3>2. \A u \in Slots : ~SlotFor(u, b)'
      BY <1>2, <1>3, <1>9, <2>1 DEF OneOwner
    <3>3. \A t \in Submitters : ~Holds(t, b)'
      BY <1>2, <1>3, <1>8, <2>1 DEF OneOwner
    <3> QED BY <3>1, <3>2, <3>3
  <2>2. CASE ~SlotFor(h, b)
    <3>1. b \in b_lock' <=> b \in b_lock
      BY <1>1, <1>10, <2>2
    <3>2. \A u \in Slots : SlotFor(u, b)' <=> SlotFor(u, b)
      BY <1>9, <2>2
    <3> QED BY <1>2, <1>8, <3>1, <3>2 DEF OneOwner
  <2> QED BY <2>1, <2>2
<1> QED BY <1>3, <1>4, <1>6, <1>7, <1>11 DEF RequestInv

-----------------------------------------------------------------------------
LEMMA RequestInitFits == RequestsInit => RequestInv
<1> SUFFICES ASSUME RequestsInit PROVE RequestInv
  OBVIOUS
<1>1. /\ pc = [t \in Submitters |-> "idle"] /\ job = [t \in Submitters |-> NoJob]
      /\ request = [s \in Slots |-> Free] /\ queue = <<>> /\ b_lock = {}
  BY DEF RequestsInit
<1>2. Free \in SlotRequest /\ <<>> \in Seq(Slots) /\ Len(queue) = 0
  BY <1>1 DEF Free, SlotRequest
<1>3. RequestTypes
  BY <1>1, <1>2 DEF RequestTypes
<1>4. JobsFit /\ QueueFits /\ Turned
  BY <1>1, <1>2 DEF JobsFit, QueueFits, Queued, Turned, TurnsOnce
<1>5. OneOwner
  BY <1>1, <1>2 DEF OneOwner, SlotFor, Queued, Holds
<1> QED BY <1>3, <1>4, <1>5 DEF RequestInv

(* The owner of a buffer changes its data or gives it up: no lock changes. *)
LEMMA BufferChanges ==
  ASSUME RequestInv, UNCHANGED <<pc, job, request, queue, b_lock, load>>
  PROVE  RequestInv'
<1>1. QueueLeft
  BY DEF QueueLeft
<1>2. \A t \in Submitters, b \in Buffers : Holds(t, b)' <=> Holds(t, b)
  BY DEF Holds
<1>3. OneOwner'
  BY <1>1, <1>2, SlotsStay, OwnersStay DEF RequestInv
<1>4. RequestTypes' /\ JobsFit'
  BY DEF RequestInv, RequestTypes, JobsFit, NoSwapping
<1> QED BY <1>1, <1>3, <1>4, QueueStays DEF RequestInv

LEMMA RequestNextFits == RequestInv /\ [RequestsNext]_requestVars => RequestInv'
<1> SUFFICES ASSUME RequestInv, [RequestsNext]_requestVars PROVE RequestInv'
  OBVIOUS
<1>1. CASE load' = load /\ \E t \in Submitters : Goes(t)
  BY <1>1, LockBufferKeeps, QueueKeeps, NoSlotKeeps, GoToSleepKeeps DEF Goes
<1>2. CASE load' = load /\ \E t \in Submitters : \E j \in Jobs : MayUse(t, j) /\ Submit(t, j)
  BY <1>2, SubmitKeeps
<1>3. CASE load' = load /\ \E ok \in BOOLEAN : EndRequest(ok)
  BY <1>3, EndRequestKeeps
<1>4. CASE load' = load /\ \E b \in Buffers : Modify(b) \/ Reuse(b)
  BY <1>4, BufferChanges DEF Modify, Reuse
<1>5. CASE UNCHANGED requestVars
  BY <1>5, BufferChanges DEF requestVars
<1> QED BY <1>1, <1>2, <1>3, <1>4, <1>5 DEF RequestsNext

(* However many tasks submit and sleep, in whatever order they are woken:  *)
(* a locked buffer has exactly one request, queued or about to be, and one *)
(* that is not locked has none, so INIT_REQUEST and end_request never find *)
(* the buffer unlocked.                                                    *)
THEOREM LockedByOneAlways == RequestsSpec => []LockedByOne
<1>1. RequestInv => LockedByOne
  BY OwnersCounted DEF RequestInv
<1> QED BY <1>1, RequestInitFits, RequestNextFits, PTL DEF RequestsSpec

(* add_request looks at neighbours only, and yet the queue of buffers goes *)
(* up, and starts over from the bottom at most once, for any number of     *)
(* slots and blocks.                                                       *)
THEOREM OneTurnAlways == RequestsSpec => []OneTurn
<1>1. RequestInv => OneTurn
  BY TurnsCounted DEF RequestInv
<1> QED BY <1>1, RequestInitFits, RequestNextFits, PTL DEF RequestsSpec

------------------------------------------------------------------------------
(***************************************************************************)
(* A request that the driver of the hard disk ends well has been moved     *)
(* whole, for any requests, any number of sectors, errors and drives.      *)
(*                                                                         *)
(* OkIsMoved is not inductive.  What makes it hold is that a handler of a  *)
(* transfer is only waiting, or called, while the drive is at the very     *)
(* sector that CURRENT asks for, or has failed: an old interrupt finds the *)
(* drive busy, and every other command replaces the handler.               *)
(***************************************************************************)
Commands == {HD_READ, HD_WRITE}
Request == [id : Requests, cmd : Commands, inside : BOOLEAN,
            sector : Nat, left : Nat, errors : Nat]

(* The queue q, what was ended (e), and what was moved (m).                *)
QueueTypes(q, e, m) ==
  /\ q \in Seq(Request)
  /\ e \in [Requests -> Seq({"ok", "error"})]
  /\ m \in [Requests -> SUBSET Nat]
OnceQueued(q) == \A i, j \in 1..Len(q) : q[i].id = q[j].id => i = j
MovedSoFar(q, e, m) ==
  \A i \in 1..Len(q) : /\ e[q[i].id] = <<>>
                       /\ m[q[i].id] = 1..(q[i].sector - 1)
                       /\ q[i].sector >= 1 /\ q[i].left >= 1
                       /\ q[i].sector + q[i].left = Sectors + 1
MovedIfOk(e, m) ==
  \A r \in Requests : Len(e[r]) <= 1 /\ (e[r] = <<"ok">> => m[r] = 1..Sectors)
NewNotMoved(q, e, m) ==
  \A r \in Requests : e[r] = <<>> => m[r] = {} \/ \E i \in 1..Len(q) : q[i].id = r
Progress(q, e, m) ==
  QueueTypes(q, e, m) /\ OnceQueued(q) /\ MovedSoFar(q, e, m)
    /\ MovedIfOk(e, m) /\ NewNotMoved(q, e, m)

(* The handlers of commands that are given for CURRENT.                    *)
Transfers == {"read_intr", "write_intr"}
ForCurrent == Transfers \cup {"recal_intr"}
Awaits(handlers) == call \in handlers \/ (call = None /\ do_hd \in handlers)

AtSector == /\ drive.cmd = CURRENT.cmd /\ drive.id = CURRENT.id
            /\ drive.sector = CURRENT.sector

DriveTypes == drive \in [at : {"idle", "busy", "ready", "error"},
                         cmd : {HD_READ, HD_WRITE, None, "restore", "specify"},
                         id : Requests \cup {None}, sector : Nat]

HandlerFits ==
  /\ DriveTypes
  /\ Awaits(ForCurrent) => queued # <<>>
  /\ Awaits(Transfers) => drive.at = "error" \/ (drive.at \in {"busy", "ready"} /\ AtSector)

(* The inductive invariant.                                                *)
DriverInv == Progress(queued, ended, moved) /\ HandlerFits

-----------------------------------------------------------------------------
(* A request at the head is ended, with whatever was moved for it last.    *)
LEMMA HeadEnds ==
  ASSUME NEW q, NEW e, NEW m, Progress(q, e, m), q # <<>>,
         NEW how \in {"ok", "error"}, NEW M \in SUBSET Nat,
         how = "ok" => M = 1..Sectors
  PROVE  Progress(Tail(q), [e EXCEPT ![Head(q).id] = Append(@, how)],
                  [m EXCEPT ![Head(q).id] = M])
<1> DEFINE h == Head(q).id
           e2 == [e EXCEPT ![h] = Append(@, how)]
           m2 == [m EXCEPT ![h] = M]
           t == Tail(q)
<1>1. /\ q \in Seq(Request) /\ Len(q) \in Nat \ {0} /\ q[1] = Head(q) /\ h \in Requests
      /\ e \in [Requests -> Seq({"ok", "error"})] /\ m \in [Requests -> SUBSET Nat]
      /\ \A i \in 1..Len(q) : q[i] \in Request /\ q[i].id \in Requests
  <2>1. q \in Seq(Request) /\ Len(q) \in Nat \ {0} /\ q[1] = Head(q)
    BY EmptySeq DEF Progress, QueueTypes
  <2>2. \A i \in 1..Len(q) : q[i] \in Request /\ q[i].id \in Requests
    <3>1. \A i \in 1..Len(q) : q[i] \in Request
      BY <2>1, ElementOfSeq
    <3> QED BY <3>1 DEF Request
  <2> QED BY <2>1, <2>2 DEF Progress, QueueTypes
<1>2. /\ t \in Seq(Request) /\ Len(t) = Len(q) - 1
      /\ \A i \in 1..Len(t) : t[i] = q[i + 1] /\ i + 1 \in 1..Len(q)
  BY <1>1, HeadTailProperties
<1>3. e[h] = <<>>
  <2>1. 1 \in 1..Len(q) /\ MovedSoFar(q, e, m)
    BY <1>1 DEF Progress
  <2> QED BY <1>1, <2>1 DEF MovedSoFar
<1>4. e2[h] = <<how>> /\ m2[h] = M
  BY <1>1, <1>3
<1>5. \A i \in 1..Len(t) : t[i].id # h /\ t[i].id \in Requests
  <2> SUFFICES ASSUME NEW i \in 1..Len(t) PROVE t[i].id # h /\ t[i].id \in Requests
    OBVIOUS
  <2>1. t[i] = q[i + 1] /\ i + 1 \in 1..Len(q) /\ 1 \in 1..Len(q) /\ i + 1 # 1
    BY <1>1, <1>2
  <2>2. OnceQueued(q)
    BY DEF Progress
  <2> HIDE DEF t
  <2> QED BY <1>1, <2>1, <2>2 DEF OnceQueued
<1>6. \A r \in Requests \ {h} : e2[r] = e[r] /\ m2[r] = m[r]
  BY <1>1
<1>7. QueueTypes(t, e2, m2)
  <2>1. e2 \in [Requests -> Seq({"ok", "error"})]
    BY <1>1
  <2>2. m2 \in [Requests -> SUBSET Nat]
    BY <1>1
  <2> QED BY <1>2, <2>1, <2>2 DEF QueueTypes
<1> HIDE DEF e2, m2, t, h
<1>8. OnceQueued(t)
  <2> SUFFICES ASSUME NEW i \in 1..Len(t), NEW j \in 1..Len(t), t[i].id = t[j].id
               PROVE  i = j
    BY DEF OnceQueued
  <2>1. q[i + 1].id = q[j + 1].id /\ i + 1 \in 1..Len(q) /\ j + 1 \in 1..Len(q)
    BY <1>2
  <2>2. i + 1 = j + 1
    BY <2>1 DEF Progress, OnceQueued
  <2> QED BY <1>1, <1>2, <2>2
<1>9. MovedSoFar(t, e2, m2)
  BY <1>2, <1>5, <1>6 DEF Progress, MovedSoFar
<1>10. MovedIfOk(e2, m2)
  <2> SUFFICES ASSUME NEW r \in Requests
               PROVE  Len(e2[r]) <= 1 /\ (e2[r] = <<"ok">> => m2[r] = 1..Sectors)
    BY DEF MovedIfOk
  <2>1. CASE r = h
    <3>1. e2[r] = <<how>> /\ m2[r] = M /\ Len(<<how>>) = 1
      BY <1>4, <2>1
    <3>2. <<how>> = <<"ok">> => how = "ok"
      OBVIOUS
    <3> QED BY <3>1, <3>2
  <2>2. CASE r # h
    BY <1>6, <2>2 DEF Progress, MovedIfOk
  <2> QED BY <2>1, <2>2
<1>11. NewNotMoved(t, e2, m2)
  <2> SUFFICES ASSUME NEW r \in Requests, e2[r] = <<>>, m2[r] # {}
               PROVE  \E i \in 1..Len(t) : t[i].id = r
    BY DEF NewNotMoved
  <2>1. r # h
    <3>1. <<how>> # <<>>
      OBVIOUS
    <3> QED BY <1>4, <3>1
  <2>2. PICK i \in 1..Len(q) : q[i].id = r
    BY <1>6, <2>1 DEF Progress, NewNotMoved
  <2>3. i # 1
    BY <1>1, <2>1, <2>2 DEF h
  <2>4. i - 1 \in 1..Len(t) /\ t[i - 1] = q[i]
    BY <1>1, <1>2, <2>2, <2>3
  <2> QED BY <2>2, <2>4
<1> QED BY <1>7, <1>8, <1>9, <1>10, <1>11 DEF Progress, t, e2, m2, h

(* A request that comes in has not moved anything yet.                     *)
LEMMA NewQueued ==
  ASSUME NEW q, NEW e, NEW m, Progress(q, e, m), NEW new \in Request,
         e[new.id] = <<>>, \A i \in 1..Len(q) : q[i].id # new.id,
         new.sector = 1, new.left = Sectors
  PROVE  Progress(Append(q, new), e, m)
<1> DEFINE a == Append(q, new)
<1>1. /\ q \in Seq(Request) /\ Len(q) \in Nat /\ new.id \in Requests
      /\ \A i \in 1..Len(q) : q[i] \in Request
  <2>1. q \in Seq(Request) /\ Len(q) \in Nat
    BY DEF Progress, QueueTypes
  <2>2. new.id \in Requests
    BY DEF Request
  <2> QED BY <2>1, <2>2, ElementOfSeq
<1>2. /\ a \in Seq(Request) /\ Len(a) = Len(q) + 1 /\ a[Len(q) + 1] = new
      /\ \A i \in 1..Len(q) : a[i] = q[i]
  BY <1>1, AppendProperties
<1>3. \A i \in 1..Len(a) : i \in 1..Len(q) \/ i = Len(q) + 1
  BY <1>1, <1>2
<1>4. \A i \in 1..Len(q) : i \in 1..Len(a)
  BY <1>1, <1>2
<1> HIDE DEF a
<1>5. OnceQueued(a)
  BY <1>2, <1>3 DEF OnceQueued, Progress
<1>6. MovedSoFar(a, e, m)
  <2>1. m[new.id] = {}
    BY <1>1 DEF Progress, NewNotMoved
  <2>2. m[new.id] = 1..(new.sector - 1) /\ new.sector >= 1 /\ new.left >= 1
        /\ new.sector + new.left = Sectors + 1
    BY <2>1, HardDiskAssumption
  <2>3. e[new.id] = <<>>
    OBVIOUS
  <2>4. MovedSoFar(q, e, m)
    BY DEF Progress
  <2> SUFFICES ASSUME NEW i \in 1..Len(a)
               PROVE  /\ e[a[i].id] = <<>>
                      /\ m[a[i].id] = 1..(a[i].sector - 1)
                      /\ a[i].sector >= 1 /\ a[i].left >= 1
                      /\ a[i].sector + a[i].left = Sectors + 1
    BY DEF MovedSoFar
  <2>5. CASE i \in 1..Len(q)
    BY <1>2, <2>4, <2>5 DEF MovedSoFar
  <2>6. CASE i = Len(q) + 1
    BY <1>2, <2>2, <2>3, <2>6
  <2> QED BY <1>3, <2>5, <2>6
<1>7. NewNotMoved(a, e, m)
  BY <1>2, <1>4 DEF NewNotMoved, Progress
<1> QED BY <1>2, <1>5, <1>6, <1>7 DEF Progress, QueueTypes, a

(* CURRENT has one sector more, or another count of errors, or neither.    *)
LEMMA HeadChanges ==
  ASSUME NEW q, NEW e, NEW m, Progress(q, e, m), q # <<>>, NEW new \in Request,
         new.id = Head(q).id, NEW M \in SUBSET Nat,
         M = 1..(new.sector - 1), new.sector >= 1, new.left >= 1,
         new.sector + new.left = Sectors + 1
  PROVE  Progress([q EXCEPT ![1] = new], e, [m EXCEPT ![new.id] = M])
<1> DEFINE c == [q EXCEPT ![1] = new]
           m2 == [m EXCEPT ![new.id] = M]
<1>1. /\ q \in Seq(Request) /\ Len(q) \in Nat \ {0} /\ q[1] = Head(q) /\ new.id \in Requests
      /\ \A i \in 1..Len(q) : q[i] \in Request
      /\ m \in [Requests -> SUBSET Nat]
  <2>1. q \in Seq(Request) /\ Len(q) \in Nat \ {0} /\ q[1] = Head(q)
    BY EmptySeq DEF Progress, QueueTypes
  <2>2. new.id \in Requests
    BY DEF Request
  <2>3. \A i \in 1..Len(q) : q[i] \in Request
    BY <2>1, ElementOfSeq
  <2> QED BY <2>1, <2>2, <2>3 DEF Progress, QueueTypes
<1>2. /\ c \in Seq(Request) /\ Len(c) = Len(q)
      /\ \A i \in 1..Len(q) : c[i] = IF i = 1 THEN new ELSE q[i]
  BY <1>1, ExceptSeq
<1>3. \A i \in 1..Len(q) : c[i].id = q[i].id
  BY <1>1, <1>2
<1>4. m2 \in [Requests -> SUBSET Nat] /\ m2[new.id] = M
      /\ \A r \in Requests \ {new.id} : m2[r] = m[r]
  BY <1>1
<1>5. \A i \in 1..Len(q) : q[i].id \in Requests /\ (i # 1 => q[i].id # new.id)
  <2>1. \A i \in 1..Len(q) : q[i].id \in Requests
    BY <1>1 DEF Request
  <2>2. 1 \in 1..Len(q) /\ q[1].id = new.id
    BY <1>1
  <2> QED BY <2>1, <2>2 DEF Progress, OnceQueued
<1> HIDE DEF c, m2
<1>6. e[new.id] = <<>>
  <2>1. 1 \in 1..Len(q) /\ q[1].id = new.id
    BY <1>1
  <2> QED BY <2>1 DEF Progress, MovedSoFar
<1>7. OnceQueued(c)
  BY <1>2, <1>3 DEF Progress, OnceQueued
<1>8. MovedSoFar(c, e, m2)
  <2> SUFFICES ASSUME NEW i \in 1..Len(q)
               PROVE  /\ e[c[i].id] = <<>>
                      /\ m2[c[i].id] = 1..(c[i].sector - 1)
                      /\ c[i].sector >= 1 /\ c[i].left >= 1
                      /\ c[i].sector + c[i].left = Sectors + 1
    BY <1>2 DEF MovedSoFar
  <2>1. CASE i = 1
    BY <1>2, <1>4, <1>6, <2>1
  <2>2. CASE i # 1
    BY <1>2, <1>4, <1>5, <2>2 DEF Progress, MovedSoFar
  <2> QED BY <2>1, <2>2
<1>9. MovedIfOk(e, m2)
  <2>1. <<>> # <<"ok">>
    OBVIOUS
  <2> QED BY <1>4, <1>6, <2>1 DEF Progress, MovedIfOk
<1>10. NewNotMoved(c, e, m2)
  <2>1. 1 \in 1..Len(q) /\ c[1].id = new.id
    BY <1>1, <1>2
  <2> QED BY <1>2, <1>3, <1>4, <2>1 DEF Progress, NewNotMoved
<1> QED BY <1>2, <1>4, <1>7, <1>8, <1>9, <1>10 DEF Progress, QueueTypes, c, m2

-----------------------------------------------------------------------------
(* The facts about CURRENT that the steps of the driver use.               *)
LEMMA CurrentFits ==
  ASSUME DriverInv, queued # <<>>
  PROVE  /\ queued \in Seq(Request) /\ CURRENT \in Request /\ CURRENT = queued[1]
         /\ 1 \in 1..Len(queued) /\ 1 \in DOMAIN queued
         /\ CURRENT.sector >= 1 /\ CURRENT.left >= 1
         /\ CURRENT.sector + CURRENT.left = Sectors + 1
         /\ moved[CURRENT.id] = 1..(CURRENT.sector - 1)
<1>1. queued \in Seq(Request) /\ Len(queued) \in Nat \ {0} /\ CURRENT = queued[1]
  BY EmptySeq DEF DriverInv, Progress, QueueTypes, CURRENT
<1>2. 1 \in 1..Len(queued) /\ DOMAIN queued = 1..Len(queued)
  BY <1>1, LenProperties
<1>3. CURRENT \in Request
  BY <1>1, <1>2, ElementOfSeq
<1> QED BY <1>1, <1>2, <1>3 DEF DriverInv, Progress, MovedSoFar

(* bad_rw_intr and hd_times_out: an error more, or the end of the request. *)
LEMMA ErrorCounted ==
  ASSUME DriverInv, queued # <<>>, CountError
  PROVE  Progress(queued', ended', moved)
<1>1. /\ queued \in Seq(Request) /\ CURRENT \in Request /\ CURRENT = queued[1]
      /\ 1 \in DOMAIN queued
      /\ CURRENT.sector >= 1 /\ CURRENT.left >= 1
      /\ CURRENT.sector + CURRENT.left = Sectors + 1
      /\ moved[CURRENT.id] = 1..(CURRENT.sector - 1)
  BY CurrentFits
<1>2. Progress(queued, ended, moved) /\ moved \in [Requests -> SUBSET Nat]
  BY DEF DriverInv, Progress, QueueTypes
<1>3. CURRENT.id \in Requests /\ moved[CURRENT.id] \in SUBSET Nat
  BY <1>1, <1>2 DEF Request
<1>4. [moved EXCEPT ![CURRENT.id] = moved[CURRENT.id]] = moved
  BY <1>2, <1>3
<1>5. CASE GivesUp
  <2>1. /\ queued' = Tail(queued)
        /\ ended' = [ended EXCEPT ![CURRENT.id] = Append(@, "error")]
    BY <1>5 DEF CountError, Failed
  <2>2. Progress(Tail(queued), [ended EXCEPT ![CURRENT.id] = Append(@, "error")],
                 [moved EXCEPT ![CURRENT.id] = moved[CURRENT.id]])
    BY <1>2, <1>3, HeadEnds DEF CURRENT
  <2> QED BY <1>4, <2>1, <2>2
<1>6. CASE ~GivesUp
  <2> DEFINE new == [CURRENT EXCEPT !.errors = @ + 1]
  <2>1. /\ new \in Request /\ new.id = CURRENT.id /\ new.sector = CURRENT.sector
        /\ new.left = CURRENT.left
    <3>1. CURRENT \in Request
      BY <1>1
    <3> HIDE DEF CURRENT
    <3>2. CURRENT.errors + 1 \in Nat
      BY <3>1 DEF Request
    <3> QED BY <3>1, <3>2 DEF Request
  <2>2. queued' = [queued EXCEPT ![1] = new] /\ ended' = ended
    BY <1>1, <1>6 DEF CountError, Failed
  <2> HIDE DEF new
  <2>3. Progress([queued EXCEPT ![1] = new], ended, [moved EXCEPT ![new.id] = moved[CURRENT.id]])
    BY <1>1, <1>2, <1>3, <2>1, HeadChanges DEF CURRENT
  <2> QED BY <1>4, <2>1, <2>2, <2>3
<1> QED BY <1>5, <1>6

(* A step that gives the drive a command of its own, or leaves the handler *)
(* alone until do_hd_request or reset_hd is done.                          *)
LEMMA NotAwaited ==
  ASSUME DriveTypes', ~Awaits(ForCurrent)', Progress(queued, ended, moved)'
  PROVE  DriverInv'
BY DEF DriverInv, HandlerFits, Awaits, ForCurrent, Transfers

LEMMA DriveCommanded ==
  ASSUME DriverInv, NEW cmd \in {HD_READ, HD_WRITE, "restore", "specify"}, NEW handler,
         hd_out(cmd, handler), cmd \in Commands => queued # <<>>
  PROVE  /\ DriveTypes'
         /\ drive' = [at |-> "busy", cmd |-> cmd,
                      id |-> IF cmd \in Commands THEN CURRENT.id ELSE None,
                      sector |-> IF cmd \in Commands THEN CURRENT.sector ELSE 0]
         /\ do_hd' = handler
<1>1. cmd \in Commands => CURRENT.id \in Requests /\ CURRENT.sector \in Nat
  BY CurrentFits DEF Request
<1> QED BY <1>1 DEF hd_out, DriveTypes, Commands

-----------------------------------------------------------------------------
(* The steps of the drive and of the interrupt, which leave the queue.     *)
LEMMA DriveDoneKeeps == DriverInv /\ DriveDone => DriverInv'
<1> SUFFICES ASSUME DriverInv, DriveDone PROVE DriverInv'
  OBVIOUS
<1>1. PICK result \in {"ready", "error"} : drive' = [drive EXCEPT !.at = result]
  BY DEF DriveDone
<1>2. DriveTypes /\ UNCHANGED <<queued, ended, moved, call, do_hd>>
  BY DEF DriveDone, DriverInv, HandlerFits
<1>3. DriveTypes' /\ drive'.at = result /\ drive'.cmd = drive.cmd /\ drive'.id = drive.id
      /\ drive'.sector = drive.sector
  BY <1>1, <1>2 DEF DriveTypes
<1>4. drive.at = "busy"
  BY DEF DriveDone, Busy
<1> QED BY <1>2, <1>3, <1>4 DEF DriverInv, HandlerFits, Awaits, AtSector, CURRENT

LEMMA HdInterruptKeeps == DriverInv /\ HdInterrupt => DriverInv'
<1> SUFFICES ASSUME DriverInv, HdInterrupt PROVE DriverInv'
  OBVIOUS
<1>1. /\ UNCHANGED <<queued, ended, moved, drive>>
      /\ call = None /\ do_hd' = None
      /\ call' = IF do_hd = None THEN "unexpected" ELSE do_hd
  BY DEF HdInterrupt
<1>2. (Awaits(ForCurrent)' => Awaits(ForCurrent)) /\ (Awaits(Transfers)' => Awaits(Transfers))
  BY <1>1 DEF Awaits, ForCurrent, Transfers, None
<1> QED BY <1>1, <1>2 DEF DriverInv, HandlerFits, DriveTypes, AtSector, CURRENT

(* A request that comes in does not move CURRENT, if there is one.         *)
LEMMA NewRequestKeeps == ASSUME NEW r \in Requests PROVE DriverInv /\ NewRequest(r) => DriverInv'
<1> SUFFICES ASSUME DriverInv, NewRequest(r) PROVE DriverInv'
  OBVIOUS
<1>1. PICK cmd \in {HD_READ, HD_WRITE}, inside \in BOOLEAN :
        queued' = Append(queued, [id |-> r, cmd |-> cmd, inside |-> inside,
                                  sector |-> 1, left |-> Sectors, errors |-> 0])
  BY DEF NewRequest
<1> DEFINE new == [id |-> r, cmd |-> cmd, inside |-> inside,
                   sector |-> 1, left |-> Sectors, errors |-> 0]
<1>2. new \in Request /\ new.id = r /\ new.sector = 1 /\ new.left = Sectors
  BY HardDiskAssumption DEF Request, Commands
<1>3. queued' = Append(queued, new)
  BY <1>1
<1> HIDE DEF new
<1>4. /\ call = None /\ UNCHANGED <<ended, moved, drive, do_hd>>
      /\ call' = IF queued = <<>> THEN "do_hd_request" ELSE None
      /\ r \notin Known
  BY DEF NewRequest
<1>5. Progress(queued, ended, moved) /\ queued \in Seq(Request) /\ Len(queued) \in Nat
      /\ DOMAIN queued = 1..Len(queued)
  <2>1. Progress(queued, ended, moved) /\ queued \in Seq(Request)
    BY DEF DriverInv, Progress, QueueTypes
  <2> QED BY <2>1, LenProperties
<1>6. ended[r] = <<>> /\ \A i \in 1..Len(queued) : queued[i].id # r
  BY <1>4, <1>5 DEF Known
<1>7. Progress(queued', ended', moved')
  BY <1>2, <1>3, <1>4, <1>5, <1>6, NewQueued
<1>8. DriveTypes'
  BY <1>4 DEF DriverInv, HandlerFits, DriveTypes
<1>9. CASE queued = <<>>
  <2>1. call' = "do_hd_request"
    BY <1>4, <1>9
  <2> QED BY <1>7, <1>8, <2>1, NotAwaited DEF Awaits, ForCurrent, Transfers, None
<1>10. CASE queued # <<>>
  <2>1. queued' # <<>> /\ CURRENT' = CURRENT
    <3>1. Len(queued) >= 1
      BY <1>5, <1>10, EmptySeq
    <3>2. /\ queued' \in Seq(Request) /\ Len(queued') = Len(queued) + 1
          /\ queued'[1] = queued[1]
      BY <1>2, <1>3, <1>5, <3>1, AppendProperties
    <3>3. queued' # <<>>
      BY <1>5, <3>1, <3>2, EmptySeq
    <3> QED BY <1>5, <1>10, <3>2, <3>3, HeadTailProperties DEF CURRENT
  <2>2. call' = None
    BY <1>4, <1>10
  <2> QED BY <1>4, <1>7, <1>8, <2>1, <2>2 DEF DriverInv, HandlerFits, Awaits, AtSector
<1> QED BY <1>9, <1>10

-----------------------------------------------------------------------------
(* An error of CURRENT, after which no handler of its commands is called.  *)
LEMMA ErrorKeeps ==
  ASSUME DriverInv, queued # <<>>, CountError, moved' = moved, DriveTypes', ~Awaits(ForCurrent)'
  PROVE  DriverInv'
BY ErrorCounted, NotAwaited

LEMMA HdTimesOutKeeps == DriverInv /\ HdTimesOut => DriverInv'
<1> SUFFICES ASSUME DriverInv, HdTimesOut PROVE DriverInv'
  OBVIOUS
<1>1. UNCHANGED <<drive, moved>> /\ DriveTypes
  BY DEF HdTimesOut, DriverInv, HandlerFits
<1>2. CASE queued = <<>>
  <2>1. UNCHANGED <<queued, ended, do_hd, call>>
    BY <1>2 DEF HdTimesOut
  <2> QED BY <1>1, <2>1 DEF DriverInv, HandlerFits, DriveTypes, Awaits, AtSector, CURRENT
<1>3. CASE queued # <<>>
  <2>1. CountError /\ call' = "do_hd_request"
    BY <1>3 DEF HdTimesOut, TimeOutError
  <2>2. DriveTypes' /\ ~Awaits(ForCurrent)'
    BY <1>1, <2>1 DEF DriveTypes, Awaits, ForCurrent, Transfers, None
  <2> QED BY <1>1, <1>3, <2>1, <2>2, ErrorKeeps
<1> QED BY <1>2, <1>3

LEMMA FailsKeeps == ASSUME NEW c \in ForCurrent PROVE DriverInv /\ Fails(c) => DriverInv'
<1> SUFFICES ASSUME DriverInv, Fails(c) PROVE DriverInv'
  OBVIOUS
<1>1. call = c /\ CountError /\ call' = "do_hd_request" /\ UNCHANGED <<drive, moved>>
  BY DEF Fails, bad_rw_intr
<1>2. queued # <<>> /\ DriveTypes
  BY <1>1 DEF DriverInv, HandlerFits, Awaits
<1>3. DriveTypes' /\ ~Awaits(ForCurrent)'
  BY <1>1, <1>2 DEF DriveTypes, Awaits, ForCurrent, Transfers, None
<1> QED BY <1>1, <1>2, <1>3, ErrorKeeps

(* Steps that leave the queue and the drive, and call another handler.     *)
LEMMA OnlyCalls ==
  ASSUME DriverInv, UNCHANGED <<queued, ended, moved, drive>>,
         call' \notin ForCurrent, call' = None => do_hd' \notin ForCurrent
  PROVE  DriverInv'
<1>1. ~Awaits(ForCurrent)' /\ Progress(queued, ended, moved)'
  BY DEF Awaits, DriverInv
<1>2. DriveTypes'
  BY DEF DriverInv, HandlerFits, DriveTypes
<1> QED BY <1>1, <1>2, NotAwaited

LEMMA CallsKeep ==
  DriverInv /\ (Unexpected \/ NoRequest \/ StartReset) => DriverInv'
<1> SUFFICES ASSUME DriverInv, Unexpected \/ NoRequest \/ StartReset PROVE DriverInv'
  OBVIOUS
<1>1. UNCHANGED <<queued, ended, moved, drive>>
  BY DEF Unexpected, NoRequest, StartReset
<1>2. call' \notin ForCurrent /\ (call' = None => do_hd' \notin ForCurrent)
  BY DEF Unexpected, NoRequest, StartReset, ForCurrent, Transfers, None
<1> QED BY <1>1, <1>2, OnlyCalls

LEMMA BadSectorKeeps == DriverInv /\ BadSector => DriverInv'
<1> SUFFICES ASSUME DriverInv, BadSector PROVE DriverInv'
  OBVIOUS
<1>1. /\ queued # <<>> /\ call = "do_hd_request" /\ UNCHANGED <<call, drive, moved>>
      /\ queued' = Tail(queued) /\ ended' = [ended EXCEPT ![CURRENT.id] = Append(@, "error")]
  BY DEF BadSector, Asked, end_request
<1>2. /\ CURRENT \in Request /\ moved \in [Requests -> SUBSET Nat]
      /\ Progress(queued, ended, moved) /\ DriveTypes
  BY <1>1, CurrentFits DEF DriverInv, Progress, QueueTypes, HandlerFits
<1>3. CURRENT.id \in Requests /\ moved[CURRENT.id] \in SUBSET Nat
      /\ [moved EXCEPT ![CURRENT.id] = moved[CURRENT.id]] = moved
  BY <1>2 DEF Request
<1>4. Progress(queued', ended', [moved EXCEPT ![CURRENT.id] = moved[CURRENT.id]])
  BY <1>1, <1>2, <1>3, HeadEnds DEF CURRENT
<1>5. DriveTypes' /\ ~Awaits(ForCurrent)'
  BY <1>1, <1>2 DEF DriveTypes, Awaits, ForCurrent, Transfers, None
<1> QED BY <1>1, <1>3, <1>4, <1>5, NotAwaited

-----------------------------------------------------------------------------
(* A command for CURRENT, which has the drive at CURRENT's sector.         *)
LEMMA TransferStarts ==
  ASSUME DriverInv, queued # <<>>, NEW handler \in Transfers,
         hd_out(CURRENT.cmd, handler), call' = None, UNCHANGED <<queued, ended, moved>>
  PROVE  DriverInv'
<1>1. CURRENT.cmd \in Commands
  BY CurrentFits DEF Request
<1>2. DriveTypes' /\ do_hd' = handler
      /\ drive' = [at |-> "busy", cmd |-> CURRENT.cmd, id |-> CURRENT.id,
                   sector |-> CURRENT.sector]
  BY <1>1, DriveCommanded DEF Commands
<1>3. AtSector' /\ drive'.at = "busy"
  BY <1>2 DEF AtSector, CURRENT
<1> QED BY <1>2, <1>3 DEF DriverInv, HandlerFits

LEMMA ReadWriteKeep == DriverInv /\ (Recalibrate \/ Read \/ Write) => DriverInv'
<1> SUFFICES ASSUME DriverInv, Recalibrate \/ Read \/ Write PROVE DriverInv'
  OBVIOUS
<1>1. queued # <<>> /\ call = "do_hd_request" /\ moved' = moved
  BY DEF Recalibrate, Read, Write, Ready, Asked
<1>2. CASE Recalibrate
  <2>1. hd_out("restore", "recal_intr") /\ call' = None /\ UNCHANGED <<queued, ended, moved>>
    BY <1>2 DEF Recalibrate
  <2>2. DriveTypes' /\ do_hd' = "recal_intr"
    BY <2>1, DriveCommanded DEF Commands, HD_READ, HD_WRITE
  <2>3. ~Awaits(Transfers)'
    BY <2>1, <2>2 DEF Awaits, Transfers, None
  <2> QED BY <1>1, <2>1, <2>2, <2>3 DEF DriverInv, HandlerFits
<1>3. CASE Read
  <2>1. hd_out(CURRENT.cmd, "read_intr") /\ call' = None /\ UNCHANGED <<queued, ended, moved>>
    BY <1>3 DEF Read
  <2> QED BY <1>1, <2>1, TransferStarts DEF Transfers
<1>4. CASE Write /\ call' = None
  <2>1. hd_out(CURRENT.cmd, "write_intr") /\ UNCHANGED <<queued, ended, moved>>
    BY <1>1, <1>4 DEF Write, None
  <2> QED BY <1>1, <1>4, <2>1, TransferStarts DEF Transfers
<1>5. CASE Write /\ call' # None
  <2>1. CountError /\ call' = call /\ drive' = [Resting EXCEPT !.at = "error"]
    BY <1>5 DEF Write, bad_rw_intr
  <2>2. DriveTypes'
    BY <2>1 DEF DriveTypes, Resting, None
  <2>3. ~Awaits(ForCurrent)'
    BY <1>1, <2>1 DEF Awaits, ForCurrent, Transfers, None
  <2> QED BY <1>1, <2>1, <2>2, <2>3, ErrorKeeps
<1> QED BY <1>2, <1>3, <1>4, <1>5

-----------------------------------------------------------------------------
(* reset_hd gives commands of its own: no handler of CURRENT is left.      *)
LEMMA SpecifyFits ==
  ASSUME DriverInv, NEW i, Specify(i)
  PROVE  DriveTypes' /\ ~Awaits(ForCurrent)'
<1>1. CASE hd_out("specify", "reset_hd") /\ call' = None
  <2>1. DriveTypes' /\ do_hd' = "reset_hd"
    BY <1>1, DriveCommanded DEF Commands, HD_READ, HD_WRITE
  <2> QED BY <1>1, <2>1 DEF Awaits, ForCurrent, Transfers, None
<1>2. CASE call' = "do_hd_request" /\ drive' = drive
  BY <1>2 DEF DriverInv, HandlerFits, DriveTypes, Awaits, ForCurrent, Transfers, None
<1> QED BY <1>1, <1>2 DEF Specify

LEMMA ResetKeeps == DriverInv /\ (ResetController \/ Specified \/ NotSpecified) => DriverInv'
<1> SUFFICES ASSUME DriverInv, ResetController \/ Specified \/ NotSpecified PROVE DriverInv'
  OBVIOUS
<1>1. CASE ResetController
  <2>1. /\ drive' = [Resting EXCEPT !.at = "busy", !.cmd = "specify"]
        /\ do_hd' = "reset_hd" /\ call' = None /\ UNCHANGED <<queued, ended, moved>>
    BY <1>1 DEF ResetController
  <2>2. DriveTypes'
    BY <2>1 DEF DriveTypes, Resting, None
  <2>3. ~Awaits(ForCurrent)' /\ Progress(queued, ended, moved)'
    BY <2>1 DEF DriverInv, Awaits, ForCurrent, Transfers, None
  <2> QED BY <2>2, <2>3, NotAwaited
<1>2. CASE Specified
  <2>1. Specify(specified + 1) /\ UNCHANGED <<queued, ended, moved>>
    BY <1>2 DEF Specified
  <2>2. DriveTypes' /\ ~Awaits(ForCurrent)'
    BY <2>1, SpecifyFits
  <2> QED BY <2>1, <2>2, NotAwaited DEF DriverInv
<1>3. CASE NotSpecified /\ queued = <<>>
  <2>1. call' = "null pointer" /\ UNCHANGED <<queued, ended, moved, drive>>
    BY <1>3 DEF NotSpecified
  <2> QED BY <2>1, OnlyCalls DEF ForCurrent, Transfers, None
<1>4. CASE NotSpecified /\ queued # <<>>
  <2>1. CountError /\ moved' = moved
    BY <1>4 DEF NotSpecified, bad_rw_intr
  <2>2. DriveTypes' /\ ~Awaits(ForCurrent)'
    <3>1. CASE reset'
      <4>1. call' = call /\ call = "reset_hd" /\ drive' = drive
        BY <1>4, <3>1 DEF NotSpecified
      <4> QED BY <4>1 DEF DriverInv, HandlerFits, DriveTypes, Awaits, ForCurrent, Transfers, None
    <3>2. CASE ~reset'
      <4>1. Specify(specified + 1)
        BY <1>4, <3>2 DEF NotSpecified
      <4> QED BY <4>1, SpecifyFits
    <3> QED BY <3>1, <3>2
  <2> QED BY <1>4, <2>1, <2>2, ErrorKeeps
<1> QED BY <1>1, <1>2, <1>3, <1>4

-----------------------------------------------------------------------------
(* The three fields that a sector moved changes in CURRENT.                *)
LEMMA OneSectorOn ==
  ASSUME NEW r \in Request, NEW errors
  PROVE  [[[r EXCEPT !.errors = errors] EXCEPT !.sector = @ + 1] EXCEPT !.left = @ - 1]
           = [id |-> r.id, cmd |-> r.cmd, inside |-> r.inside, sector |-> r.sector + 1,
              left |-> r.left - 1, errors |-> errors]
<1> DEFINE r1 == [r EXCEPT !.errors = errors]
           r2 == [r1 EXCEPT !.sector = @ + 1]
<1>1. r1 = [id |-> r.id, cmd |-> r.cmd, inside |-> r.inside, sector |-> r.sector,
            left |-> r.left, errors |-> errors]
  BY DEF Request
<1> HIDE DEF r1
<1>2. r2 = [id |-> r.id, cmd |-> r.cmd, inside |-> r.inside, sector |-> r.sector + 1,
            left |-> r.left, errors |-> errors]
  BY <1>1
<1> HIDE DEF r2
<1>3. [r2 EXCEPT !.left = @ - 1]
        = [id |-> r.id, cmd |-> r.cmd, inside |-> r.inside, sector |-> r.sector + 1,
           left |-> r.left - 1, errors |-> errors]
  BY <1>2
<1> QED BY <1>3 DEF r1, r2

(* A sector is done: an answer that is good can only be that of CURRENT.   *)
LEMMA SectorDoneKeeps ==
  ASSUME NEW c \in Transfers, NEW errors \in Nat, DriverInv, SectorDone(c, errors)
  PROVE  DriverInv'
<1>1. queued # <<>> /\ drive.at = "ready" /\ AtSector /\ DriveTypes
  <2>1. call = c /\ drive.at \in {"idle", "ready"}
    BY DEF SectorDone, WinOk
  <2> QED BY <2>1 DEF DriverInv, HandlerFits, Awaits, ForCurrent
<1>2. /\ queued \in Seq(Request) /\ CURRENT \in Request /\ CURRENT = queued[1]
      /\ 1 \in DOMAIN queued
      /\ CURRENT.sector >= 1 /\ CURRENT.left >= 1
      /\ CURRENT.sector + CURRENT.left = Sectors + 1
      /\ moved[CURRENT.id] = 1..(CURRENT.sector - 1)
  BY <1>1, CurrentFits
<1>3. Progress(queued, ended, moved) /\ moved \in [Requests -> SUBSET Nat]
  BY DEF DriverInv, Progress, QueueTypes
<1>4. CURRENT.id \in Requests /\ CURRENT.sector \in Nat /\ CURRENT.left \in Nat
  BY <1>2 DEF Request
<1> DEFINE M == moved[CURRENT.id] \cup {CURRENT.sector}
<1>5. moved' = [moved EXCEPT ![CURRENT.id] = M]
  BY <1>1 DEF SectorDone, Moved, AtSector
<1>6. M \in SUBSET Nat /\ M = 1..CURRENT.sector
  BY <1>2, <1>3, <1>4
<1> HIDE DEF M
<1>7. CASE CURRENT.left > 1
  <2> DEFINE new == [id |-> CURRENT.id, cmd |-> CURRENT.cmd, inside |-> CURRENT.inside,
                     sector |-> CURRENT.sector + 1, left |-> CURRENT.left - 1,
                     errors |-> errors]
  <2>1. /\ queued' = NextSector(errors) /\ ended' = ended
        /\ drive' = [drive EXCEPT !.at = "busy", !.sector = @ + 1]
    BY <1>7 DEF SectorDone
  <2>2. new \in Request /\ new.id = CURRENT.id /\ new.sector = CURRENT.sector + 1
        /\ new.left = CURRENT.left - 1 /\ new.cmd = CURRENT.cmd
    BY <1>2, <1>4, <1>7 DEF Request
  <2>3. queued' = [queued EXCEPT ![1] = new]
    <3>1. new = [[[CURRENT EXCEPT !.errors = errors] EXCEPT !.sector = @ + 1]
                   EXCEPT !.left = @ - 1]
      BY <1>2, OneSectorOn
    <3>2. queued' = [queued EXCEPT ![1] =
                       [[[CURRENT EXCEPT !.errors = errors] EXCEPT !.sector = @ + 1]
                          EXCEPT !.left = @ - 1]]
      BY <1>2, <2>1 DEF NextSector, Request
    <3> QED BY <3>1, <3>2
  <2> HIDE DEF new
  <2>4. Progress(queued', ended', moved')
    <3>1. M = 1..(new.sector - 1) /\ new.sector >= 1 /\ new.left >= 1
          /\ new.sector + new.left = Sectors + 1
      <4>1. CURRENT.sector + 1 - 1 = CURRENT.sector
        BY <1>4
      <4> QED BY <1>2, <1>4, <1>6, <1>7, <2>2, <4>1, HardDiskAssumption, SMTT(30)
    <3>2. Progress([queued EXCEPT ![1] = new], ended, [moved EXCEPT ![new.id] = M])
      <4>1. new.id = Head(queued).id
        BY <2>2 DEF CURRENT
      <4> QED BY <1>1, <1>3, <1>6, <2>2, <3>1, <4>1, HeadChanges
    <3> QED BY <1>5, <2>1, <2>2, <2>3, <3>2
  <2>5. queued' # <<>> /\ CURRENT' = new
    <3>1. queued' \in Seq(Request) /\ Len(queued') = Len(queued) /\ queued'[1] = new
      BY <1>2, <2>2, <2>3, ExceptSeq, LenProperties
    <3>2. Len(queued) # 0
      BY <1>1, <1>2, EmptySeq
    <3>3. queued' # <<>>
      BY <3>1, <3>2, EmptySeq
    <3> QED BY <3>1, <3>3, HeadTailProperties DEF CURRENT
  <2>6. DriveTypes' /\ drive'.at = "busy" /\ AtSector'
    <3>1. drive.sector + 1 \in Nat /\ drive.sector = CURRENT.sector
      BY <1>1, <1>4 DEF AtSector
    <3>2. /\ DriveTypes' /\ drive'.at = "busy" /\ drive'.cmd = drive.cmd
          /\ drive'.id = drive.id /\ drive'.sector = drive.sector + 1
      BY <1>1, <2>1, <3>1 DEF DriveTypes
    <3> QED BY <1>1, <2>2, <2>5, <3>1, <3>2 DEF AtSector
  <2> QED BY <2>4, <2>5, <2>6 DEF DriverInv, HandlerFits
<1>8. CASE CURRENT.left = 1
  <2>1. /\ queued' = Tail(queued)
        /\ ended' = [ended EXCEPT ![CURRENT.id] = Append(@, "ok")]
        /\ call' = "do_hd_request" /\ drive' = Resting
    BY <1>8 DEF SectorDone, end_request
  <2>2. M = 1..Sectors
    BY <1>2, <1>4, <1>6, <1>8, HardDiskAssumption
  <2>3. Progress(queued', ended', moved')
    BY <1>1, <1>3, <1>5, <1>6, <2>1, <2>2, HeadEnds DEF CURRENT
  <2>4. DriveTypes' /\ ~Awaits(ForCurrent)'
    BY <2>1 DEF DriveTypes, Resting, Awaits, ForCurrent, Transfers, None
  <2> QED BY <2>3, <2>4, NotAwaited
<1> QED BY <1>2, <1>4, <1>7, <1>8

LEMMA HandlersKeep == DriverInv /\ (read_intr \/ write_intr \/ recal_intr) => DriverInv'
<1> SUFFICES ASSUME DriverInv, read_intr \/ write_intr \/ recal_intr PROVE DriverInv'
  OBVIOUS
<1>1. CASE \E c \in ForCurrent : Fails(c)
  BY <1>1, FailsKeeps
<1>2. CASE SectorDone("read_intr", 0)
  BY <1>2, SectorDoneKeeps DEF Transfers
<1>3. CASE SectorDone("write_intr", CURRENT.errors)
  <2>1. queued # <<>>
    BY <1>3 DEF SectorDone, DriverInv, HandlerFits, Awaits, ForCurrent, Transfers
  <2>2. CURRENT.errors \in Nat
    BY <2>1, CurrentFits DEF Request
  <2> QED BY <1>3, <2>2, SectorDoneKeeps DEF Transfers
<1>4. CASE recal_intr /\ ~Fails("recal_intr")
  <2>1. UNCHANGED <<queued, ended, moved, drive>> /\ call' = "do_hd_request"
    BY <1>4 DEF recal_intr
  <2> QED BY <2>1, OnlyCalls DEF ForCurrent, Transfers, None
<1> QED BY <1>1, <1>2, <1>3, <1>4 DEF read_intr, write_intr, recal_intr, ForCurrent, Transfers

-----------------------------------------------------------------------------
(* The first state: nothing is queued, nothing is awaited.                 *)
LEMMA DriverInitFits == HdInit => DriverInv
<1> SUFFICES ASSUME HdInit PROVE DriverInv
  OBVIOUS
<1>1. /\ queued = <<>> /\ moved = [r \in Requests |-> {}] /\ ended = [r \in Requests |-> <<>>]
      /\ do_hd = None /\ call = None /\ drive = Resting
  BY DEF HdInit
<1>2. <<>> \in Seq(Request) /\ Len(queued) = 0 /\ <<>> \in Seq({"ok", "error"})
      /\ <<>> # <<"ok">>
  BY <1>1, EmptySeq
<1>3. Progress(queued, ended, moved)
  BY <1>1, <1>2 DEF Progress, QueueTypes, OnceQueued, MovedSoFar, MovedIfOk, NewNotMoved
<1>4. HandlerFits
  BY <1>1 DEF HandlerFits, DriveTypes, Resting, Awaits, ForCurrent, Transfers, None
<1> QED BY <1>3, <1>4 DEF DriverInv

LEMMA DriverNextFits == DriverInv /\ [HdNext]_hdVars => DriverInv'
<1> SUFFICES ASSUME DriverInv, [HdNext]_hdVars PROVE DriverInv'
  OBVIOUS
<1>1. CASE Handler
  BY <1>1, CallsKeep, BadSectorKeeps, ReadWriteKeep, ResetKeeps, HandlersKeep DEF Handler
<1>2. CASE DriveDone \/ HdInterrupt \/ HdTimesOut
  BY <1>2, DriveDoneKeeps, HdInterruptKeeps, HdTimesOutKeeps
<1>3. CASE \E r \in Requests : NewRequest(r)
  BY <1>3, NewRequestKeeps
<1>4. CASE UNCHANGED hdVars
  BY <1>4 DEF hdVars, DriverInv, Progress, QueueTypes, OnceQueued, MovedSoFar, MovedIfOk,
              NewNotMoved, HandlerFits, DriveTypes, Awaits, AtSector, CURRENT
<1> QED BY <1>1, <1>2, <1>3, <1>4 DEF HdNext

(* However late the drive's interrupts come, and whatever commands the     *)
(* driver gives between them: what end_request ends as done has been moved *)
(* by its own command, every sector, and nothing is ended twice.           *)
THEOREM OkIsMovedAlways == HdSpec => []OkIsMoved
<1>1. DriverInv => OkIsMoved
  BY DEF DriverInv, Progress, MovedIfOk, OkIsMoved
<1> QED BY <1>1, DriverInitFits, DriverNextFits, PTL DEF HdSpec

-----------------------------------------------------------------------------
(***************************************************************************)
(* The kernel timers, for any handlers, any delays and any size of the     *)
(* table.  A list of deltas says when each entry expires only by the sum   *)
(* of those before it; the invariant has these sums, one for each place    *)
(* (OnTime), and that no entry expires before it is due.  The sums change  *)
(* with the list: setting a timer makes a new one and puts the ones behind *)
(* off, a tick takes one from each, and an entry that expired had 0.       *)
(***************************************************************************)
Entry == [jiffies : Nat, fn : Fns]
Dues == {x \in Int : x <= NotArmed}

(* The entries expire at these times, and are due then or before.          *)
OnTime(list, at, D) ==
  /\ at \in [0..Len(list) -> Int] /\ at[0] = 0
  /\ \A i \in 1..Len(list) : at[i] = at[i - 1] + list[i].jiffies /\ D[list[i].fn] <= at[i]
ListFits(list, D) ==
  /\ list \in Seq(Entry)
  /\ \A i, k \in 1..Len(list) : list[i].fn = list[k].fn => i = k
  /\ \A i \in 1..Len(list) : D[list[i].fn] # NotArmed
  /\ \E at : OnTime(list, at, D)
HeadAhead(list) == list # <<>> => list[1].jiffies > 0

(* The inductive invariant: between ticks the head has some time left.     *)
TimerInv ==
  /\ due \in [Fns -> Dues] /\ in_tick \in BOOLEAN
  /\ ListFits(next_timer, due)
  /\ ~in_tick => HeadAhead(next_timer)

LEMMA NotArmedIs == NotArmed \in Int /\ NotArmed = MaxTimer + 1
BY TimerAssumption DEF NotArmed

(* What the elements of a list are.                                        *)
LEMMA EntriesOf ==
  ASSUME NEW list \in Seq(Entry)
  PROVE  /\ Len(list) \in Nat /\ \A i \in 1..Len(list) : list[i] \in Entry
         /\ \A i \in 1..Len(list) : list[i].jiffies \in Nat /\ list[i].fn \in Fns
         /\ list # <<>> => Len(list) > 0 /\ 1 \in 1..Len(list) /\ Head(list) = list[1]
<1>1. Len(list) \in Nat /\ \A i \in 1..Len(list) : list[i] \in Entry
  OBVIOUS
<1>2. \A e \in Entry : e.jiffies \in Nat /\ e.fn \in Fns
  BY DEF Entry
<1>3. list # <<>> => Len(list) > 0 /\ 1 \in 1..Len(list) /\ Head(list) = list[1]
  OBVIOUS
<1> QED BY <1>1, <1>2, <1>3

(* What add_timer subtracts on its way.                                    *)
LEMMA LeftIs ==
  ASSUME NEW list \in Seq(Entry), NEW at, NEW j \in Int,
         at \in [0..Len(list) -> Int], at[0] = 0,
         \A i \in 1..Len(list) : at[i] = at[i - 1] + list[i].jiffies
  PROVE  \A i \in 0..Len(list) : Left(list, j)[i] = j - at[i]
<1> DEFINE n == Len(list)
           Is(f) == f = [i \in 0..n |-> IF i = 0 THEN j ELSE f[i - 1] - list[i].jiffies]
           F == Left(list, j)
<1>1. n \in Nat /\ \A i \in 1..n : list[i] \in Entry
  OBVIOUS
<1>2. \A i \in 1..n : list[i].jiffies \in Nat
  BY <1>1 DEF Entry
<1>3. \E f : Is(f)
  <2> DEFINE f == [i \in 0..n |-> j - at[i]]
  <2>1. \A i \in 0..n : f[i] = IF i = 0 THEN j ELSE f[i - 1] - list[i].jiffies
    <3> SUFFICES ASSUME NEW i \in 0..n PROVE f[i] = IF i = 0 THEN j ELSE f[i - 1] - list[i].jiffies
      OBVIOUS
    <3>1. CASE i = 0
      BY <3>1, <1>1
    <3>2. CASE i # 0
      <4>1. i \in 1..n /\ i - 1 \in 0..n
        BY <3>2, <1>1
      <4>2. f[i] = j - at[i] /\ f[i - 1] = j - at[i - 1] /\ at[i] \in Int /\ at[i - 1] \in Int
        BY <4>1
      <4> HIDE DEF f
      <4>3. at[i] = at[i - 1] + list[i].jiffies /\ list[i].jiffies \in Nat
        BY <4>1, <1>2
      <4>4. f[i] = f[i - 1] - list[i].jiffies
        BY <4>2, <4>3
      <4> QED BY <3>2, <4>4
    <3> QED BY <3>1, <3>2
  <2>2. Is(f)
    <3> DEFINE g == [i \in 0..n |-> IF i = 0 THEN j ELSE f[i - 1] - list[i].jiffies]
    <3>1. f \in [0..n -> Int] /\ DOMAIN g = 0..n /\ DOMAIN f = 0..n
      OBVIOUS
    <3>2. g = [i \in 0..n |-> g[i]] /\ f = [i \in 0..n |-> f[i]]
      OBVIOUS
    <3>3. \A i \in 0..n : g[i] = f[i]
      BY <2>1
    <3> HIDE DEF f, g
    <3>4. f = g
      BY <3>2, <3>3
    <3> QED BY <3>4 DEF g
  <2> HIDE DEF f, Is
  <2> QED BY <2>2
<1>4. Is(F)
  <2>1. F = CHOOSE f : Is(f)
    BY DEF Left
  <2> HIDE DEF Is, F
  <2> QED BY <1>3, <2>1
<1> HIDE DEF F
<1>5. F = [i \in 0..n |-> IF i = 0 THEN j ELSE F[i - 1] - list[i].jiffies]
  BY <1>4
<1>6. F[0] = j /\ \A i \in 1..n : F[i] = F[i - 1] - list[i].jiffies
  <2>1. 0 \in 0..n /\ \A i \in 1..n : i \in 0..n /\ i # 0
    BY <1>1
  <2> QED BY <1>5, <2>1
<1> DEFINE Bad == {i \in 0..n : F[i] # j - at[i]}
<1>7. Bad = {}
  <2> SUFFICES ASSUME Bad # {} PROVE FALSE
    OBVIOUS
  <2>1. PICK i \in Bad : \A k \in Bad : i <= k
    <3>1. Bad \subseteq Nat
      BY <1>1
    <3> HIDE DEF Bad
    <3> QED BY <3>1, Smallest
  <2>2. i \in 0..n /\ F[i] # j - at[i]
    BY <2>1
  <2>3. CASE i = 0
    BY <2>2, <2>3, <1>6
  <2>4. CASE i # 0
    <3>1. i \in 1..n /\ i - 1 \in 0..n /\ ~(i <= i - 1)
      BY <2>2, <2>4, <1>1
    <3>2. F[i - 1] = j - at[i - 1]
      BY <2>1, <3>1
    <3>3. F[i] = F[i - 1] - list[i].jiffies /\ at[i] = at[i - 1] + list[i].jiffies
      BY <3>1, <1>6
    <3>4. at[i] \in Int /\ at[i - 1] \in Int /\ list[i].jiffies \in Nat
      BY <3>1, <2>2, <1>2
    <3> DEFINE a == at[i - 1]
               d == list[i].jiffies
    <3> HIDE DEF Bad
    <3>5. F[i] = j - at[i]
      <4>1. F[i] = (j - a) - d /\ at[i] = a + d /\ a \in Int /\ d \in Int
        BY <3>2, <3>3, <3>4
      <4> HIDE DEF a, d
      <4> QED BY <4>1
    <3> QED BY <3>5, <2>2
  <2> QED BY <2>3, <2>4
<1> QED BY <1>7 DEF F

(* The loop stops at a place in the list.                                  *)
LEMMA PlaceIs ==
  ASSUME NEW list, Len(list) \in Nat, NEW j
  PROVE  /\ Place(list, j) \in 0..Len(list)
         /\ \A i \in 1..Place(list, j) : Passes(list, j, i)
<1> DEFINE Ends == {k \in 0..Len(list) : k < Len(list) => ~Passes(list, j, k + 1)}
<1>1. Ends \subseteq Nat /\ Len(list) \in Ends
  OBVIOUS
<1>2. PICK k \in Ends : \A y \in Ends : k <= y
  <2> HIDE DEF Ends
  <2> QED BY <1>1, Smallest
<1>3. \A i \in 1..k : Passes(list, j, i)
  <2> SUFFICES ASSUME NEW i \in 1..k, ~Passes(list, j, i) PROVE FALSE
    OBVIOUS
  <2>1. i - 1 \in 0..Len(list) /\ (i - 1) + 1 = i /\ ~(k <= i - 1)
    BY <1>2
  <2>2. i - 1 \in Ends
    BY <2>1
  <2> QED BY <1>2, <2>1, <2>2
<1>4. k \in 0..Len(list) /\ (k < Len(list) => ~Passes(list, j, k + 1))
  BY <1>2
<1> DEFINE Here(l) == (\A i \in 1..l : Passes(list, j, i)) /\ (l < Len(list) => ~Passes(list, j, l + 1))
<1>5. Place(list, j) = CHOOSE l \in 0..Len(list) : Here(l)
  BY DEF Place
<1>6. Here(k)
  BY <1>3, <1>4
<1> HIDE DEF Here
<1>7. Place(list, j) \in 0..Len(list) /\ Here(Place(list, j))
  BY <1>4, <1>5, <1>6
<1> QED BY <1>7 DEF Here

(* A timer that is set behind those that expire before it.                 *)
LEMMA InsertFits ==
  ASSUME NEW D \in [Fns -> Dues], NEW list, ListFits(list, D),
         NEW g \in Fns, D[g] = NotArmed, NEW j \in 1..MaxTimer
  PROVE  /\ ListFits(Insert(list, j, g), [D EXCEPT ![g] = j])
         /\ HeadAhead(list) => HeadAhead(Insert(list, j, g))
<1> DEFINE n == Len(list)
           k == Place(list, j)
           new == Insert(list, j, g)
           C == [D EXCEPT ![g] = j]
<1>1. /\ list \in Seq(Entry) /\ n \in Nat /\ \A i \in 1..n : list[i] \in Entry
      /\ \A i \in 1..n : list[i].jiffies \in Nat /\ list[i].fn \in Fns
  <2>1. list \in Seq(Entry)
    BY DEF ListFits
  <2> QED BY <2>1, EntriesOf
<1>2. PICK at : OnTime(list, at, D)
  BY DEF ListFits
<1>3. /\ at \in [0..n -> Int] /\ at[0] = 0 /\ \A i \in 0..n : at[i] \in Int
      /\ \A i \in 1..n : at[i] = at[i - 1] + list[i].jiffies
      /\ \A i \in 1..n : D[list[i].fn] <= at[i]
  BY <1>2 DEF OnTime
<1>4. \A i \in 0..n : Left(list, j)[i] = j - at[i]
  <2>1. j \in Int
    BY TimerAssumption
  <2> QED BY <1>1, <1>3, <2>1, LeftIs
<1>5. k \in 0..n /\ \A i \in 1..k : Passes(list, j, i)
  BY <1>1, PlaceIs
<1> DEFINE e == [jiffies |-> j - at[k], fn |-> g]
<1>6. new = InsertAt(list, k + 1, e)
  BY <1>4, <1>5 DEF Insert
<1> HIDE DEF n, k
<1>7. j \in Int /\ j > 0 /\ j <= MaxTimer /\ MaxTimer \in Int
  BY TimerAssumption
<1>8. j - at[k] \in Nat /\ j - at[k] > 0
  <2>1. CASE k = 0
    BY <2>1, <1>3, <1>7
  <2>2. CASE k # 0
    <3>1. k \in 1..n /\ k \in 1..k /\ k - 1 \in 0..n
      BY <2>2, <1>1, <1>5
    <3>2. list[k].jiffies < j - at[k - 1]
      BY <3>1, <1>4, <1>5 DEF Passes
    <3>3. at[k] = at[k - 1] + list[k].jiffies /\ at[k] \in Int /\ at[k - 1] \in Int /\ list[k].jiffies \in Nat
      BY <3>1, <1>1, <1>3, <1>5
    <3> QED BY <3>2, <3>3, <1>7
  <2> QED BY <2>1, <2>2
<1>9. e \in Entry /\ e.jiffies = j - at[k] /\ e.fn = g
  BY <1>8 DEF Entry
<1> HIDE DEF e, new
<1>10. /\ new \in Seq(Entry) /\ Len(new) = n + 1
       /\ \A i \in 1..k : new[i] = list[i]
       /\ new[k + 1] = e
       /\ \A i \in (k + 2)..(n + 1) : new[i] = list[i - 1]
  <2>1. /\ k \in 0..Len(list) /\ list \in Seq(Entry) /\ e \in Entry
        /\ k \in Nat /\ Len(list) \in Nat /\ k <= Len(list)
    BY <1>1, <1>5, <1>9 DEF n
  <2>2. Inserts(InsertAt(list, k + 1, e), Entry, list, k, e)
    BY <2>1, Inserted
  <2> QED BY <1>6, <2>2 DEF n, Inserts
<1>11. \A i \in 1..n : list[i].fn # g
  BY <1>1 DEF ListFits, n
<1>12. C \in [Fns -> Int] /\ C[g] = j /\ \A f \in Fns : f # g => C[f] = D[f]
  BY <1>7 DEF Dues
<1> HIDE DEF C
(* Where the entry i of the new list was.                                  *)
<1> DEFINE Was(i) == IF i <= k THEN i ELSE i - 1
<1>13. ASSUME NEW i \in 1..(n + 1), i # k + 1
       PROVE  Was(i) \in 1..n /\ new[i] = list[Was(i)] /\ new[i].fn # g /\ new[i].fn \in Fns
  <2>1. CASE i <= k
    <3>1. i \in 1..k /\ i \in 1..n /\ Was(i) = i
      BY <2>1, <1>1, <1>5
    <3> QED BY <3>1, <1>1, <1>10, <1>11
  <2>2. CASE ~(i <= k)
    <3>1. i \in (k + 2)..(n + 1) /\ i - 1 \in 1..n /\ Was(i) = i - 1
      BY <2>2, <1>1, <1>5, <1>13
    <3> QED BY <3>1, <1>1, <1>10, <1>11
  <2> QED BY <2>1, <2>2
<1>14. ASSUME NEW i \in 1..(n + 1), NEW l \in 1..(n + 1), new[i].fn = new[l].fn
       PROVE  i = l
  <2>1. CASE i = k + 1 \/ l = k + 1
    BY <2>1, <1>9, <1>10, <1>13, <1>14
  <2>2. CASE i # k + 1 /\ l # k + 1
    <3>1. list[Was(i)].fn = list[Was(l)].fn /\ Was(i) \in 1..n /\ Was(l) \in 1..n
      BY <2>2, <1>13, <1>14
    <3>2. Was(i) = Was(l)
      <4> HIDE DEF Was
      <4> QED BY <3>1 DEF ListFits, n
    <3> QED BY <3>2, <2>2, <1>1, <1>5
  <2> QED BY <2>1, <2>2
<1>15. ASSUME NEW i \in 1..(n + 1)
       PROVE  C[new[i].fn] # NotArmed
  <2>1. CASE i = k + 1
    BY <2>1, <1>7, <1>9, <1>10, <1>12, NotArmedIs
  <2>2. CASE i # k + 1
    <3>1. Was(i) \in 1..n /\ new[i] = list[Was(i)] /\ C[new[i].fn] = D[new[i].fn]
      BY <2>2, <1>12, <1>13
    <3> HIDE DEF Was
    <3> QED BY <3>1 DEF ListFits, n
  <2> QED BY <2>1, <2>2
<1> DEFINE then == [i \in 0..(n + 1) |-> IF i <= k THEN at[i]
                                         ELSE IF i = k + 1 THEN j ELSE at[i - 1] + (j - at[k])]
<1>16. /\ then \in [0..(n + 1) -> Int]
       /\ \A i \in 0..k : then[i] = at[i]
       /\ then[k + 1] = j
       /\ \A i \in (k + 2)..(n + 1) : then[i] = at[i - 1] + (j - at[k])
  <2>1. \A i \in 0..(n + 1) : /\ i <= k => i \in 0..n
                              /\ ~(i <= k) /\ i # k + 1 => i - 1 \in 0..n
    BY <1>1, <1>5
  <2>2. k \in 0..n
    BY <1>5
  <2>3. \A i \in 0..(n + 1) : (IF i <= k THEN at[i] ELSE IF i = k + 1 THEN j ELSE at[i - 1] + (j - at[k])) \in Int
    BY <1>3, <1>7, <2>1, <2>2
  <2>4. /\ \A i \in 0..k : i \in 0..(n + 1) /\ i <= k
        /\ k + 1 \in 0..(n + 1) /\ ~(k + 1 <= k)
        /\ \A i \in (k + 2)..(n + 1) : i \in 0..(n + 1) /\ ~(i <= k) /\ i # k + 1
    BY <1>1, <1>5
  <2> QED BY <2>3, <2>4
<1> HIDE DEF then
<1>17. ASSUME NEW i \in 1..(n + 1)
       PROVE  then[i] = then[i - 1] + new[i].jiffies /\ C[new[i].fn] <= then[i]
  <2>1. CASE i <= k
    <3>1. i \in 1..n /\ i \in 1..k /\ i \in 0..k /\ i - 1 \in 0..k
      BY <2>1, <1>1, <1>5
    <3>2. new[i] = list[i] /\ C[new[i].fn] = D[list[i].fn]
      BY <3>1, <1>1, <1>10, <1>11, <1>12
    <3> QED BY <3>1, <3>2, <1>3, <1>16
  <2>2. CASE i = k + 1
    <3>1. then[i] = j /\ then[i - 1] = at[k] /\ new[i] = e /\ at[k] \in Int
      <4>1. i - 1 = k /\ k \in 0..k /\ k \in 0..n
        BY <2>2, <1>5, <1>1
      <4> QED BY <4>1, <2>2, <1>3, <1>10, <1>16
    <3> QED BY <3>1, <1>7, <1>9, <1>12
  <2>3. CASE i > k + 1
    <3>1. i \in (k + 2)..(n + 1) /\ i - 1 \in 1..n /\ i # k + 1
      BY <2>3, <1>1, <1>5
    <3>2. new[i] = list[i - 1] /\ C[new[i].fn] = D[list[i - 1].fn] /\ then[i] = at[i - 1] + (j - at[k])
      BY <3>1, <1>1, <1>10, <1>11, <1>12, <1>16
    <3>3. at[i - 1] = at[(i - 1) - 1] + list[i - 1].jiffies /\ D[list[i - 1].fn] <= at[i - 1]
      BY <3>1, <1>3
    <3>4. then[i - 1] = at[(i - 1) - 1] + (j - at[k])
      <4>1. CASE i - 1 = k + 1
        <5>1. (i - 1) - 1 = k /\ at[k] \in Int
          BY <4>1, <1>1, <1>3, <1>5
        <5> QED BY <4>1, <5>1, <1>7, <1>16
      <4>2. CASE i - 1 # k + 1
        <5>1. i - 1 \in (k + 2)..(n + 1)
          BY <4>2, <3>1, <1>1, <1>5
        <5> QED BY <5>1, <1>16
      <4> QED BY <4>1, <4>2
    <3>5. /\ at[i - 1] \in Int /\ at[(i - 1) - 1] \in Int /\ list[i - 1].jiffies \in Nat
          /\ D[list[i - 1].fn] \in Int /\ at[k] \in Int
      <4>1. (i - 1) - 1 \in 0..n /\ i - 1 \in 0..n /\ k \in 0..n
        BY <3>1, <1>1, <1>5
      <4> QED BY <4>1, <3>1, <1>1, <1>3 DEF Dues
    <3>6. then[i] = then[i - 1] + list[i - 1].jiffies
      BY <3>2, <3>3, <3>4, <3>5, <1>8
    <3>7. D[list[i - 1].fn] <= then[i]
      BY <3>2, <3>3, <3>5, <1>8
    <3> QED BY <3>2, <3>6, <3>7
  <2>4. i <= k \/ i = k + 1 \/ i > k + 1
    BY <1>1, <1>5
  <2> QED BY <2>1, <2>2, <2>3, <2>4
<1>18. then[0] = 0
  BY <1>1, <1>3, <1>5, <1>16
<1>19. OnTime(new, then, C)
  BY <1>10, <1>16, <1>17, <1>18 DEF OnTime
<1>20. ListFits(new, C)
  BY <1>10, <1>14, <1>15, <1>19 DEF ListFits
<1>21. HeadAhead(list) => HeadAhead(new)
  <2>1. CASE k = 0
    BY <2>1, <1>8, <1>9, <1>10 DEF HeadAhead
  <2>2. CASE k # 0
    <3>1. 1 \in 1..k /\ list # <<>>
      BY <2>2, <1>1, <1>5 DEF n
    <3> QED BY <3>1, <1>10 DEF HeadAhead
  <2> QED BY <2>1, <2>2
<1> QED BY <1>20, <1>21 DEF new, C

(* A tick: the first entry counts down, and all are due one tick sooner.   *)
LEMMA TickFits ==
  ASSUME NEW D \in [Fns -> Dues], NEW list, ListFits(list, D), HeadAhead(list), list # <<>>,
         NEW C \in [Fns -> Dues],
         \A f \in Fns : C[f] = IF D[f] = NotArmed THEN NotArmed
                               ELSE IF D[f] > -MaxLate THEN D[f] - 1 ELSE D[f]
  PROVE  ListFits([list EXCEPT ![1].jiffies = @ - 1], C)
<1> DEFINE n == Len(list)
           new == [list EXCEPT ![1].jiffies = @ - 1]
<1>1. /\ list \in Seq(Entry) /\ n \in Nat /\ n > 0 /\ 1 \in 1..n
      /\ \A i \in 1..n : list[i] \in Entry
      /\ \A i \in 1..n : list[i].jiffies \in Nat /\ list[i].fn \in Fns
      /\ list[1].jiffies > 0
  <2>1. list \in Seq(Entry) /\ list[1].jiffies > 0
    BY DEF ListFits, HeadAhead
  <2> QED BY <2>1, EntriesOf
<1>2. PICK at : OnTime(list, at, D)
  BY DEF ListFits
<1>3. /\ at \in [0..n -> Int] /\ at[0] = 0 /\ \A i \in 0..n : at[i] \in Int
      /\ \A i \in 1..n : at[i] = at[i - 1] + list[i].jiffies
      /\ \A i \in 1..n : D[list[i].fn] <= at[i]
  BY <1>2 DEF OnTime
<1> DEFINE first == [list[1] EXCEPT !.jiffies = @ - 1]
<1>4. first \in Entry /\ first.jiffies = list[1].jiffies - 1 /\ first.fn = list[1].fn
  <2> DEFINE e == list[1]
  <2>1. e \in Entry /\ e.jiffies \in Nat /\ e.jiffies > 0
    BY <1>1
  <2> HIDE DEF e
  <2>2. e.jiffies - 1 \in Nat
    BY <2>1
  <2>3. LET f == [e EXCEPT !.jiffies = @ - 1]
        IN  f \in Entry /\ f.jiffies = e.jiffies - 1 /\ f.fn = e.fn
    BY <2>1, <2>2 DEF Entry
  <2> QED BY <2>3 DEF e
<1>5. new \in Seq(Entry) /\ Len(new) = n /\ new[1] = first /\ \A i \in 1..n : i # 1 => new[i] = list[i]
  <2>1. new = [list EXCEPT ![1] = first]
    OBVIOUS
  <2> HIDE DEF first, new
  <2> QED BY <1>1, <1>4, <2>1
<1> HIDE DEF n, new, first
<1>6. \A i \in 1..n : new[i].fn = list[i].fn
  BY <1>4, <1>5
<1> DEFINE then == [i \in 0..n |-> IF i = 0 THEN 0 ELSE at[i] - 1]
<1>7. then \in [0..n -> Int] /\ then[0] = 0 /\ \A i \in 1..n : then[i] = at[i] - 1
  BY <1>1, <1>3
<1> HIDE DEF then
(* Nothing expires before now.                                             *)
<1>8. \A i \in 1..n : at[i] > 0
  <2> DEFINE Bad == {i \in 1..n : ~(at[i] > 0)}
  <2> SUFFICES ASSUME Bad # {} PROVE FALSE
    OBVIOUS
  <2>1. PICK i \in Bad : \A k \in Bad : i <= k
    <3>1. Bad \subseteq Nat
      OBVIOUS
    <3> HIDE DEF Bad
    <3> QED BY <3>1, Smallest
  <2>2. i \in 1..n /\ ~(at[i] > 0) /\ at[i] \in Int /\ at[i - 1] \in Int /\ list[i].jiffies \in Nat
        /\ at[i] = at[i - 1] + list[i].jiffies
    <3>1. i \in 1..n /\ ~(at[i] > 0)
      BY <2>1
    <3>2. i \in 0..n /\ i - 1 \in 0..n
      BY <3>1, <1>1
    <3> QED BY <3>1, <3>2, <1>1, <1>3
  <2>3. CASE i = 1
    BY <2>2, <2>3, <1>1, <1>3
  <2>4. CASE i # 1
    <3>1. i - 1 \in 1..n /\ ~(i <= i - 1)
      BY <2>2, <2>4, <1>1
    <3>2. at[i - 1] > 0
      BY <2>1, <3>1
    <3> HIDE DEF Bad
    <3> QED BY <3>2, <2>2
  <2> QED BY <2>3, <2>4
<1>9. ASSUME NEW i \in 1..n
      PROVE  then[i] = then[i - 1] + new[i].jiffies
  <2>1. i \in 0..n /\ i - 1 \in 0..n
    BY <1>1
  <2>2. at[i] = at[i - 1] + list[i].jiffies /\ at[i - 1] \in Int /\ at[i] \in Int /\ list[i].jiffies \in Nat
    BY <2>1, <1>1, <1>3
  <2>3. CASE i = 1
    BY <2>2, <2>3, <1>3, <1>4, <1>5, <1>7
  <2>4. CASE i # 1
    <3>1. i - 1 \in 1..n
      BY <2>4, <1>1
    <3>2. then[i] = at[i] - 1 /\ then[i - 1] = at[i - 1] - 1
      BY <3>1, <1>7
    <3>3. new[i] = list[i]
      BY <2>4, <1>5
    <3> QED BY <2>2, <3>2, <3>3
  <2> QED BY <2>3, <2>4
<1>10. ASSUME NEW i \in 1..n
       PROVE  C[new[i].fn] # NotArmed /\ C[new[i].fn] <= then[i]
  <2> DEFINE f == new[i].fn
  <2>1. f = list[i].fn /\ f \in Fns /\ D[f] # NotArmed /\ D[f] <= at[i]
    BY <1>1, <1>3, <1>6 DEF ListFits, n
  <2>2. at[i] \in Int /\ at[i] > 0 /\ then[i] = at[i] - 1
    BY <1>1, <1>3, <1>7, <1>8
  <2> HIDE DEF f
  <2>3. D[f] \in Int /\ D[f] < NotArmed
    BY <2>1, NotArmedIs DEF Dues
  <2>4. CASE D[f] > -MaxLate
    <3>1. C[f] = D[f] - 1
      BY <2>1, <2>4
    <3> QED BY <3>1, <2>1, <2>2, <2>3, NotArmedIs DEF f
  <2>5. CASE ~(D[f] > -MaxLate)
    <3>1. C[f] = D[f] /\ D[f] <= 0
      BY <2>1, <2>3, <2>5, TimerAssumption
    <3> QED BY <3>1, <2>1, <2>2, <2>3 DEF f
  <2> QED BY <2>4, <2>5
<1>11. OnTime(new, then, C)
  BY <1>5, <1>7, <1>9, <1>10 DEF OnTime
<1>12. \A i, k \in 1..n : new[i].fn = new[k].fn => i = k
  BY <1>6 DEF ListFits, n
<1>13. ListFits(new, C)
  BY <1>5, <1>10, <1>11, <1>12 DEF ListFits
<1> QED BY <1>13 DEF new

(* The head that expired goes.                                             *)
LEMMA TailFits ==
  ASSUME NEW D \in [Fns -> Dues], NEW list, ListFits(list, D), list # <<>>, Head(list).jiffies <= 0
  PROVE  /\ Head(list).fn \in Fns /\ D[Head(list).fn] <= 0
         /\ ListFits(Tail(list), [D EXCEPT ![Head(list).fn] = NotArmed])
<1> DEFINE n == Len(list)
           new == Tail(list)
           g == Head(list).fn
           C == [D EXCEPT ![g] = NotArmed]
<1>1. /\ list \in Seq(Entry) /\ n \in Nat /\ n > 0 /\ 1 \in 1..n /\ Head(list) = list[1]
      /\ \A i \in 1..n : list[i] \in Entry
      /\ \A i \in 1..n : list[i].jiffies \in Nat /\ list[i].fn \in Fns
  <2>1. list \in Seq(Entry)
    BY DEF ListFits
  <2> QED BY <2>1, EntriesOf
<1>2. PICK at : OnTime(list, at, D)
  BY DEF ListFits
<1>3. /\ at \in [0..n -> Int] /\ at[0] = 0 /\ \A i \in 0..n : at[i] \in Int
      /\ \A i \in 1..n : at[i] = at[i - 1] + list[i].jiffies
      /\ \A i \in 1..n : D[list[i].fn] <= at[i]
  BY <1>2 DEF OnTime
<1>4. at[1] = 0 /\ g \in Fns /\ D[g] <= 0
  BY <1>1, <1>3
<1>5. new \in Seq(Entry) /\ Len(new) = n - 1 /\ \A i \in 1..(n - 1) : new[i] = list[i + 1]
  BY <1>1
<1>6. ASSUME NEW i \in 1..(n - 1)
      PROVE  i + 1 \in 1..n /\ new[i] = list[i + 1] /\ new[i].fn # g /\ new[i].fn \in Fns
             /\ C[new[i].fn] = D[new[i].fn]
  <2>1. i + 1 \in 1..n /\ i + 1 # 1 /\ new[i] = list[i + 1]
    BY <1>1, <1>5
  <2>2. list[i + 1].fn # list[1].fn
    BY <1>1, <2>1 DEF ListFits
  <2> QED BY <1>1, <2>1, <2>2
<1> HIDE DEF n, new, g, C
<1> DEFINE then == [i \in 0..(n - 1) |-> at[i + 1]]
<1>7. then \in [0..(n - 1) -> Int] /\ then[0] = 0 /\ \A i \in 0..(n - 1) : then[i] = at[i + 1]
  <2>1. \A i \in 0..(n - 1) : i + 1 \in 0..n
    BY <1>1
  <2>2. 0 \in 0..(n - 1) /\ 0 + 1 = 1
    BY <1>1
  <2> QED BY <1>3, <1>4, <2>1, <2>2
<1> HIDE DEF then
<1>8. ASSUME NEW i \in 1..(n - 1)
      PROVE  then[i] = then[i - 1] + new[i].jiffies /\ C[new[i].fn] <= then[i]
  <2>1. i \in 0..(n - 1) /\ i - 1 \in 0..(n - 1) /\ i + 1 \in 1..n /\ (i - 1) + 1 = i /\ (i + 1) - 1 = i
    BY <1>1
  <2>2. then[i] = at[i + 1] /\ then[i - 1] = at[i]
    BY <1>7, <2>1
  <2>3. at[i + 1] = at[i] + list[i + 1].jiffies /\ D[list[i + 1].fn] <= at[i + 1]
    BY <1>3, <2>1
  <2> QED BY <1>6, <2>2, <2>3
<1>9. OnTime(new, then, C)
  BY <1>5, <1>7, <1>8 DEF OnTime
<1>10. \A i, k \in 1..(n - 1) : new[i].fn = new[k].fn => i = k
  <2> SUFFICES ASSUME NEW i \in 1..(n - 1), NEW k \in 1..(n - 1), new[i].fn = new[k].fn
               PROVE  i = k
    OBVIOUS
  <2>1. i + 1 \in 1..n /\ k + 1 \in 1..n /\ list[i + 1].fn = list[k + 1].fn
    BY <1>6
  <2>2. i + 1 = k + 1
    BY <2>1 DEF ListFits, n
  <2> QED BY <2>2, <1>1
<1>11. \A i \in 1..(n - 1) : C[new[i].fn] # NotArmed
  BY <1>6 DEF ListFits, n
<1>12. ListFits(new, C)
  BY <1>5, <1>9, <1>10, <1>11 DEF ListFits
<1> QED BY <1>4, <1>12 DEF new, C, g

LEMMA TimerInvAtFirst == TimerInit => TimerInv
<1> SUFFICES ASSUME TimerInit PROVE TimerInv
  OBVIOUS
<1>1. due \in [Fns -> Dues] /\ in_tick = FALSE /\ next_timer = <<>>
  BY NotArmedIs DEF TimerInit, Dues
<1>2. ListFits(<<>>, due)
  <2> DEFINE at == [i \in 0..0 |-> 0]
  <2>1. <<>> \in Seq(Entry) /\ Len(<<>>) = 0
    OBVIOUS
  <2>2. at \in [0..0 -> Int] /\ at[0] = 0
    OBVIOUS
  <2> HIDE DEF at
  <2>3. OnTime(<<>>, at, due)
    BY <2>1, <2>2 DEF OnTime
  <2> QED BY <2>1, <2>3 DEF ListFits
<1> QED BY <1>1, <1>2 DEF TimerInv, HeadAhead

(* With an empty list it does not matter when anything is due.             *)
LEMMA NothingSet ==
  ASSUME NEW D, ListFits(<<>>, D), NEW C
  PROVE  ListFits(<<>>, C)
BY DEF ListFits, OnTime

(* The steps.                                                              *)
LEMMA SoonerIs ==
  ASSUME due \in [Fns -> Dues]
  PROVE  /\ Sooner \in [Fns -> Dues]
         /\ \A f \in Fns : Sooner[f] = IF due[f] = NotArmed THEN NotArmed
                                       ELSE IF due[f] > -MaxLate THEN due[f] - 1 ELSE due[f]
<1>1. \A f \in Fns : f \in Armed <=> due[f] # NotArmed
  BY DEF Armed
<1>2. \A f \in Fns : Sooner[f] = IF due[f] = NotArmed THEN NotArmed
                                 ELSE IF due[f] > -MaxLate THEN due[f] - 1 ELSE due[f]
  BY <1>1 DEF Sooner
<1>3. ASSUME NEW f \in Fns PROVE Sooner[f] \in Dues
  <2>1. due[f] \in Int /\ due[f] <= NotArmed
    BY DEF Dues
  <2> QED BY <1>2, <2>1, NotArmedIs DEF Dues
<1> QED BY <1>2, <1>3 DEF Sooner

LEMMA TimerTickKeeps == TimerInv /\ TimerTick => TimerInv'
<1> SUFFICES ASSUME TimerInv, TimerTick PROVE TimerInv'
  OBVIOUS
<1>1. /\ due \in [Fns -> Dues] /\ in_tick = FALSE /\ due' = Sooner
      /\ ListFits(next_timer, due) /\ HeadAhead(next_timer)
  BY DEF TimerInv, TimerTick
<1>2. Sooner \in [Fns -> Dues]
  BY <1>1, SoonerIs
<1>3. CASE next_timer = <<>>
  <2>1. next_timer' = <<>> /\ in_tick' = FALSE /\ ListFits(<<>>, due')
    BY <1>1, <1>3, NothingSet DEF TimerTick
  <2> QED BY <1>1, <1>2, <2>1 DEF TimerInv, HeadAhead
<1>4. CASE next_timer # <<>>
  <2>1. next_timer' = [next_timer EXCEPT ![1].jiffies = @ - 1] /\ in_tick' = TRUE
    BY <1>4 DEF TimerTick
  <2>2. ListFits([next_timer EXCEPT ![1].jiffies = @ - 1], Sooner)
    BY <1>1, <1>2, <1>4, SoonerIs, TickFits
  <2> QED BY <1>1, <1>2, <2>1, <2>2 DEF TimerInv
<1> QED BY <1>3, <1>4

LEMMA AddTimerKeeps ==
  ASSUME NEW f \in Fns, NEW j \in 1..MaxTimer, TimerInv, AddTimer(f, j)
  PROVE  TimerInv'
<1>1. /\ due \in [Fns -> Dues] /\ in_tick = FALSE /\ due[f] = NotArmed
      /\ ListFits(next_timer, due) /\ HeadAhead(next_timer)
  BY DEF TimerInv, AddTimer, Armed
<1>2. in_tick' = FALSE /\ next_timer' = Insert(next_timer, j, f) /\ due' = [due EXCEPT ![f] = j]
  BY <1>1 DEF AddTimer
<1>3. ListFits(next_timer', due') /\ HeadAhead(next_timer')
  BY <1>1, <1>2, InsertFits
<1>4. due' \in [Fns -> Dues]
  BY <1>1, <1>2, NotArmedIs, TimerAssumption DEF Dues
<1> QED BY <1>2, <1>3, <1>4 DEF TimerInv

LEMMA FireKeeps ==
  ASSUME NEW f \in Fns, TimerInv, Fire(f)
  PROVE  TimerInv' /\ due[f] <= 0
<1> DEFINE rest == Tail(next_timer)
           D == [due EXCEPT ![f] = NotArmed]
<1>1. /\ due \in [Fns -> Dues] /\ in_tick = TRUE /\ in_tick' = TRUE
      /\ next_timer # <<>> /\ Head(next_timer).jiffies <= 0 /\ Head(next_timer).fn = f
      /\ ListFits(next_timer, due)
  BY DEF TimerInv, Fire, HeadExpired
<1>2. ListFits(rest, D) /\ due[f] <= 0
  BY <1>1, TailFits
<1>3. D \in [Fns -> Dues] /\ D[f] = NotArmed
  BY <1>1, NotArmedIs DEF Dues
<1>4. CASE next_timer' = rest /\ due' = D
  BY <1>1, <1>2, <1>3, <1>4 DEF TimerInv
<1>5. ASSUME NEW g \in (Fns \ Armed) \cup {f}, NEW j \in 1..MaxTimer, next_timer' = SetByHandler(g, j),
             due' = [due EXCEPT ![f] = NotArmed, ![g] = j]
      PROVE  TimerInv'
  <2>1. g \in Fns /\ D[g] = NotArmed
    BY <1>1, <1>3 DEF Armed
  <2>2. next_timer' = Insert(rest, j, g) /\ due' = [D EXCEPT ![g] = j]
    BY <1>5 DEF SetByHandler
  <2> HIDE DEF D, rest
  <2>3. ListFits(next_timer', due')
    BY <1>2, <1>3, <2>1, <2>2, InsertFits
  <2>4. due' \in [Fns -> Dues]
    BY <1>3, <2>2, NotArmedIs, TimerAssumption DEF Dues
  <2> QED BY <1>1, <2>3, <2>4 DEF TimerInv
<1>6. TimerInv'
  <2> HIDE DEF rest, D
  <2> QED BY <1>4, <1>5 DEF Fire, rest, D
<1> QED BY <1>2, <1>6

LEMMA TimerInvKept == TimerInv /\ [TimerNext]_timerVars => TimerInv'
<1> SUFFICES ASSUME TimerInv, [TimerNext]_timerVars PROVE TimerInv'
  OBVIOUS
<1>1. CASE TimerTick
  BY <1>1, TimerTickKeeps
<1>2. CASE TickEnds
  <2>1. /\ next_timer' = next_timer /\ due' = due /\ in_tick' = FALSE
        /\ ListFits(next_timer, due) /\ due \in [Fns -> Dues] /\ ~HeadExpired
    BY <1>2 DEF TickEnds, TimerInv
  <2>2. HeadAhead(next_timer)
    <3>1. next_timer \in Seq(Entry)
      BY <2>1 DEF ListFits
    <3> QED BY <2>1, <3>1, EntriesOf DEF HeadExpired, HeadAhead
  <2> QED BY <2>1, <2>2 DEF TimerInv
<1>3. ASSUME NEW f \in Fns, Fire(f) PROVE TimerInv'
  BY <1>3, FireKeeps
<1>4. ASSUME NEW f \in Fns, NEW j \in 1..MaxTimer, AddTimer(f, j) PROVE TimerInv'
  BY <1>4, AddTimerKeeps
<1>5. CASE UNCHANGED timerVars
  BY <1>5 DEF timerVars, TimerInv
<1> QED BY <1>1, <1>2, <1>3, <1>4, <1>5 DEF TimerNext

(* add_timer and do_timer: no handler runs before its time, though each    *)
(* timer in the list counts from the one before it and timers are set in   *)
(* front of others, also by handlers in the middle of a tick.              *)
THEOREM NeverEarlyAlways == TimerSpec => NeverEarly
<1>1. TimerInit => TimerInv
  BY TimerInvAtFirst
<1>2. TimerInv /\ [TimerNext]_timerVars => TimerInv'
  BY TimerInvKept
<1>3. TimerInv /\ [TimerNext]_timerVars => [\A f \in Fns : Fire(f) => due[f] <= 0]_timerVars
  BY FireKeeps
<1> QED BY <1>1, <1>2, <1>3, PTL DEF TimerSpec, NeverEarly
=============================================================================
