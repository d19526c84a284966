------------------------------ MODULE Scheduler ------------------------------
(***************************************************************************)
(* schedule(), the clock tick, and where they are called from:             *)
(* kernel/sched.c, and the exit path of system calls in kernel/sys_call.s. *)
(*                                                                         *)
(* Task 0 is the idle task.  A task runs in user mode, where a tick may    *)
(* take the processor away, or in kernel mode, where it keeps it until it  *)
(* sleeps or leaves.  jiffies is unbounded: a due time is modelled by how  *)
(* far away it is, 0 for none, 1 (Due) for a time that lies in the past.   *)
(***************************************************************************)
EXTENDS Integers

CONSTANTS N,            \* the slots 1..N of task[]; slot 0 is the idle task
          MaxPriority,  \* bound: sys_nice takes any increment
          MaxDelay,     \* bound on the timeouts and alarms that are set
          Timed         \* bound: the tasks that set a timeout or an alarm

ASSUME SchedulerAssumption ==
  /\ N \in Nat \ {0} /\ MaxPriority \in Nat \ {0} /\ MaxDelay \in Nat
  /\ Timed \subseteq 1..N

Tasks == 1..N
Idle  == 0
Due   == 1

VARIABLES
  current,    \* the running task
  state,      \* state[t]: "run", "int", "unint", or "free" for an empty slot
  counter,    \* ticks left
  priority,
  user,       \* the tasks that are in user mode, or about to return to it
  signal,     \* the tasks with an unblocked signal
  timeout, alarm

schedVars == <<current, state, counter, priority, user, signal, timeout, alarm>>

Running(st) == {t \in Tasks : st[t] = "run"}

OneTask == /\ state = [t \in Tasks |-> IF t = 1 THEN "run" ELSE "free"]
           /\ priority \in [Tasks -> 1..MaxPriority]
           /\ counter = priority
           /\ user = {1}
           /\ signal = {}
           /\ timeout = [t \in Tasks |-> 0]
           /\ alarm = [t \in Tasks |-> 0]
SchedInit == current = Idle /\ OneTask

(* The tie goes to the highest slot: the scan starts there and wants more. *)
Best(ready, c) ==
  CHOOSE t \in ready : \A u \in ready : c[u] < c[t] \/ (c[u] = c[t] /\ u <= t)

Recharge_none(c) == c         \* mutant: there are no new slices

(* New slices, for sleepers as well; "c" is the counter before.            *)
Recharge(c) ==
  [t \in Tasks |-> IF state[t] = "free" THEN c[t] ELSE (c[t] \div 2) + priority[t]]

Dealt(ready, c) ==
  IF ready # {} /\ \A t \in ready : c[t] = 0 THEN Recharge(c) ELSE c

(* The first loop: expired timeouts and signals end interruptible sleeps.  *)
Woken_untimed(st, to, sig) ==    \* mutant: timeouts are not looked at
  [t \in Tasks |-> IF st[t] = "int" /\ t \in sig THEN "run" ELSE st[t]]

Woken(st, to, sig) ==
  [t \in Tasks |-> IF st[t] = "int" /\ (to[t] = Due \/ t \in sig) THEN "run" ELSE st[t]]

Expired(due) == [t \in Tasks |-> IF due[t] = Due THEN 0 ELSE due[t]]

(* schedule(), called with states st, counters c and due times to, al.     *)
Schedule(st, c, to, al) ==
  /\ signal' = signal \cup {t \in Tasks : al[t] = Due}
  /\ alarm' = Expired(al)
  /\ timeout' = Expired(to)
  /\ state' = Woken(st, to, signal')
  /\ counter' = Dealt(Running(state'), c)
  /\ current' = IF Running(state') = {} THEN Idle
                ELSE Best(Running(state'), counter')

(* timer_interrupt and do_timer: the tick is charged to current; a slice   *)
(* that runs out in user mode ends at once.                                *)
Nearer(due) == [t \in Tasks |-> IF due[t] > Due THEN due[t] - 1 ELSE due[t]]

Charged(c) == IF c > 1 THEN c - 1 ELSE 0

Tick ==
  LET c == IF current = Idle THEN counter
           ELSE [counter EXCEPT ![current] = Charged(@)]
  IN  /\ IF current \in user /\ c[current] = 0
         THEN Schedule(state, c, Nearer(timeout), Nearer(alarm))
         ELSE /\ counter' = c
              /\ timeout' = Nearer(timeout)
              /\ alarm' = Nearer(alarm)
              /\ UNCHANGED <<current, state, signal>>
      /\ UNCHANGED <<priority, user>>

(* for (;;) pause();                                                       *)
IdlePause == /\ current = Idle
             /\ Schedule(state, counter, timeout, alarm)
             /\ UNCHANGED <<priority, user>>

(* A system call or a fault.                                               *)
EnterKernel(t) == /\ current = t /\ t \in user
                  /\ user' = user \ {t}
                  /\ UNCHANGED <<current, state, counter, priority, signal, timeout, alarm>>

(* The end of a system call: without a slice, or stopped by the call, the  *)
(* task is rescheduled; then it takes its signals and is in user mode.     *)
SliceUsed_ignored(t) == FALSE    \* mutant: no test on the way out
SliceUsed(t) == counter[t] = 0

ReturnToUser(t) ==
  /\ current = t /\ t \notin user
  /\ user' = user \cup {t}
  /\ IF SliceUsed(t)
     THEN Schedule(state, counter, timeout, alarm)
     ELSE /\ signal' = signal \ {t}
          /\ UNCHANGED <<current, state, counter, timeout, alarm>>
  /\ UNCHANGED priority

(* sys_pause, sleep_on and the like: the task gives the processor away.    *)
Sleep(t, st) ==
  /\ current = t /\ t \notin user
  /\ Schedule([state EXCEPT ![t] = st], counter, timeout, alarm)
  /\ UNCHANGED <<priority, user>>

(* wake_up, from an interrupt or a running task.                           *)
Wake(t) == /\ state[t] \in {"int", "unint"}
           /\ state' = [state EXCEPT ![t] = "run"]
           /\ UNCHANGED <<current, counter, priority, user, signal, timeout, alarm>>

Send(t) == /\ state[t] # "free" /\ t \notin signal
           /\ signal' = signal \cup {t}
           /\ UNCHANGED <<current, state, counter, priority, user, timeout, alarm>>

(* sys_alarm, and the timeout of select.                                   *)
SetAlarm(t) == /\ current = t /\ t \in Timed \ user
               /\ \E d \in 0..MaxDelay :
                    alarm' = [alarm EXCEPT ![t] = IF d = 0 THEN 0 ELSE d + Due]
               /\ UNCHANGED <<current, state, counter, priority, user, signal, timeout>>

SetTimeout(t) == /\ current = t /\ t \in Timed \ user
                 /\ \E d \in 1..MaxDelay : timeout' = [timeout EXCEPT ![t] = d + Due]
                 /\ UNCHANGED <<current, state, counter, priority, user, signal, alarm>>

(* sys_nice: a priority is never 0.                                        *)
Nice(t) == /\ current = t /\ t \notin user
           /\ \E p \in 1..MaxPriority : priority' = [priority EXCEPT ![t] = p]
           /\ UNCHANGED <<current, state, counter, user, signal, timeout, alarm>>

(* copy_process: the child starts with a whole slice.                      *)
Fork(t, u) ==
  /\ current = t /\ t \notin user /\ state[u] = "free"
  /\ state' = [state EXCEPT ![u] = "run"]
  /\ priority' = [priority EXCEPT ![u] = priority[t]]
  /\ counter' = [counter EXCEPT ![u] = priority[t]]
  /\ user' = user \cup {u}
  /\ signal' = signal \ {u}
  /\ timeout' = [timeout EXCEPT ![u] = 0]
  /\ alarm' = [alarm EXCEPT ![u] = 0]
  /\ UNCHANGED current

(* do_exit; the slot is taken as free at once (task 1 reaps).              *)
Exit(t) ==
  /\ current = t /\ t \notin user /\ t # 1
  /\ Schedule([state EXCEPT ![t] = "free"], counter,
              [timeout EXCEPT ![t] = 0], [alarm EXCEPT ![t] = 0])
  /\ UNCHANGED <<priority, user>>

SchedNext ==
  \/ Tick
  \/ IdlePause
  \/ \E t \in Tasks :
       \/ EnterKernel(t) \/ ReturnToUser(t)
       \/ \E st \in {"int", "unint"} : Sleep(t, st)
       \/ Wake(t) \/ Send(t)
       \/ SetAlarm(t) \/ SetTimeout(t) \/ Nice(t)
       \/ \E u \in Tasks : Fork(t, u)
       \/ Exit(t)

SchedSpec == SchedInit /\ [][SchedNext]_schedVars

-----------------------------------------------------------------------------

(* A task in user mode is never running on a slice that is used up, though *)
(* ticks in kernel mode leave the counter at 0 and nothing checks it until *)
(* the way out of the system call.                                         *)
UserHasSlice == current \in user => counter[current] > 0

(* No starvation: a runnable task gets the processor, unless new tasks,    *)
(* each with a fresh slice, are forked for ever.                           *)
RunnableRuns ==
  \/ []<><<\E t, u \in Tasks : Fork(t, u)>>_schedVars
  \/ \A t \in Tasks : (state[t] = "run") ~> (current = t \/ state[t] = "free")

(* A sleep with a timeout or an alarm ends, though both are looked at only *)
(* in schedule(), which a tick need not call.                              *)
TimedSleepEnds ==
  \A t \in Tasks :
    (state[t] = "int" /\ (timeout[t] # 0 \/ alarm[t] # 0)) ~> (state[t] # "int")
=============================================================================
