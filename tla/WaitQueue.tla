------------------------------ MODULE WaitQueue ------------------------------
(***************************************************************************)
(* The wait queue of the kernel: sleep_on, interruptible_sleep_on and      *)
(* wake_up (kernel/sched.c), and the part of schedule() that makes an      *)
(* interruptible sleeper runnable when a signal or a timeout is due.       *)
(*                                                                         *)
(* A queue is one pointer, head (the *p of the code), and one local        *)
(* variable per sleeper, tmp: the sleeper that was head when it arrived.   *)
(* The list is threaded through the kernel stacks of the sleepers.         *)
(*                                                                         *)
(* The kernel is not preemptible: what a task does between two calls of    *)
(* schedule() is one action.  WakeUp may happen between any two of them,   *)
(* from an interrupt handler or from a task that is not in this queue; the *)
(* callers that race with an interrupt disable interrupts around the call. *)
(***************************************************************************)
EXTENDS Naturals, Sequences

CONSTANTS Tasks,   \* the tasks that use this queue (task[0] never sleeps)
          NoTask   \* NULL

ASSUME NoTaskAssumption == NoTask \notin Tasks

TASK_RUNNING         == 0
TASK_INTERRUPTIBLE   == 1
TASK_UNINTERRUPTIBLE == 2

VARIABLES
  head,     \* *p: the last task that entered the queue
  tmp,      \* tmp[t]: the local variable of t's call of __sleep_on
  state,    \* task_struct.state
  asleep,   \* the tasks inside __sleep_on, at the call of schedule()
  pending,  \* tasks with an unblocked signal, or a timeout that has expired
  order,    \* history: the tasks of the queue, the oldest first
  passed    \* history: the tasks that handed their wake-up on (goto repeat)

vars == <<head, tmp, state, asleep, pending, order, passed>>

Init == /\ head = NoTask
        /\ tmp = [t \in Tasks |-> NoTask]
        /\ state = [t \in Tasks |-> TASK_RUNNING]
        /\ asleep = {}
        /\ pending = {}
        /\ order = <<>>
        /\ passed = {}

(* The first loop of schedule(), on the states that its caller has set.    *)
WakePending(s) ==
  [t \in Tasks |-> IF t \in pending /\ s[t] = TASK_INTERRUPTIBLE
                   THEN TASK_RUNNING ELSE s[t]]

(* __sleep_on up to its first schedule(): t becomes the head.              *)
SleepOn(t, st) ==
  /\ t \notin asleep
  /\ tmp' = [tmp EXCEPT ![t] = head]
  /\ head' = t
  /\ state' = WakePending([state EXCEPT ![t] = st])
  /\ asleep' = asleep \cup {t}
  /\ order' = Append(order, t)
  /\ passed' = passed \ {t}
  /\ UNCHANGED pending

(* mutant: the head is not made runnable.                                  *)
Pass_silent(t) ==
  /\ t \in asleep /\ state[t] = TASK_RUNNING
  /\ head # NoTask /\ head # t
  /\ state' = WakePending([state EXCEPT ![t] = TASK_UNINTERRUPTIBLE])
  /\ passed' = passed \cup {t}
  /\ UNCHANGED <<head, tmp, asleep, pending, order>>

(* t runs again but others have entered after it: it makes the head        *)
(* runnable and sleeps on, now uninterruptible (goto repeat).              *)
Pass(t) ==
  /\ t \in asleep /\ state[t] = TASK_RUNNING
  /\ head # NoTask /\ head # t
  /\ state' = WakePending([state EXCEPT ![head] = TASK_RUNNING,
                                        ![t] = TASK_UNINTERRUPTIBLE])
  /\ passed' = passed \cup {t}
  /\ UNCHANGED <<head, tmp, asleep, pending, order>>

(* mutant: the predecessor is not made runnable.                           *)
NextReleased_none(t) == state

(* The last statement of __sleep_on: the predecessor becomes runnable.     *)
NextReleased(t) ==
  IF tmp[t] = NoTask THEN state ELSE [state EXCEPT ![tmp[t]] = TASK_RUNNING]

(* t runs again as the head: it leaves, and makes its predecessor runnable *)
Leave(t) ==
  /\ t \in asleep /\ state[t] = TASK_RUNNING
  /\ head = NoTask \/ head = t
  /\ head' = tmp[t]
  /\ state' = NextReleased(t)
  /\ asleep' = asleep \ {t}
  /\ order' = IF order = <<>> THEN order
              ELSE SubSeq(order, 1, Len(order) - 1)
  /\ passed' = passed \ {t}
  /\ UNCHANGED <<tmp, pending>>

(* The caller's loop, while (condition) sleep_on(p): t leaves, finds that  *)
(* it still has to wait and is the head again, all before schedule().      *)
SleepAgain(t, st) ==
  /\ t \in asleep /\ state[t] = TASK_RUNNING
  /\ head = NoTask \/ head = t
  /\ head' = t
  /\ state' = WakePending([NextReleased(t) EXCEPT ![t] = st])
  /\ passed' = passed \ {t}
  /\ UNCHANGED <<tmp, asleep, pending, order>>

WakeUp ==
  /\ head # NoTask
  /\ state' = [state EXCEPT ![head] = TASK_RUNNING]
  /\ UNCHANGED <<head, tmp, asleep, pending, order, passed>>

(* A signal is sent to t, or its timeout expires.                          *)
Interrupt(t) ==
  /\ t \notin pending
  /\ pending' = pending \cup {t}
  /\ UNCHANGED <<head, tmp, state, asleep, order, passed>>

(* t is back in its caller, returns to user mode and takes its signal.     *)
TakeSignal(t) ==
  /\ t \in pending /\ t \notin asleep
  /\ pending' = pending \ {t}
  /\ UNCHANGED <<head, tmp, state, asleep, order, passed>>

(* schedule() called outside of this queue: by the idle task's sys_pause,  *)
(* at the end of a time slice, by a task that sleeps somewhere else.       *)
Schedule ==
  /\ \E t \in pending : state[t] = TASK_INTERRUPTIBLE
  /\ state' = WakePending(state)
  /\ UNCHANGED <<head, tmp, asleep, pending, order, passed>>

Sleep(t) == \E st \in {TASK_INTERRUPTIBLE, TASK_UNINTERRUPTIBLE} :
              SleepOn(t, st) \/ SleepAgain(t, st)

(* What t may do when the scheduler returns to it inside __sleep_on.       *)
Resume(t) == Pass(t) \/ Leave(t) \/ Sleep(t)

Next == \/ WakeUp
        \/ Schedule
        \/ \E t \in Tasks : \/ Sleep(t)
                            \/ Pass(t)
                            \/ Leave(t)
                            \/ Interrupt(t)
                            \/ TakeSignal(t)

(* Every runnable task is eventually run (Scheduler shows that the counter *)
(* discipline guarantees it), and schedule() is called over and over: the  *)
(* idle task does nothing else.                                            *)
Fairness == WF_vars(Schedule) /\ \A t \in Tasks : WF_vars(t \in asleep /\ Resume(t))

Spec == Init /\ [][Next]_vars
FairSpec == Spec /\ Fairness

-----------------------------------------------------------------------------
(* The sleeping tasks are in __sleep_on and the pointers name tasks.       *)
TypeOK ==
  /\ head \in Tasks \cup {NoTask}
  /\ tmp \in [Tasks -> Tasks \cup {NoTask}]
  /\ state \in [Tasks -> {TASK_RUNNING, TASK_INTERRUPTIBLE, TASK_UNINTERRUPTIBLE}]
  /\ asleep \subseteq Tasks
  /\ pending \subseteq Tasks
  /\ order \in Seq(Tasks)
  /\ passed \subseteq asleep

InQueue(t) == \E i \in 1..Len(order) : order[i] = t

(* The list threaded through the stacks holds exactly the sleepers, each   *)
(* once, the last arrival at the head: no sleeper can be forgotten by a    *)
(* pointer that was overwritten while it slept, whatever order they are    *)
(* woken in.                                                               *)
ChainHolds ==
  /\ head = IF order = <<>> THEN NoTask ELSE order[Len(order)]
  /\ \A i \in 1..Len(order) :
       tmp[order[i]] = IF i = 1 THEN NoTask ELSE order[i - 1]
  /\ \A i, j \in 1..Len(order) : order[i] = order[j] => i = j
  /\ \A t \in Tasks : t \in asleep <=> InQueue(t)

(* __sleep_on never finds *p = NULL when it is about to leave: the printk  *)
(* of "Warning: *p = NULL" is unreachable.                                 *)
HeadNeverLost == asleep # {} => head # NoTask

(* Only a sleeper can be not runnable.                                     *)
Blocked(t) == t \in asleep /\ state[t] # TASK_RUNNING

(* A sleeper that gave its wake-up away (Pass) and waits uninterruptibly   *)
(* for the later arrivals to leave has a runnable one among them: the      *)
(* wake-up it consumed is never lost, so it will be released.              *)
WakeUpHandedOn ==
  \A i \in 1..Len(order) :
    order[i] \in passed /\ Blocked(order[i]) =>
      \E j \in 1..Len(order) : j > i /\ state[order[j]] = TASK_RUNNING

(* A task leaves only when every task that arrived after it has left.      *)
LeavesLast ==
  [][\A t \in Tasks : t \in asleep /\ t \notin asleep' => t = order[Len(order)]]_vars

(* Once a sleeper is runnable, everyone who arrived before it gets out of  *)
(* __sleep_on too, to leave or to sleep again as the new head, unless tasks *)
(* go to sleep over and over.                                              *)
CascadeReleases ==
  \/ []<><<\E t \in Tasks : Sleep(t)>>_vars
  \/ \A t, u \in Tasks :
       (/\ t \in asleep /\ u \in asleep /\ state[u] = TASK_RUNNING
        /\ \E i, j \in 1..Len(order) : order[i] = t /\ order[j] = u /\ i <= j)
         ~> (t \notin asleep \/ (head = t /\ Blocked(t)))

(* The queue implements the stack of WaitStack: a task that handed its     *)
(* wake-up on counts as released although its state says otherwise.        *)
Promise == INSTANCE WaitStack WITH
             waiting <- order,
             released <- passed \cup {t \in asleep : state[t] = TASK_RUNNING}
ImplementsStack == Promise!Spec
=============================================================================
