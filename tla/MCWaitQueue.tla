----------------------------- MODULE MCWaitQueue -----------------------------
(* A queue with any use of it, and a queue under a lock: part says which.  *)
EXTENDS SleepLock

CONSTANT QueueUsers    \* the tasks that sleep and are signalled in the first part
VARIABLE part

all == <<part, vars, lockVars>>

MCInit ==
  /\ part \in {"queue", "lock"} /\ Init /\ wants = [t \in Tasks |-> "none"]
  /\ IF part = "lock" THEN LockFree ELSE locked = TRUE /\ holders = Tasks \ QueueUsers
QueueStep == part = "queue" /\ Next /\ asleep' \cup pending' \subseteq QueueUsers /\ UNCHANGED lockVars
MCNext == /\ UNCHANGED part
          /\ QueueStep \/ (part = "lock" /\ LockNext)

(* Every runnable task is run and schedule() is called over and over; a    *)
(* lock is held for a finite time: until the device answers, or until its  *)
(* holder has finished its own input and output.                           *)
QueueFairness ==
  /\ WF_all(UNCHANGED part /\ part = "queue" /\ Schedule /\ UNCHANGED lockVars)
  /\ \A t \in QueueUsers : WF_all(UNCHANGED part /\ part = "queue" /\ t \in asleep /\ Resume(t) /\ UNCHANGED lockVars)
HoldersFair ==
  \A t \in Tasks : /\ WF_all(UNCHANGED part /\ part = "lock" /\ Retry(t))
                  /\ WF_all(UNCHANGED part /\ part = "lock" /\ Unlock(t))
MCSpec == MCInit /\ [][MCNext]_all /\ QueueFairness /\ HoldersFair
=============================================================================
