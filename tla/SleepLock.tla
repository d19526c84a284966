------------------------------ MODULE SleepLock ------------------------------
(***************************************************************************)
(* The one-bit locks of buffers, inodes and super blocks:                  *)
(*   lock_buffer, unlock_buffer (ll_rw_blk.c), wait_on_buffer (buffer.c),  *)
(*   lock_inode, unlock_inode, wait_on_inode (inode.c),                    *)
(*   lock_super, free_super, wait_on_super (super.c),                      *)
(* all of the form  cli(); while (lock) sleep_on(&wait); [lock = 1;] sti() *)
(* on top of WaitQueue.  The test and the sleep are one step: interrupts   *)
(* are off and nobody else runs before schedule().  The lock is given up   *)
(* by its holder or, for a buffer, by the interrupt that ends the request. *)
(***************************************************************************)
EXTENDS WaitQueue, FiniteSets

VARIABLES locked,   \* b_lock, i_lock or s_lock
          wants,    \* wants[t]: "lock" in lock_x, "wait" in wait_on_x, or "none"
          holders   \* the tasks whose lock_x has returned and not been undone

queue == <<head, tmp, state, asleep, order, passed>>
lockVars == <<locked, wants, holders>>

LockFree == locked = FALSE /\ holders = {} /\ wants = [t \in Tasks |-> "none"]
LockInit == Init /\ LockFree

(* What follows the while loop once the lock was found free.               *)
Proceed(t, want) ==
  /\ wants' = [wants EXCEPT ![t] = "none"]
  /\ IF want = "lock" THEN locked' = TRUE /\ holders' = holders \cup {t}
                      ELSE UNCHANGED <<locked, holders>>

(* lock_x or wait_on_x is called; holders do not call it again.            *)
Call(t, want) ==
  /\ t \notin asleep \cup holders
  /\ IF locked
     THEN /\ SleepOn(t, TASK_UNINTERRUPTIBLE)
          /\ wants' = [wants EXCEPT ![t] = want]
          /\ UNCHANGED <<locked, holders>>
     ELSE Proceed(t, want) /\ UNCHANGED <<queue, pending>>

(* mutant: "if" in place of "while", the lock is not tested again.         *)
Retry_untested(t) ==
  \/ Pass(t) /\ UNCHANGED <<locked, wants, holders>>
  \/ Leave(t) /\ Proceed(t, wants[t])

(* The task runs again: inside sleep_on, or past it and the test is redone. *)
Retry(t) ==
  \/ Pass(t) /\ UNCHANGED <<locked, wants, holders>>
  \/ /\ locked
     /\ SleepAgain(t, TASK_UNINTERRUPTIBLE)
     /\ UNCHANGED <<locked, wants, holders>>
  \/ /\ ~locked
     /\ Leave(t)
     /\ Proceed(t, wants[t])

(* mutant: nobody is woken.                                                *)
Unlock_silent(t) == /\ t \in holders
                    /\ locked' = FALSE /\ holders' = holders \ {t}
                    /\ UNCHANGED <<queue, pending, wants>>

Unlock(t) ==
  /\ t \in holders
  /\ locked' = FALSE
  /\ holders' = holders \ {t}
  /\ WakeUp \/ (head = NoTask /\ UNCHANGED <<queue, pending>>)
  /\ UNCHANGED wants

LockStep(t) == Retry(t) \/ Unlock(t)
LockNext == \E t \in Tasks : Call(t, "lock") \/ Call(t, "wait") \/ LockStep(t)

LockSpec == LockInit /\ [][LockNext]_<<vars, lockVars>>

-----------------------------------------------------------------------------
(* One holder at a time, though a sleeper is woken before it may have the  *)
(* lock and others can take it first; the bit is set exactly while held.   *)
OneHolder == Cardinality(holders) = IF locked THEN 1 ELSE 0

(* Everyone who waits is served, unless the lock is taken over and over.   *)
Served ==
  \/ []<><<holders' # {} /\ ~(holders' \subseteq holders)>>_lockVars
  \/ \A t \in Tasks : (wants[t] # "none") ~> (wants[t] = "none")
=============================================================================
