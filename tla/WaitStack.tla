------------------------------ MODULE WaitStack ------------------------------
(***************************************************************************)
(* What a wait queue promises its users: the waiting tasks form a stack.   *)
(* A task enters at the top; only the top, and only after it has been      *)
(* released, may leave; and the release goes down the whole stack.         *)
(***************************************************************************)
EXTENDS Naturals, Sequences

CONSTANT Tasks

VARIABLES waiting,   \* the waiting tasks, the oldest first
          released   \* the waiting tasks that may leave as soon as they are top

vars == <<waiting, released>>

Waits(t) == \E i \in 1..Len(waiting) : waiting[i] = t
Top == waiting[Len(waiting)]
Below == IF Len(waiting) = 1 THEN {} ELSE {waiting[Len(waiting) - 1]}

Init == waiting = <<>> /\ released = {}

(* A task enters; the scheduler may release it, and others, at once.       *)
Enter(t) ==
  /\ ~Waits(t)
  /\ waiting' = Append(waiting, t)
  /\ \E more \in SUBSET {u \in Tasks : Waits(u) \/ u = t} :
       released' = released \cup more

(* The top leaves and the release reaches the next one.                    *)
Exit(t) ==
  /\ Waits(t) /\ t = Top /\ t \in released
  /\ waiting' = SubSeq(waiting, 1, Len(waiting) - 1)
  /\ released' = (released \ {t}) \cup Below

(* The top leaves and enters again at once: it has to be released anew.    *)
Reenter(t) ==
  /\ Waits(t) /\ t = Top /\ t \in released
  /\ \E more \in SUBSET {u \in Tasks : Waits(u)} :
       released' = (released \ {t}) \cup Below \cup more
  /\ UNCHANGED waiting

(* A wake-up, a signal, a sleeper that wakes the one above it: tasks are   *)
(* released, and a release is never taken back while something is below.   *)
Release ==
  /\ \E more \in SUBSET {u \in Tasks : Waits(u)} :
       more # {} /\ released' = released \cup more
  /\ UNCHANGED waiting

Next == Release \/ \E t \in Tasks : Enter(t) \/ Exit(t) \/ Reenter(t)

Spec == Init /\ [][Next]_vars
=============================================================================
