----------------------------- MODULE KernelTimer -----------------------------
(***************************************************************************)
(* The kernel timers: add_timer and the timer part of do_timer             *)
(* (kernel/sched.c), as the floppy driver uses them.                       *)
(*                                                                         *)
(* next_timer is a list of deltas: each entry counts from the expiry of    *)
(* the one before it and a tick decrements the first entry only.           *)
(***************************************************************************)
EXTENDS Integers, Sequences, SequencesExt

CONSTANTS Fns,            \* the handlers; each is armed at most once at a time
          MaxTimer,       \* bound on the delays that are asked for
          MaxLate,        \* bound on the lateness that is told apart
          TIME_REQUESTS   \* the size of timer_list[]

ASSUME TimerAssumption == MaxTimer \in Nat /\ MaxLate \in Nat

VARIABLES
  next_timer,   \* the list: a sequence of [jiffies, fn], the head first
  in_tick,      \* do_timer is running its while loop (interrupts are off)
  due           \* history: the ticks left until fn should run, for armed fns

timerVars == <<next_timer, in_tick, due>>

NotArmed == MaxTimer + 1
Armed == {f \in Fns : due[f] # NotArmed}

TimerInit == /\ next_timer = <<>>
        /\ in_tick = FALSE
        /\ due = [f \in Fns |-> NotArmed]

(* The new entry starts as the head and moves behind every entry that      *)
(* expires before it, losing that entry's delta each time; the entry it    *)
(* ends in front of keeps its own delta.                                   *)
Left(list, j) ==
  LET left[i \in 0..Len(list)] == IF i = 0 THEN j ELSE left[i - 1] - list[i].jiffies
  IN  left
Passes(list, j, i) == list[i].jiffies < Left(list, j)[i - 1]
Place(list, j) == CHOOSE k \in 0..Len(list) :
                    /\ \A i \in 1..k : Passes(list, j, i)
                    /\ k < Len(list) => ~Passes(list, j, k + 1)

Insert(list, j, f) ==
  LET k == Place(list, j)
  IN  InsertAt(list, k + 1, [jiffies |-> Left(list, j)[k], fn |-> f])

HasSlot == Len(next_timer) < TIME_REQUESTS

(* add_timer from a system call or another interrupt; with a delay of 0    *)
(* the handler runs at once and no timer is set.  A full table panics.     *)
AddTimer(f, j) ==
  /\ ~in_tick /\ f \notin Armed
  /\ HasSlot
  /\ next_timer' = Insert(next_timer, j, f)
  /\ due' = [due EXCEPT ![f] = j]
  /\ UNCHANGED in_tick

Sooner == [f \in Fns |-> IF f \notin Armed THEN NotArmed
                         ELSE IF due[f] > -MaxLate THEN due[f] - 1 ELSE due[f]]

(* mutant: the head is not counted down.                                   *)
TimerTick_still == /\ ~in_tick
              /\ due' = Sooner
              /\ in_tick' = (next_timer # <<>>)
              /\ UNCHANGED next_timer

TimerTick ==
  /\ ~in_tick
  /\ due' = Sooner
  /\ IF next_timer = <<>> THEN UNCHANGED <<next_timer, in_tick>>
     ELSE /\ next_timer' = [next_timer EXCEPT ![1].jiffies = @ - 1]
          /\ in_tick' = TRUE

(* mutant: the head is taken one tick early.                               *)
HeadExpired_early == next_timer # <<>> /\ Head(next_timer).jiffies <= 1

HeadExpired == next_timer # <<>> /\ Head(next_timer).jiffies <= 0

(* The list when the handler of the head has set a timer for g.            *)
SetByHandler(g, j) == Insert(Tail(next_timer), j, g)

(* One turn of the loop of do_timer: the head is taken off the list, its   *)
(* slot is free again, and its handler runs: it may set one timer.         *)
Fire(f) ==
  /\ in_tick
  /\ HeadExpired /\ Head(next_timer).fn = f
  /\ \/ /\ next_timer' = Tail(next_timer)
        /\ due' = [due EXCEPT ![f] = NotArmed]
     \/ \E g \in (Fns \ Armed) \cup {f}, j \in 1..MaxTimer :
          /\ next_timer' = SetByHandler(g, j)
          /\ due' = [due EXCEPT ![f] = NotArmed, ![g] = j]
  /\ UNCHANGED in_tick

TickEnds ==
  /\ in_tick
  /\ ~HeadExpired
  /\ in_tick' = FALSE
  /\ UNCHANGED <<next_timer, due>>

TimerNext == \/ TimerTick \/ TickEnds
        \/ \E f \in Fns : Fire(f) \/ \E j \in 1..MaxTimer : AddTimer(f, j)

TimerSpec == TimerInit /\ [][TimerNext]_timerVars

-----------------------------------------------------------------------------

(* No handler runs before its time, whatever was set in front of it.       *)
NeverEarly == [][\A f \in Fns : Fire(f) => due[f] <= 0]_timerVars

(* If timers stop being set, the ones that are set all run.                *)
SetsTimer == \E f \in Fns : due'[f] # NotArmed /\ (f \notin Armed \/ due'[f] > due[f])

AllFire == \/ []<><<SetsTimer>>_timerVars
           \/ \A f \in Fns : (f \in Armed) ~> (f \notin Armed)

=============================================================================
