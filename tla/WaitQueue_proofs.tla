--------------------------- MODULE WaitQueue_proofs ---------------------------
(***************************************************************************)
(* The safety of WaitQueue, and of the locks on top of it, for any set of  *)
(* tasks.                                                                  *)
(*                                                                         *)
(* The inductive invariant is the chain (ChainHolds: the pointers spell    *)
(* out the stack of sleepers) with WakeUpHandedOn.  The second needs the   *)
(* first: Pass makes "the head" runnable, and only the chain says that the *)
(* head arrived after the task that passes.                                *)
(***************************************************************************)
EXTENDS SleepLock, SequenceTheorems, FiniteSetTheorems, TLAPS

States == {TASK_RUNNING, TASK_INTERRUPTIBLE, TASK_UNINTERRUPTIBLE}

(* The signal scan of schedule() only ever makes tasks runnable.           *)
LEMMA WakePendingMonotone ==
  ASSUME NEW s \in [Tasks -> States]
  PROVE  /\ WakePending(s) \in [Tasks -> States]
         /\ \A u \in Tasks : s[u] = TASK_RUNNING => WakePending(s)[u] = TASK_RUNNING
BY DEF WakePending, States, TASK_RUNNING, TASK_INTERRUPTIBLE, TASK_UNINTERRUPTIBLE

LEMMA EmptyLen ==
  ASSUME NEW S, NEW s \in Seq(S)
  PROVE  s = <<>> <=> Len(s) = 0
BY EmptySeq

LEMMA FrontOf ==
  ASSUME NEW S, NEW s \in Seq(S), Len(s) # 0
  PROVE  LET front == SubSeq(s, 1, Len(s) - 1)
         IN  /\ front \in Seq(S)
             /\ Len(front) = Len(s) - 1
             /\ \A i \in 1..(Len(s) - 1) : front[i] = s[i]
<1> DEFINE m == Len(s) - 1
           front == SubSeq(s, 1, m)
<1>1. m \in Nat /\ \A i \in 1..m : s[i] \in S
  OBVIOUS
<1>2. /\ front \in Seq(S)
      /\ Len(front) = IF 1 <= m THEN m - 1 + 1 ELSE 0
      /\ \A i \in 1..(m - 1 + 1) : front[i] = s[1 + i - 1]
  <2> HIDE DEF m
  <2> QED BY <1>1, SubSeqProperties
<1>3. Len(front) = m /\ \A i \in 1..m : front[i] = s[i]
  <2> HIDE DEF m, front
  <2>1. m - 1 + 1 = m /\ \A i \in 1..m : 1 + i - 1 = i
    BY <1>1
  <2> QED BY <1>1, <1>2, <2>1
<1> QED BY <1>2, <1>3

LEMMA InitType == Init => TypeOK
BY DEF Init, TypeOK, TASK_RUNNING

(* Every action keeps the types; Leave and SleepAgain put tmp[t] in head.  *)
LEMMA TypeStep == TypeOK /\ [Next]_vars => TypeOK'
<1> SUFFICES ASSUME TypeOK, [Next]_vars PROVE TypeOK'
  OBVIOUS
<1> USE NoTaskAssumption DEF TypeOK
<1>st. States = {TASK_RUNNING, TASK_INTERRUPTIBLE, TASK_UNINTERRUPTIBLE}
  BY DEF States
<1>1. CASE WakeUp
  BY <1>1 DEF WakeUp
<1>2. CASE Schedule
  <2>1. state' \in [Tasks -> States]
    BY <1>2, <1>st, WakePendingMonotone DEF Schedule
  <2> QED BY <2>1, <1>2, <1>st DEF Schedule
<1>3. ASSUME NEW t \in Tasks, NEW st \in {TASK_INTERRUPTIBLE, TASK_UNINTERRUPTIBLE},
             SleepOn(t, st)
      PROVE  TypeOK'
  <2>1. [state EXCEPT ![t] = st] \in [Tasks -> States]
    BY <1>st
  <2>2. state' \in [Tasks -> States]
    BY <1>3, <2>1, WakePendingMonotone DEF SleepOn
  <2>3. order' \in Seq(Tasks)
    BY <1>3 DEF SleepOn
  <2>4. passed' \subseteq asleep' /\ asleep' \subseteq Tasks
    BY <1>3 DEF SleepOn
  <2> QED BY <2>2, <2>3, <2>4, <1>3, <1>st DEF SleepOn
<1>4. ASSUME NEW t \in Tasks, NEW st \in {TASK_INTERRUPTIBLE, TASK_UNINTERRUPTIBLE},
             SleepAgain(t, st)
      PROVE  TypeOK'
  <2>1. [NextReleased(t) EXCEPT ![t] = st] \in [Tasks -> States]
    BY <1>st DEF NextReleased
  <2>2. state' \in [Tasks -> States]
    BY <1>4, <2>1, WakePendingMonotone DEF SleepAgain
  <2> QED BY <2>2, <1>4, <1>st DEF SleepAgain
<1>5. ASSUME NEW t \in Tasks, Pass(t)
      PROVE  TypeOK'
  <2>1. [state EXCEPT ![head] = TASK_RUNNING, ![t] = TASK_UNINTERRUPTIBLE]
          \in [Tasks -> States]
    BY <1>st
  <2>2. state' \in [Tasks -> States]
    BY <1>5, <2>1, WakePendingMonotone DEF Pass
  <2> QED BY <2>2, <1>5, <1>st DEF Pass
<1>6. ASSUME NEW t \in Tasks, Leave(t)
      PROVE  TypeOK'
  <2>1. order' \in Seq(Tasks)
    BY <1>6 DEF Leave
  <2> QED BY <2>1, <1>6 DEF Leave, NextReleased
<1>7. ASSUME NEW t \in Tasks, Interrupt(t) \/ TakeSignal(t)
      PROVE  TypeOK'
  BY <1>7 DEF Interrupt, TakeSignal
<1>8. CASE UNCHANGED vars
  BY <1>8 DEF vars
<1> QED
  BY <1>1, <1>2, <1>3, <1>4, <1>5, <1>6, <1>7, <1>8 DEF Next, Sleep

LEMMA InitChain == Init => ChainHolds
BY DEF Init, ChainHolds, InQueue

(* The stack and the pointers move together: SleepOn pushes, Leave pops,   *)
(* and a task leaves only as the head, that is, as the top of the stack.   *)
LEMMA ChainStep == TypeOK /\ ChainHolds /\ [Next]_vars => ChainHolds'
<1> SUFFICES ASSUME TypeOK, ChainHolds, [Next]_vars PROVE ChainHolds'
  OBVIOUS
<1> USE NoTaskAssumption
<1>1. ASSUME UNCHANGED <<head, tmp, asleep, order>>
      PROVE  ChainHolds'
  BY <1>1 DEF ChainHolds, InQueue
<1>2. ASSUME NEW t \in Tasks, NEW st \in {TASK_INTERRUPTIBLE, TASK_UNINTERRUPTIBLE},
             SleepOn(t, st)
      PROVE  ChainHolds'
  <2> DEFINE n == Len(order)
  <2>1. /\ order \in Seq(Tasks) /\ n \in Nat
        /\ order' = Append(order, t)
        /\ Len(order') = n + 1
        /\ order'[n + 1] = t /\ \A i \in 1..n : order'[i] = order[i]
    BY <1>2 DEF SleepOn, TypeOK
  <2>2. \A i \in 1..n : order[i] \in Tasks /\ order[i] # t
    BY <1>2, <2>1 DEF SleepOn, ChainHolds, InQueue
  <2>3. head' = order'[Len(order')]
    BY <1>2, <2>1 DEF SleepOn
  <2>4. ASSUME NEW i \in 1..Len(order')
        PROVE  tmp'[order'[i]] = IF i = 1 THEN NoTask ELSE order'[i - 1]
    <3>1. CASE i = n + 1
      <4>1. order'[i] = t /\ tmp'[t] = head
        BY <3>1, <2>1, <1>2 DEF SleepOn, TypeOK
      <4>2. n = 0 <=> order = <<>>
        BY <2>1, EmptyLen
      <4> QED BY <4>1, <4>2, <3>1, <2>1 DEF ChainHolds
    <3>2. CASE i \in 1..n
      BY <3>2, <2>1, <2>2, <1>2 DEF SleepOn, ChainHolds, TypeOK
    <3> QED BY <3>1, <3>2, <2>1
  <2>5. \A i, j \in 1..Len(order') : order'[i] = order'[j] => i = j
    BY <2>1, <2>2 DEF ChainHolds
  <2>6. \A u \in Tasks : u \in asleep' <=> InQueue(u)'
    BY <2>1, <1>2 DEF SleepOn, ChainHolds, InQueue
  <2> QED BY <2>1, <2>3, <2>4, <2>5, <2>6 DEF ChainHolds
<1>3. ASSUME NEW t \in Tasks, NEW st \in {TASK_INTERRUPTIBLE, TASK_UNINTERRUPTIBLE},
             SleepAgain(t, st)
      PROVE  ChainHolds'
  <2>1. head = t
    BY <1>3 DEF SleepAgain, ChainHolds, InQueue, TypeOK
  <2> QED BY <2>1, <1>3, <1>1 DEF SleepAgain
<1>4. ASSUME NEW t \in Tasks, Leave(t)
      PROVE  ChainHolds'
  <2> DEFINE n == Len(order)
  <2>1. /\ order \in Seq(Tasks) /\ n \in Nat \ {0}
        /\ order # <<>> /\ head = t /\ t = order[n]
    BY <1>4 DEF Leave, ChainHolds, InQueue, TypeOK
  <2>2. /\ order' = SubSeq(order, 1, n - 1)
        /\ order' \in Seq(Tasks)
        /\ Len(order') = n - 1
        /\ \A i \in 1..(n - 1) : order'[i] = order[i]
    <3>1. order' = SubSeq(order, 1, n - 1)
      BY <2>1, <1>4 DEF Leave
    <3> QED BY <3>1, <2>1, FrontOf
  <2>3. head' = IF order' = <<>> THEN NoTask ELSE order'[Len(order')]
    <3>1. head' = IF n = 1 THEN NoTask ELSE order[n - 1]
      <4>1. head' = tmp[order[n]] /\ n \in 1..n
        BY <1>4, <2>1 DEF Leave
      <4> QED BY <4>1 DEF ChainHolds
    <3>2. order' = <<>> <=> n = 1
      <4>1. order' = <<>> <=> Len(order') = 0
        BY <2>2, EmptyLen
      <4> QED BY <4>1, <2>1, <2>2
    <3> QED BY <3>1, <3>2, <2>1, <2>2
  <2>4. \A i \in 1..Len(order') : tmp'[order'[i]] = IF i = 1 THEN NoTask ELSE order'[i - 1]
    BY <1>4, <2>1, <2>2 DEF Leave, ChainHolds
  <2>5. \A i, j \in 1..Len(order') : order'[i] = order'[j] => i = j
    BY <2>1, <2>2 DEF ChainHolds
  <2>6. ASSUME NEW u \in Tasks
        PROVE  u \in asleep' <=> InQueue(u)'
    <3>1. u \in asleep' <=> u \in asleep /\ u # t
      BY <1>4 DEF Leave
    <3>2. u \in asleep <=> \E i \in 1..n : order[i] = u
      BY <2>1 DEF ChainHolds, InQueue
    <3>3. InQueue(u)' <=> \E i \in 1..(n - 1) : order[i] = u
      BY <2>2 DEF InQueue
    <3>4. \A i \in 1..n : order[i] = order[n] => i = n
      BY <2>1 DEF ChainHolds
    <3> QED BY <3>1, <3>2, <3>3, <3>4, <2>1
  <2> QED BY <2>3, <2>4, <2>5, <2>6 DEF ChainHolds
<1>5. ASSUME NEW t \in Tasks, Pass(t) \/ Interrupt(t) \/ TakeSignal(t)
      PROVE  ChainHolds'
  BY <1>5, <1>1 DEF Pass, Interrupt, TakeSignal
<1>6. CASE WakeUp \/ Schedule \/ UNCHANGED vars
  BY <1>6, <1>1 DEF WakeUp, Schedule, vars
<1> QED
  BY <1>2, <1>3, <1>4, <1>5, <1>6 DEF Next, Sleep

LEMMA InitHanded == Init => WakeUpHandedOn
BY DEF Init, WakeUpHandedOn

(* A state change that makes tasks runnable, and nobody else, keeps the    *)
(* wake-ups that were handed on.                                           *)
LEMMA Monotone ==
  ASSUME TypeOK, WakeUpHandedOn, UNCHANGED <<order, asleep, passed>>,
         \A u \in Tasks : state[u] = TASK_RUNNING => state'[u] = TASK_RUNNING
  PROVE  WakeUpHandedOn'
<1>1. ASSUME NEW i \in 1..Len(order),
             order[i] \in passed, order[i] \in asleep, state'[order[i]] # TASK_RUNNING
      PROVE  \E j \in 1..Len(order) : j > i /\ state'[order[j]] = TASK_RUNNING
  <2>1. \A j \in 1..Len(order) : order[j] \in Tasks
    BY DEF TypeOK
  <2>2. state[order[i]] # TASK_RUNNING
    BY <1>1, <2>1
  <2>3. PICK j \in 1..Len(order) : j > i /\ state[order[j]] = TASK_RUNNING
    BY <1>1, <2>2 DEF WakeUpHandedOn, Blocked
  <2> QED BY <2>1, <2>3
<1> QED BY <1>1 DEF WakeUpHandedOn, Blocked

(* A wake-up handed on is never lost: whoever may run after a step is the  *)
(* top of the stack or just below the task that left the top.              *)
LEMMA HandedStep ==
  TypeOK /\ ChainHolds /\ WakeUpHandedOn /\ [Next]_vars => WakeUpHandedOn'
<1> SUFFICES ASSUME TypeOK, ChainHolds, WakeUpHandedOn, [Next]_vars
             PROVE  WakeUpHandedOn'
  OBVIOUS
<1> USE NoTaskAssumption
<1> DEFINE n == Len(order)
<1>st. States = {TASK_RUNNING, TASK_INTERRUPTIBLE, TASK_UNINTERRUPTIBLE}
  BY DEF States
<1>or. order \in Seq(Tasks) /\ n \in Nat /\ \A i \in 1..n : order[i] \in Tasks
  BY DEF TypeOK
<1>1. ASSUME NEW t \in Tasks, NEW st \in {TASK_INTERRUPTIBLE, TASK_UNINTERRUPTIBLE},
             SleepOn(t, st)
      PROVE  WakeUpHandedOn'
  <2>1. /\ Len(order') = n + 1 /\ order'[n + 1] = t
        /\ \A i \in 1..n : order'[i] = order[i] /\ order[i] # t
    BY <1>1, <1>or DEF SleepOn, ChainHolds, InQueue
  <2>2. \A u \in Tasks : u # t /\ state[u] = TASK_RUNNING => state'[u] = TASK_RUNNING
    <3>1. [state EXCEPT ![t] = st] \in [Tasks -> States]
      BY <1>st DEF TypeOK
    <3>2. \A u \in Tasks : u # t => [state EXCEPT ![t] = st][u] = state[u]
      BY DEF TypeOK
    <3>3. state' = WakePending([state EXCEPT ![t] = st])
      BY <1>1 DEF SleepOn
    <3> QED BY <3>1, <3>2, <3>3, WakePendingMonotone
  <2>3. ASSUME NEW i \in 1..(n + 1),
               order'[i] \in passed', state'[order'[i]] # TASK_RUNNING, order'[i] \in asleep'
        PROVE  \E j \in 1..(n + 1) : j > i /\ state'[order'[j]] = TASK_RUNNING
    <3>1. i # n + 1 /\ i \in 1..n
      BY <2>1, <2>3, <1>1, <1>or DEF SleepOn
    <3>2. /\ order[i] \in passed /\ order[i] \in asleep
          /\ state[order[i]] # TASK_RUNNING
      <4>1. order'[i] = order[i] /\ order[i] # t /\ order[i] \in Tasks
        BY <3>1, <2>1, <1>or
      <4>2. order[i] \in passed /\ order[i] \in asleep
        BY <4>1, <2>3, <1>1 DEF SleepOn
      <4> QED BY <4>1, <4>2, <2>2, <2>3
    <3>3. PICK j \in 1..n : j > i /\ state[order[j]] = TASK_RUNNING
      BY <3>1, <3>2 DEF WakeUpHandedOn, Blocked
    <3> QED BY <3>3, <2>1, <2>2, <1>or
  <2> QED BY <2>1, <2>3 DEF WakeUpHandedOn, Blocked
<1>2. ASSUME NEW t \in Tasks, Pass(t)
      PROVE  WakeUpHandedOn'
  <2>1. n # 0 /\ n \in 1..n /\ head = order[n] /\ head \in Tasks
    BY <1>2, <1>or, EmptyLen DEF Pass, ChainHolds
  <2>2. state'[head] = TASK_RUNNING
    <3>1. [state EXCEPT ![head] = TASK_RUNNING, ![t] = TASK_UNINTERRUPTIBLE]
            \in [Tasks -> States]
      BY <1>st DEF TypeOK
    <3>2. [state EXCEPT ![head] = TASK_RUNNING, ![t] = TASK_UNINTERRUPTIBLE][head]
            = TASK_RUNNING
      BY <2>1, <1>2 DEF Pass, TypeOK
    <3> QED BY <3>1, <3>2, <2>1, <1>2, WakePendingMonotone DEF Pass
  <2>3. ASSUME NEW i \in 1..n, state'[order[i]] # TASK_RUNNING
        PROVE  \E j \in 1..n : j > i /\ state'[order[j]] = TASK_RUNNING
    <3>1. i # n /\ n > i
      BY <2>1, <2>2, <2>3, <1>or
    <3> QED BY <3>1, <2>1, <2>2
  <2>4. order' = order
    BY <1>2 DEF Pass
  <2> QED BY <2>3, <2>4 DEF WakeUpHandedOn, Blocked
<1>3. ASSUME NEW t \in Tasks,
             t \in asleep, state[t] = TASK_RUNNING, head = NoTask \/ head = t
      PROVE  /\ n # 0 /\ n \in 1..n /\ t = order[n]
             /\ n > 1 => /\ tmp[t] = order[n - 1] /\ order[n - 1] # t
                         /\ order[n - 1] \in Tasks
                         /\ NextReleased(t)[order[n - 1]] = TASK_RUNNING
             /\ \A u \in Tasks : state[u] = TASK_RUNNING => NextReleased(t)[u] = TASK_RUNNING
  <2>1. n # 0 /\ n \in 1..n /\ t = order[n]
    <3>1. PICK i \in 1..n : order[i] = t
      BY <1>3 DEF ChainHolds, InQueue
    <3>2. n # 0 /\ n \in 1..n /\ order # <<>>
      BY <1>or, <3>1, EmptyLen
    <3>3. head = order[n]
      BY <3>2 DEF ChainHolds
    <3> QED BY <3>2, <3>3, <1>or, <1>3
  <2>2. ASSUME n > 1
        PROVE  /\ tmp[t] = order[n - 1] /\ order[n - 1] # t /\ order[n - 1] \in Tasks
               /\ NextReleased(t)[order[n - 1]] = TASK_RUNNING
    <3>1. n - 1 \in 1..n /\ n - 1 # n /\ n # 1
      BY <2>2, <1>or
    <3>2. tmp[t] = order[n - 1]
      BY <3>1, <2>1 DEF ChainHolds
    <3>3. order[n - 1] # t
      BY <3>1, <2>1 DEF ChainHolds
    <3> QED BY <3>1, <3>2, <3>3, <1>or DEF NextReleased, TypeOK
  <2>3. \A u \in Tasks : state[u] = TASK_RUNNING => NextReleased(t)[u] = TASK_RUNNING
    BY DEF NextReleased, TypeOK
  <2> QED BY <2>1, <2>2, <2>3
<1>4. ASSUME NEW t \in Tasks, Leave(t)
      PROVE  WakeUpHandedOn'
  <2>1. /\ n # 0 /\ t = order[n]
        /\ n > 1 => state'[order[n - 1]] = TASK_RUNNING
    BY <1>4, <1>3 DEF Leave
  <2>2. /\ Len(order') = n - 1
        /\ \A i \in 1..(n - 1) : order'[i] = order[i]
    BY <2>1, <1>4, <1>or, FrontOf, EmptyLen DEF Leave
  <2>3. ASSUME NEW i \in 1..(n - 1), state'[order[i]] # TASK_RUNNING
        PROVE  \E j \in 1..(n - 1) : j > i /\ state'[order[j]] = TASK_RUNNING
    <3>1. n > 1 /\ n - 1 \in 1..(n - 1)
      BY <1>or
    <3>2. i # n - 1
      BY <3>1, <2>1, <2>3
    <3> QED BY <3>1, <3>2, <2>1, <1>or
  <2> QED BY <2>2, <2>3 DEF WakeUpHandedOn, Blocked
<1>5. ASSUME NEW t \in Tasks, NEW st \in {TASK_INTERRUPTIBLE, TASK_UNINTERRUPTIBLE},
             SleepAgain(t, st)
      PROVE  WakeUpHandedOn'
  <2>1. /\ n # 0 /\ n \in 1..n /\ t = order[n]
        /\ n > 1 => /\ order[n - 1] # t /\ order[n - 1] \in Tasks
                    /\ NextReleased(t)[order[n - 1]] = TASK_RUNNING
    BY <1>5, <1>3 DEF SleepAgain
  <2>2. n > 1 => state'[order[n - 1]] = TASK_RUNNING
    <3>1. NextReleased(t) \in [Tasks -> States]
      BY <1>st DEF NextReleased, TypeOK
    <3>2. [NextReleased(t) EXCEPT ![t] = st] \in [Tasks -> States]
      BY <3>1, <1>st
    <3> QED BY <3>1, <3>2, <2>1, <1>5, WakePendingMonotone DEF SleepAgain
  <2>3. ASSUME NEW i \in 1..n, state'[order[i]] # TASK_RUNNING, order[i] \in passed'
        PROVE  \E j \in 1..n : j > i /\ state'[order[j]] = TASK_RUNNING
    <3>1. order[i] # t
      BY <2>3, <1>5 DEF SleepAgain
    <3>2. i # n /\ n > 1 /\ n - 1 \in 1..n
      BY <3>1, <2>1, <1>or
    <3>3. i # n - 1
      BY <3>2, <2>2, <2>3
    <3> QED BY <3>2, <3>3, <2>2, <1>or
  <2>4. order' = order
    BY <1>5 DEF SleepAgain
  <2> QED BY <2>3, <2>4 DEF WakeUpHandedOn, Blocked
<1>6. CASE WakeUp
  <2>1. \A u \in Tasks : state[u] = TASK_RUNNING => state'[u] = TASK_RUNNING
    BY <1>6 DEF WakeUp, TypeOK
  <2> QED BY <2>1, <1>6, Monotone DEF WakeUp
<1>7. CASE Schedule
  <2>1. state \in [Tasks -> States]
    BY <1>st DEF TypeOK
  <2>2. \A u \in Tasks : state[u] = TASK_RUNNING => state'[u] = TASK_RUNNING
    BY <2>1, <1>7, WakePendingMonotone DEF Schedule
  <2> QED BY <2>2, <1>7, Monotone DEF Schedule
<1>8. ASSUME NEW t \in Tasks, Interrupt(t) \/ TakeSignal(t)
      PROVE  WakeUpHandedOn'
  BY <1>8, Monotone DEF Interrupt, TakeSignal
<1>9. CASE UNCHANGED vars
  BY <1>9, Monotone DEF vars
<1> QED
  BY <1>1, <1>2, <1>4, <1>5, <1>6, <1>7, <1>8, <1>9 DEF Next, Sleep

(* The inductive invariant.                                                *)
IInv == TypeOK /\ ChainHolds /\ WakeUpHandedOn

LEMMA Inductive == Spec => []IInv
<1>1. Init => IInv
  BY InitType, InitChain, InitHanded DEF IInv
<1>2. IInv /\ [Next]_vars => IInv'
  BY TypeStep, ChainStep, HandedStep DEF IInv
<1> QED BY <1>1, <1>2, PTL DEF Spec

(* The queue pointer and the locals of __sleep_on always have their types. *)
THEOREM TypeCorrect == Spec => []TypeOK
<1>1. IInv => TypeOK
  BY DEF IInv
<1> QED BY <1>1, Inductive, PTL

(* However many tasks sleep and in whatever order they are woken, the list *)
(* threaded through their stacks holds each of them exactly once.          *)
THEOREM ChainCorrect == Spec => []ChainHolds
<1>1. IInv => ChainHolds
  BY DEF IInv
<1> QED BY <1>1, Inductive, PTL

(* A task that gave its wake-up to later arrivals is never left behind.    *)
THEOREM NoWakeUpLost == Spec => []WakeUpHandedOn
<1>1. IInv => WakeUpHandedOn
  BY DEF IInv
<1> QED BY <1>1, Inductive, PTL

(* The warning of __sleep_on is unreachable as long as the queue pointer   *)
(* is written by the wait queue's own code only.                           *)
THEOREM NeverNullHead == Spec => []HeadNeverLost
<1>1. IInv => HeadNeverLost
  <2> SUFFICES ASSUME TypeOK, ChainHolds, asleep # {} PROVE head # NoTask
    BY DEF IInv, HeadNeverLost
  <2>1. PICK t \in Tasks : InQueue(t)
    BY DEF TypeOK, ChainHolds
  <2>2. order \in Seq(Tasks) /\ Len(order) \in Nat /\ Len(order) # 0
    BY <2>1 DEF TypeOK, InQueue
  <2>3. head = order[Len(order)] /\ head \in Tasks
    BY <2>2, EmptyLen DEF ChainHolds
  <2> QED BY <2>3, NoTaskAssumption
<1> QED BY <1>1, Inductive, PTL

-----------------------------------------------------------------------------
(* What the tasks of the queue look like from the abstract stack.          *)
Released == passed \cup {t \in asleep : state[t] = TASK_RUNNING}

(* A sleeper that is about to leave, or to sleep again, is the top.        *)
LEMMA AwakeAtHeadIsTop ==
  ASSUME IInv, NEW t \in asleep, head = NoTask \/ head = t
  PROVE  /\ order \in Seq(Tasks) /\ Len(order) \in Nat /\ Len(order) # 0
         /\ t = order[Len(order)] /\ t \in Tasks
         /\ tmp[t] = IF Len(order) = 1 THEN NoTask ELSE order[Len(order) - 1]
         /\ Len(order) # 1 => /\ order[Len(order) - 1] \in Tasks
                              /\ order[Len(order) - 1] # t
                              /\ order[Len(order) - 1] \in asleep
<1> DEFINE n == Len(order)
<1>1. order \in Seq(Tasks) /\ n \in Nat /\ t \in Tasks /\ \A i \in 1..n : order[i] \in Tasks
  BY DEF IInv, TypeOK
<1>2. PICK i \in 1..n : order[i] = t
  BY <1>1 DEF IInv, ChainHolds, InQueue
<1>3. n # 0 /\ n \in 1..n /\ order # <<>>
  BY <1>1, <1>2, EmptyLen
<1>4. head = order[n]
  BY <1>3 DEF IInv, ChainHolds
<1>5. t = order[n]
  BY <1>1, <1>3, <1>4, NoTaskAssumption
<1>6. tmp[t] = IF n = 1 THEN NoTask ELSE order[n - 1]
  <2>1. \A k \in 1..n : tmp[order[k]] = IF k = 1 THEN NoTask ELSE order[k - 1]
    BY DEF IInv, ChainHolds
  <2>2. tmp[order[n]] = IF n = 1 THEN NoTask ELSE order[n - 1]
    <3> HIDE DEF n
    <3> QED BY <2>1, <1>3
  <2> QED BY <2>2, <1>5
<1>7. ASSUME n # 1
      PROVE  order[n - 1] \in Tasks /\ order[n - 1] # t /\ order[n - 1] \in asleep
  <2>1. n - 1 \in 1..n /\ n - 1 # n
    <3>1. n \in Nat /\ n # 0 /\ n # 1
      BY <1>1, <1>3, <1>7
    <3> HIDE DEF n
    <3> QED BY <3>1
  <2>2. InQueue(order[n - 1])
    BY <2>1 DEF InQueue
  <2> QED BY <1>1, <1>3, <1>5, <2>1, <2>2 DEF IInv, ChainHolds
<1> QED BY <1>1, <1>3, <1>5, <1>6, <1>7

(* A task leaves only when every task that arrived after it has left.      *)
THEOREM LastInFirstOut == Spec => LeavesLast
<1> DEFINE Last == \A t \in Tasks : t \in asleep /\ t \notin asleep' => t = order[Len(order)]
<1>1. ASSUME IInv, [Next]_vars
      PROVE  Last
  <2>1. ASSUME NEW t \in Tasks, Leave(t)
        PROVE  Last
    BY <1>1, <2>1, AwakeAtHeadIsTop DEF Leave
  <2>2. ASSUME asleep \subseteq asleep'
        PROVE  Last
    BY <2>2
  <2> QED
    BY <1>1, <2>1, <2>2 DEF Next, vars, WakeUp, Schedule, Sleep, SleepOn, SleepAgain,
                            Pass, Interrupt, TakeSignal
<1>2. IInv /\ [Next]_vars => [Last]_vars
  BY <1>1
<1> QED BY <1>2, Inductive, PTL DEF Spec, LeavesLast

(* The queue implements the stack of WaitStack.                            *)
LEMMA InitRefines == Init => Promise!Init
BY DEF Init, Promise!Init

LEMMA StepRefines == IInv /\ [Next]_vars => [Promise!Next]_(Promise!vars)
<1> SUFFICES ASSUME IInv, [Next]_vars PROVE [Promise!Next]_(Promise!vars)
  OBVIOUS
<1> USE NoTaskAssumption
<1> DEFINE n == Len(order)
<1>st. States = {TASK_RUNNING, TASK_INTERRUPTIBLE, TASK_UNINTERRUPTIBLE}
  BY DEF States
<1>ty. /\ state \in [Tasks -> States] /\ asleep \subseteq Tasks /\ passed \subseteq asleep
       /\ order \in Seq(Tasks)
  BY <1>st DEF IInv, TypeOK
<1>wt. \A u : Promise!Waits(u) <=> u \in asleep
  <2>1. ASSUME NEW u, Promise!Waits(u)
        PROVE  u \in asleep
    BY <2>1, <1>ty DEF Promise!Waits, IInv, ChainHolds, InQueue
  <2>2. ASSUME NEW u \in asleep
        PROVE  Promise!Waits(u)
    BY <2>2, <1>ty DEF Promise!Waits, IInv, ChainHolds, InQueue
  <2> QED BY <2>1, <2>2
<1>0. ASSUME order' = order, asleep' = asleep, passed \subseteq passed', passed' \subseteq asleep,
             \A u \in asleep : state[u] = TASK_RUNNING =>
                               state'[u] = TASK_RUNNING \/ u \in passed'
      PROVE  [Promise!Next]_(Promise!vars)
  <2>1. Released \subseteq Released' /\ Released' \subseteq asleep
    BY <1>0 DEF Released
  <2>2. CASE Released' = {}
    BY <2>1, <2>2, <1>0 DEF Promise!vars, Released
  <2>3. CASE Released' # {}
    <3>1. Released' \in SUBSET {u \in Tasks : Promise!Waits(u)}
      BY <2>1, <1>wt, <1>ty
    <3>2. Promise!Release
      BY <3>1, <2>1, <2>3, <1>0 DEF Promise!Release, Released
    <3> QED BY <3>2 DEF Promise!Next
  <2> QED BY <2>2, <2>3
<1>1. ASSUME NEW t \in Tasks, NEW st \in {TASK_INTERRUPTIBLE, TASK_UNINTERRUPTIBLE},
             SleepOn(t, st)
      PROVE  [Promise!Next]_(Promise!vars)
  <2>1. \A u \in asleep : state[u] = TASK_RUNNING => state'[u] = TASK_RUNNING
    <3>1. [state EXCEPT ![t] = st] \in [Tasks -> States]
      BY <1>st, <1>ty
    <3>2. \A u \in asleep : [state EXCEPT ![t] = st][u] = state[u]
      BY <1>ty, <1>1 DEF SleepOn
    <3>3. state' = WakePending([state EXCEPT ![t] = st])
      BY <1>1 DEF SleepOn
    <3> QED BY <3>1, <3>2, <3>3, <1>ty, WakePendingMonotone
  <2>2. Released \subseteq Released' /\ Released' \subseteq asleep \cup {t}
    BY <2>1, <1>1, <1>ty DEF Released, SleepOn
  <2>3. Released' \in SUBSET {u \in Tasks : Promise!Waits(u) \/ u = t}
    <3>1. asleep \cup {t} \subseteq {u \in Tasks : Promise!Waits(u) \/ u = t}
      BY <1>wt, <1>ty
    <3> QED BY <3>1, <2>2
  <2>4. ~Promise!Waits(t) /\ order' = Append(order, t)
    BY <1>1, <1>wt DEF SleepOn
  <2>5. Promise!Enter(t)
    BY <2>2, <2>3, <2>4 DEF Promise!Enter, Released
  <2> QED BY <2>5 DEF Promise!Next
<1>2. ASSUME NEW t \in Tasks, Leave(t)
      PROVE  [Promise!Next]_(Promise!vars)
  <2>1. /\ n # 0 /\ t = order[n] /\ order # <<>>
        /\ tmp[t] = IF n = 1 THEN NoTask ELSE order[n - 1]
        /\ n # 1 => /\ order[n - 1] \in Tasks /\ order[n - 1] # t
                    /\ order[n - 1] \in asleep
    BY <1>2, AwakeAtHeadIsTop, EmptyLen DEF Leave
  <2>2. Promise!Waits(t) /\ t = Promise!Top /\ t \in Released
    BY <2>1, <1>2, <1>wt DEF Leave, Promise!Top, Released
  <2>3. order' = SubSeq(order, 1, n - 1)
    BY <2>1, <1>2 DEF Leave
  <2>4. Released' = (Released \ {t}) \cup Promise!Below
    <3>1. CASE n = 1
      BY <3>1, <2>1, <1>2 DEF Leave, NextReleased, Released, Promise!Below
    <3>2. CASE n # 1
      <4>1. state' = [state EXCEPT ![order[n - 1]] = TASK_RUNNING]
        BY <3>2, <2>1, <1>2 DEF Leave, NextReleased
      <4>2. Promise!Below = {order[n - 1]}
        BY <3>2 DEF Promise!Below
      <4> QED BY <4>1, <4>2, <3>2, <2>1, <1>2, <1>ty DEF Leave, Released
    <3> QED BY <3>1, <3>2
  <2>5. Promise!Exit(t)
    BY <2>2, <2>3, <2>4 DEF Promise!Exit, Released
  <2> QED BY <2>5 DEF Promise!Next
<1>3. ASSUME NEW t \in Tasks, NEW st \in {TASK_INTERRUPTIBLE, TASK_UNINTERRUPTIBLE},
             SleepAgain(t, st)
      PROVE  [Promise!Next]_(Promise!vars)
  <2>1. /\ n # 0 /\ t = order[n]
        /\ tmp[t] = IF n = 1 THEN NoTask ELSE order[n - 1]
        /\ n # 1 => /\ order[n - 1] \in Tasks /\ order[n - 1] # t
                    /\ order[n - 1] \in asleep
    BY <1>3, AwakeAtHeadIsTop DEF SleepAgain
  <2>2. Promise!Waits(t) /\ t = Promise!Top /\ t \in Released
    BY <2>1, <1>3, <1>wt DEF SleepAgain, Promise!Top, Released
  <2> DEFINE s == [NextReleased(t) EXCEPT ![t] = st]
  <2>3. /\ s \in [Tasks -> States]
        /\ \A u \in Tasks : u # t /\ state[u] = TASK_RUNNING => s[u] = TASK_RUNNING
        /\ n # 1 => s[order[n - 1]] = TASK_RUNNING
    BY <2>1, <1>st, <1>ty DEF NextReleased
  <2>4. state' = WakePending(s)
    BY <1>3 DEF SleepAgain
  <2>5. /\ \A u \in Tasks : u # t /\ state[u] = TASK_RUNNING => state'[u] = TASK_RUNNING
        /\ n # 1 => state'[order[n - 1]] = TASK_RUNNING
    <3> HIDE DEF s
    <3> QED BY <2>1, <2>3, <2>4, WakePendingMonotone
  <2>6. Released \ {t} \subseteq Released' /\ Released' \subseteq asleep
    BY <2>5, <1>3, <1>ty DEF SleepAgain, Released
  <2>7. Promise!Below \subseteq Released'
    <3>1. CASE n = 1
      BY <3>1 DEF Promise!Below
    <3>2. CASE n # 1
      BY <3>2, <2>1, <2>5, <1>3 DEF Promise!Below, Released, SleepAgain
    <3> QED BY <3>1, <3>2
  <2>8. Released' \in SUBSET {u \in Tasks : Promise!Waits(u)}
    <3>1. asleep \subseteq {u \in Tasks : Promise!Waits(u)}
      BY <1>wt, <1>ty
    <3> QED BY <3>1, <2>6
  <2>9. Released' = (Released \ {t}) \cup Promise!Below \cup Released'
    BY <2>6, <2>7
  <2>10. Promise!Reenter(t)
    BY <2>2, <2>8, <2>9, <1>3 DEF Promise!Reenter, Released, SleepAgain
  <2> QED BY <2>10 DEF Promise!Next
<1>4. ASSUME NEW t \in Tasks, Pass(t)
      PROVE  [Promise!Next]_(Promise!vars)
  <2> DEFINE s == [state EXCEPT ![head] = TASK_RUNNING, ![t] = TASK_UNINTERRUPTIBLE]
  <2>1. /\ s \in [Tasks -> States]
        /\ \A u \in Tasks : u # t /\ state[u] = TASK_RUNNING => s[u] = TASK_RUNNING
    BY <1>st, <1>ty
  <2>2. state' = WakePending(s)
    BY <1>4 DEF Pass
  <2>3. \A u \in Tasks : u # t /\ state[u] = TASK_RUNNING => state'[u] = TASK_RUNNING
    <3> HIDE DEF s
    <3> QED BY <2>1, <2>2, WakePendingMonotone
  <2> QED BY <2>3, <1>4, <1>ty, <1>0 DEF Pass
<1>5. CASE WakeUp
  BY <1>5, <1>ty, <1>0 DEF WakeUp
<1>6. CASE Schedule
  BY <1>6, <1>ty, <1>0, WakePendingMonotone DEF Schedule
<1>7. ASSUME NEW t \in Tasks, Interrupt(t) \/ TakeSignal(t)
      PROVE  [Promise!Next]_(Promise!vars)
  BY <1>7, <1>ty, <1>0 DEF Interrupt, TakeSignal
<1>8. CASE UNCHANGED vars
  BY <1>8, <1>ty, <1>0 DEF vars
<1> QED
  BY <1>1, <1>2, <1>3, <1>4, <1>5, <1>6, <1>7, <1>8 DEF Next, Sleep

(* Every behaviour of the queue is one of the abstract stack: nobody       *)
(* leaves before it is released, or before a later arrival.                *)
THEOREM QueueImplementsStack == Spec => ImplementsStack
BY InitRefines, StepRefines, Inductive, PTL DEF Spec, Promise!Spec, ImplementsStack

-----------------------------------------------------------------------------
(* Mutual exclusion of the sleeping locks.  The queue does not take part   *)
(* in it: whoever is woken, and in whatever order, tests the bit again in  *)
(* the step in which he takes it.  The inductive invariant says who holds  *)
(* the lock instead of how many do.                                        *)
HeldIffLocked ==
  /\ locked \in BOOLEAN
  /\ holders \subseteq Tasks
  /\ ~locked => holders = {}
  /\ locked => \E t \in Tasks : holders = {t}

(* At most one holder follows from knowing which one.                     *)
LEMMA HeldOnce == HeldIffLocked => OneHolder
BY FS_EmptySet, FS_Singleton DEF HeldIffLocked, OneHolder

(* What comes after the loop is done only with a lock that is free.        *)
LEMMA ProceedHolds ==
  ASSUME HeldIffLocked, ~locked, NEW t \in Tasks, NEW want, Proceed(t, want)
  PROVE  HeldIffLocked'
BY DEF HeldIffLocked, Proceed

(* A call sleeps beside a lock that is taken, or goes on at once.          *)
LEMMA CallHolds ==
  ASSUME HeldIffLocked, NEW t \in Tasks, NEW want, Call(t, want)
  PROVE  HeldIffLocked'
<1>1. CASE locked
  BY <1>1 DEF HeldIffLocked, Call
<1>2. CASE ~locked
  <2>1. Proceed(t, want)
    BY <1>2 DEF Call
  <2> QED BY <1>2, <2>1, ProceedHolds
<1> QED BY <1>1, <1>2

(* A task that is woken finds the lock taken again, takes it, or unlocks.  *)
LEMMA LockStepHolds ==
  ASSUME HeldIffLocked, NEW t \in Tasks, LockStep(t)
  PROVE  HeldIffLocked'
<1>1. CASE UNCHANGED <<locked, wants, holders>>
  BY <1>1 DEF HeldIffLocked
<1>2. CASE ~locked /\ Proceed(t, wants[t])
  BY <1>2, ProceedHolds
<1>3. CASE Unlock(t)
  BY <1>3 DEF HeldIffLocked, Unlock
<1> QED BY <1>1, <1>2, <1>3 DEF LockStep, Retry

(* lock_buffer, lock_inode and lock_super: at any time at most one task    *)
(* has come back from them without having unlocked, and the bit says so.   *)
THEOREM OneHolderAlways == LockSpec => []OneHolder
<1>1. LockInit => HeldIffLocked
  BY DEF LockInit, LockFree, HeldIffLocked
<1>2. HeldIffLocked /\ [LockNext]_<<vars, lockVars>> => HeldIffLocked'
  <2> SUFFICES ASSUME HeldIffLocked, [LockNext]_<<vars, lockVars>>
               PROVE  HeldIffLocked'
    OBVIOUS
  <2>1. CASE LockNext
    BY <2>1, CallHolds, LockStepHolds DEF LockNext
  <2>2. CASE UNCHANGED <<vars, lockVars>>
    BY <2>2 DEF lockVars, HeldIffLocked
  <2> QED BY <2>1, <2>2
<1> QED BY <1>1, <1>2, HeldOnce, PTL DEF LockSpec
===============================================================================
