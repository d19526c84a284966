------------------------------ MODULE Pipe_proofs ------------------------------
(***************************************************************************)
(* Pipes and select, for any processes and any size of the page: the bytes *)
(* come out in order, and nobody sleeps for what is there.                 *)
(*                                                                         *)
(* InOrder is about what a reader finds.  Inductive (IInv) is where the    *)
(* numbers of the bytes lie in the ring, at every step: between the        *)
(* positions, but for the piece that a writer is about to copy, and beside *)
(* them the piece that a reader is about to copy.                          *)
(*                                                                         *)
(* PipeNotStuck and SelectSeesInput are about states in which nothing      *)
(* runs.  Inductive (QInv) is who will wake whom: a queue is the chain of  *)
(* its pointers, in the order in which its members came; if one of them    *)
(* has what it waits for, then somebody is about to wake the queue, or     *)
(* somebody in the chain is awake, or lets another pass, in this queue or  *)
(* the other one, that came after it.                                      *)
(***************************************************************************)
EXTENDS Pipe, FiniteSetTheorems, WellFoundedInduction, TLAPS

(* A position or a number that has gone round once at most, either way.    *)
Round(x, m) == IF x < 0 THEN x + m ELSE IF x < m THEN x ELSE x - m
Place(x) == Round(x, PIPE_PAGE)
Nr(x) == Round(x, PIPE_PAGE + 1)
Held == Place(pipe.head - pipe.tail)

Call == [op : {"user", "read", "write", "select"},
         at : {"user", "loop", "copy", "fault", "look", "free"} \cup Queues,
         left : Nat, from : Nat, n : Nat, byte : Nat,
         in : SUBSET {"pipe", "tty"}, out : SUBSET {"pipe"}, table : SUBSET Queues,
         again : BOOLEAN]
Types ==
  /\ todo \in [Procs -> Call]
  /\ pipe \in [count : Int, head : 0..(PIPE_PAGE - 1), tail : 0..(PIPE_PAGE - 1)]
  /\ DOMAIN page = 0..(PIPE_PAGE - 1)
  /\ sent \in 0..PIPE_PAGE /\ taken \in 0..PIPE_PAGE

(* Whoever is about to copy runs; so there is one of them at most.         *)
Copying(t) == todo[t].at = "copy"
OnlyTheRunning ==
  \A t \in Procs : /\ todo[t].at # "fault"
                   /\ Copying(t) => runs = t /\ todo[t].op \in {"read", "write"}

(* The first k bytes behind tail are in the page.                          *)
InPage(k) == \A d \in 0..(k - 1) : page[Place(pipe.tail + d)] = Nr(taken + d)
WriterFits(t) ==
  /\ todo[t].n <= Held /\ todo[t].from + todo[t].n <= PIPE_PAGE
  /\ todo[t].from = Place(pipe.tail + Held - todo[t].n)
  /\ todo[t].byte = Nr(taken + Held - todo[t].n)
  /\ InPage(Held - todo[t].n)
ReaderFits(t) ==
  /\ todo[t].from + todo[t].n <= PIPE_PAGE /\ todo[t].byte <= PIPE_PAGE
  /\ \A d \in 0..(todo[t].n - 1) : page[todo[t].from + d] = Nr(todo[t].byte + d)
  /\ InPage(Held)
BytesFit ==
  /\ ~astray /\ Nr(sent - taken) = Held
  /\ \A t \in Procs : Copying(t) => IF todo[t].op = "write" THEN WriterFits(t) ELSE ReaderFits(t)
  /\ (\A t \in Procs : ~Copying(t)) => InPage(Held)

(* The inductive invariant.                                                *)
IInv == /\ pipes \in PipeSetups
        /\ ~Happens("fault") => Types /\ OnlyTheRunning /\ BytesFit

-----------------------------------------------------------------------------
(* What the code computes with "& (PAGE_SIZE - 1)" goes round once.        *)
LEMMA RoundMod ==
  ASSUME NEW m \in Nat \ {0}, NEW x \in Int, 0 - m <= x, x < 2 * m
  PROVE  x % m = Round(x, m) /\ Round(x, m) \in 0..(m - 1)
<1>1. CASE x < 0
  BY <1>1 DEF Round
<1>2. CASE 0 <= x /\ x < m
  BY <1>2 DEF Round
<1>3. CASE m <= x
  BY <1>3 DEF Round
<1> QED BY <1>1, <1>2, <1>3

(* The bytes held are never as many as the page has places.               *)
LEMMA Sizes ==
  ASSUME pipes \in PipeSetups, Types
  PROVE  /\ PIPE_PAGE \in Nat \ {0, 1}
         /\ pipe.head \in 0..(PIPE_PAGE - 1) /\ pipe.tail \in 0..(PIPE_PAGE - 1)
         /\ PIPE_SIZE = Held /\ Held \in 0..(PIPE_PAGE - 1)
<1>1. PIPE_PAGE \in Nat \ {0, 1}
  BY PipeAssumption DEF PIPE_PAGE
<1>2. pipe.head \in 0..(PIPE_PAGE - 1) /\ pipe.tail \in 0..(PIPE_PAGE - 1)
  BY DEF Types
<1>3. /\ pipe.head - pipe.tail \in Int /\ 0 - PIPE_PAGE <= pipe.head - pipe.tail
      /\ pipe.head - pipe.tail < 2 * PIPE_PAGE
  BY <1>1, <1>2
<1>4. PIPE_SIZE = Held /\ Held \in 0..(PIPE_PAGE - 1)
  BY <1>1, <1>3, RoundMod DEF PIPE_SIZE, Held, Place
<1> QED BY <1>1, <1>2, <1>4

-----------------------------------------------------------------------------
(* The steps at which nobody has bytes to copy, before or after.           *)
LEMMA NobodyCopies ==
  ASSUME NoProc \notin Procs, OnlyTheRunning,
         runs = NoProc \/ \E t \in Procs : runs = t /\ ~Copying(t)
  PROVE  \A t \in Procs : ~Copying(t)
BY DEF OnlyTheRunning

LEMMA CallStep ==
  ASSUME IInv, ~Happens("fault"), \A t \in Procs : ~Copying(t),
         NEW t \in Procs, NEW c \in Call, c.at \notin {"copy", "fault"},
         Goes_on(t, c) \/ UNCHANGED todo,
         UNCHANGED <<pipe, page, pipes, history>>
  PROVE  IInv'
<1>1. Types /\ OnlyTheRunning /\ BytesFit /\ UNCHANGED <<pipe, page, pipes, sent, taken, astray>>
  BY DEF IInv, history
<1>2. /\ todo' \in [Procs -> Call]
      /\ \A u \in Procs : todo'[u].at \notin {"copy", "fault"}
  <2>1. todo \in [Procs -> Call] /\ \A u \in Procs : todo[u].at \notin {"copy", "fault"}
    BY <1>1 DEF Types, OnlyTheRunning, Copying
  <2>2. CASE UNCHANGED todo
    BY <2>1, <2>2
  <2>3. CASE todo' = [todo EXCEPT ![t] = c]
    BY <2>1, <2>3
  <2> QED BY <2>2, <2>3 DEF Goes_on
<1>3. Types'
  BY <1>1, <1>2 DEF Types, PIPE_PAGE
<1>4. OnlyTheRunning'
  BY <1>2 DEF OnlyTheRunning, Copying
<1>5. BytesFit'
  <2>1. \A u \in Procs : ~Copying(u)'
    BY <1>2 DEF Copying
  <2> QED BY <1>1, <2>1 DEF BytesFit, InPage, Held, Place, Nr, PIPE_PAGE
<1> QED BY <1>1, <1>3, <1>4, <1>5 DEF IInv

LEMMA CallTypes ==
  ASSUME NEW c \in Call, NEW at \in {"user", "loop", "copy", "look", "free"} \cup Queues
  PROVE  [c EXCEPT !.at = at] \in Call /\ [c EXCEPT !.at = at].at = at
BY DEF Call

LEMMA UserFits == User \in Call /\ User.at = "user"
BY DEF User, Call

(* How far a call can get: the types of what it goes on with.              *)
LEMMA TransferCalls ==
  ASSUME Types, pipes \in PipeSetups, NEW t \in Procs,
         Resumes(t) \/ ReadEmpty(t) \/ WriteFull(t) \/ TransferEnds(t) \/ Transfer(t)
  PROVE  \E c \in Call : c.at \notin {"copy", "fault"} /\ (Goes_on(t, c) \/ UNCHANGED todo)
<1>1. todo[t] \in Call
  BY DEF Types
<1>2. CASE UNCHANGED todo \/ Goes_on(t, User)
  BY <1>2, UserFits
<1>3. CASE \E at \in {"loop"} \cup Queues : Goes_on(t, [todo[t] EXCEPT !.at = at])
  <2>1. PICK at \in {"loop"} \cup Queues : Goes_on(t, [todo[t] EXCEPT !.at = at])
    BY <1>3
  <2>2. [todo[t] EXCEPT !.at = at] \in Call /\ [todo[t] EXCEPT !.at = at].at = at
    BY <1>1, CallTypes
  <2>3. at \notin {"copy", "fault"}
    BY DEF Queues
  <2> QED BY <2>1, <2>2, <2>3
<1>4. CASE Transfer(t)
  <2>1. PICK op \in {"read", "write"}, n \in pipes.counts :
          Goes_on(t, [User EXCEPT !.op = op, !.at = "loop", !.left = n])
    BY <1>4 DEF Transfer
  <2>2. n \in Nat
    BY <1>1, PipeAssumption
  <2>3. /\ [User EXCEPT !.op = op, !.at = "loop", !.left = n] \in Call
        /\ [User EXCEPT !.op = op, !.at = "loop", !.left = n].at = "loop"
    BY <2>2 DEF User, Call
  <2> QED BY <2>1, <2>3
<1>5. CASE Resumes(t)
  BY <1>2, <1>3, <1>5 DEF Resumes, HandedOn
<1>6. CASE ReadEmpty(t)
  BY <1>2, <1>3, <1>6 DEF ReadEmpty, Ends, Sleeps, Queues
<1>7. CASE WriteFull(t)
  BY <1>2, <1>3, <1>7 DEF WriteFull, Ends, Sleeps, Queues
<1>8. CASE TransferEnds(t)
  BY <1>2, <1>8 DEF TransferEnds, Ends
<1> QED BY <1>4, <1>5, <1>6, <1>7, <1>8

LEMMA SelectCalls ==
  ASSUME Types, pipes \in PipeSetups, NEW t \in Procs, sys_select(t) \/ Look(t) \/ free_wait(t)
  PROVE  \E c \in Call : c.at \notin {"copy", "fault"} /\ (Goes_on(t, c) \/ UNCHANGED todo)
<1>1. todo[t] \in Call
  BY DEF Types
<1>2. CASE sys_select(t)
  <2>1. PICK in \in pipes.inputs, out \in pipes.outputs :
          Goes_on(t, [User EXCEPT !.op = "select", !.at = "look", !.in = in, !.out = out])
    BY <1>2 DEF sys_select
  <2>2. in \in SUBSET {"pipe", "tty"} /\ out \in SUBSET {"pipe"}
    BY <1>1, PipeAssumption
  <2>3. /\ [User EXCEPT !.op = "select", !.at = "look", !.in = in, !.out = out] \in Call
        /\ [User EXCEPT !.op = "select", !.at = "look", !.in = in, !.out = out].at = "look"
    BY <2>2 DEF User, Call
  <2> QED BY <2>1, <2>3
<1>3. CASE Look(t)
  <2>1. PICK table \in SUBSET Queues, waits \in BOOLEAN :
          Goes_on(t, [todo[t] EXCEPT !.at = "free", !.table = table, !.again = waits])
    <3> DEFINE in == todo[t].in  out == todo[t].out
               table == {QueueOf(x) : x \in (in \ ReadyIn) \cup (out \ ReadyOut)}
               count == Cardinality(in \cap ReadyIn) + Cardinality(out \cap ReadyOut)
               waits == t \notin notice /\ (table # {} \/ timer[t] # "off") /\ count = 0
    <3>1. table \in SUBSET Queues
      BY DEF QueueOf, Queues
    <3>2. waits \in BOOLEAN
      OBVIOUS
    <3>3. Goes_on(t, [todo[t] EXCEPT !.at = "free", !.table = table, !.again = waits])
      BY <1>3 DEF Look
    <3> HIDE DEF table, waits
    <3> QED BY <3>1, <3>2, <3>3
  <2>2. /\ [todo[t] EXCEPT !.at = "free", !.table = table, !.again = waits] \in Call
        /\ [todo[t] EXCEPT !.at = "free", !.table = table, !.again = waits].at = "free"
    BY <1>1 DEF Call
  <2> QED BY <2>1, <2>2
<1>4. CASE free_wait(t)
  <2>1. CASE UNCHANGED todo \/ Goes_on(t, User)
    BY <2>1, UserFits
  <2>2. CASE Goes_on(t, [todo[t] EXCEPT !.at = "look"])
    BY <1>1, <2>2, CallTypes
  <2>3. CASE todo[t].at = "free" /\ \E q \in todo[t].table : Goes_on(t, [todo[t] EXCEPT !.table = @ \ {q}])
    <3>1. PICK q \in todo[t].table : Goes_on(t, [todo[t] EXCEPT !.table = @ \ {q}])
      BY <2>3
    <3>2. /\ [todo[t] EXCEPT !.table = @ \ {q}] \in Call
          /\ [todo[t] EXCEPT !.table = @ \ {q}].at = "free"
      BY <1>1, <2>3 DEF Call
    <3> QED BY <3>1, <3>2
  <2> QED BY <1>4, <2>1, <2>2, <2>3 DEF free_wait, Ends
<1> QED BY <1>2, <1>3, <1>4

LEMMA TransferSteps ==
  ASSUME IInv, ~Happens("fault"), NEW t \in Procs,
         Resumes(t) \/ ReadEmpty(t) \/ WriteFull(t) \/ TransferEnds(t) \/ Transfer(t)
  PROVE  IInv'
<1>1. UNCHANGED <<pipe, page, pipes, history>>
  BY DEF Resumes, ReadEmpty, WriteFull, TransferEnds, Transfer
<1>2. Types /\ OnlyTheRunning /\ pipes \in PipeSetups
  BY DEF IInv
<1>3. \A u \in Procs : ~Copying(u)
  <2>1. runs = NoProc \/ (runs = t /\ ~Copying(t))
    BY DEF Resumes, ReadEmpty, WriteFull, TransferEnds, Transfer, InCall, AtUser, Copying
  <2> QED BY <1>2, <2>1, NobodyCopies, PipeAssumption
<1>4. \E c \in Call : c.at \notin {"copy", "fault"} /\ (Goes_on(t, c) \/ UNCHANGED todo)
  BY <1>2, TransferCalls
<1> QED BY <1>1, <1>3, <1>4, CallStep

LEMMA SelectSteps ==
  ASSUME IInv, ~Happens("fault"), NEW t \in Procs, sys_select(t) \/ Look(t) \/ free_wait(t)
  PROVE  IInv'
<1>1. UNCHANGED <<pipe, page, pipes, history>>
  BY DEF sys_select, Look, free_wait
<1>2. Types /\ OnlyTheRunning /\ pipes \in PipeSetups
  BY DEF IInv
<1>3. \A u \in Procs : ~Copying(u)
  <2>1. runs = NoProc \/ (runs = t /\ ~Copying(t))
    BY DEF sys_select, Look, free_wait, InCall, AtUser, Copying
  <2> QED BY <1>2, <2>1, NobodyCopies, PipeAssumption
<1>4. \E c \in Call : c.at \notin {"copy", "fault"} /\ (Goes_on(t, c) \/ UNCHANGED todo)
  BY <1>2, SelectCalls
<1> QED BY <1>1, <1>3, <1>4, CallStep

(* Steps outside of any call: of the clock and of processes.               *)
LEMMA OtherSteps ==
  ASSUME IInv, ~Happens("fault"), NEW t \in Procs, NEW u \in Procs,
         Fork_child(t, u) \/ Dies(t) \/ LineRead(t) \/ TimeIsOut(t) \/ SignalSent(t)
  PROVE  IInv'
<1>1. UNCHANGED <<pipe, page, pipes, history, todo>> /\ runs = NoProc
  BY DEF Fork_child, Dies, LineRead, TimeIsOut, SignalSent, AtUser
<1>2. \A w \in Procs : ~Copying(w)
  BY <1>1, NobodyCopies, PipeAssumption DEF IInv
<1>3. User \in Call /\ User.at \notin {"copy", "fault"}
  BY UserFits
<1> QED BY <1>1, <1>2, <1>3, CallStep

(* Closing an end counts the users of the pipe, and moves no position.     *)
LEMMA CloseKeeps ==
  ASSUME IInv, ~Happens("fault"), NEW t \in Procs, sys_close(t)
  PROVE  IInv'
<1>1. /\ UNCHANGED <<page, pipes, sent, taken, astray, todo, runs>>
      /\ pipe' = pipe \/ pipe' = [pipe EXCEPT !.count = @ - 1]
  BY DEF sys_close, history
<1>2. Types /\ OnlyTheRunning /\ BytesFit
  BY DEF IInv
<1>3. /\ pipe' \in [count : Int, head : 0..(PIPE_PAGE - 1), tail : 0..(PIPE_PAGE - 1)]
      /\ pipe'.head = pipe.head /\ pipe'.tail = pipe.tail
  BY <1>1, <1>2 DEF Types
<1>4. Types' /\ OnlyTheRunning'
  BY <1>1, <1>2, <1>3 DEF Types, OnlyTheRunning, Copying, PIPE_PAGE
<1>5. BytesFit'
  BY <1>1, <1>2, <1>3 DEF BytesFit, Copying, WriterFits, ReaderFits, InPage, Held, Place, Nr,
                          PIPE_PAGE
<1> QED BY <1>1, <1>4, <1>5 DEF IInv

(* A new pipe is empty.                                                    *)
LEMMA SysPipeKeeps ==
  ASSUME IInv, ~Happens("fault"), NEW t \in Procs, sys_pipe(t)
  PROVE  IInv'
<1>1. /\ UNCHANGED <<page, pipes, astray, todo, runs>> /\ runs = NoProc
      /\ pipe' = [count |-> 2, head |-> 0, tail |-> 0] /\ sent' = 0 /\ taken' = 0
  BY DEF sys_pipe, AtUser
<1>2. Types /\ OnlyTheRunning /\ BytesFit /\ PIPE_PAGE \in Nat \ {0, 1}
  BY Sizes DEF IInv
<1>3. \A w \in Procs : ~Copying(w)
  BY <1>1, <1>2, NobodyCopies, PipeAssumption
<1>4. Types' /\ OnlyTheRunning' /\ PIPE_PAGE' = PIPE_PAGE
  BY <1>1, <1>2 DEF Types, OnlyTheRunning, Copying, PIPE_PAGE
<1>5. Held' = 0 /\ Nr(sent - taken)' = 0
  BY <1>1, <1>2, <1>4 DEF Held, Place, Nr, Round
<1>6. BytesFit'
  BY <1>1, <1>2, <1>3, <1>5 DEF BytesFit, Copying, InPage
<1> QED BY <1>1, <1>4, <1>6 DEF IInv

-----------------------------------------------------------------------------
(* How many bytes a piece has: as many as there are, and as fit in one.    *)
LEMMA CharsFit ==
  ASSUME NEW t \in Procs, NEW pos \in 0..(PIPE_PAGE - 1), NEW size \in Nat, size > 0,
         PIPE_PAGE \in Nat, todo[t].left \in Nat, todo[t].left > 0
  PROVE  /\ Chars(t, pos, size) \in Nat /\ Chars(t, pos, size) <= size
         /\ Chars(t, pos, size) <= todo[t].left /\ pos + Chars(t, pos, size) <= PIPE_PAGE
<1> DEFINE S == {PIPE_PAGE - pos, todo[t].left, size}
<1>1. \E x \in S : \A y \in S : x <= y
  OBVIOUS
<1>2. Min(S) \in S /\ \A y \in S : Min(S) <= y
  <2> HIDE DEF S
  <2> QED BY <1>1 DEF Min
<1> QED BY <1>2 DEF Chars

LEMMA NumberOn ==
  ASSUME PIPE_PAGE \in Nat \ {0, 1}, NEW x \in 0..PIPE_PAGE, NEW n \in 0..PIPE_PAGE
  PROVE  ByteNr(x + n) = Nr(x + n) /\ Nr(x + n) \in 0..PIPE_PAGE
<1> DEFINE m == PIPE_PAGE + 1
<1>1. m \in Nat \ {0} /\ x + n \in Int /\ 0 - m <= x + n /\ x + n < 2 * m
  OBVIOUS
<1>2. m - 1 = PIPE_PAGE
  OBVIOUS
<1> HIDE DEF m
<1>3. (x + n) % m = Round(x + n, m) /\ Round(x + n, m) \in 0..(m - 1)
  BY <1>1, RoundMod
<1> QED BY <1>2, <1>3 DEF ByteNr, Nr, m

(* Moving a position keeps the types, with or without page faults.         *)
LEMMA MovesTyped ==
  ASSUME Types, pipes \in PipeSetups, NEW t \in Procs, ReadSome(t) \/ WriteSome(t)
  PROVE  Types' /\ todo'[t].at = "copy" /\ todo'[t].op = todo[t].op
<1>1. /\ PIPE_PAGE \in Nat \ {0, 1} /\ PIPE_SIZE \in 0..(PIPE_PAGE - 1)
      /\ pipe.head \in 0..(PIPE_PAGE - 1) /\ pipe.tail \in 0..(PIPE_PAGE - 1)
  BY Sizes
<1>2. PICK n \in Nat, pos \in Nat, byte \in 0..PIPE_PAGE :
        /\ n <= PIPE_PAGE /\ n <= todo[t].left /\ todo[t].left \in Nat
        /\ Goes_on(t, [todo[t] EXCEPT !.at = "copy", !.left = @ - n, !.from = pos,
                                      !.n = n, !.byte = byte])
        /\ \/ pipe' = [pipe EXCEPT !.tail = (@ + n) % PIPE_PAGE] /\ taken' = ByteNr(taken + n) /\ sent' = sent
           \/ pipe' = [pipe EXCEPT !.head = (@ + n) % PIPE_PAGE] /\ sent' = ByteNr(sent + n) /\ taken' = taken
        /\ UNCHANGED <<page, pipes>>
  <2>1. todo[t].left \in Nat /\ sent \in 0..PIPE_PAGE /\ taken \in 0..PIPE_PAGE
    BY DEF Types, Call
  <2>2. CASE ReadSome(t)
    <3>1. todo[t].left > 0 /\ PIPE_SIZE > 0
      BY <2>2 DEF ReadSome
    <3> DEFINE n == Chars(t, pipe.tail, PIPE_SIZE)
    <3>2. n \in Nat /\ n <= PIPE_SIZE /\ n <= todo[t].left
      <4>1. /\ pipe.tail \in 0..(PIPE_PAGE - 1) /\ PIPE_SIZE \in Nat /\ PIPE_SIZE > 0
            /\ PIPE_PAGE \in Nat /\ todo[t].left \in Nat /\ todo[t].left > 0
        BY <1>1, <2>1, <3>1
      <4> QED BY <4>1, CharsFit
    <3>3. /\ Goes_on(t, [todo[t] EXCEPT !.at = "copy", !.left = @ - n, !.from = pipe.tail,
                                        !.n = n, !.byte = taken])
          /\ pipe' = [pipe EXCEPT !.tail = (@ + n) % PIPE_PAGE] /\ taken' = ByteNr(taken + n)
          /\ sent' = sent /\ UNCHANGED <<page, pipes>>
      BY <2>2 DEF ReadSome
    <3> HIDE DEF n
    <3>4. n <= PIPE_PAGE /\ pipe.tail \in Nat
      BY <1>1, <3>2
    <3> QED BY <2>1, <3>2, <3>3, <3>4
  <2>3. CASE WriteSome(t)
    <3>1. todo[t].left > 0 /\ Room > 0 /\ Room \in Nat /\ Room <= PIPE_PAGE
      BY <1>1, <2>3 DEF WriteSome, Room, Places
    <3> DEFINE n == Chars(t, pipe.head, Room)
    <3>2. n \in Nat /\ n <= Room /\ n <= todo[t].left
      <4>1. /\ pipe.head \in 0..(PIPE_PAGE - 1) /\ Room \in Nat /\ Room > 0
            /\ PIPE_PAGE \in Nat /\ todo[t].left \in Nat /\ todo[t].left > 0
        BY <1>1, <2>1, <3>1
      <4> QED BY <4>1, CharsFit
    <3>3. /\ Goes_on(t, [todo[t] EXCEPT !.at = "copy", !.left = @ - n, !.from = pipe.head,
                                        !.n = n, !.byte = sent])
          /\ pipe' = [pipe EXCEPT !.head = (@ + n) % PIPE_PAGE] /\ sent' = ByteNr(sent + n)
          /\ taken' = taken /\ UNCHANGED <<page, pipes>>
      BY <2>3 DEF WriteSome
    <3> HIDE DEF n
    <3>4. n <= PIPE_PAGE /\ pipe.head \in Nat
      BY <1>1, <3>1, <3>2
    <3> QED BY <2>1, <3>2, <3>3, <3>4
  <2> QED BY <2>2, <2>3
<1>3. PIPE_PAGE' = PIPE_PAGE
  BY <1>2 DEF PIPE_PAGE
<1>4. \A x \in 0..(PIPE_PAGE - 1) : (x + n) % PIPE_PAGE \in 0..(PIPE_PAGE - 1)
  BY <1>1
<1>5. pipe' \in [count : Int, head : 0..(PIPE_PAGE - 1), tail : 0..(PIPE_PAGE - 1)]
  BY <1>1, <1>2, <1>4 DEF Types
<1>6. sent' \in 0..PIPE_PAGE /\ taken' \in 0..PIPE_PAGE
  <2>1. sent \in 0..PIPE_PAGE /\ taken \in 0..PIPE_PAGE /\ n \in 0..PIPE_PAGE
    BY <1>1, <1>2 DEF Types
  <2> QED BY <1>1, <1>2, <2>1, NumberOn
<1> DEFINE c == [todo[t] EXCEPT !.at = "copy", !.left = @ - n, !.from = pos,
                                !.n = n, !.byte = byte]
<1>7. c \in Call /\ c.at = "copy" /\ c.op = todo[t].op
  <2>1. todo[t] \in Call /\ todo[t].left - n \in Nat /\ byte \in Nat
    BY <1>1, <1>2, SMTT(30) DEF Types
  <2> QED BY <1>2, <2>1 DEF Call
<1>8. todo' = [todo EXCEPT ![t] = c]
  BY <1>2 DEF Goes_on
<1> HIDE DEF c
<1>9. todo' \in [Procs -> Call] /\ todo'[t] = c
  BY <1>7, <1>8 DEF Types
<1> QED BY <1>2, <1>3, <1>5, <1>6, <1>7, <1>9 DEF Types

LEMMA WriteSomeKeeps ==
  ASSUME IInv, ~Happens("fault"), NEW t \in Procs, WriteSome(t)
  PROVE  IInv'
<1> DEFINE n == Chars(t, pipe.head, Room)
           c == [todo[t] EXCEPT !.at = "copy", !.left = @ - n, !.from = pipe.head,
                                !.n = n, !.byte = sent]
           k == Held
<1>1. Types /\ OnlyTheRunning /\ BytesFit /\ pipes \in PipeSetups
  BY DEF IInv
<1>2. /\ PIPE_PAGE \in Nat \ {0, 1} /\ PIPE_SIZE = k /\ k \in 0..(PIPE_PAGE - 1)
      /\ pipe.head \in 0..(PIPE_PAGE - 1) /\ pipe.tail \in 0..(PIPE_PAGE - 1)
  BY <1>1, Sizes
<1>3. /\ runs = t /\ runs' = t /\ todo[t].op = "write" /\ todo[t].at = "loop" /\ todo[t].left > 0
      /\ Room > 0 /\ UNCHANGED <<page, pipes, taken, astray>>
      /\ pipe' = [pipe EXCEPT !.head = (@ + n) % PIPE_PAGE]
      /\ sent' = ByteNr(sent + n) /\ todo' = [todo EXCEPT ![t] = c]
  BY DEF WriteSome, InCall, Goes_on
<1>4. Room = PIPE_PAGE - 1 - k /\ Room \in Nat
  BY <1>2 DEF Room, Places
<1>5. todo[t] \in Call /\ todo[t].left \in Nat
  BY <1>1 DEF Types, Call
<1>6. n \in Nat /\ n <= Room /\ n <= todo[t].left /\ pipe.head + n <= PIPE_PAGE
  BY <1>2, <1>3, <1>4, <1>5, CharsFit
<1> HIDE DEF n
<1>7. sent \in 0..PIPE_PAGE /\ taken \in 0..PIPE_PAGE
  BY <1>1 DEF Types
<1>8. /\ (pipe.head + n) % PIPE_PAGE = Round(pipe.head + n, PIPE_PAGE)
      /\ Round(pipe.head + n, PIPE_PAGE) \in 0..(PIPE_PAGE - 1)
  <2>1. /\ pipe.head + n \in Int /\ 0 - PIPE_PAGE <= pipe.head + n
        /\ pipe.head + n < 2 * PIPE_PAGE
    BY <1>2, <1>6
  <2> QED BY <1>2, <2>1, RoundMod
<1>9. sent' = Nr(sent + n) /\ sent' \in 0..PIPE_PAGE
  <2>1. n <= PIPE_PAGE
    BY <1>2, <1>4, <1>6
  <2> QED BY <1>2, <1>3, <1>6, <1>7, <2>1, NumberOn
<1>10. c \in Call /\ c.at = "copy" /\ c.op = "write" /\ c.n = n /\ c.from = pipe.head
       /\ c.byte = sent
  <2>1. pipe.head \in Nat /\ sent \in Nat /\ todo[t].left - n \in Nat
    BY <1>2, <1>5, <1>6, <1>7
  <2> HIDE DEF c
  <2>2. c = [todo[t] EXCEPT !.at = "copy", !.left = todo[t].left - n, !.from = pipe.head,
                            !.n = n, !.byte = sent]
    BY DEF c
  <2> QED BY <1>3, <1>5, <1>6, <2>1, <2>2 DEF Call
<1> HIDE DEF c, k
<1>11. /\ pipe' \in [count : Int, head : 0..(PIPE_PAGE - 1), tail : 0..(PIPE_PAGE - 1)]
       /\ pipe'.head = Round(pipe.head + n, PIPE_PAGE) /\ pipe'.tail = pipe.tail
  BY <1>1, <1>3, <1>8 DEF Types
<1>12. PIPE_PAGE' = PIPE_PAGE
  BY <1>3 DEF PIPE_PAGE
<1>13. Types'
  BY <1>1, <1>3, <1>7, <1>9, <1>10, <1>11, <1>12 DEF Types
<1>14. /\ todo'[t] = c /\ \A u \in Procs \ {t} : todo'[u] = todo[u] /\ ~Copying(u) /\ ~Copying(u)'
  <2>1. \A u \in Procs \ {t} : ~Copying(u)
    BY <1>1, <1>3 DEF OnlyTheRunning
  <2> QED BY <1>1, <1>3, <2>1 DEF Types, Copying
<1>15. OnlyTheRunning'
  BY <1>1, <1>3, <1>10, <1>14 DEF OnlyTheRunning, Copying
<1>16. Held' = k + n /\ pipe.head = Place(pipe.tail + k)
  <2>1. k = Round(pipe.head - pipe.tail, PIPE_PAGE)
    BY DEF k, Held, Place
  <2>2. k + n < PIPE_PAGE
    BY <1>2, <1>4, <1>6
  <2>3. /\ pipe.head = Round(pipe.tail + k, PIPE_PAGE)
        /\ Round(Round(pipe.head + n, PIPE_PAGE) - pipe.tail, PIPE_PAGE) = k + n
    <3> HIDE DEF k
    <3> QED BY <1>2, <1>6, <2>1, <2>2 DEF Round
  <2> QED BY <1>11, <1>12, <2>3 DEF Held, Place
<1>17. Nr(sent - taken)' = k + n /\ sent = Nr(taken + k)
  <2>1. k = Round(sent - taken, PIPE_PAGE + 1)
    BY <1>1 DEF BytesFit, Nr, k
  <2>2. k + n < PIPE_PAGE + 1
    BY <1>2, <1>4, <1>6
  <2>3. PIPE_PAGE + 1 \in Nat \ {0} /\ sent \in 0..((PIPE_PAGE + 1) - 1)
        /\ taken \in 0..((PIPE_PAGE + 1) - 1)
    BY <1>2, <1>7
  <2>4. /\ sent = Round(taken + k, PIPE_PAGE + 1)
        /\ Round(Round(sent + n, PIPE_PAGE + 1) - taken, PIPE_PAGE + 1) = k + n
    BY <1>6, <2>1, <2>2, <2>3 DEF Round
  <2> QED BY <1>3, <1>9, <1>12, <2>4 DEF Nr
<1>18. InPage(k)
  <2>1. \A u \in Procs : ~Copying(u)
    BY <1>3, <1>14 DEF Copying
  <2> QED BY <1>1, <2>1 DEF BytesFit, k
<1>19. WriterFits(t)'
  <2>1. (k + n) - n = k
    BY <1>2, <1>6
  <2>2. \A d \in 0..(k - 1) : page'[Round(pipe'.tail + d, PIPE_PAGE)] = Round(taken' + d, PIPE_PAGE + 1)
    BY <1>3, <1>11, <1>18 DEF InPage, Place, Nr
  <2> QED BY <1>2, <1>3, <1>6, <1>10, <1>11, <1>12, <1>14, <1>16, <1>17, <2>1, <2>2
          DEF WriterFits, InPage, Place, Nr
<1>20. BytesFit'
  BY <1>1, <1>3, <1>10, <1>14, <1>16, <1>17, <1>19 DEF BytesFit, Copying
<1> QED BY <1>1, <1>3, <1>13, <1>15, <1>20 DEF IInv

(* What a reader takes off the ring is in its page, and stays there until  *)
(* it is copied.                                                           *)
LEMMA ReadSomeKeeps ==
  ASSUME IInv, ~Happens("fault"), NEW t \in Procs, ReadSome(t)
  PROVE  IInv'
<1> DEFINE n == Chars(t, pipe.tail, PIPE_SIZE)
           c == [todo[t] EXCEPT !.at = "copy", !.left = @ - n, !.from = pipe.tail,
                                !.n = n, !.byte = taken]
           k == Held
<1>1. Types /\ OnlyTheRunning /\ BytesFit /\ pipes \in PipeSetups
  BY DEF IInv
<1>2. /\ PIPE_PAGE \in Nat \ {0, 1} /\ PIPE_SIZE = k /\ k \in 0..(PIPE_PAGE - 1)
      /\ pipe.head \in 0..(PIPE_PAGE - 1) /\ pipe.tail \in 0..(PIPE_PAGE - 1)
  BY <1>1, Sizes
<1>3. /\ runs = t /\ runs' = t /\ todo[t].op = "read" /\ todo[t].at = "loop" /\ todo[t].left > 0
      /\ PIPE_SIZE > 0 /\ UNCHANGED <<page, pipes, sent, astray>>
      /\ pipe' = [pipe EXCEPT !.tail = (@ + n) % PIPE_PAGE]
      /\ taken' = ByteNr(taken + n) /\ todo' = [todo EXCEPT ![t] = c]
  BY DEF ReadSome, InCall, Goes_on
<1>4. todo[t] \in Call /\ todo[t].left \in Nat
  BY <1>1 DEF Types, Call
<1>5. n \in Nat /\ n <= k /\ n <= todo[t].left /\ pipe.tail + n <= PIPE_PAGE
  <2>1. PIPE_SIZE \in Nat
    BY <1>2
  <2> QED BY <1>2, <1>3, <1>4, <2>1, CharsFit
<1> HIDE DEF n
<1>6. sent \in 0..PIPE_PAGE /\ taken \in 0..PIPE_PAGE
  BY <1>1 DEF Types
<1>7. /\ (pipe.tail + n) % PIPE_PAGE = Round(pipe.tail + n, PIPE_PAGE)
      /\ Round(pipe.tail + n, PIPE_PAGE) \in 0..(PIPE_PAGE - 1)
  <2>1. /\ pipe.tail + n \in Int /\ 0 - PIPE_PAGE <= pipe.tail + n
        /\ pipe.tail + n < 2 * PIPE_PAGE
    BY <1>2, <1>5
  <2> QED BY <1>2, <2>1, RoundMod
<1>8. taken' = Nr(taken + n) /\ taken' \in 0..PIPE_PAGE
  <2>1. n <= PIPE_PAGE
    BY <1>2, <1>5
  <2> QED BY <1>2, <1>3, <1>5, <1>6, <2>1, NumberOn
<1>9. c \in Call /\ c.at = "copy" /\ c.op = "read" /\ c.n = n /\ c.from = pipe.tail
      /\ c.byte = taken
  <2>1. pipe.tail \in Nat /\ taken \in Nat /\ todo[t].left - n \in Nat
    BY <1>2, <1>4, <1>5, <1>6
  <2> HIDE DEF c
  <2>2. c = [todo[t] EXCEPT !.at = "copy", !.left = todo[t].left - n, !.from = pipe.tail,
                            !.n = n, !.byte = taken]
    BY DEF c
  <2> QED BY <1>3, <1>4, <1>5, <2>1, <2>2 DEF Call
<1> HIDE DEF c, k
<1>10. /\ pipe' \in [count : Int, head : 0..(PIPE_PAGE - 1), tail : 0..(PIPE_PAGE - 1)]
       /\ pipe'.tail = Round(pipe.tail + n, PIPE_PAGE) /\ pipe'.head = pipe.head
  BY <1>1, <1>3, <1>7 DEF Types
<1>11. PIPE_PAGE' = PIPE_PAGE
  BY <1>3 DEF PIPE_PAGE
<1>12. Types'
  BY <1>1, <1>3, <1>6, <1>8, <1>9, <1>10, <1>11 DEF Types
<1>13. /\ todo'[t] = c /\ \A u \in Procs \ {t} : todo'[u] = todo[u] /\ ~Copying(u) /\ ~Copying(u)'
  <2>1. \A u \in Procs \ {t} : ~Copying(u)
    BY <1>1, <1>3 DEF OnlyTheRunning
  <2> QED BY <1>1, <1>3, <2>1 DEF Types, Copying
<1>14. OnlyTheRunning'
  BY <1>1, <1>3, <1>9, <1>13 DEF OnlyTheRunning, Copying
<1>15. Held' = k - n
  <2>1. k = Round(pipe.head - pipe.tail, PIPE_PAGE)
    BY DEF k, Held, Place
  <2>2. Round(pipe.head - Round(pipe.tail + n, PIPE_PAGE), PIPE_PAGE) = k - n
    BY <1>2, <1>5, <2>1 DEF Round
  <2> QED BY <1>10, <1>11, <2>2 DEF Held, Place
<1>16. Nr(sent - taken)' = k - n
  <2>1. k = Round(sent - taken, PIPE_PAGE + 1)
    BY <1>1 DEF BytesFit, Nr, k
  <2>2. Round(sent - Round(taken + n, PIPE_PAGE + 1), PIPE_PAGE + 1) = k - n
    BY <1>2, <1>5, <1>6, <2>1 DEF Round
  <2> QED BY <1>3, <1>8, <1>11, <2>2 DEF Nr
<1>17. \A d \in 0..(k - 1) : page[Round(pipe.tail + d, PIPE_PAGE)] = Round(taken + d, PIPE_PAGE + 1)
  <2>1. \A u \in Procs : ~Copying(u)
    BY <1>3, <1>13 DEF Copying
  <2> QED BY <1>1, <2>1 DEF BytesFit, InPage, Place, Nr, k
<1>18. \A d \in 0..(n - 1) : page[pipe.tail + d] = Round(taken + d, PIPE_PAGE + 1)
  <2> SUFFICES ASSUME NEW d \in 0..(n - 1)
               PROVE  page[pipe.tail + d] = Round(taken + d, PIPE_PAGE + 1)
    OBVIOUS
  <2>1. d \in 0..(k - 1) /\ Round(pipe.tail + d, PIPE_PAGE) = pipe.tail + d
    BY <1>2, <1>5 DEF Round
  <2> QED BY <1>17, <2>1
<1>19. \A d \in 0..((k - n) - 1) :
         page[Round(Round(pipe.tail + n, PIPE_PAGE) + d, PIPE_PAGE)]
           = Round(Round(taken + n, PIPE_PAGE + 1) + d, PIPE_PAGE + 1)
  <2> SUFFICES ASSUME NEW d \in 0..((k - n) - 1)
               PROVE  page[Round(Round(pipe.tail + n, PIPE_PAGE) + d, PIPE_PAGE)]
                        = Round(Round(taken + n, PIPE_PAGE + 1) + d, PIPE_PAGE + 1)
    OBVIOUS
  <2>1. n + d \in 0..(k - 1)
    BY <1>2, <1>5
  <2>2. Round(Round(pipe.tail + n, PIPE_PAGE) + d, PIPE_PAGE) = Round(pipe.tail + (n + d), PIPE_PAGE)
    BY <1>2, <1>5 DEF Round
  <2>3. Round(Round(taken + n, PIPE_PAGE + 1) + d, PIPE_PAGE + 1)
          = Round(taken + (n + d), PIPE_PAGE + 1)
    BY <1>2, <1>5, <1>6 DEF Round
  <2> QED BY <1>17, <2>1, <2>2, <2>3
<1>20. ReaderFits(t)'
  <2>1. InPage(Held)'
    BY <1>3, <1>8, <1>10, <1>11, <1>15, <1>19 DEF InPage, Place, Nr
  <2>2. (\A d \in 0..(todo[t].n - 1) : page[todo[t].from + d] = Nr(todo[t].byte + d))'
    BY <1>3, <1>9, <1>11, <1>13, <1>18 DEF Nr
  <2>3. taken <= PIPE_PAGE
    BY <1>2, <1>6
  <2> QED BY <1>5, <1>9, <1>11, <1>13, <2>1, <2>2, <2>3 DEF ReaderFits
<1>21. BytesFit'
  BY <1>1, <1>3, <1>9, <1>13, <1>15, <1>16, <1>20 DEF BytesFit, Copying
<1> QED BY <1>1, <1>3, <1>12, <1>14, <1>21 DEF IInv

-----------------------------------------------------------------------------
(* What both copies have in common: the step of the process.               *)
LEMMA CopyEnds ==
  ASSUME IInv, ~Happens("fault"), NEW t \in Procs, CopyBytes(t)
  PROVE  /\ Copying(t) /\ todo[t].op \in {"read", "write"} /\ todo[t] \in Call
         /\ \A u \in Procs : ~Copying(u)'
         /\ UNCHANGED <<pipe, sent, taken, pipes>> /\ PIPE_PAGE' = PIPE_PAGE
         /\ todo' \in [Procs -> Call] /\ OnlyTheRunning'
<1>1. Types /\ OnlyTheRunning
  BY DEF IInv
<1>2. /\ Copying(t) /\ runs = t /\ UNCHANGED <<pipe, sent, taken, pipes>>
      /\ todo' = [todo EXCEPT ![t] = [todo[t] EXCEPT !.at = "loop", !.from = 0, !.n = 0, !.byte = 0]]
  BY <1>1 DEF CopyBytes, OnlyTheRunning, Copying, Goes_on
<1>3. todo[t] \in Call /\ todo[t].op \in {"read", "write"}
  BY <1>1, <1>2 DEF Types, OnlyTheRunning
<1> DEFINE c == [todo[t] EXCEPT !.at = "loop", !.from = 0, !.n = 0, !.byte = 0]
<1>4. c \in Call /\ c.at = "loop"
  BY <1>3 DEF Call
<1> HIDE DEF c
<1>5. /\ todo' \in [Procs -> Call] /\ todo'[t] = c
      /\ \A u \in Procs \ {t} : todo'[u] = todo[u]
  BY <1>1, <1>2, <1>4 DEF Types, c
<1>6. \A u \in Procs : todo'[u].at \notin {"copy", "fault"}
  BY <1>1, <1>2, <1>4, <1>5 DEF OnlyTheRunning, Copying
<1> QED BY <1>2, <1>3, <1>5, <1>6 DEF OnlyTheRunning, Copying, PIPE_PAGE

LEMMA CopyOutKeeps ==
  ASSUME IInv, ~Happens("fault"), NEW t \in Procs, CopyBytes(t), todo[t].op = "read"
  PROVE  IInv'
<1>1. /\ Copying(t) /\ todo[t] \in Call /\ \A u \in Procs : ~Copying(u)'
      /\ UNCHANGED <<pipe, sent, taken, pipes>> /\ PIPE_PAGE' = PIPE_PAGE
      /\ todo' \in [Procs -> Call] /\ OnlyTheRunning'
  BY CopyEnds
<1>2. /\ page' = page
      /\ astray' = (astray \/ \E i \in Piece(t) : page[i] # Number(t, i))
  BY DEF CopyBytes
<1>3. Types /\ BytesFit /\ ReaderFits(t) /\ PIPE_PAGE \in Nat \ {0, 1}
  BY <1>1, Sizes DEF IInv, BytesFit
<1>4. \A i \in Piece(t) : page[i] = Number(t, i)
  <2> SUFFICES ASSUME NEW i \in Piece(t) PROVE page[i] = Number(t, i)
    OBVIOUS
  <2> DEFINE from == todo[t].from  n == todo[t].n  byte == todo[t].byte  d == i - from
  <2>1. from \in Nat /\ n \in Nat /\ byte \in Nat /\ byte <= PIPE_PAGE /\ from + n <= PIPE_PAGE
    BY <1>1, <1>3 DEF Call, ReaderFits
  <2>2. i \in from..(from + n - 1)
    BY DEF Piece
  <2> HIDE DEF from, n, byte
  <2>3. d \in 0..(n - 1) /\ from + d = i /\ d \in 0..PIPE_PAGE /\ byte \in 0..PIPE_PAGE
    BY <1>3, <2>1, <2>2
  <2>4. page[from + d] = Nr(byte + d)
    <3> HIDE DEF d
    <3> QED BY <1>3, <2>3 DEF ReaderFits, from, n, byte
  <2>5. ByteNr(byte + d) = Nr(byte + d)
    <3> HIDE DEF d
    <3> QED BY <1>3, <2>3, NumberOn
  <2>6. Number(t, i) = ByteNr(byte + d)
    BY DEF Number, byte, d, from
  <2> QED BY <2>3, <2>4, <2>5, <2>6
<1>5. ~astray'
  BY <1>2, <1>3, <1>4, Zenon DEF BytesFit
<1>6. Types'
  BY <1>1, <1>2, <1>3 DEF Types
<1>7. BytesFit'
  <2>1. InPage(Held)
    BY <1>3 DEF ReaderFits
  <2>2. InPage(Held)' /\ Held' = Held /\ Nr(sent - taken)' = Nr(sent - taken)
    BY <1>1, <1>2, <2>1 DEF InPage, Held, Place, Nr
  <2> QED BY <1>1, <1>3, <1>5, <2>2 DEF BytesFit
<1> QED BY <1>1, <1>6, <1>7 DEF IInv

LEMMA CopyInKeeps ==
  ASSUME IInv, ~Happens("fault"), NEW t \in Procs, CopyBytes(t), todo[t].op = "write"
  PROVE  IInv'
<1> DEFINE from == todo[t].from  n == todo[t].n  byte == todo[t].byte
           k == Held  l == pipe.tail
<1>1. /\ Copying(t) /\ todo[t] \in Call /\ \A u \in Procs : ~Copying(u)'
      /\ UNCHANGED <<pipe, sent, taken, pipes>> /\ PIPE_PAGE' = PIPE_PAGE
      /\ todo' \in [Procs -> Call] /\ OnlyTheRunning'
  BY CopyEnds
<1>2. /\ astray' = astray
      /\ page' = [i \in DOMAIN page |-> IF i \in Piece(t) THEN Number(t, i) ELSE page[i]]
  BY DEF CopyBytes
<1>3. Types /\ BytesFit /\ WriterFits(t) /\ pipes \in PipeSetups
  BY <1>1 DEF IInv, BytesFit
<1>4. /\ PIPE_PAGE \in Nat \ {0, 1} /\ k \in 0..(PIPE_PAGE - 1) /\ l \in 0..(PIPE_PAGE - 1)
      /\ taken \in 0..PIPE_PAGE /\ DOMAIN page = 0..(PIPE_PAGE - 1)
      /\ n \in Nat /\ from \in Nat /\ byte \in Nat
  BY <1>1, <1>3, Sizes DEF Types, Call
<1>5. /\ n <= k /\ from + n <= PIPE_PAGE
      /\ from = Round(l + k - n, PIPE_PAGE) /\ byte = Round(taken + k - n, PIPE_PAGE + 1)
      /\ \A d \in 0..(k - n - 1) : page[Round(l + d, PIPE_PAGE)] = Round(taken + d, PIPE_PAGE + 1)
  BY <1>3 DEF WriterFits, InPage, Place, Nr
<1>6. Types'
  BY <1>1, <1>2, <1>3 DEF Types
<1>7. \A i \in 0..(PIPE_PAGE - 1) :
        page'[i] = IF i \in from..(from + n - 1) THEN ByteNr(byte + i - from) ELSE page[i]
  BY <1>2, <1>4 DEF Piece, Number
<1> HIDE DEF from, n, byte, k, l
<1>8. \A d \in 0..(k - 1) : page'[Round(l + d, PIPE_PAGE)] = Round(taken + d, PIPE_PAGE + 1)
  <2> SUFFICES ASSUME NEW d \in 0..(k - 1)
               PROVE  page'[Round(l + d, PIPE_PAGE)] = Round(taken + d, PIPE_PAGE + 1)
    OBVIOUS
  <2> DEFINE i == Round(l + d, PIPE_PAGE)
  <2>1. i \in 0..(PIPE_PAGE - 1)
    BY <1>4 DEF Round
  <2>2. CASE d < k - n
    <3>1. i \notin from..(from + n - 1)
      BY <1>4, <1>5, <2>2 DEF Round
    <3>2. d \in 0..(k - n - 1)
      BY <1>4, <1>5, <2>2
    <3> HIDE DEF i
    <3>3. page'[i] = page[i]
      BY <1>7, <2>1, <3>1
    <3> QED BY <1>5, <3>2, <3>3 DEF i
  <2>3. CASE d >= k - n
    <3> DEFINE j == d - (k - n)
    <3>1. j \in 0..(n - 1) /\ i = from + j
      BY <1>4, <1>5, <2>3 DEF Round
    <3>2. Round(byte + j, PIPE_PAGE + 1) = Round(taken + d, PIPE_PAGE + 1)
      BY <1>4, <1>5, <2>3 DEF Round
    <3>3. byte \in 0..PIPE_PAGE /\ j \in 0..PIPE_PAGE
      BY <1>4, <1>5, <2>3 DEF Round
    <3> HIDE DEF i, j
    <3>4. ByteNr(byte + j) = Nr(byte + j)
      BY <1>4, <3>3, NumberOn
    <3>5. i - from = j /\ i \in from..(from + n - 1)
      BY <1>4, <3>1
    <3>6. page'[i] = ByteNr(byte + i - from)
      BY <1>7, <2>1, <3>5
    <3> QED BY <3>2, <3>4, <3>5, <3>6 DEF i, Nr
  <2> QED BY <1>4, <2>2, <2>3
<1>9. BytesFit'
  <2>1. Held' = k /\ Nr(sent - taken)' = Nr(sent - taken)
    BY <1>1 DEF Held, Place, Nr, k
  <2>2. InPage(Held)'
    BY <1>1, <1>8, <2>1 DEF InPage, Place, Nr, l
  <2> QED BY <1>1, <1>2, <1>3, <2>1, <2>2 DEF BytesFit, k
<1> QED BY <1>1, <1>6, <1>9 DEF IInv

-----------------------------------------------------------------------------
LEMMA InitFits == PipeInit => IInv
<1> SUFFICES ASSUME PipeInit, ~Happens("fault") PROVE IInv
  BY DEF IInv, PipeInit
<1>1. /\ pipes \in PipeSetups /\ pipe = [count |-> 0, head |-> 0, tail |-> 0]
      /\ page = [i \in 0..(PIPE_PAGE - 1) |-> 0] /\ todo = [t \in Procs |-> User]
      /\ sent = 0 /\ taken = 0 /\ astray = FALSE
  BY DEF PipeInit
<1>2. PIPE_PAGE \in Nat \ {0, 1}
  BY <1>1, PipeAssumption DEF PIPE_PAGE
<1>3. Types /\ OnlyTheRunning /\ \A t \in Procs : ~Copying(t)
  BY <1>1, <1>2, UserFits DEF Types, OnlyTheRunning, Copying, User
<1>4. Held = 0 /\ Nr(sent - taken) = 0
  BY <1>1, <1>2 DEF Held, Place, Nr, Round
<1>5. BytesFit
  BY <1>1, <1>3, <1>4 DEF BytesFit, InPage
<1> QED BY <1>1, <1>3, <1>5 DEF IInv

LEMMA NextFits == IInv /\ [PipeNext]_pipeVars => IInv'
<1> SUFFICES ASSUME IInv, [PipeNext]_pipeVars PROVE IInv'
  OBVIOUS
<1>1. CASE UNCHANGED pipeVars \/ Typed
  <2>1. UNCHANGED <<todo, pipe, page, runs, pipes, sent, taken, astray>>
    BY <1>1 DEF pipeVars, Typed, history
  <2> QED
    BY <2>1 DEF IInv, Happens, Types, OnlyTheRunning, BytesFit, Copying, WriterFits,
                ReaderFits, InPage, Held, Place, Nr, PIPE_PAGE
<1>2. CASE PipeNext /\ Happens("fault")
  <2>1. pipes' = pipes
    <3>1. Typed => pipes' = pipes
      BY DEF Typed
    <3>2. \A t \in Procs : KernelStep(t) => pipes' = pipes
      BY DEF KernelStep, Resumes, ReadEmpty, ReadSome, WriteFull, WriteSome, TransferEnds,
             CopyBytes, Look, free_wait
    <3>3. \A t \in Procs : TimeIsOut(t) \/ sys_pipe(t) \/ sys_close(t) \/ Dies(t)
                            \/ (\E u \in Procs : Fork_child(t, u)) => pipes' = pipes
      BY DEF TimeIsOut, sys_pipe, sys_close, Dies, Fork_child
    <3>4. \A t \in Procs : Transfer(t) \/ PageFault(t) \/ sys_select(t) \/ LineRead(t)
                            \/ SignalSent(t) => pipes' = pipes
      BY DEF Transfer, PageFault, sys_select, LineRead, SignalSent
    <3> QED BY <1>2, <3>1, <3>2, <3>3, <3>4 DEF PipeNext
  <2> QED BY <1>2, <2>1 DEF IInv, Happens
<1>3. CASE PipeNext /\ ~Happens("fault")
  <2>1. ASSUME NEW t \in Procs, KernelStep(t) PROVE IInv'
    <3>1. CASE Resumes(t) \/ ReadEmpty(t) \/ WriteFull(t) \/ TransferEnds(t)
      BY <1>3, <3>1, TransferSteps
    <3>2. CASE Look(t) \/ free_wait(t)
      BY <1>3, <3>2, SelectSteps
    <3>3. CASE ReadSome(t) \/ WriteSome(t)
      BY <1>3, <3>3, ReadSomeKeeps, WriteSomeKeeps
    <3>4. CASE CopyBytes(t)
      <4>1. todo[t].op \in {"read", "write"}
        BY <1>3, <3>4, CopyEnds
      <4> QED BY <1>3, <3>4, <4>1, CopyOutKeeps, CopyInKeeps
    <3> QED BY <2>1, <3>1, <3>2, <3>3, <3>4 DEF KernelStep
  <2>2. ASSUME NEW t \in Procs, sys_pipe(t) \/ sys_close(t) PROVE IInv'
    BY <1>3, <2>2, SysPipeKeeps, CloseKeeps
  <2>3. ASSUME NEW t \in Procs, NEW u \in Procs,
               TimeIsOut(t) \/ Dies(t) \/ Fork_child(t, u) \/ LineRead(t) \/ SignalSent(t)
        PROVE  IInv'
    BY <1>3, <2>3, OtherSteps
  <2>4. ASSUME NEW t \in Procs, Transfer(t) \/ sys_select(t) PROVE IInv'
    BY <1>3, <2>4, TransferSteps, SelectSteps
  <2>5. ASSUME NEW t \in Procs, PageFault(t) PROVE FALSE
    BY <1>3, <2>5 DEF PageFault
  <2> QED BY <1>1, <1>3, <2>1, <2>2, <2>3, <2>4, <2>5 DEF PipeNext
<1> QED BY <1>1, <1>2, <1>3

(* read_pipe and write_pipe move their positions before they copy, in a    *)
(* ring that is never full, cut in two where it wraps.  While user memory  *)
(* is resident, the bytes come out in order and each of them once, however *)
(* many processes read and write, whatever the size of the page.           *)
THEOREM InOrderAlways == PipeSpec => []InOrder
<1>1. IInv => InOrder
  BY DEF IInv, BytesFit, InOrder
<1> QED BY <1>1, InitFits, NextFits, PTL DEF PipeSpec

-----------------------------------------------------------------------------
(* The second half: the queues.  First how their state is described.       *)
Ends_open(e) == \E t \in Procs : e \in ends[t]
One(yes) == IF yes THEN 1 ELSE 0
States == {"run", "int", "unint", "none"}
Pointers == Procs \cup {NoProc}
QTypes ==
  /\ pipes \in PipeSetups /\ Types /\ Procs # {}
  /\ ends \in [Procs -> SUBSET {"r", "w"}] /\ runs \in Pointers
  /\ first \in [Queues -> Pointers] /\ entry \in [Procs -> [Queues -> Pointers]]
  /\ pstate \in [Procs -> States]
EndsCounted == pipe.count = One(Ends_open("r")) + One(Ends_open("w"))

(* The calls at their places.                                              *)
CallFits(t) ==
  /\ todo[t].op # "user" => pstate[t] # "none"
  /\ pstate[t] = "none" => ends[t] = {}
  /\ todo[t].op = "user" => todo[t].at = "user"
  /\ todo[t].op = "read" => todo[t].at \in {"loop", "copy", "fault", "i_wait"}
  /\ todo[t].op = "write" => todo[t].at \in {"loop", "copy", "fault", "i_wait2"} /\ "w" \in ends[t]
  /\ todo[t].op = "select" => todo[t].at \in {"look", "free"} /\ todo[t].table \subseteq {"i_wait", "tty"}
  /\ todo[t].at \in {"loop", "copy", "look"} => runs = t
  /\ runs = t => pstate[t] = "run" /\ todo[t].at \in {"loop", "copy", "look", "free"}
  /\ pstate[t] = "int" /\ todo[t].op = "select"
       => todo[t].at = "free" /\ todo[t].table = {QueueOf(x) : x \in todo[t].in \cup todo[t].out}

(* Who is in a queue, who of them has what it waits for, and who is going  *)
(* to wake the queue.                                                      *)
Member(t, q) ==
  IF todo[t].op = "select" THEN todo[t].at = "free" /\ q \in todo[t].table
  ELSE todo[t].op \in {"read", "write"} /\ todo[t].at = q
Due(t, q) ==
  \/ todo[t].op = "read" /\ (~PIPE_EMPTY \/ pipe.count # 2)
  \/ todo[t].op = "write" /\ (PIPE_SIZE # Places \/ pipe.count # 2)
  \/ todo[t].op = "select" /\ \E x \in todo[t].in \cap ReadyIn : QueueOf(x) = q
Wakes(t, q) ==
  /\ q # "tty" /\ todo[t].op = IF q = "i_wait" THEN "write" ELSE "read"
  /\ todo[t].at \in {"loop", "copy", "fault"}
Waker(q) == \E t \in Procs : Wakes(t, q)

(* A select that has to let another leave first, and whoever is awake or   *)
(* such a select.                                                          *)
LetsPass(t) == todo[t].op = "select" /\ pstate[t] = "unint"
Stirs(t) == pstate[t] = "run" \/ LetsPass(t)

(* The chain of q, if came says when each of its members came.             *)
Chain(came, q) ==
  /\ first[q] = NoProc => \A t \in Procs : ~Member(t, q)
  /\ first[q] # NoProc => /\ Member(first[q], q)
                          /\ \A t \in Procs : Member(t, q) /\ t # first[q] => came[t] < came[first[q]]
  /\ \A t \in Procs : Member(t, q) =>
       /\ entry[t][q] = NoProc => \A u \in Procs : Member(u, q) => came[t] <= came[u]
       /\ entry[t][q] # NoProc =>
            /\ Member(entry[t][q], q) /\ came[entry[t][q]] < came[t]
            /\ \A u \in Procs : Member(u, q) /\ came[u] < came[t] /\ u # entry[t][q]
                                  => came[u] < came[entry[t][q]]
Passed(came) ==
  \A t \in Procs : LetsPass(t) =>
    \E q \in Queues, m \in Procs : Member(t, q) /\ Member(m, q) /\ came[t] < came[m] /\ Stirs(m)
Queued(n, came) == /\ came \in [Procs -> 0..n] /\ Passed(came)
                   /\ \A q \in Queues : Chain(came, q)
Progress ==
  \A q \in Queues, t \in Procs :
    Member(t, q) /\ Due(t, q) => Waker(q) \/ \E m \in Procs : Member(m, q) /\ Stirs(m)

(* The inductive invariant of the queues.                                  *)
Moving == /\ \E n \in Nat : \E came : Queued(n, came)
          /\ Progress
QInv == QTypes /\ EndsCounted /\ (\A t \in Procs : CallFits(t)) /\ Moving

-----------------------------------------------------------------------------
(* Steps that leave the queues as they are: whoever is in one stays as it  *)
(* is, or is woken.                                                        *)
Same(t) == todo'[t] = todo[t] /\ pstate'[t] \in {pstate[t], "run"}
Idle(t) == \A q \in Queues : ~Member(t, q)
StaysOut(t) == Idle(t) /\ Idle(t)' /\ ~LetsPass(t)'
FirstRuns(q) == first[q] = NoProc \/ pstate[first[q]] = "run"

LEMMA SameMember ==
  ASSUME NEW t \in Procs, Same(t)
  PROVE  /\ \A q \in Queues : Member(t, q)' <=> Member(t, q)
         /\ Stirs(t) => Stirs(t)'
         /\ LetsPass(t)' => LetsPass(t)
BY DEF Same, Member, Stirs, LetsPass

LEMMA QueuesStay ==
  ASSUME Moving, QTypes, UNCHANGED <<first, entry>>,
         \A u \in Procs : Same(u) \/ StaysOut(u),
         \A q \in Queues : Waker(q) => Waker(q)' \/ FirstRuns(q)',
         \A q \in Queues, u \in Procs :
           Same(u) /\ Member(u, q) /\ Due(u, q)' => Due(u, q) \/ Waker(q)' \/ FirstRuns(q)'
  PROVE  Moving'
<1>0. PICK n \in Nat : \E came : Queued(n, came)
  BY DEF Moving
<1>1. PICK came : Queued(n, came)
  BY <1>0
<1>2. \A u \in Procs, q \in Queues : Member(u, q)' <=> Member(u, q)
  BY SameMember DEF StaysOut, Idle
<1>3. \A u \in Procs, q \in Queues : Member(u, q) => Same(u)
  BY DEF StaysOut, Idle
<1>4. /\ \A u \in Procs, q \in Queues : Member(u, q) /\ Stirs(u) => Stirs(u)'
      /\ \A u \in Procs : LetsPass(u)' => LetsPass(u)
  BY <1>3, SameMember DEF StaysOut
<1>5. \A q \in Queues : Chain(came, q)'
  <2> SUFFICES ASSUME NEW q \in Queues PROVE Chain(came, q)'
    OBVIOUS
  <2>1. Chain(came, q) /\ first'[q] = first[q] /\ \A u \in Procs : entry'[u][q] = entry[u][q]
    BY <1>1 DEF Queued
  <2>2. first[q] \in Pointers /\ \A u \in Procs : entry[u][q] \in Pointers
    BY DEF QTypes
  <2> QED BY <1>2, <2>1, <2>2 DEF Chain, Pointers
<1>6. Passed(came)'
  <2>1. Passed(came)
    BY <1>1 DEF Queued
  <2> QED BY <1>2, <1>4, <2>1 DEF Passed
<1>7. Progress'
  <2> SUFFICES ASSUME NEW q \in Queues, NEW u \in Procs, Member(u, q)', Due(u, q)'
               PROVE  Waker(q)' \/ \E m \in Procs : Member(m, q)' /\ Stirs(m)'
    BY DEF Progress
  <2>1. CASE FirstRuns(q)'
    <3>1. first'[q] # NoProc /\ Member(first[q], q)
      BY <1>1, <1>2 DEF Queued, Chain
    <3>2. first[q] \in Procs
      BY <3>1 DEF QTypes, Pointers
    <3> QED BY <1>2, <2>1, <3>1, <3>2 DEF FirstRuns, Stirs
  <2>2. CASE ~FirstRuns(q)' /\ ~Waker(q)'
    <3>1. Member(u, q) /\ Due(u, q) /\ ~Waker(q)
      BY <1>2, <1>3, <2>2
    <3>2. PICK m \in Procs : Member(m, q) /\ Stirs(m)
      BY <3>1 DEF Moving, Progress
    <3> QED BY <1>2, <1>4, <3>2
  <2> QED BY <2>1, <2>2
<1>8. Queued(n, came)'
  BY <1>1, <1>5, <1>6 DEF Queued
<1> QED BY <1>1, <1>7, <1>8 DEF Moving

(* What is due stays what it is, if the pipe and the terminal do.          *)
LEMMA SameDue ==
  ASSUME UNCHANGED <<pipe, line, pipes>>, NEW t \in Procs, todo'[t] = todo[t]
  PROVE  \A q \in Queues : Due(t, q)' <=> Due(t, q)
BY DEF Due, ReadyIn, PIPE_EMPTY, PIPE_SIZE, Places, PIPE_PAGE, QueueOf

(* t enters the queues Q, to sleep there only for what is not ready.       *)
LEMMA EntersQueues ==
  ASSUME Moving, QTypes, NEW t \in Procs, NEW Q \in SUBSET Queues, Idle(t),
         first' = [q \in Queues |-> IF q \in Q THEN t ELSE first[q]],
         \A u \in Procs \ {t} : entry'[u] = entry[u] /\ Same(u),
         \A q \in Q : entry'[t][q] = first[q] /\ (Due(t, q)' => pstate'[t] = "run"),
         \A q \in Queues : Member(t, q)' <=> q \in Q,
         ~LetsPass(t)',
         \A q \in Queues : Waker(q) => Waker(q)' \/ (q \notin Q /\ FirstRuns(q)'),
         UNCHANGED <<pipe, line, pipes>>
  PROVE  Moving'
<1>0. PICK n \in Nat : \E came : Queued(n, came)
  BY DEF Moving
<1>1. PICK came : Queued(n, came)
  BY <1>0
<1> DEFINE late == [came EXCEPT ![t] = n + 1]
<1>2. /\ late \in [Procs -> 0..(n + 1)] /\ late[t] = n + 1
      /\ \A u \in Procs \ {t} : late[u] = came[u] /\ came[u] \in Nat /\ late[u] < late[t]
  BY <1>1 DEF Queued
<1> HIDE DEF late
<1>3. /\ \A q \in Queues : ~Member(t, q)
      /\ \A u \in Procs \ {t}, q \in Queues : Member(u, q)' <=> Member(u, q)
      /\ \A u \in Procs \ {t} : (Stirs(u) => Stirs(u)') /\ (LetsPass(u)' => LetsPass(u))
  BY SameMember DEF Idle
<1>4. \A q \in Queues : Chain(late, q)'
  <2> SUFFICES ASSUME NEW q \in Queues PROVE Chain(late, q)'
    OBVIOUS
  <2>1. Chain(came, q) /\ first'[q] = IF q \in Q THEN t ELSE first[q]
    BY <1>1 DEF Queued
  <2>2. first[q] \in Pointers /\ \A u \in Procs : entry[u][q] \in Pointers
    BY DEF QTypes
  <2>3. NoProc \notin Procs
    BY PipeAssumption
  <2>4. \A u \in Procs \ {t} : entry'[u][q] = entry[u][q]
    OBVIOUS
  <2>5. CASE q \in Q
    <3>1. first'[q] = t /\ Member(t, q)' /\ entry'[t][q] = first[q]
      BY <2>1, <2>5
    <3> QED BY <1>2, <1>3, <2>1, <2>2, <2>3, <2>4, <3>1 DEF Chain, Pointers
  <2>6. CASE q \notin Q
    <3>1. first'[q] = first[q] /\ ~Member(t, q)'
      BY <2>1, <2>6
    <3> QED BY <1>2, <1>3, <2>1, <2>2, <2>3, <2>4, <3>1 DEF Chain, Pointers
  <2> QED BY <2>5, <2>6
<1>5. Passed(late)'
  <2> SUFFICES ASSUME NEW u \in Procs, LetsPass(u)'
               PROVE  \E q \in Queues, m \in Procs :
                        Member(u, q)' /\ Member(m, q)' /\ late[u] < late[m] /\ Stirs(m)'
    BY DEF Passed
  <2>1. u # t /\ LetsPass(u)
    BY <1>3
  <2>2. PICK q \in Queues, m \in Procs : Member(u, q) /\ Member(m, q) /\ came[u] < came[m] /\ Stirs(m)
    BY <1>1, <2>1 DEF Queued, Passed
  <2> QED BY <1>2, <1>3, <2>1, <2>2
<1>6. Progress'
  <2> SUFFICES ASSUME NEW q \in Queues, NEW u \in Procs, Member(u, q)', Due(u, q)'
               PROVE  Waker(q)' \/ \E m \in Procs : Member(m, q)' /\ Stirs(m)'
    BY DEF Progress
  <2>1. CASE u = t
    BY <2>1 DEF Stirs
  <2>2. CASE u # t
    <3>1. Member(u, q) /\ Due(u, q)
      BY <1>3, <2>2, SameDue DEF Same
    <3>2. CASE Waker(q) /\ ~Waker(q)'
      <4>1. q \notin Q /\ FirstRuns(q)' /\ first'[q] = first[q]
        BY <3>2
      <4>2. first[q] # NoProc /\ Member(first[q], q) /\ first[q] \in Procs
        BY <1>1, <3>1 DEF Queued, Chain, QTypes, Pointers
      <4>3. first[q] # t
        BY <1>3, <4>2
      <4> QED BY <1>3, <4>1, <4>2, <4>3 DEF FirstRuns, Stirs
    <3>3. CASE ~Waker(q)
      <4>1. PICK m \in Procs : Member(m, q) /\ Stirs(m)
        BY <3>1, <3>3 DEF Moving, Progress
      <4> QED BY <1>3, <4>1
    <3> QED BY <3>2, <3>3
  <2> QED BY <2>1, <2>2
<1>7. Queued(n + 1, late)' /\ n + 1 \in Nat
  BY <1>2, <1>4, <1>5 DEF Queued
<1> QED BY <1>2, <1>6, <1>7 DEF Moving

-----------------------------------------------------------------------------
(* t, at the front of q, leaves it and wakes the next.                     *)
LEMMA LeavesKeeps ==
  ASSUME Moving, QTypes, NEW t \in Procs, NEW q \in Queues, Member(t, q), pstate[t] = "run",
         first[q] \in {NoProc, t}, LeavesQueue(t, q),
         \A u \in Procs \ {t} : todo'[u] = todo[u],
         \A p \in Queues : Member(t, p)' <=> Member(t, p) /\ p # q,
         \A p \in Queues : Member(t, p)' /\ Due(t, p)' => Due(t, p),
         \A p \in Queues : Waker(p) => Waker(p)',
         UNCHANGED <<pipe, line, pipes>>
  PROVE  Moving'
<1>e. PICK e : e = entry[t][q]
  OBVIOUS
<1>0. PICK n \in Nat : \E came : Queued(n, came)
  BY DEF Moving
<1>1. PICK came : Queued(n, came)
  BY <1>0
<1>2. NoProc \notin Procs /\ e \in Pointers /\ came \in [Procs -> 0..n]
  BY <1>1, <1>e, PipeAssumption DEF QTypes, Queued
<1>3. /\ first[q] = t /\ Chain(came, q)
      /\ \A u \in Procs : Member(u, q) /\ u # t => came[u] < came[t]
  BY <1>1, <1>2 DEF Queued, Chain
<1>4. /\ first' = [first EXCEPT ![q] = e]
      /\ entry' = [entry EXCEPT ![t][q] = NoProc]
      /\ pstate' = IF e = NoProc THEN pstate ELSE [pstate EXCEPT ![e] = "run"]
  BY <1>e DEF LeavesQueue, Unqueued
<1>5. /\ e = NoProc => \A u \in Procs : Member(u, q) => u = t
      /\ e # NoProc => /\ e \in Procs /\ e # t /\ Member(e, q) /\ pstate'[e] = "run"
                       /\ \A u \in Procs : Member(u, q) /\ u # t /\ u # e => came[u] < came[e]
  <2>1. \A u \in Procs : came[u] \in Nat
    BY <1>2
  <2>2. pstate \in [Procs -> States]
    BY DEF QTypes
  <2>3. /\ e = NoProc => \A u \in Procs : Member(u, q) => came[t] <= came[u]
        /\ e # NoProc => /\ Member(e, q) /\ came[e] < came[t]
                         /\ \A u \in Procs : Member(u, q) /\ came[u] < came[t] /\ u # e
                                               => came[u] < came[e]
    BY <1>3, <1>e DEF Chain
  <2>4. e # NoProc => e \in Procs
    BY <1>2 DEF Pointers
  <2> QED BY <1>3, <1>4, <2>1, <2>2, <2>3, <2>4
<1>6. \A u \in Procs : pstate'[u] \in {pstate[u], "run"}
  BY <1>2, <1>4 DEF QTypes
<1>7. /\ \A u \in Procs \ {t}, p \in Queues : Member(u, p)' <=> Member(u, p)
      /\ \A u \in Procs \ {t} : (Stirs(u) => Stirs(u)') /\ (LetsPass(u)' => LetsPass(u))
      /\ Stirs(t)' /\ ~LetsPass(t)'
  <2>1. \A u \in Procs \ {t} : Same(u)
    BY <1>6 DEF Same
  <2>2. pstate'[t] = "run"
    BY <1>6
  <2> QED BY <2>1, <2>2, SameMember DEF Stirs, LetsPass
<1>8. \A p \in Queues : Chain(came, p)'
  <2> SUFFICES ASSUME NEW p \in Queues PROVE Chain(came, p)'
    OBVIOUS
  <2>1. Chain(came, p) /\ first[p] \in Pointers /\ \A u \in Procs : entry[u][p] \in Pointers
    BY <1>1 DEF Queued, QTypes
  <2>2. \A u \in Procs \ {t} : entry'[u][p] = entry[u][p]
    BY <1>4 DEF QTypes
  <2>3. CASE p = q
    <3>1. first'[q] = e /\ ~Member(t, q)'
      BY <1>4 DEF QTypes
    <3>2. \A u \in Procs : came[u] \in Nat
      BY <1>2
    <3>3. /\ e = NoProc => \A u \in Procs : ~Member(u, q)'
          /\ e # NoProc => /\ Member(e, q)'
                           /\ \A u \in Procs : Member(u, q)' /\ u # e => came[u] < came[e]
      BY <1>5, <1>7, <3>1
    <3>4. ASSUME NEW u \in Procs, Member(u, q)', NEW d, d = entry'[u][q]
          PROVE  /\ d = NoProc => \A w \in Procs : Member(w, q)' => came[u] <= came[w]
                 /\ d # NoProc =>
                      /\ Member(d, q)' /\ came[d] < came[u]
                      /\ \A w \in Procs : Member(w, q)' /\ came[w] < came[u] /\ w # d
                                            => came[w] < came[d]
      <4>1. u # t /\ Member(u, q) /\ d = entry[u][q] /\ came[u] < came[t]
        BY <1>3, <1>7, <2>2, <2>3, <3>1, <3>4
      <4>2. CASE d = NoProc
        <5>1. \A w \in Procs : Member(w, q) => came[u] <= came[w]
          BY <2>1, <2>3, <4>1, <4>2 DEF Chain
        <5> QED BY <1>7, <3>1, <4>1, <4>2, <5>1
      <4>3. CASE d # NoProc
        <5>1. /\ Member(d, q) /\ came[d] < came[u] /\ d \in Procs
              /\ \A w \in Procs : Member(w, q) /\ came[w] < came[u] /\ w # d => came[w] < came[d]
          BY <2>1, <2>3, <4>1, <4>3 DEF Chain, Pointers
        <5>2. d # t
          BY <3>2, <4>1, <5>1
        <5> QED BY <1>7, <3>1, <4>1, <4>3, <5>1, <5>2
      <4> QED BY <4>2, <4>3
    <3> QED BY <2>3, <3>1, <3>3, <3>4 DEF Chain
  <2>4. CASE p # q
    <3>1. first'[p] = first[p] /\ entry'[t][p] = entry[t][p]
      BY <1>4, <2>4 DEF QTypes
    <3>2. \A u \in Procs : Member(u, p)' <=> Member(u, p)
      BY <1>7, <2>4
    <3> QED BY <2>1, <2>2, <3>1, <3>2 DEF Chain, Pointers
  <2> QED BY <2>3, <2>4
<1>9. Passed(came)'
  <2> SUFFICES ASSUME NEW u \in Procs, LetsPass(u)'
               PROVE  \E p \in Queues, m \in Procs :
                        Member(u, p)' /\ Member(m, p)' /\ came[u] < came[m] /\ Stirs(m)'
    BY DEF Passed
  <2>1. u # t /\ LetsPass(u)
    BY <1>7
  <2>2. PICK p \in Queues, m \in Procs : Member(u, p) /\ Member(m, p) /\ came[u] < came[m] /\ Stirs(m)
    BY <1>1, <2>1 DEF Queued, Passed
  <2>3. CASE m # t \/ p # q
    BY <1>7, <2>1, <2>2, <2>3
  <2>4. CASE m = t /\ p = q
    <3>1. u # e
      BY <1>5, <2>1, <2>2, <2>4 DEF LetsPass
    <3>2. e # NoProc /\ e \in Procs /\ e # t /\ Member(e, q) /\ pstate'[e] = "run" /\ came[u] < came[e]
      BY <1>5, <2>1, <2>2, <2>4, <3>1
    <3> QED BY <1>7, <2>1, <2>2, <2>4, <3>2 DEF Stirs
  <2> QED BY <2>3, <2>4
<1>10. Progress'
  <2> SUFFICES ASSUME NEW p \in Queues, NEW u \in Procs, Member(u, p)', Due(u, p)'
               PROVE  Waker(p)' \/ \E m \in Procs : Member(m, p)' /\ Stirs(m)'
    BY DEF Progress
  <2>1. Member(u, p) /\ Due(u, p) /\ (p = q => u # t)
    BY <1>7, SameDue
  <2>2. CASE Waker(p)
    BY <2>2
  <2>3. CASE ~Waker(p)
    <3>1. PICK m \in Procs : Member(m, p) /\ Stirs(m)
      BY <2>1, <2>3 DEF Moving, Progress
    <3>2. CASE m # t \/ p # q
      BY <1>7, <3>1, <3>2
    <3>3. CASE p = q
      <4>1. e # NoProc /\ e \in Procs /\ e # t /\ Member(e, q) /\ pstate'[e] = "run"
        BY <1>5, <2>1, <3>3
      <4> QED BY <1>7, <3>3, <4>1 DEF Stirs
    <3> QED BY <3>2, <3>3
  <2> QED BY <2>2, <2>3
<1>11. Queued(n, came)'
  BY <1>1, <1>8, <1>9 DEF Queued
<1> QED BY <1>10, <1>11 DEF Moving

(* t finds another in front of it, wakes that one and sleeps on.           *)
LEMMA HandsOnKeeps ==
  ASSUME Moving, QTypes, NEW t \in Procs, NEW q \in Queues, Member(t, q),
         first[q] \notin {NoProc, t},
         pstate' = [Woken_up(pstate, q) EXCEPT ![t] = "unint"],
         UNCHANGED <<first, entry, todo, pipe, line, pipes>>
  PROVE  Moving'
<1>f. PICK f : f = first[q]
  OBVIOUS
<1>0. PICK n \in Nat : \E came : Queued(n, came)
  BY DEF Moving
<1>1. PICK came : Queued(n, came)
  BY <1>0
<1>2. f \in Procs /\ f # t /\ Member(f, q) /\ came[t] < came[f]
  BY <1>1, <1>f DEF QTypes, Queued, Chain, Pointers
<1>3. /\ pstate'[f] = "run" /\ pstate'[t] = "unint"
      /\ \A u \in Procs \ {t} : pstate'[u] \in {pstate[u], "run"}
  <2>1. pstate \in [Procs -> States]
    BY DEF QTypes
  <2>2. pstate' = [pstate EXCEPT ![f] = "run", ![t] = "unint"]
    BY <1>f DEF Woken_up
  <2> QED BY <1>2, <2>1, <2>2
<1>4. /\ \A u \in Procs, p \in Queues : (Member(u, p)' <=> Member(u, p)) /\ (Due(u, p)' <=> Due(u, p))
      /\ \A p \in Queues : Waker(p)' <=> Waker(p)
  BY SameDue DEF Member, Waker, Wakes
<1>5. /\ \A u \in Procs \ {t} : (Stirs(u) => Stirs(u)') /\ (LetsPass(u)' => LetsPass(u))
      /\ Stirs(f)'
  BY <1>3 DEF Stirs, LetsPass
<1>6. \A p \in Queues : Chain(came, p)'
  <2> SUFFICES ASSUME NEW p \in Queues PROVE Chain(came, p)'
    OBVIOUS
  <2>1. Chain(came, p)
    BY <1>1 DEF Queued
  <2>2. first[p] \in Pointers /\ \A u \in Procs : entry[u][p] \in Pointers
    BY DEF QTypes
  <2> QED BY <1>4, <2>1, <2>2 DEF Chain, Pointers
<1>7. \A p \in Queues : Member(t, p) => Stirs(t)' \/ p = q
  <2>1. todo' = todo
    OBVIOUS
  <2>2. CASE todo[t].op = "select"
    BY <1>3, <2>1, <2>2 DEF Stirs, LetsPass
  <2>3. CASE todo[t].op # "select"
    BY <2>3 DEF Member
  <2> QED BY <2>2, <2>3
<1>8. Passed(came)'
  <2> SUFFICES ASSUME NEW u \in Procs, LetsPass(u)'
               PROVE  \E p \in Queues, m \in Procs :
                        Member(u, p)' /\ Member(m, p)' /\ came[u] < came[m] /\ Stirs(m)'
    BY DEF Passed
  <2>1. CASE u = t
    BY <1>2, <1>4, <1>5, <2>1
  <2>2. CASE u # t
    <3>1. PICK p \in Queues, m \in Procs : Member(u, p) /\ Member(m, p) /\ came[u] < came[m] /\ Stirs(m)
      BY <1>1, <1>5, <2>2 DEF Queued, Passed
    <3>2. CASE m # t \/ Stirs(t)'
      BY <1>4, <1>5, <3>1, <3>2
    <3>3. CASE m = t /\ p = q
      <4>1. came \in [Procs -> 0..n]
        BY <1>1 DEF Queued
      <4>2. came[u] < came[f]
        BY <1>2, <3>1, <3>3, <4>1
      <4> QED BY <1>2, <1>4, <1>5, <3>1, <3>3, <4>2
    <3> QED BY <1>7, <3>1, <3>2, <3>3
  <2> QED BY <2>1, <2>2
<1>9. Progress'
  <2> SUFFICES ASSUME NEW p \in Queues, NEW u \in Procs, Member(u, p)', Due(u, p)'
               PROVE  Waker(p)' \/ \E m \in Procs : Member(m, p)' /\ Stirs(m)'
    BY DEF Progress
  <2>1. CASE Waker(p)
    BY <1>4, <2>1
  <2>2. CASE ~Waker(p)
    <3>1. PICK m \in Procs : Member(m, p) /\ Stirs(m)
      BY <1>4, <2>2 DEF Moving, Progress
    <3>2. CASE m # t \/ Stirs(t)'
      BY <1>4, <1>5, <3>1, <3>2
    <3>3. CASE m = t /\ p = q
      BY <1>2, <1>4, <1>5, <3>3
    <3> QED BY <1>7, <3>1, <3>2, <3>3
  <2> QED BY <2>1, <2>2
<1>10. Queued(n, came)'
  BY <1>1, <1>6, <1>8 DEF Queued
<1> QED BY <1>9, <1>10 DEF Moving

-----------------------------------------------------------------------------
(* What all steps of a process have in common.                             *)
LEMMA OthersFit ==
  ASSUME QInv, NEW t \in Procs, runs \in {t, NoProc}, runs' \in {t, NoProc},
         NEW u \in Procs \ {t}, todo'[u] = todo[u], ends'[u] = ends[u],
         pstate'[u] \in {pstate[u], "run"}
  PROVE  CallFits(u)'
<1>1. CallFits(u) /\ runs # u /\ runs' # u
  BY PipeAssumption DEF QInv
<1> QED BY <1>1 DEF CallFits, QueueOf

Stays(t) ==
  /\ UNCHANGED <<first, entry>> /\ runs \in {t, NoProc} /\ runs' \in {t, NoProc}
  /\ \A u \in Procs \ {t} : ends'[u] = ends[u] /\ Same(u)

LEMMA StayStep ==
  ASSUME QInv, QTypes', EndsCounted', NEW t \in Procs, Stays(t),
         Same(t) \/ StaysOut(t), CallFits(t)',
         \A q \in Queues : Wakes(t, q) => Wakes(t, q)' \/ FirstRuns(q)',
         \A q \in Queues, u \in Procs :
           Same(u) /\ Member(u, q) /\ Due(u, q)' => Due(u, q) \/ Waker(q)' \/ FirstRuns(q)'
  PROVE  QInv'
<1>1. Moving /\ QTypes
  BY DEF QInv
<1>2. \A u \in Procs \ {t} : CallFits(u)'
  BY OthersFit DEF Stays, Same
<1>3. \A q \in Queues : Waker(q) => Waker(q)' \/ FirstRuns(q)'
  <2> SUFFICES ASSUME NEW q \in Queues, NEW u \in Procs, Wakes(u, q)
               PROVE  Waker(q)' \/ FirstRuns(q)'
    BY DEF Waker
  <2>1. CASE u = t
    BY <2>1 DEF Waker
  <2>2. CASE u # t
    <3>1. Wakes(u, q)'
      BY <2>2 DEF Stays, Same, Wakes
    <3> QED BY <3>1 DEF Waker
  <2> QED BY <2>1, <2>2
<1>4. Moving'
  BY <1>1, <1>3, QueuesStay DEF Stays
<1> QED BY <1>2, <1>4 DEF QInv

LEMMA EnterStep ==
  ASSUME QInv, QTypes', EndsCounted', NEW t \in Procs, NEW Q \in SUBSET Queues, Idle(t),
         runs \in {t, NoProc}, runs' \in {t, NoProc}, CallFits(t)',
         first' = [q \in Queues |-> IF q \in Q THEN t ELSE first[q]],
         \A u \in Procs \ {t} : entry'[u] = entry[u] /\ ends'[u] = ends[u] /\ Same(u),
         \A q \in Q : entry'[t][q] = first[q] /\ (Due(t, q)' => pstate'[t] = "run"),
         \A q \in Queues : Member(t, q)' <=> q \in Q,
         ~LetsPass(t)',
         \A q \in Queues : Wakes(t, q) => q \notin Q /\ FirstRuns(q)',
         UNCHANGED <<pipe, line, pipes>>
  PROVE  QInv'
<1>1. Moving /\ QTypes
  BY DEF QInv
<1>2. \A u \in Procs \ {t} : CallFits(u)'
  BY OthersFit DEF Same
<1>3. \A q \in Queues : Waker(q) => Waker(q)' \/ (q \notin Q /\ FirstRuns(q)')
  <2> SUFFICES ASSUME NEW q \in Queues, NEW u \in Procs, Wakes(u, q)
               PROVE  Waker(q)' \/ (q \notin Q /\ FirstRuns(q)')
    BY DEF Waker
  <2>1. CASE u = t
    BY <2>1
  <2>2. CASE u # t
    <3>1. Wakes(u, q)'
      BY <2>2 DEF Same, Wakes
    <3> QED BY <3>1 DEF Waker
  <2> QED BY <2>1, <2>2
<1>4. Moving'
  BY <1>1, <1>3, EntersQueues
<1> QED BY <1>2, <1>4 DEF QInv

LEMMA Went ==
  ASSUME QTypes, NEW t \in Procs, NEW c, Goes_on(t, c)
  PROVE  todo'[t] = c /\ \A u \in Procs \ {t} : todo'[u] = todo[u]
BY DEF QTypes, Types, Goes_on

LEMMA Woken ==
  ASSUME QTypes, NEW S \in [Procs -> States], NEW q \in Queues
  PROVE  /\ Woken_up(S, q) \in [Procs -> States]
         /\ \A u \in Procs : Woken_up(S, q)[u] \in {S[u], "run"}
         /\ first[q] = NoProc \/ Woken_up(S, q)[first[q]] = "run"
<1>1. first[q] \in Pointers /\ "run" \in States
  BY DEF QTypes, States
<1> QED BY <1>1 DEF Woken_up, Pointers

-----------------------------------------------------------------------------
(* The types, at every step.                                               *)
LEMMA CallTyped ==
  ASSUME Types, NEW t \in Procs, NEW c \in Call, Goes_on(t, c) \/ UNCHANGED todo,
         UNCHANGED <<pipe, page, pipes, history>>
  PROVE  Types'
<1>1. todo' \in [Procs -> Call]
  BY DEF Types, Goes_on
<1> QED BY <1>1 DEF Types, PIPE_PAGE, history

LEMMA CopyTyped ==
  ASSUME Types, NEW t \in Procs, CopyBytes(t)
  PROVE  Types'
<1> DEFINE c == [todo[t] EXCEPT !.at = "loop", !.from = 0, !.n = 0, !.byte = 0]
<1>1. c \in Call
  <2>1. todo[t] \in Call
    BY DEF Types
  <2> QED BY <2>1 DEF Call
<1>2. /\ todo' = [todo EXCEPT ![t] = c] /\ DOMAIN page' = DOMAIN page
      /\ UNCHANGED <<pipe, pipes, sent, taken>>
  BY DEF CopyBytes, Goes_on
<1> HIDE DEF c
<1>3. todo' \in [Procs -> Call]
  BY <1>1, <1>2 DEF Types
<1> QED BY <1>2, <1>3 DEF Types, PIPE_PAGE

LEMMA TypesStep ==
  ASSUME QTypes, PipeNext
  PROVE  Types'
<1>1. Types /\ pipes \in PipeSetups
  BY DEF QTypes
<1>2. CASE Typed
  BY <1>1, <1>2 DEF Typed, Types, PIPE_PAGE, history
<1>3. ASSUME NEW t \in Procs,
             \/ Resumes(t) \/ ReadEmpty(t) \/ WriteFull(t) \/ TransferEnds(t) \/ Transfer(t)
             \/ sys_select(t) \/ Look(t) \/ free_wait(t)
      PROVE  Types'
  <2>1. UNCHANGED <<pipe, page, pipes, history>>
    BY <1>3 DEF Resumes, ReadEmpty, WriteFull, TransferEnds, Transfer, sys_select, Look, free_wait
  <2>2. \E c \in Call : Goes_on(t, c) \/ UNCHANGED todo
    BY <1>1, <1>3, TransferCalls, SelectCalls
  <2> QED BY <1>1, <2>1, <2>2, CallTyped
<1>4. ASSUME NEW t \in Procs, PageFault(t) PROVE Types'
  <2>1. [todo[t] EXCEPT !.at = "fault"] \in Call
    <3>1. todo[t] \in Call
      BY <1>1 DEF Types
    <3> QED BY <3>1 DEF Call
  <2> QED BY <1>1, <1>4, <2>1, CallTyped DEF PageFault
<1>5. ASSUME NEW t \in Procs, ReadSome(t) \/ WriteSome(t) \/ CopyBytes(t) PROVE Types'
  BY <1>1, <1>5, MovesTyped, CopyTyped
<1>6. ASSUME NEW t \in Procs, NEW u \in Procs,
             TimeIsOut(t) \/ Dies(t) \/ Fork_child(t, u) \/ LineRead(t) \/ SignalSent(t)
      PROVE  Types'
  BY <1>1, <1>6 DEF TimeIsOut, Dies, Fork_child, LineRead, SignalSent, Types, PIPE_PAGE, history
<1>7. ASSUME NEW t \in Procs, sys_close(t) PROVE Types'
  <2>1. /\ pipe' = pipe \/ pipe' = [pipe EXCEPT !.count = @ - 1]
        /\ UNCHANGED <<todo, page, pipes, sent, taken>>
    BY <1>7 DEF sys_close, history
  <2> QED BY <1>1, <2>1 DEF Types, PIPE_PAGE
<1>8. ASSUME NEW t \in Procs, sys_pipe(t) PROVE Types'
  <2>1. /\ pipe' = [count |-> 2, head |-> 0, tail |-> 0] /\ sent' = 0 /\ taken' = 0
        /\ UNCHANGED <<todo, page, pipes>>
    BY <1>8 DEF sys_pipe
  <2>2. 0 \in 0..(PIPE_PAGE - 1) /\ 0 \in 0..PIPE_PAGE
    BY <1>1, Sizes
  <2> QED BY <1>1, <2>1, <2>2 DEF Types, PIPE_PAGE
<1> QED BY <1>2, <1>3, <1>4, <1>5, <1>6, <1>7, <1>8 DEF PipeNext, KernelStep

LEMMA LeavesTyped ==
  ASSUME QTypes, NEW t \in Procs, NEW q \in Queues, LeavesQueue(t, q)
  PROVE  /\ first' \in [Queues -> Pointers] /\ entry' \in [Procs -> [Queues -> Pointers]]
         /\ pstate' \in [Procs -> States]
<1>1. entry[t][q] \in Pointers /\ NoProc \in Pointers /\ "run" \in States
  BY DEF QTypes, Pointers, States
<1>2. entry' \in [Procs -> [Queues -> Pointers]]
  <2> DEFINE e == [entry[t] EXCEPT ![q] = NoProc]
  <2>1. e \in [Queues -> Pointers] /\ entry' = [entry EXCEPT ![t] = e]
    BY <1>1 DEF LeavesQueue, QTypes
  <2> HIDE DEF e
  <2> QED BY <2>1 DEF QTypes
<1> QED BY <1>1, <1>2 DEF LeavesQueue, Unqueued, QTypes

LEMMA SleepsTyped ==
  ASSUME QTypes, NEW t \in Procs, NEW q \in Queues, NEW S \in [Procs -> States],
         NEW st \in {"int", "unint"}, Sleeps(t, q, S, st)
  PROVE  /\ first' \in [Queues -> Pointers] /\ entry' \in [Procs -> [Queues -> Pointers]]
         /\ pstate' \in [Procs -> States]
         /\ first' = [p \in Queues |-> IF p \in {q} THEN t ELSE first[p]]
         /\ \A u \in Procs \ {t} : entry'[u] = entry[u]
         /\ entry'[t][q] = first[q]
         /\ pstate'[t] = st /\ \A u \in Procs \ {t} : pstate'[u] = S[u]
<1>1. first[q] \in Pointers /\ t \in Pointers /\ st \in States
  BY DEF QTypes, Pointers, States
<1>2. /\ entry' \in [Procs -> [Queues -> Pointers]] /\ entry'[t][q] = first[q]
      /\ \A u \in Procs \ {t} : entry'[u] = entry[u]
  <2> DEFINE e == [entry[t] EXCEPT ![q] = first[q]]
  <2>1. e \in [Queues -> Pointers] /\ e[q] = first[q] /\ entry' = [entry EXCEPT ![t] = e]
    BY <1>1 DEF Sleeps, QTypes
  <2> HIDE DEF e
  <2> QED BY <2>1 DEF QTypes
<1>3. /\ first' \in [Queues -> Pointers]
      /\ first' = [p \in Queues |-> IF p \in {q} THEN t ELSE first[p]]
  BY <1>1 DEF Sleeps, QTypes
<1>4. /\ pstate' \in [Procs -> States] /\ pstate'[t] = st
      /\ \A u \in Procs \ {t} : pstate'[u] = S[u]
  BY <1>1 DEF Sleeps
<1> QED BY <1>2, <1>3, <1>4

-----------------------------------------------------------------------------
(* Steps outside of any call.                                              *)
LEMMA ClockSteps ==
  ASSUME QInv, Types', NEW t \in Procs, TimeIsOut(t) \/ SignalSent(t) \/ LineRead(t)
  PROVE  QInv'
<1>1. QTypes /\ EndsCounted /\ CallFits(t)
  BY DEF QInv
<1>2. /\ UNCHANGED <<ends, pipe, first, entry, todo, runs, pipes>>
      /\ runs = NoProc /\ (line' = line \/ line' = FALSE)
      /\ pstate' = pstate \/ Interrupted(t)
  BY DEF TimeIsOut, SignalSent, LineRead, AtUser, queues
<1>3. pstate' \in [Procs -> States] /\ \A u \in Procs : Same(u)
  BY <1>1, <1>2 DEF Interrupted, QTypes, States, Same
<1>4. QTypes' /\ EndsCounted'
  BY <1>1, <1>2, <1>3 DEF QTypes, EndsCounted, Ends_open
<1>5. Stays(t)
  BY <1>2, <1>3 DEF Stays
<1>6. CallFits(t)'
  BY <1>1, <1>2, <1>3 DEF CallFits, Same, QueueOf
<1>7. \A q \in Queues, u \in Procs : Due(u, q)' => Due(u, q)
  <2>1. CASE line' = line
    BY <1>2, <2>1, SameDue
  <2>2. CASE line' = FALSE
    BY <1>2, <2>2 DEF Due, ReadyIn, PIPE_EMPTY, PIPE_SIZE, Places, PIPE_PAGE, QueueOf
  <2> QED BY <1>2, <2>1, <2>2
<1>8. \A q \in Queues : Wakes(t, q)' <=> Wakes(t, q)
  BY <1>2 DEF Wakes
<1> QED BY <1>3, <1>4, <1>5, <1>6, <1>7, <1>8, StayStep

LEMMA TypedKeeps ==
  ASSUME QInv, Types', NEW t \in Procs, Typed
  PROVE  QInv'
<1>1. QTypes /\ EndsCounted /\ CallFits(t) /\ "tty" \in Queues /\ pstate \in [Procs -> States]
  BY DEF QInv, QTypes, Queues
<1>2. /\ UNCHANGED <<ends, pipe, first, entry, todo, runs, pipes>>
      /\ runs = NoProc /\ pstate' = Woken_up(pstate, "tty")
  BY DEF Typed
<1>3. /\ pstate' \in [Procs -> States] /\ (\A u \in Procs : Same(u)) /\ FirstRuns("tty")'
  BY <1>1, <1>2, Woken DEF Same, FirstRuns
<1>4. QTypes' /\ EndsCounted'
  BY <1>1, <1>2, <1>3 DEF QTypes, EndsCounted, Ends_open
<1>5. Stays(t)
  BY <1>2, <1>3 DEF Stays
<1>6. CallFits(t)'
  BY <1>1, <1>2, <1>3 DEF CallFits, Same, QueueOf
<1>7. \A q \in Queues, u \in Procs : Due(u, q)' => Due(u, q) \/ q = "tty"
  BY <1>2 DEF Due, ReadyIn, PIPE_EMPTY, PIPE_SIZE, Places, PIPE_PAGE, QueueOf
<1>8. \A q \in Queues : Wakes(t, q)' <=> Wakes(t, q)
  BY <1>2 DEF Wakes
<1> QED BY <1>3, <1>4, <1>5, <1>6, <1>7, <1>8, StayStep

LEMMA ProcessSteps ==
  ASSUME QInv, Types', NEW t \in Procs, NEW u \in Procs, Fork_child(t, u) \/ Dies(u)
  PROVE  QInv'
<1>1. QTypes /\ EndsCounted /\ CallFits(u)
  BY DEF QInv
<1>2. /\ UNCHANGED <<pipe, line, first, entry, todo, runs, pipes>> /\ runs = NoProc
      /\ todo[u].op = "user"
  BY <1>1 DEF Fork_child, Dies, AtUser, CallFits
<1>3. /\ pstate' \in [Procs -> States] /\ ends' \in [Procs -> SUBSET {"r", "w"}]
      /\ \A w \in Procs \ {u} : ends'[w] = ends[w] /\ Same(w)
  BY <1>1, <1>2 DEF Fork_child, Dies, QTypes, States, Same
<1>4. \A e : Ends_open(e)' <=> Ends_open(e)
  <2>1. CASE Fork_child(t, u)
    <3>1. ends' = [ends EXCEPT ![u] = ends[t]] /\ ends[u] = {}
      BY <1>1, <2>1 DEF Fork_child, CallFits
    <3>2. t # u => ends'[t] = ends[t]
      BY <1>1, <3>1 DEF QTypes
    <3> QED BY <1>1, <3>1, <3>2 DEF QTypes, Ends_open
  <2>2. CASE Dies(u)
    BY <2>2 DEF Dies, Ends_open
  <2> QED BY <2>1, <2>2
<1>5. QTypes' /\ EndsCounted'
  BY <1>1, <1>2, <1>3, <1>4 DEF QTypes, EndsCounted, One
<1>6. Stays(u)
  BY <1>2, <1>3 DEF Stays
<1>7. StaysOut(u)
  BY <1>2 DEF StaysOut, Idle, Member, LetsPass
<1>8. CallFits(u)'
  <2>1. todo[u].at = "user"
    BY <1>1, <1>2 DEF CallFits
  <2>2. runs' # u
    BY <1>2, PipeAssumption
  <2>3. pstate'[u] = "none" => ends'[u] = {}
    BY <1>1 DEF Fork_child, Dies, QTypes
  <2> QED BY <1>2, <2>1, <2>2, <2>3 DEF CallFits
<1>9. \A q \in Queues, w \in Procs : Due(w, q)' <=> Due(w, q)
  BY <1>2, SameDue
<1>10. \A q \in Queues : ~Wakes(u, q)
  BY <1>2 DEF Wakes
<1> QED BY <1>5, <1>6, <1>7, <1>8, <1>9, <1>10, StayStep

(* A new pipe: nobody can be in a call on the old one.                     *)
LEMMA SysPipeMoves ==
  ASSUME QInv, Types', NEW t \in Procs, sys_pipe(t)
  PROVE  QInv'
<1>1. QTypes /\ EndsCounted /\ \A u \in Procs : CallFits(u)
  BY DEF QInv
<1>2. /\ UNCHANGED <<line, first, entry, pstate, todo, runs, pipes>>
      /\ runs = NoProc /\ pipe.count = 0 /\ pipe' = [count |-> 2, head |-> 0, tail |-> 0]
      /\ ends' = [ends EXCEPT ![t] = {"r", "w"}] /\ todo[t].op = "user" /\ pstate[t] = "run"
  BY DEF sys_pipe, AtUser, queues
<1>3. /\ ends' \in [Procs -> SUBSET {"r", "w"}]
      /\ (\A u \in Procs : Same(u)) /\ \A u \in Procs \ {t} : ends'[u] = ends[u]
  BY <1>1, <1>2 DEF QTypes, Same
<1>4. ~Ends_open("r") /\ ~Ends_open("w")
  BY <1>1, <1>2 DEF EndsCounted, One
<1>5. EndsCounted'
  <2>1. "r" \in ends'[t] /\ "w" \in ends'[t] /\ pipe'.count = 2
    BY <1>1, <1>2 DEF QTypes
  <2> QED BY <2>1 DEF EndsCounted, One, Ends_open
<1>6. QTypes'
  BY <1>1, <1>2, <1>3 DEF QTypes
<1>7. Stays(t)
  BY <1>2, <1>3 DEF Stays
<1>8. CallFits(t)'
  <2>1. todo[t].at = "user" /\ runs # t
    BY <1>1, <1>2, PipeAssumption DEF CallFits
  <2> QED BY <1>2, <2>1 DEF CallFits
<1>9. \A q \in Queues, u \in Procs : Due(u, q)' => Due(u, q)
  <2> SUFFICES ASSUME NEW q \in Queues, NEW u \in Procs, Due(u, q)' PROVE Due(u, q)
    OBVIOUS
  <2>1. PIPE_EMPTY' /\ pipe'.count = 2 /\ todo'[u] = todo[u] /\ line' = line
    BY <1>2 DEF PIPE_EMPTY
  <2>2. todo[u].op # "write"
    BY <1>1, <1>4 DEF CallFits, Ends_open
  <2>3. todo[u].op = "select" /\ \E x \in todo[u].in \cap ReadyIn' : QueueOf(x)' = q
    BY <2>1, <2>2 DEF Due
  <2>4. ReadyIn' \subseteq ReadyIn
    BY <2>1 DEF ReadyIn
  <2> QED BY <2>3, <2>4 DEF Due, QueueOf
<1>10. \A q \in Queues : Wakes(t, q)' <=> Wakes(t, q)
  BY <1>2 DEF Wakes
<1> QED BY <1>3, <1>5, <1>6, <1>7, <1>8, <1>9, <1>10, StayStep

(* The last use of an end wakes both queues.                               *)
LEMMA CloseMoves ==
  ASSUME QInv, Types', NEW t \in Procs, sys_close(t)
  PROVE  QInv'
<1>1. /\ QTypes /\ EndsCounted /\ (\A u \in Procs : CallFits(u)) /\ pstate \in [Procs -> States]
      /\ {"i_wait", "i_wait2"} \subseteq Queues
  BY DEF QInv, QTypes, Queues
<1>2. PICK e \in ends[t] :
        /\ ends' = [ends EXCEPT ![t] = @ \ {e}]
        /\ IF LastUse(t, e) THEN pipe' = [pipe EXCEPT !.count = @ - 1] /\ pstate' = BothWoken(pstate)
           ELSE UNCHANGED <<pipe, pstate>>
  BY DEF sys_close
<1>3. /\ UNCHANGED <<line, first, entry, todo, runs, pipes>>
      /\ runs = NoProc /\ todo[t].op = "user" /\ pstate[t] = "run"
  BY DEF sys_close, AtUser
<1>4. /\ ends[t] \subseteq {"r", "w"} /\ ends' \in [Procs -> SUBSET {"r", "w"}]
      /\ ends'[t] = ends[t] \ {e} /\ \A u \in Procs \ {t} : ends'[u] = ends[u]
  BY <1>1, <1>2 DEF QTypes
<1>5. pstate' \in [Procs -> States] /\ \A u \in Procs : Same(u)
  <2>1. /\ BothWoken(pstate) \in [Procs -> States]
        /\ \A u \in Procs : BothWoken(pstate)[u] \in {pstate[u], "run"}
    BY <1>1, Woken DEF BothWoken
  <2> QED BY <1>1, <1>2, <1>3, <2>1 DEF Same
<1>6. EndsCounted' /\ (~LastUse(t, e) => pipe' = pipe)
  <2>1. \A d \in {"r", "w"} \ {e} : Ends_open(d)' <=> Ends_open(d)
    BY <1>4 DEF Ends_open
  <2>2. CASE LastUse(t, e)
    <3>1. Ends_open(e) /\ ~Ends_open(e)'
      BY <1>2, <1>4, <2>2 DEF LastUse, Ends_open
    <3>2. pipe'.count = pipe.count - 1
      BY <1>1, <1>2, <2>2 DEF QTypes, Types
    <3> QED BY <1>1, <1>4, <2>1, <2>2, <3>1, <3>2 DEF EndsCounted, One
  <2>3. CASE ~LastUse(t, e)
    <3>1. Ends_open(e) /\ Ends_open(e)'
      BY <1>2, <1>4, <2>3 DEF LastUse, Ends_open
    <3>2. pipe' = pipe
      BY <1>2, <2>3
    <3> QED BY <1>1, <1>4, <2>1, <3>1, <3>2 DEF EndsCounted, One
  <2> QED BY <2>2, <2>3
<1>7. QTypes'
  BY <1>1, <1>3, <1>4, <1>5 DEF QTypes
<1>8. Stays(t)
  BY <1>3, <1>4, <1>5 DEF Stays
<1>9. CallFits(t)'
  <2>1. todo[t].at = "user" /\ runs # t /\ pstate'[t] = "run"
    BY <1>1, <1>3, <1>5, PipeAssumption DEF CallFits, Same
  <2> QED BY <1>3, <2>1 DEF CallFits
<1>10. ASSUME NEW q \in Queues, NEW u \in Procs, Member(u, q), Due(u, q)'
       PROVE  Due(u, q) \/ FirstRuns(q)'
  <2>1. CASE ~LastUse(t, e)
    BY <1>3, <1>6, <1>10, <2>1, SameDue
  <2>2. CASE LastUse(t, e) /\ q \in {"i_wait", "i_wait2"}
    <3> DEFINE S == Woken_up(pstate, "i_wait")
    <3>1. S \in [Procs -> States] /\ (first["i_wait"] = NoProc \/ S[first["i_wait"]] = "run")
      BY <1>1, Woken
    <3>2. pstate' = Woken_up(S, "i_wait2")
      BY <1>2, <2>2 DEF BothWoken
    <3> HIDE DEF S
    <3>3. /\ first["i_wait2"] = NoProc \/ pstate'[first["i_wait2"]] = "run"
          /\ \A w \in Procs : pstate'[w] \in {S[w], "run"}
      BY <1>1, <3>1, <3>2, Woken
    <3>4. first["i_wait"] \in Pointers
      BY <1>1 DEF QTypes
    <3> QED BY <1>3, <2>2, <3>1, <3>3, <3>4 DEF FirstRuns, Pointers
  <2>3. CASE q = "tty"
    <3>1. todo[u].op = "select" /\ todo'[u] = todo[u]
      BY <1>1, <1>3, <1>10, <2>3 DEF Member, CallFits
    <3>2. \E x \in todo[u].in \cap ReadyIn' : QueueOf(x)' = q
      BY <1>10, <3>1 DEF Due
    <3>3. ReadyIn' = ReadyIn
      <4>1. pipe'.head = pipe.head /\ pipe'.tail = pipe.tail
        BY <1>1, <1>2 DEF QTypes, Types
      <4> QED BY <1>3, <4>1 DEF ReadyIn, PIPE_EMPTY
    <3> QED BY <3>1, <3>2, <3>3 DEF Due, QueueOf
  <2> QED BY <2>1, <2>2, <2>3 DEF Queues
<1>11. \A q \in Queues : Wakes(t, q)' <=> Wakes(t, q)
  BY <1>3 DEF Wakes
<1> QED BY <1>5, <1>6, <1>7, <1>8, <1>9, <1>10, <1>11, StayStep

-----------------------------------------------------------------------------
(* Reading, writing and looking: t is in no queue, before or after.        *)
LEMMA StartSteps ==
  ASSUME QInv, Types', NEW t \in Procs, Transfer(t) \/ sys_select(t)
  PROVE  QInv'
<1>1. QTypes /\ EndsCounted /\ CallFits(t)
  BY DEF QInv
<1>2. /\ UNCHANGED <<ends, pipe, line, first, entry, pstate, pipes>>
      /\ runs = NoProc /\ runs' = t /\ todo[t].op = "user" /\ pstate[t] = "run"
  BY DEF Transfer, sys_select, AtUser, queues
<1>3. PICK c : /\ Goes_on(t, c)
               /\ \/ c.op \in {"read", "write"} /\ c.at = "loop" /\ (c.op = "write" => "w" \in ends[t])
                  \/ c.op = "select" /\ c.at = "look" /\ c.table = {}
  <2>1. CASE Transfer(t)
    <3>1. PICK op \in {"read", "write"}, n \in pipes.counts :
            /\ (IF op = "read" THEN "r" ELSE "w") \in ends[t]
            /\ Goes_on(t, [User EXCEPT !.op = op, !.at = "loop", !.left = n])
      BY <2>1 DEF Transfer
    <3> DEFINE c == [User EXCEPT !.op = op, !.at = "loop", !.left = n]
    <3>2. c.op = op /\ c.at = "loop"
      BY DEF User
    <3> HIDE DEF c
    <3>3. Goes_on(t, c)
      BY <3>1 DEF c
    <3> QED BY <3>1, <3>2, <3>3
  <2>2. CASE sys_select(t)
    <3>1. PICK in \in pipes.inputs, out \in pipes.outputs :
            Goes_on(t, [User EXCEPT !.op = "select", !.at = "look", !.in = in, !.out = out])
      BY <2>2 DEF sys_select
    <3> DEFINE c == [User EXCEPT !.op = "select", !.at = "look", !.in = in, !.out = out]
    <3>2. c.op = "select" /\ c.at = "look" /\ c.table = {}
      BY DEF User
    <3> HIDE DEF c
    <3>3. Goes_on(t, c)
      BY <3>1 DEF c
    <3> QED BY <3>2, <3>3
  <2> QED BY <2>1, <2>2
<1>4. todo'[t] = c /\ \A u \in Procs \ {t} : todo'[u] = todo[u]
  BY <1>1, <1>3, Went
<1>5. QTypes' /\ EndsCounted'
  BY <1>1, <1>2 DEF QTypes, EndsCounted, Ends_open, Pointers
<1>6. Stays(t)
  BY <1>2, <1>4 DEF Stays, Same
<1>7. StaysOut(t)
  BY <1>2, <1>3, <1>4 DEF StaysOut, Idle, Member, LetsPass, Queues
<1>8. CallFits(t)'
  BY <1>2, <1>3, <1>4 DEF CallFits
<1>9. \A q \in Queues, u \in Procs : Same(u) => (Due(u, q)' <=> Due(u, q))
  BY <1>2, SameDue DEF Same
<1>10. \A q \in Queues : ~Wakes(t, q)
  BY <1>2 DEF Wakes
<1> QED BY <1>5, <1>6, <1>7, <1>8, <1>9, <1>10, StayStep

LEMMA CopySteps ==
  ASSUME QInv, Types', NEW t \in Procs, CopyBytes(t) \/ PageFault(t)
  PROVE  QInv'
<1>1. QTypes /\ EndsCounted /\ CallFits(t)
  BY DEF QInv
<1>2. /\ UNCHANGED <<ends, pipe, line, first, entry, pipes>>
      /\ runs \in {t, NoProc} /\ runs' \in {t, NoProc} /\ todo[t].at \in {"copy", "fault"}
      /\ todo[t] \in Call
  BY <1>1 DEF CopyBytes, PageFault, QTypes, Types
<1>3. todo[t].op \in {"read", "write"}
  BY <1>1, <1>2 DEF CallFits, Call
<1>4. PICK st \in {"run", "unint"} : pstate' = [pstate EXCEPT ![t] = st]
  BY DEF CopyBytes, PageFault
<1>5. PICK c : /\ Goes_on(t, c) /\ c.op = todo[t].op /\ c.at \in {"loop", "fault"}
               /\ c.at = "loop" <=> runs' = t
               /\ runs' = t => st = "run"
  <2>1. CASE CopyBytes(t)
    <3>1. /\ Goes_on(t, [todo[t] EXCEPT !.at = "loop", !.from = 0, !.n = 0, !.byte = 0])
          /\ runs' = t /\ pstate' = [pstate EXCEPT ![t] = "run"]
      BY <2>1 DEF CopyBytes
    <3>2. st = "run"
      BY <1>1, <1>4, <3>1 DEF QTypes
    <3> QED BY <1>2, <3>1, <3>2 DEF Call
  <2>2. CASE PageFault(t)
    <3>1. Goes_on(t, [todo[t] EXCEPT !.at = "fault"]) /\ runs' = NoProc /\ NoProc # t
      BY <2>2, PipeAssumption DEF PageFault
    <3> QED BY <1>2, <3>1 DEF Call
  <2> QED BY <2>1, <2>2
<1>6. todo'[t] = c /\ \A u \in Procs \ {t} : todo'[u] = todo[u]
  BY <1>1, <1>5, Went
<1>7. /\ pstate' \in [Procs -> States] /\ pstate'[t] = st
      /\ \A u \in Procs \ {t} : pstate'[u] = pstate[u]
  BY <1>1, <1>4 DEF QTypes, States
<1>8. QTypes' /\ EndsCounted'
  BY <1>1, <1>2, <1>7 DEF QTypes, EndsCounted, Ends_open, Pointers
<1>9. Stays(t)
  BY <1>2, <1>6, <1>7 DEF Stays, Same
<1>10. StaysOut(t)
  BY <1>2, <1>3, <1>5, <1>6 DEF StaysOut, Idle, Member, LetsPass, Queues
<1>11. CallFits(t)'
  BY <1>1, <1>2, <1>3, <1>5, <1>6, <1>7 DEF CallFits
<1>12. \A q \in Queues, u \in Procs : Same(u) => (Due(u, q)' <=> Due(u, q))
  BY <1>2, SameDue DEF Same
<1>13. \A q \in Queues : Wakes(t, q) => Wakes(t, q)'
  BY <1>5, <1>6 DEF Wakes
<1> QED BY <1>8, <1>9, <1>10, <1>11, <1>12, <1>13, StayStep

(* What a position that moves makes due, it is t itself that will wake.    *)
LEMMA MoveSteps ==
  ASSUME QInv, Types', NEW t \in Procs, ReadSome(t) \/ WriteSome(t)
  PROVE  QInv'
<1>1. QTypes /\ EndsCounted /\ (\A u \in Procs : CallFits(u)) /\ Types /\ pipes \in PipeSetups
  BY DEF QInv, QTypes
<1>2. /\ UNCHANGED <<ends, line, first, entry, pstate, runs, pipes>> /\ runs = t
      /\ todo[t].at = "loop" /\ todo[t].op \in {"read", "write"} /\ todo[t].left > 0
      /\ ReadSome(t) => todo[t].op = "read"
      /\ WriteSome(t) => todo[t].op = "write"
  BY DEF ReadSome, WriteSome, InCall, queues
<1>3. /\ todo'[t].at = "copy" /\ todo'[t].op = todo[t].op
      /\ \A u \in Procs \ {t} : todo'[u] = todo[u]
  <2>1. \E c : Goes_on(t, c)
    BY DEF ReadSome, WriteSome
  <2> QED BY <1>1, <2>1, MovesTyped, Went
<1>4. pipe'.count = pipe.count
  BY <1>1 DEF ReadSome, WriteSome, Types
<1>5. QTypes' /\ EndsCounted'
  BY <1>1, <1>2, <1>4 DEF QTypes, EndsCounted, Ends_open
<1>6. Stays(t)
  BY <1>2, <1>3 DEF Stays, Same
<1>7. StaysOut(t)
  BY <1>2, <1>3 DEF StaysOut, Idle, Member, LetsPass, Queues
<1>8. CallFits(t)'
  BY <1>1, <1>2, <1>3 DEF CallFits
<1>9. \A q \in Queues : Wakes(t, q) => Wakes(t, q)'
  BY <1>3 DEF Wakes
<1>10. ASSUME NEW q \in Queues, NEW u \in Procs, Same(u), Member(u, q), Due(u, q)'
       PROVE  Due(u, q) \/ Waker(q)'
  <2>1. todo'[u] = todo[u] /\ CallFits(u) /\ todo[u] \in Call
    BY <1>1, <1>10 DEF Same, Types
  <2>2. /\ todo[u].op = "read" => q = "i_wait"
        /\ todo[u].op = "write" => q = "i_wait2"
        /\ todo[u].op = "select" => q \in {"i_wait", "tty"}
    BY <1>10, <2>1 DEF Member, CallFits, Queues
  <2>3. CASE q = IF todo[t].op = "read" THEN "i_wait2" ELSE "i_wait"
    BY <1>2, <1>3, <2>3 DEF Waker, Wakes
  <2>4. CASE q = "tty"
    <3>1. todo[u].op = "select" /\ \E x \in todo[u].in \cap ReadyIn' : QueueOf(x)' = "tty"
      BY <1>10, <2>1, <2>2, <2>4 DEF Due
    <3>2. \A x \in ReadyIn' : QueueOf(x)' = "tty" => x \in ReadyIn /\ QueueOf(x) = "tty"
      BY <1>2 DEF ReadyIn, QueueOf
    <3> QED BY <2>4, <3>1, <3>2 DEF Due
  <2>5. CASE q = "i_wait" /\ todo[t].op = "read"
    <3>1. ~PIPE_EMPTY
      <4>1. PIPE_SIZE > 0
        BY <1>2, <2>5 DEF ReadSome, WriteSome, InCall
      <4>2. pipe.head \in Nat /\ pipe.tail \in Nat /\ PIPE_PAGE \in Nat \ {0, 1}
        BY <1>1, Sizes
      <4>3. PIPE_EMPTY => PIPE_SIZE = 0
        BY <4>2 DEF PIPE_EMPTY, PIPE_SIZE
      <4> QED BY <4>1, <4>3
    <3>2. CASE todo[u].op = "read"
      BY <3>1, <3>2 DEF Due
    <3>3. CASE todo[u].op = "select"
      <4>1. PICK x \in todo[u].in \cap ReadyIn' : QueueOf(x)' = "i_wait"
        BY <1>10, <2>1, <2>5, <3>3 DEF Due
      <4>2. x = "pipe" /\ QueueOf(x) = "i_wait" /\ x \in ReadyIn
        BY <3>1, <4>1 DEF ReadyIn, QueueOf
      <4> QED BY <2>5, <3>3, <4>1, <4>2 DEF Due
    <3> QED BY <1>10, <2>2, <2>5, <3>2, <3>3 DEF Member
  <2>6. CASE q = "i_wait2" /\ todo[t].op = "write"
    <3>1. PIPE_SIZE # Places
      <4>1. Room > 0
        BY <1>2, <2>6 DEF ReadSome, WriteSome, InCall
      <4>2. PIPE_SIZE \in Int /\ PIPE_PAGE \in Int
        BY <1>1, Sizes
      <4> QED BY <4>1, <4>2 DEF Room, Places
    <3> QED BY <1>10, <2>2, <2>6, <3>1 DEF Due, Member
  <2> QED BY <1>2, <2>3, <2>4, <2>5, <2>6 DEF Queues
<1> QED BY <1>5, <1>6, <1>7, <1>8, <1>9, <1>10, StayStep

-----------------------------------------------------------------------------
(* t stops reading or writing: it wakes the others first.                  *)
Others(t) == IF todo[t].op = "read" THEN "i_wait2" ELSE "i_wait"
Own(t) == IF todo[t].op = "read" THEN "i_wait" ELSE "i_wait2"
AtLoop(t) == runs = t /\ todo[t].at = "loop" /\ todo[t].op \in {"read", "write"}

LEMMA EndStep ==
  ASSUME QInv, Types', NEW t \in Procs, AtLoop(t), Ends(t), pstate' = Woken_up(pstate, Others(t)),
         UNCHANGED <<ends, pipe, line, first, entry, pipes>>
  PROVE  QInv'
<1>1. /\ QTypes /\ EndsCounted /\ CallFits(t) /\ pstate \in [Procs -> States] /\ Others(t) \in Queues
      /\ NoProc \notin Procs
  BY PipeAssumption DEF QInv, QTypes, Others, Queues
<1>2. runs = t /\ runs' = NoProc /\ Goes_on(t, User)
  BY DEF AtLoop, Ends
<1>3. todo'[t] = User /\ \A u \in Procs \ {t} : todo'[u] = todo[u]
  BY <1>1, <1>2, Went
<1>4. /\ pstate' \in [Procs -> States] /\ (\A u \in Procs : pstate'[u] \in {pstate[u], "run"})
      /\ first[Others(t)] = NoProc \/ pstate'[first[Others(t)]] = "run"
  BY <1>1, Woken
<1>5. QTypes' /\ EndsCounted'
  BY <1>1, <1>2, <1>4 DEF QTypes, EndsCounted, Ends_open, Pointers
<1>6. Stays(t)
  BY <1>2, <1>3, <1>4 DEF Stays, Same
<1>7. StaysOut(t)
  BY <1>3 DEF AtLoop, StaysOut, Idle, Member, LetsPass, Queues, User
<1>8. CallFits(t)'
  <2>1. pstate'[t] = "run" /\ runs' # t /\ ends'[t] = ends[t]
    BY <1>1, <1>2, <1>4 DEF CallFits
  <2> QED BY <1>3, <2>1 DEF CallFits, User
<1>9. \A q \in Queues, u \in Procs : Same(u) => (Due(u, q)' <=> Due(u, q))
  BY SameDue DEF Same
<1>10. ASSUME NEW q \in Queues, Wakes(t, q) PROVE FirstRuns(q)'
  <2>1. q = Others(t)
    BY <1>10 DEF Wakes, Others, Queues
  <2> QED BY <1>4, <2>1 DEF FirstRuns
<1> QED BY <1>5, <1>6, <1>7, <1>8, <1>9, <1>10, StayStep

LEMMA SleepStep ==
  ASSUME QInv, Types', NEW t \in Procs, AtLoop(t), NEW st \in {"int", "unint"},
         Sleeps(t, Own(t), Woken_up(pstate, Others(t)), st), pipe.count = 2,
         IF todo[t].op = "read" THEN PIPE_SIZE = 0 ELSE Room = 0,
         UNCHANGED <<ends, pipe, line, pipes>>
  PROVE  QInv'
<1>q. PICK q : q = Own(t)
  OBVIOUS
<1> DEFINE S == Woken_up(pstate, Others(t))
           c == [todo[t] EXCEPT !.at = q]
<1>1. /\ QTypes /\ EndsCounted /\ CallFits(t) /\ pstate \in [Procs -> States] /\ NoProc \notin Procs
      /\ Others(t) \in Queues /\ q \in Queues /\ q # Others(t) /\ todo[t] \in Call
  BY <1>q, PipeAssumption DEF QInv, QTypes, Types, Others, Own, Queues
<1>2. runs = t /\ runs' = NoProc /\ Goes_on(t, c) /\ todo[t].at = "loop"
  BY <1>q DEF AtLoop, Sleeps
<1>3. c.at = q /\ c.op = todo[t].op
  BY <1>1 DEF Call
<1>4. /\ S \in [Procs -> States] /\ (\A u \in Procs : S[u] \in {pstate[u], "run"})
      /\ first[Others(t)] = NoProc \/ S[first[Others(t)]] = "run"
  BY <1>1, Woken
<1> HIDE DEF c, S
<1>5. todo'[t] = c /\ \A u \in Procs \ {t} : todo'[u] = todo[u]
  BY <1>1, <1>2, Went
<1>6. /\ first' \in [Queues -> Pointers] /\ entry' \in [Procs -> [Queues -> Pointers]]
      /\ pstate' \in [Procs -> States]
      /\ first' = [p \in Queues |-> IF p \in {q} THEN t ELSE first[p]]
      /\ \A u \in Procs \ {t} : entry'[u] = entry[u]
      /\ entry'[t][q] = first[q]
      /\ pstate'[t] = st /\ \A u \in Procs \ {t} : pstate'[u] = S[u]
  <2>1. Sleeps(t, q, S, st)
    BY <1>q DEF S
  <2> QED BY <1>1, <1>4, <2>1, SleepsTyped
<1>7. QTypes' /\ EndsCounted'
  BY <1>1, <1>2, <1>6 DEF QTypes, EndsCounted, Ends_open, Pointers
<1>8. \A u \in Procs \ {t} : entry'[u] = entry[u] /\ ends'[u] = ends[u] /\ Same(u)
  BY <1>4, <1>5, <1>6 DEF Same
<1>9. Idle(t) /\ ~LetsPass(t)'
  BY <1>3, <1>5 DEF AtLoop, Idle, Member, Queues, LetsPass
<1>10. \A p \in Queues : Member(t, p)' <=> p \in {q}
  BY <1>3, <1>5 DEF AtLoop, Member
<1>11. CallFits(t)'
  <2>1. CASE todo[t].op = "read"
    BY <1>1, <1>2, <1>3, <1>5, <1>6, <2>1, <1>q DEF CallFits, Own, AtLoop
  <2>2. CASE todo[t].op = "write"
    BY <1>1, <1>2, <1>3, <1>5, <1>6, <2>2, <1>q DEF CallFits, Own, AtLoop
  <2> QED BY <2>1, <2>2 DEF AtLoop
<1>12. ~Due(t, q)'
  <2>1. /\ pipe' = pipe /\ todo'[t].op = todo[t].op /\ todo[t].op \in {"read", "write"}
        /\ PIPE_SIZE' = PIPE_SIZE /\ Places' = Places
    BY <1>3, <1>5 DEF AtLoop, PIPE_SIZE, Places, PIPE_PAGE
  <2>2. PIPE_SIZE = 0 => PIPE_EMPTY
    <3>1. /\ pipe.head \in 0..(PIPE_PAGE - 1) /\ pipe.tail \in 0..(PIPE_PAGE - 1)
          /\ PIPE_PAGE \in Nat \ {0, 1} /\ PIPE_SIZE = Held
      BY <1>1, Sizes DEF QTypes
    <3> QED BY <3>1 DEF PIPE_EMPTY, Held, Place, Round
  <2>3. Room = 0 => PIPE_SIZE = Places
    <3>1. PIPE_SIZE \in Int /\ Places \in Int
      BY <1>1, Sizes DEF QTypes, Places
    <3> QED BY <3>1 DEF Room
  <2> QED BY <2>1, <2>2, <2>3 DEF Due, PIPE_EMPTY
<1>13. ASSUME NEW p \in Queues, Wakes(t, p) PROVE p \notin {q} /\ FirstRuns(p)'
  <2>1. p = Others(t)
    BY <1>13 DEF Wakes, Others, Queues
  <2>2. first'[p] = first[p] /\ first[p] \in Pointers /\ p # q
    BY <1>1, <1>6, <2>1 DEF QTypes
  <2>3. first[p] # t
    <3>1. first[p] = t => Member(t, p)
      BY <1>1 DEF QInv, Moving, Queued, Chain
    <3> QED BY <1>9, <3>1 DEF Idle
  <2> QED BY <1>4, <1>6, <2>1, <2>2, <2>3 DEF FirstRuns, Pointers
<1> QED BY <1>1, <1>2, <1>6, <1>7, <1>8, <1>9, <1>10, <1>11, <1>12, <1>13, EnterStep

LEMMA TransferEndSteps ==
  ASSUME QInv, Types', NEW t \in Procs, ReadEmpty(t) \/ WriteFull(t) \/ TransferEnds(t)
  PROVE  QInv'
<1>1. AtLoop(t) /\ UNCHANGED <<ends, pipe, line, pipes>>
  <2>1. CASE ReadEmpty(t) \/ WriteFull(t)
    BY <2>1 DEF ReadEmpty, WriteFull, InCall, AtLoop
  <2>2. CASE TransferEnds(t)
    <3>1. CallFits(t) /\ todo[t] \in Call
      BY DEF QInv, QTypes, Types
    <3> QED BY <2>2, <3>1 DEF TransferEnds, AtLoop, CallFits, Call
  <2> QED BY <2>1, <2>2
<1>2. CASE Ends(t) /\ pstate' = Woken_up(pstate, Others(t)) /\ UNCHANGED <<first, entry>>
  BY <1>1, <1>2, EndStep
<1>3. CASE /\ \E st \in {"int", "unint"} : Sleeps(t, Own(t), Woken_up(pstate, Others(t)), st)
           /\ pipe.count = 2 /\ IF todo[t].op = "read" THEN PIPE_SIZE = 0 ELSE Room = 0
  BY <1>1, <1>3, SleepStep
<1>4. CASE ReadEmpty(t)
  BY <1>2, <1>3, <1>4 DEF ReadEmpty, InCall, Others, Own
<1>5. CASE WriteFull(t)
  BY <1>2, <1>3, <1>5 DEF WriteFull, InCall, Others, Own
<1>6. CASE TransferEnds(t)
  BY <1>2, <1>6 DEF TransferEnds, Others
<1> QED BY <1>4, <1>5, <1>6

-----------------------------------------------------------------------------
(* Out of a queue, or on in it.                                            *)
LEMMA LeaveStep ==
  ASSUME QInv, Types', NEW t \in Procs, NEW q \in Queues, Member(t, q), pstate[t] = "run",
         runs \in {t, NoProc}, runs' = t, first[q] \in {NoProc, t}, LeavesQueue(t, q),
         NEW c, Goes_on(t, c), c.op = todo[t].op, c.in = todo[t].in,
         IF c.op = "select" THEN c.at = "free" /\ c.table = todo[t].table \ {q} ELSE c.at = "loop",
         UNCHANGED <<ends, pipe, line, pipes>>
  PROVE  QInv'
<1>1. QTypes /\ EndsCounted /\ CallFits(t) /\ Moving
  BY DEF QInv
<1>2. todo'[t] = c /\ \A u \in Procs \ {t} : todo'[u] = todo[u]
  BY <1>1, Went
<1>3. /\ first' \in [Queues -> Pointers] /\ entry' \in [Procs -> [Queues -> Pointers]]
      /\ pstate' \in [Procs -> States]
  BY <1>1, LeavesTyped
<1>4. \A u \in Procs : pstate'[u] \in {pstate[u], "run"}
  BY <1>1 DEF LeavesQueue, Unqueued, QTypes
<1>5. QTypes' /\ EndsCounted'
  BY <1>1, <1>3 DEF QTypes, EndsCounted, Ends_open, Pointers
<1>6. \A p \in Queues : ~Wakes(t, p)
  BY DEF Member, Wakes, Queues
<1>7. \A p \in Queues : Waker(p) => Waker(p)'
  <2> SUFFICES ASSUME NEW p \in Queues, NEW u \in Procs, Wakes(u, p) PROVE Wakes(u, p)'
    BY DEF Waker
  <2>1. u # t
    BY <1>6
  <2> QED BY <1>2, <2>1 DEF Wakes
<1>8. \A p \in Queues : Member(t, p)' <=> Member(t, p) /\ p # q
  <2>1. \A p \in Queues : p # "loop"
    BY DEF Queues
  <2> QED BY <1>2, <2>1 DEF Member
<1>9. \A p \in Queues : Member(t, p)' /\ Due(t, p)' => Due(t, p)
  <2> SUFFICES ASSUME NEW p \in Queues, Member(t, p)', Due(t, p)' PROVE Due(t, p)
    OBVIOUS
  <2>1. c.op = "select"
    <3>1. \A r \in Queues : r # "loop"
      BY DEF Queues
    <3> QED BY <1>2, <3>1 DEF Member
  <2>2. c.in = todo[t].in
    OBVIOUS
  <2> QED BY <1>2, <2>1, <2>2 DEF Due, ReadyIn, PIPE_EMPTY, QueueOf
<1>10. Moving'
  BY <1>1, <1>2, <1>7, <1>8, <1>9, LeavesKeeps
<1>11. CallFits(t)'
  <2>1. pstate'[t] = "run" /\ ends'[t] = ends[t]
    BY <1>4
  <2>2. c.op \in {"read", "write", "select"}
    BY DEF Member
  <2> QED BY <1>1, <1>2, <2>1, <2>2 DEF CallFits
<1>12. \A u \in Procs \ {t} : CallFits(u)'
  BY <1>2, <1>4, OthersFit
<1> QED BY <1>5, <1>10, <1>11, <1>12 DEF QInv

LEMMA HandOnStep ==
  ASSUME QInv, Types', NEW t \in Procs, NEW q \in Queues, Member(t, q), first[q] \notin {NoProc, t},
         runs \in {t, NoProc}, runs' = NoProc,
         pstate' = [Woken_up(pstate, q) EXCEPT ![t] = "unint"],
         UNCHANGED <<first, entry, todo, ends, pipe, line, pipes>>
  PROVE  QInv'
<1>1. QTypes /\ EndsCounted /\ CallFits(t) /\ Moving /\ pstate \in [Procs -> States]
  BY DEF QInv, QTypes
<1>2. /\ Woken_up(pstate, q) \in [Procs -> States]
      /\ \A u \in Procs : Woken_up(pstate, q)[u] \in {pstate[u], "run"}
  BY <1>1, Woken
<1>3. /\ pstate' \in [Procs -> States] /\ pstate'[t] = "unint"
      /\ \A u \in Procs \ {t} : pstate'[u] \in {pstate[u], "run"}
  <2> DEFINE S == Woken_up(pstate, q)
  <2> HIDE DEF S
  <2>1. S \in [Procs -> States] /\ \A u \in Procs : S[u] \in {pstate[u], "run"}
    BY <1>2 DEF S
  <2>2. pstate' = [S EXCEPT ![t] = "unint"]
    BY DEF S
  <2> QED BY <2>1, <2>2 DEF States
<1>4. QTypes' /\ EndsCounted'
  BY <1>1, <1>3 DEF QTypes, EndsCounted, Ends_open, Pointers
<1>5. Moving'
  BY <1>1, HandsOnKeeps
<1>6. CallFits(t)'
  <2>1. todo[t].op \in {"read", "write", "select"} /\ todo[t].at \notin {"loop", "copy", "look"}
    BY DEF Member, Queues
  <2>2. runs' # t
    BY PipeAssumption
  <2> QED BY <1>1, <1>3, <2>1, <2>2 DEF CallFits
<1>7. \A u \in Procs \ {t} : CallFits(u)'
  BY <1>3, OthersFit
<1> QED BY <1>4, <1>5, <1>6, <1>7 DEF QInv

LEMMA ResumeSteps ==
  ASSUME QInv, Types', NEW t \in Procs, Resumes(t)
  PROVE  QInv'
<1> DEFINE c == [todo[t] EXCEPT !.at = "loop"]
<1>q. PICK q : q = todo[t].at
  OBVIOUS
<1>1. /\ q \in Queues /\ Member(t, q) /\ pstate[t] = "run" /\ runs = NoProc
      /\ todo[t].op \in {"read", "write"} /\ UNCHANGED <<ends, pipe, line, pipes>>
  BY <1>q DEF Resumes, Member
<1>2. c.op = todo[t].op /\ c.in = todo[t].in /\ c.at = "loop"
  <2>1. todo[t] \in Call
    BY DEF QInv, QTypes, Types
  <2> QED BY <2>1 DEF Call
<1>3. CASE first[q] \in {NoProc, t}
  <2>1. LeavesQueue(t, q) /\ runs' = t /\ Goes_on(t, c)
    BY <1>3, <1>q DEF Resumes
  <2> HIDE DEF c
  <2> QED BY <1>1, <1>2, <1>3, <2>1, LeaveStep
<1>4. CASE first[q] \notin {NoProc, t}
  <2>1. HandedOn(t, q)
    BY <1>4, <1>q DEF Resumes
  <2> QED BY <1>1, <1>4, <2>1, HandOnStep DEF HandedOn
<1> QED BY <1>3, <1>4

(* select looks, and enters the queues of what is not ready.               *)
LEMMA LookStep ==
  ASSUME QInv, Types', NEW t \in Procs, Look(t)
  PROVE  QInv'
<1> DEFINE in == todo[t].in  out == todo[t].out
           count == Cardinality(in \cap ReadyIn) + Cardinality(out \cap ReadyOut)
<1>1. /\ QTypes /\ EndsCounted /\ CallFits(t) /\ pstate \in [Procs -> States] /\ todo[t] \in Call
      /\ NoProc \notin Procs
  BY PipeAssumption DEF QInv, QTypes, Types
<1>2. PICK Q : Q = {QueueOf(x) : x \in (in \ ReadyIn) \cup (out \ ReadyOut)}
  OBVIOUS
<1>3. PICK waits \in BOOLEAN :
        /\ waits => count = 0
        /\ first' = [q \in Queues |-> IF q \in Q THEN t ELSE first[q]]
        /\ entry' = [entry EXCEPT ![t] = [q \in Queues |-> IF q \in Q THEN first[q] ELSE @[q]]]
        /\ pstate' = IF waits THEN [pstate EXCEPT ![t] = "int"] ELSE pstate
        /\ runs' = IF waits THEN NoProc ELSE t
        /\ Goes_on(t, [todo[t] EXCEPT !.at = "free", !.table = Q, !.again = waits])
  <2>1. (t \notin notice /\ (Q # {} \/ timer[t] # "off") /\ count = 0) \in BOOLEAN
    OBVIOUS
  <2> HIDE DEF count
  <2> QED BY <1>2, <2>1 DEF Look, count
<1>4. /\ runs = t /\ todo[t].op = "select" /\ todo[t].at = "look" /\ pstate[t] = "run"
      /\ UNCHANGED <<ends, pipe, line, pipes>>
  BY <1>1 DEF Look, InCall, CallFits
<1>5. Q \subseteq {"i_wait", "tty"} /\ Q \in SUBSET Queues
  BY <1>2 DEF QueueOf, Queues
<1>6. waits => in \cap ReadyIn = {} /\ out \cap ReadyOut = {}
  <2>1. IsFiniteSet(in \cap ReadyIn) /\ IsFiniteSet(out \cap ReadyOut)
    <3>1. IsFiniteSet({"pipe", "tty"})
      <4>1. IsFiniteSet({"tty"}) /\ {"pipe", "tty"} = {"tty"} \cup {"pipe"}
        BY FS_Singleton
      <4> QED BY <4>1, FS_AddElement
    <3>2. in \cap ReadyIn \subseteq {"pipe", "tty"} /\ out \cap ReadyOut \subseteq {"pipe", "tty"}
      BY DEF ReadyIn, ReadyOut
    <3> QED BY <3>1, <3>2, FS_Subset
  <2>2. /\ Cardinality(in \cap ReadyIn) \in Nat /\ Cardinality(out \cap ReadyOut) \in Nat
        /\ Cardinality(in \cap ReadyIn) = 0 <=> in \cap ReadyIn = {}
        /\ Cardinality(out \cap ReadyOut) = 0 <=> out \cap ReadyOut = {}
    BY <2>1, FS_CardinalityType, FS_EmptySet
  <2> QED BY <1>3, <2>2
<1> HIDE DEF count
<1> DEFINE c == [todo[t] EXCEPT !.at = "free", !.table = Q, !.again = waits]
<1>7. c.at = "free" /\ c.table = Q /\ c.op = "select" /\ c.in = in /\ c.out = out
  BY <1>1, <1>4 DEF Call
<1> HIDE DEF c
<1>8. todo'[t] = c /\ \A u \in Procs \ {t} : todo'[u] = todo[u]
  BY <1>1, <1>3, Went DEF c
<1>9. /\ pstate' \in [Procs -> States] /\ pstate'[t] = (IF waits THEN "int" ELSE "run")
      /\ \A u \in Procs \ {t} : pstate'[u] = pstate[u]
  BY <1>1, <1>3, <1>4 DEF States
<1>10. /\ first' \in [Queues -> Pointers] /\ entry' \in [Procs -> [Queues -> Pointers]]
       /\ \A u \in Procs \ {t} : entry'[u] = entry[u]
       /\ \A q \in Q : entry'[t][q] = first[q]
  <2> DEFINE e == [q \in Queues |-> IF q \in Q THEN first[q] ELSE entry[t][q]]
  <2>1. e \in [Queues -> Pointers] /\ \A q \in Q : e[q] = first[q]
    BY <1>1, <1>5 DEF QTypes
  <2>2. entry' = [entry EXCEPT ![t] = e]
    BY <1>3
  <2> HIDE DEF e
  <2>3. first' \in [Queues -> Pointers]
    BY <1>1, <1>3 DEF QTypes, Pointers
  <2> QED BY <1>1, <2>1, <2>2, <2>3 DEF QTypes
<1>11. runs' \in {t, NoProc} /\ (runs' = t => ~waits)
  BY <1>1, <1>3
<1>12. QTypes' /\ EndsCounted'
  BY <1>1, <1>4, <1>9, <1>10, <1>11 DEF QTypes, EndsCounted, Ends_open, Pointers
<1>13. \A u \in Procs \ {t} : ends'[u] = ends[u] /\ Same(u)
  BY <1>4, <1>8, <1>9 DEF Same
<1>14. Idle(t) /\ ~LetsPass(t)'
  BY <1>4, <1>8, <1>9 DEF Idle, Member, LetsPass
<1>15. \A q \in Queues : (Member(t, q)' <=> q \in Q) /\ ~Wakes(t, q)
  BY <1>4, <1>7, <1>8 DEF Member, Wakes
<1>16. CallFits(t)'
  <2>1. ASSUME pstate'[t] = "int" PROVE Q = {QueueOf(x) : x \in c.in \cup c.out}
    <3>1. waits
      BY <1>9, <2>1
    <3>2. (in \ ReadyIn) \cup (out \ ReadyOut) = in \cup out
      BY <1>6, <3>1
    <3> QED BY <1>2, <1>7, <3>2
  <2>2. \A x : QueueOf(x)' = QueueOf(x)
    BY DEF QueueOf
  <2>3. pstate'[t] # "none" /\ pstate'[t] = "int" <=> waits
    BY <1>9
  <2>4. c.at \notin {"loop", "copy", "look"}
    BY <1>7
  <2> QED BY <1>5, <1>7, <1>8, <1>9, <1>11, <2>1, <2>2, <2>3, <2>4 DEF CallFits
<1>17. ASSUME NEW q \in Q, Due(t, q)' PROVE pstate'[t] = "run"
  <2>1. ReadyIn' = ReadyIn
    BY <1>4 DEF ReadyIn, PIPE_EMPTY
  <2>2. \E x : x \in in \cap ReadyIn
    BY <1>7, <1>8, <1>17, <2>1 DEF Due
  <2> QED BY <1>6, <1>9, <2>2
<1> QED BY <1>3, <1>4, <1>5, <1>10, <1>11, <1>12, <1>13, <1>14, <1>15, <1>16, <1>17, EnterStep

(* The queues are left one by one; then select looks again, or ends.       *)
LEMMA FreeSteps ==
  ASSUME QInv, Types', NEW t \in Procs, free_wait(t)
  PROVE  QInv'
<1>1. /\ QTypes /\ EndsCounted /\ CallFits(t) /\ pstate \in [Procs -> States] /\ todo[t] \in Call
      /\ NoProc \notin Procs
  BY PipeAssumption DEF QInv, QTypes, Types
<1>2. /\ todo[t].op = "select" /\ todo[t].at = "free" /\ runs \in {t, NoProc} /\ pstate[t] = "run"
      /\ UNCHANGED <<ends, pipe, line, pipes>>
  BY DEF free_wait
<1>3. CASE todo[t].table = {}
  <2>1. /\ UNCHANGED <<first, entry, pstate>>
        /\ \/ runs' = t /\ Goes_on(t, [todo[t] EXCEPT !.at = "look"])
           \/ runs' = NoProc /\ Goes_on(t, User)
    BY <1>3 DEF free_wait, queues, Ends
  <2>2. PICK c : /\ Goes_on(t, c)
                 /\ \/ runs' = t /\ c.op = "select" /\ c.at = "look" /\ c.table = {}
                    \/ runs' = NoProc /\ c.op = "user" /\ c.at = "user"
    <3>1. /\ [todo[t] EXCEPT !.at = "look"].at = "look"
          /\ [todo[t] EXCEPT !.at = "look"].op = "select"
          /\ [todo[t] EXCEPT !.at = "look"].table = {}
      BY <1>1, <1>2, <1>3 DEF Call
    <3>2. User.op = "user" /\ User.at = "user"
      BY DEF User
    <3> QED BY <2>1, <3>1, <3>2
  <2>3. todo'[t] = c /\ \A u \in Procs \ {t} : todo'[u] = todo[u]
    BY <1>1, <2>2, Went
  <2>4. QTypes' /\ EndsCounted'
    BY <1>1, <1>2, <2>1, <2>2 DEF QTypes, EndsCounted, Ends_open, Pointers
  <2>5. Stays(t)
    BY <1>2, <2>1, <2>2, <2>3 DEF Stays, Same
  <2>6. StaysOut(t)
    BY <1>2, <1>3, <2>1, <2>2, <2>3 DEF StaysOut, Idle, Member, LetsPass
  <2>7. CallFits(t)'
    BY <1>1, <1>2, <2>1, <2>2, <2>3 DEF CallFits
  <2>8. \A q \in Queues, u \in Procs : Same(u) => (Due(u, q)' <=> Due(u, q))
    BY <1>2, SameDue DEF Same
  <2>9. \A q \in Queues : ~Wakes(t, q)
    BY <1>2 DEF Wakes
  <2> QED BY <2>4, <2>5, <2>6, <2>7, <2>8, <2>9, StayStep
<1>4. CASE todo[t].table # {}
  <2>1. PICK q \in todo[t].table :
          IF first[q] \in {NoProc, t}
          THEN LeavesQueue(t, q) /\ runs' = t /\ Goes_on(t, [todo[t] EXCEPT !.table = @ \ {q}])
          ELSE /\ pstate' = [Woken_up(pstate, q) EXCEPT ![t] = "unint"]
               /\ runs' = NoProc /\ UNCHANGED <<first, entry, todo>>
    BY <1>4 DEF free_wait
  <2>2. q \in Queues /\ Member(t, q)
    BY <1>1, <1>2, <2>1 DEF Member, Call
  <2>3. CASE first[q] \in {NoProc, t}
    <3> DEFINE c == [todo[t] EXCEPT !.table = @ \ {q}]
    <3>1. c.op = "select" /\ c.at = "free" /\ c.in = todo[t].in /\ c.table = todo[t].table \ {q}
      BY <1>1, <1>2 DEF Call
    <3>2. LeavesQueue(t, q) /\ runs' = t /\ Goes_on(t, c)
      BY <2>1, <2>3
    <3> HIDE DEF c
    <3> QED BY <1>2, <2>2, <2>3, <3>1, <3>2, LeaveStep
  <2>4. CASE first[q] \notin {NoProc, t}
    BY <1>2, <2>1, <2>2, <2>4, HandOnStep
  <2> QED BY <2>3, <2>4
<1> QED BY <1>3, <1>4

-----------------------------------------------------------------------------
LEMMA QueuesFromTheStart == PipeInit => QInv
<1> SUFFICES ASSUME PipeInit PROVE QInv
  OBVIOUS
<1>1. /\ pipes \in PipeSetups /\ ends = [t \in Procs |-> {}]
      /\ pipe = [count |-> 0, head |-> 0, tail |-> 0]
      /\ page = [i \in 0..(PIPE_PAGE - 1) |-> 0]
      /\ first = NoQueue /\ entry = [t \in Procs |-> NoQueue]
      /\ pstate \in [Procs -> States]
      /\ todo = [t \in Procs |-> User] /\ runs = NoProc /\ sent = 0 /\ taken = 0
      /\ NoProc \notin Procs
  BY PipeAssumption DEF PipeInit, States
<1>p. Procs # {}
  BY DEF PipeInit
<1>2. PIPE_PAGE \in Nat \ {0, 1}
  BY <1>1, PipeAssumption DEF PIPE_PAGE
<1>3. QTypes
  <2>1. Types
    BY <1>1, <1>2, UserFits DEF Types
  <2> QED BY <1>1, <1>p, <2>1 DEF QTypes, Pointers, NoQueue
<1>4. EndsCounted
  BY <1>1 DEF EndsCounted, Ends_open, One
<1>5. \A t \in Procs : CallFits(t)
  BY <1>1 DEF CallFits, User
<1>6. \A t \in Procs : ~LetsPass(t) /\ \A q \in Queues : ~Member(t, q)
  BY <1>1 DEF LetsPass, Member, User
<1>7. Moving
  <2> DEFINE came == [t \in Procs |-> 0]
  <2>1. \A q \in Queues : first[q] = NoProc
    BY <1>1 DEF NoQueue
  <2>2. \A q \in Queues : Chain(came, q)
    BY <1>6, <2>1 DEF Chain
  <2>3. Passed(came)
    BY <1>6 DEF Passed
  <2>4. came \in [Procs -> 0..0]
    OBVIOUS
  <2> HIDE DEF came
  <2>5. Queued(0, came)
    BY <2>2, <2>3, <2>4 DEF Queued
  <2>6. Progress
    BY <1>6 DEF Progress
  <2> QED BY <2>5, <2>6 DEF Moving
<1> QED BY <1>3, <1>4, <1>5, <1>7 DEF QInv

LEMMA QueuesNext == QInv /\ [PipeNext]_pipeVars => QInv'
<1> SUFFICES ASSUME QInv, [PipeNext]_pipeVars PROVE QInv'
  OBVIOUS
<1>1. CASE UNCHANGED pipeVars
  <2>1. UNCHANGED <<ends, pipe, page, line, first, entry, pstate, todo, runs, pipes, sent, taken>>
    BY <1>1 DEF pipeVars
  <2>3. EndsCounted /\ \A u \in Procs : CallFits(u)
    BY DEF QInv
  <2>4. QTypes' /\ EndsCounted'
    BY <2>1 DEF QInv, QTypes, Types, PIPE_PAGE, EndsCounted, Ends_open
  <2>5. \A u \in Procs : CallFits(u)'
    BY <2>1, <2>3 DEF CallFits, QueueOf
  <2>6. \A u \in Procs : Same(u)
    BY <2>1 DEF Same
  <2>7. \A q \in Queues, u \in Procs : Due(u, q)' <=> Due(u, q)
    BY <2>1, SameDue
  <2>8. \A q \in Queues : Waker(q)' <=> Waker(q)
    BY <2>1 DEF Waker, Wakes
  <2>9. Moving'
    BY <2>1, <2>6, <2>7, <2>8, QueuesStay DEF QInv
  <2> QED BY <2>4, <2>5, <2>9 DEF QInv
<1>2. CASE PipeNext
  <2>1. Types'
    BY <1>2, TypesStep DEF QInv
  <2>2. CASE Typed
    <3>1. PICK t \in Procs : TRUE
      BY DEF QInv, QTypes
    <3> QED BY <2>1, <2>2, TypedKeeps
  <2>3. ASSUME NEW t \in Procs, KernelStep(t) PROVE QInv'
    BY <2>1, <2>3, ResumeSteps, TransferEndSteps, MoveSteps, CopySteps, LookStep, FreeSteps
       DEF KernelStep
  <2>4. ASSUME NEW t \in Procs, NEW u \in Procs,
               \/ TimeIsOut(t) \/ sys_pipe(t) \/ sys_close(t) \/ Dies(t) \/ Fork_child(t, u)
               \/ Transfer(t) \/ PageFault(t) \/ sys_select(t) \/ LineRead(t) \/ SignalSent(t)
        PROVE  QInv'
    BY <2>1, <2>4, ClockSteps, ProcessSteps, SysPipeMoves, CloseMoves, StartSteps, CopySteps
  <2> QED BY <1>2, <2>2, <2>3, <2>4 DEF PipeNext
<1> QED BY <1>1, <1>2

-----------------------------------------------------------------------------
(* Numbers have a least one: the order of the intervals 0..x is that of    *)
(* their sets, which the library shows to be well-founded.                 *)
LEMMA Smallest ==
  ASSUME NEW T, T \subseteq Nat, T # {}
  PROVE  \E x \in T : \A y \in T : x <= y
<1> DEFINE Below == {0..x : x \in T}
           R == StrictSubsetOrdering(Nat)
<1>1. Below \subseteq FiniteSubsetsOf(Nat)
  <2> SUFFICES ASSUME NEW x \in T PROVE 0..x \in FiniteSubsetsOf(Nat)
    OBVIOUS
  <2>1. 0 \in Int /\ x \in Int /\ 0..x \subseteq Nat
    OBVIOUS
  <2>2. IsFiniteSet(0..x)
    BY <2>1, FS_Interval
  <2> QED BY <2>1, <2>2 DEF FiniteSubsetsOf
<1>2. IsWellFoundedOn(R, FiniteSubsetsOf(Nat))
  BY FS_StrictSubsetOrderingWellFounded
<1>3. PICK B \in Below : \A C \in Below : <<C, B>> \notin R
  <2> HIDE DEF R, Below
  <2>1. Below # {}
    BY DEF Below
  <2> QED BY <1>1, <1>2, <2>1, WFMin
<1>4. PICK x \in T : B = 0..x
  BY <1>3
<1>5. \A y \in T : ~ (y < x)
  <2> SUFFICES ASSUME NEW y \in T, y < x PROVE FALSE
    OBVIOUS
  <2>1. 0..y \subseteq 0..x /\ x \in 0..x /\ x \notin 0..y
    OBVIOUS
  <2>2. <<0..y, B>> \in R
    BY <2>1, <1>4 DEF StrictSubsetOrdering
  <2>3. 0..y \in Below
    OBVIOUS
  <2> QED BY <2>2, <2>3, <1>3
<1> QED BY <1>5

(* So numbers below a bound have a greatest one.                           *)
LEMMA Largest ==
  ASSUME NEW n \in Nat, NEW T, T \subseteq 0..n, T # {}
  PROVE  \E x \in T : \A y \in T : y <= x
<1> DEFINE Mirror == {n - x : x \in T}
<1>1. Mirror \subseteq Nat /\ Mirror # {}
  <2>1. PICK x \in T : TRUE
    OBVIOUS
  <2>2. n - x \in Mirror
    OBVIOUS
  <2>3. \A y \in T : n - y \in Nat
    OBVIOUS
  <2> QED BY <2>2, <2>3
<1>2. PICK m \in Mirror : \A y \in Mirror : m <= y
  <2> HIDE DEF Mirror
  <2> QED BY <1>1, Smallest
<1>3. PICK x \in T : m = n - x
  BY <1>2
<1>4. ASSUME NEW y \in T PROVE y <= x
  <2>1. n - y \in Mirror
    OBVIOUS
  <2>2. n - x <= n - y
    BY <1>2, <1>3, <2>1
  <2>3. x \in 0..n /\ y \in 0..n
    BY <1>3
  <2> QED BY <2>2, <2>3
<1> QED BY <1>4

(* When nothing runs, no select can be letting another pass: the last to   *)
(* come of these would be waiting for one that is awake.                   *)
LEMMA NoneLetsPass ==
  ASSUME QInv, Quiet
  PROVE  \A t \in Procs : ~Stirs(t) \/ todo[t].op = "user"
<1>1. /\ \A t \in Procs : todo[t].op # "user" => pstate[t] # "run"
      /\ Moving
  BY DEF QInv, Quiet, Waiting
<1>0. PICK n \in Nat : \E came : Queued(n, came)
  BY <1>1 DEF Moving
<1>2. PICK came : Queued(n, came)
  BY <1>0
<1>3. came \in [Procs -> 0..n] /\ Passed(came)
  BY <1>2 DEF Queued
<1> DEFINE T == {came[t] : t \in {u \in Procs : LetsPass(u)}}
<1>4. ASSUME NEW t \in Procs, LetsPass(t) PROVE FALSE
  <2>1. T \subseteq 0..n /\ came[t] \in T
    BY <1>3, <1>4
  <2>2. PICK x \in T : \A y \in T : y <= x
    <3> HIDE DEF T
    <3> QED BY <2>1, Largest
  <2>3. PICK u \in Procs : LetsPass(u) /\ x = came[u]
    BY <2>2
  <2>4. PICK q \in Queues, m \in Procs : Member(m, q) /\ came[u] < came[m] /\ Stirs(m)
    BY <1>3, <2>3 DEF Passed
  <2>5. todo[m].op # "user"
    BY <2>4 DEF Member
  <2>6. LetsPass(m)
    BY <1>1, <2>4, <2>5 DEF Stirs
  <2>7. came[m] \in T /\ came[m] \in 0..n /\ came[u] \in 0..n
    BY <1>3, <2>6
  <2> QED BY <2>2, <2>3, <2>4, <2>7
<1> QED BY <1>1, <1>4 DEF Stirs

LEMMA NothingIsDue ==
  ASSUME QInv, Quiet
  PROVE  \A q \in Queues, t \in Procs : Member(t, q) => ~Due(t, q)
<1> SUFFICES ASSUME NEW q \in Queues, NEW t \in Procs, Member(t, q), Due(t, q) PROVE FALSE
  OBVIOUS
<1>1. /\ runs = NoProc /\ NoProc \notin Procs /\ Progress
      /\ \A u \in Procs : CallFits(u) /\ (todo[u].op # "user" => todo[u].at # "fault")
  BY PipeAssumption DEF QInv, Moving, Quiet, Waiting
<1>2. ~Waker(q)
  <2> SUFFICES ASSUME NEW u \in Procs, Wakes(u, q) PROVE FALSE
    BY DEF Waker
  <2> QED BY <1>1 DEF Wakes, CallFits
<1>3. PICK m \in Procs : Member(m, q) /\ Stirs(m)
  BY <1>1, <1>2 DEF Progress
<1>4. todo[m].op # "user"
  BY <1>3 DEF Member
<1> QED BY <1>3, <1>4, NoneLetsPass

(* The reader and the writer that find nothing to do sleep, select puts    *)
(* itself in the same queue, each of them leaves it in the order of        *)
(* __sleep_on, and free_wait of several queues at once: whoever is in a    *)
(* queue when nothing runs has nothing to read, no room to write, and the  *)
(* other end open, for any number of processes and any size of the page.   *)
THEOREM PipeNotStuckAlways == PipeSpec => []PipeNotStuck
<1>1. QInv => PipeNotStuck
  <2> SUFFICES ASSUME QInv, Quiet, NEW t \in Procs
               PROVE  /\ todo[t].op = "read" => PIPE_EMPTY /\ pipe.count = 2
                      /\ todo[t].op = "write" => PIPE_SIZE = Places /\ pipe.count = 2
    BY DEF PipeNotStuck
  <2>1. CallFits(t) /\ runs # t /\ (todo[t].op # "user" => todo[t].at # "fault")
    BY PipeAssumption DEF QInv, Quiet, Waiting
  <2>2. CASE todo[t].op = "read"
    <3>1. "i_wait" \in Queues /\ Member(t, "i_wait")
      BY <2>1, <2>2 DEF CallFits, Member, Queues
    <3> QED BY <2>2, <3>1, NothingIsDue DEF Due
  <2>3. CASE todo[t].op = "write"
    <3>1. "i_wait2" \in Queues /\ Member(t, "i_wait2")
      BY <2>1, <2>3 DEF CallFits, Member, Queues
    <3> QED BY <2>3, <3>1, NothingIsDue DEF Due
  <2> QED BY <2>2, <2>3
<1> QED BY <1>1, QueuesFromTheStart, QueuesNext, PTL DEF PipeSpec

(* check_in and check_out look and enter all queues before anything can    *)
(* happen, and free_wait may sleep between two of them: a select that      *)
(* sleeps, in whatever queue, has nothing to read.                         *)
THEOREM SelectSeesInputAlways == PipeSpec => []SelectSeesInput
<1>1. QInv => SelectSeesInput
  <2> SUFFICES ASSUME QInv, Quiet, NEW t \in Procs, todo[t].op = "select",
                      NEW x \in todo[t].in \cap ReadyIn
               PROVE  FALSE
    BY DEF SelectSeesInput
  <2>1. CallFits(t) /\ runs # t /\ pstate[t] # "run" /\ pstate[t] \in States /\ QTypes
    BY PipeAssumption DEF QInv, QTypes, Quiet, Waiting
  <2>2. ~LetsPass(t)
    BY NoneLetsPass DEF Stirs
  <2>3. pstate[t] = "int"
    BY <2>1, <2>2 DEF CallFits, LetsPass, States
  <2>4. Member(t, QueueOf(x)) /\ QueueOf(x) \in Queues
    BY <2>1, <2>3 DEF CallFits, Member, QueueOf, Queues
  <2>5. Due(t, QueueOf(x))
    BY DEF Due
  <2> QED BY <2>4, <2>5, NothingIsDue
<1> QED BY <1>1, QueuesFromTheStart, QueuesNext, PTL DEF PipeSpec
=============================================================================
