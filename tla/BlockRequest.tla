----------------------------- MODULE BlockRequest -----------------------------
(***************************************************************************)
(* The request queue of a block device: make_request, add_request,         *)
(* ll_rw_page (kernel/blk_drv/ll_rw_blk.c) and end_request (blk.h).        *)
(*                                                                         *)
(* Tasks submit buffers and swap pages; the device's interrupt ends the    *)
(* request at the head.  One device is modelled, so the device number does *)
(* not take part in IN_ORDER, and a buffer stands for the block it holds.  *)
(* A sleeping task is one of "lock" (on b_wait) or "asleep" (on            *)
(* wait_for_request).  By WaitQueue!CascadeReleases one wake_up releases   *)
(* all who sleep on a queue, each of which then tests its condition again. *)
(***************************************************************************)
EXTENDS Naturals, Sequences, SequencesExt, FiniteSets

CONSTANTS Submitters,
          Buffers,      \* block numbers
          SwapPages,    \* sectors of the pages that are swapped
          Loads,        \* which of them are used, by which tasks: [tasks, sectors]
          NR_REQUEST

ASSUME BlockAssumption ==
  /\ Buffers \subseteq Nat /\ SwapPages \subseteq Nat
  /\ NR_REQUEST \in Nat /\ NR_REQUEST >= 3
  /\ \A l \in Loads : l.tasks \subseteq Submitters /\ l.sectors \subseteq Buffers \cup SwapPages

READ  == 0
WRITE == 1
Slots == 0..(NR_REQUEST - 1)
Free  == [cmd |-> READ, sector |-> 0, swap |-> FALSE, used |-> FALSE]

VARIABLES
  pc,         \* pc[t]: "idle", "lock", "scan", "full", "missed", "asleep", "page"
  job,        \* job[t]: what t submits, [cmd, sector, swap, ahead]
  request,    \* request[s]: the slot s of request[]
  queue,      \* current_request and its followers, as slots
  b_lock, b_dirt, b_uptodate,  \* the buffers with this flag
  load                         \* the one of Loads that this behaviour is under

requestVars == <<pc, job, request, queue, b_lock, b_dirt, b_uptodate, load>>

Jobs == [cmd : {READ, WRITE}, sector : Buffers, swap : {FALSE}, ahead : BOOLEAN]
          \cup [cmd : {READ, WRITE}, sector : SwapPages, swap : {TRUE}, ahead : {FALSE}]
NoJob == [cmd |-> READ, sector |-> 0, swap |-> FALSE, ahead |-> FALSE]

RequestsInit ==
  /\ pc = [t \in Submitters |-> "idle"]
  /\ job = [t \in Submitters |-> NoJob]
  /\ request = [s \in Slots |-> Free]
  /\ queue = <<>>
  /\ b_lock = {} /\ b_dirt = {} /\ b_uptodate = {}
  /\ load \in Loads

(* t is at a new place; a call that returns forgets its arguments.         *)
Goto(t, label) ==
  /\ pc' = [pc EXCEPT ![t] = label]
  /\ job' = IF label = "idle" THEN [job EXCEPT ![t] = NoJob] ELSE job

-----------------------------------------------------------------------------
IN_ORDER(r, s) == r.cmd < s.cmd \/ (r.cmd = s.cmd /\ r.sector < s.sector)

(* mutant: no wrap at the end of a sweep.                                  *)
StopsAt_noWrap(list, r, k) ==
  IF r.swap THEN ~list[k + 1].swap
  ELSE IN_ORDER(list[k], r) /\ IN_ORDER(r, list[k + 1])

(* Where add_request puts r in a list of requests that is not empty: after *)
(* the first k that stops its loop, or at the end.                         *)
StopsAt(list, r, k) ==
  IF r.swap THEN ~list[k + 1].swap
  ELSE /\ IN_ORDER(list[k], r) \/ ~IN_ORDER(list[k], list[k + 1])
       /\ IN_ORDER(r, list[k + 1])

InsertAfter(list, r) ==
  CHOOSE k \in 1..Len(list) :
    /\ k < Len(list) => StopsAt(list, r, k)
    /\ \A i \in 1..(k - 1) : ~StopsAt(list, r, i)

Contents(q) == [i \in 1..Len(q) |-> request[q[i]]]

(* add_request: an idle device starts on r at once, as the only request.   *)
AddRequest(s, r) ==
  /\ request' = [request EXCEPT ![s] = r]
  /\ queue' = IF queue = <<>> THEN <<s>>
              ELSE InsertAt(queue, InsertAfter(Contents(queue), r) + 1, s)

(* The scans for a free slot go down from the top; writes of buffers start *)
(* at two thirds.                                                          *)
FreeSlots(j) ==
  {s \in Slots : /\ ~request[s].used
                 /\ j.cmd = WRITE /\ ~j.swap => s < (NR_REQUEST * 2) \div 3}

-----------------------------------------------------------------------------

(* ll_rw_block is called; read-ahead of a locked buffer is forgotten.      *)
Submit(t, j) ==
  /\ pc[t] = "idle"
  /\ j.ahead => j.sector \notin b_lock
  /\ job' = [job EXCEPT ![t] = j]
  /\ pc' = [pc EXCEPT ![t] = IF j.swap THEN "scan" ELSE "lock"]
  /\ UNCHANGED <<request, queue, b_lock, b_dirt, b_uptodate>>

(* mutant: a locked buffer is not waited for.                              *)
LockBuffer_noWait(t) ==
  LET b == job[t].sector
  IN  /\ pc[t] = "lock"
      /\ Goto(t, "scan") /\ b_lock' = b_lock \cup {b}
      /\ UNCHANGED <<request, queue, b_dirt, b_uptodate>>

(* lock_buffer returns.  There may be nothing left to do: the buffer was   *)
(* written, or read, while the task slept.                                 *)
LockBuffer(t) ==
  LET b == job[t].sector
      needless == IF job[t].cmd = WRITE THEN b \notin b_dirt ELSE b \in b_uptodate
  IN  /\ pc[t] = "lock" /\ b \notin b_lock
      /\ IF needless THEN Goto(t, "idle") /\ UNCHANGED b_lock
                     ELSE Goto(t, "scan") /\ b_lock' = b_lock \cup {b}
      /\ UNCHANGED <<request, queue, b_dirt, b_uptodate>>

(* A slot is found: the request is filled in and queued.  ll_rw_page waits *)
(* for it, make_request does not.                                          *)
Queue(t) ==
  LET j == job[t]
      s == CHOOSE s \in FreeSlots(j) : \A u \in FreeSlots(j) : u <= s
  IN  /\ pc[t] = "scan" /\ FreeSlots(j) # {}
      /\ AddRequest(s, [cmd |-> j.cmd, sector |-> j.sector, swap |-> j.swap, used |-> TRUE])
      /\ b_dirt' = IF j.swap THEN b_dirt ELSE b_dirt \ {j.sector}
      /\ Goto(t, IF j.swap THEN "page" ELSE "idle")
      /\ UNCHANGED <<b_lock, b_uptodate>>

(* No slot: read-ahead gives up, everybody else is about to sleep.         *)
NoSlot(t) ==
  /\ pc[t] = "scan" /\ FreeSlots(job[t]) = {}
  /\ IF job[t].ahead THEN Goto(t, "idle") /\ b_lock' = b_lock \ {job[t].sector}
                     ELSE Goto(t, "full") /\ UNCHANGED b_lock
  /\ UNCHANGED <<request, queue, b_dirt, b_uptodate>>

(* sleep_on(&wait_for_request).  Interrupts are on between the scan and    *)
(* this: a request that ends in between does not find the task asleep      *)
(* ("missed").  The window is a few instructions: at most one request ends *)
(* in it (see EndRequest).                                                 *)
GoToSleep(t) ==
  /\ pc[t] \in {"full", "missed"}
  /\ Goto(t, "asleep")
  /\ UNCHANGED <<request, queue, b_lock, b_dirt, b_uptodate>>

(* The tasks that sleep on the page of r, and where t is once they and the *)
(* sleepers on wait_for_request are woken.                                 *)
Waiters(r) == {t \in Submitters : /\ pc[t] = "page" /\ r.swap
                                  /\ job[t].cmd = r.cmd /\ job[t].sector = r.sector}

WokenUp_none(t, r) == pc[t]    \* mutant: no wake_up

WokenUp(t, r) == CASE pc[t] = "asleep"  -> "scan"
                   [] pc[t] = "full"    -> "missed"
                   [] t \in Waiters(r)  -> "idle"
                   [] OTHER             -> pc[t]

Freed(s) == [request EXCEPT ![s] = Free]

(* end_request, in the device's interrupt: the buffer is unlocked, whoever *)
(* waits for the page or for a slot is woken, and the next request starts. *)
EndRequest(uptodate) ==
  LET r == request[Head(queue)]
  IN  /\ queue # <<>>
      /\ \A t \in Submitters : pc[t] # "missed"
      /\ queue' = Tail(queue)
      /\ request' = Freed(Head(queue))
      /\ IF r.swap
         THEN UNCHANGED <<b_lock, b_uptodate>>
         ELSE /\ b_lock' = b_lock \ {r.sector}
              /\ b_uptodate' = IF uptodate THEN b_uptodate \cup {r.sector}
                                           ELSE b_uptodate \ {r.sector}
      /\ pc' = [t \in Submitters |-> WokenUp(t, r)]
      /\ job' = [t \in Submitters |-> IF pc'[t] = "idle" THEN NoJob ELSE job[t]]
      /\ UNCHANGED b_dirt

(* The owner of a buffer, outside of this module: it changes the data, or  *)
(* getblk gives a clean, unlocked buffer to another block.                 *)
Modify(b) == /\ b \in b_uptodate /\ b \notin b_dirt
             /\ b_dirt' = b_dirt \cup {b}
             /\ UNCHANGED <<pc, job, request, queue, b_lock, b_uptodate>>

Reuse(b) == /\ b \in b_uptodate /\ b \notin b_dirt \cup b_lock
            /\ b_uptodate' = b_uptodate \ {b}
            /\ UNCHANGED <<pc, job, request, queue, b_lock, b_dirt>>

(* Two tasks never swap the same page in the same direction at once.       *)
MaySubmit(t, j) ==
  j.swap => \A u \in Submitters \ {t} : pc[u] = "idle" \/ ~job[u].swap
                                        \/ job[u].cmd # j.cmd \/ job[u].sector # j.sector

MayUse(t, j) == t \in load.tasks /\ j.sector \in load.sectors /\ MaySubmit(t, j)

Goes(t) == LockBuffer(t) \/ Queue(t) \/ NoSlot(t) \/ GoToSleep(t)
RequestsNext ==
  /\ UNCHANGED load
  /\ \/ \E t \in Submitters : Goes(t) \/ \E j \in Jobs : MayUse(t, j) /\ Submit(t, j)
     \/ \E ok \in BOOLEAN : EndRequest(ok)
     \/ \E b \in Buffers : Modify(b) \/ Reuse(b)

RequestsSpec == RequestsInit /\ [][RequestsNext]_requestVars

-----------------------------------------------------------------------------

(* The panics of INIT_REQUEST and end_request: a buffer in the queue is    *)
(* locked, and only by its request or by the task about to queue it, so    *)
(* a block never has two requests under way.                               *)
Holds(t, b) == pc[t] \in {"scan", "full", "missed", "asleep"} /\ ~job[t].swap /\ job[t].sector = b

LockedByOne ==
  \A b \in Buffers :
    Cardinality({i \in DOMAIN queue : /\ ~request[queue[i]].swap
                                     /\ request[queue[i]].sector = b})
      + Cardinality({t \in Submitters : Holds(t, b)}) = (IF b \in b_lock THEN 1 ELSE 0)

(* The elevator: where nothing is swapped, the list goes up and starts     *)
(* over from the bottom at most once.  So a request is overtaken only by   *)
(* requests that are in front of the head in the current sweep.            *)
Turns(list) == {i \in 1..(Len(list) - 1) : ~IN_ORDER(list[i], list[i + 1])}
OneTurn == load.sectors \cap SwapPages = {} => Cardinality(Turns(Contents(queue))) <= 1

(* While requests end, nobody stays asleep on wait_for_request.            *)
SleepersRetry ==
  \A t \in Submitters : (pc[t] = "asleep" /\ queue # <<>>) ~> (pc[t] # "asleep")

=============================================================================
