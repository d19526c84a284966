----------------------------- MODULE BufferCache -----------------------------
(***************************************************************************)
(* The block cache of fs/buffer.c: getblk, brelse, bread, breada, sync_dev *)
(* and sys_sync, with what they call: ll_rw_block (ll_rw_blk.c) and        *)
(* sync_inodes / write_inode (inode.c), which call bread in their turn.    *)
(*                                                                         *)
(* A task in the kernel has a stack of frames, one per call; the label of  *)
(* a frame is where it stands.  The kernel is not preemptive: cpu is the   *)
(* task that runs, and another one runs only when it sleeps (Sleep) or its *)
(* call returns.  EndRequest is the interrupt, which comes at any time.    *)
(* One wake_up releases all sleepers (WaitQueue!CascadeReleases), so who   *)
(* waits for a lock waits for the flag, and "none" is being asleep on      *)
(* buffer_wait.                                                            *)
(***************************************************************************)
EXTENDS Integers, Sequences, SequencesExt, FiniteSets, FiniteSetsExt

CONSTANTS Tasks, NoTask,
          NR_BUFFERS,
          Blocks,       \* positive numbers; 10 * d + n is a block of device d
          InodeBlock,   \* InodeBlock[i]: the block of the i-th inode in memory
          Ops,          \* the calls the tasks make
          Failures,     \* the commands that a device may fail to carry out
          CopySleeps    \* copies from user space may have to wait for a page

READ  == 0
WRITE == 1
ASSUME CacheAssumption ==
  /\ IsFiniteSet(Tasks) /\ NoTask \notin Tasks
  /\ NR_BUFFERS \in Nat \ {0}
  /\ Blocks \subseteq Nat \ {0}
  /\ InodeBlock \in Seq(Blocks)
  /\ Failures \subseteq {READ, WRITE} /\ CopySleeps \in BOOLEAN

Buffers == 1..NR_BUFFERS
Inodes  == 1..Len(InodeBlock)
NULL    == 0                  \* no buffer; no block; the device of no block
Dev(block) == block \div 10   \* b_dev of a buffer that holds the block

VARIABLES
  buf,        \* buf[b]: [blk, count, lock, dirt, uptodate], the buffer_head
  free_list,  \* all buffers, in the order of b_next_free
  io,         \* io[b]: the command the device is to do for b, or -1
  i_lock, i_dirt,   \* the inodes with this flag
  stack,      \* stack[t]: frames [at, blk, bh, i], the innermost last
  held,       \* held[t]: the buffer t has from a call that returned, or NULL
  cpu,        \* the task that runs in the kernel, or NoTask
  newer       \* history: the blocks whose data in memory is not on the disk

cache == <<buf, free_list, io>>
inodes == <<i_lock, i_dirt>>
vars == <<cache, inodes, stack, held, cpu, newer>>

Init == /\ buf = [b \in Buffers |-> [blk |-> NULL, count |-> 0, lock |-> FALSE,
                                     dirt |-> FALSE, uptodate |-> FALSE]]
        /\ free_list = [b \in Buffers |-> b]
        /\ io = [b \in Buffers |-> -1]
        /\ i_lock = {} /\ i_dirt = {} /\ newer = {}
        /\ stack = [t \in Tasks |-> <<>>]
        /\ held = [t \in Tasks |-> NULL]
        /\ cpu = NoTask

-----------------------------------------------------------------------------
(* Calls and returns.                                                      *)
Frame(label, blk, bh, i) == [at |-> label, blk |-> blk, bh |-> bh, i |-> i]
Top(t) == Last(stack[t])
At(t, label) == stack[t] # <<>> /\ Top(t).at = label
Under(t) == Front(stack[t])

(* t, at this label, is the task that runs or is given the processor.      *)
Run(t, label) == At(t, label) /\ cpu \in {t, NoTask}

Goto(t, f) == stack' = [stack EXCEPT ![t] = Append(Under(t), f)]
              /\ cpu' = t /\ UNCHANGED held

(* f is where the call returns to, g the frame of what is called.          *)
Call(t, f, g) == stack' = [stack EXCEPT ![t] = Under(t) \o <<f, g>>]
                 /\ cpu' = t /\ UNCHANGED held

(* The stacks once t has returned to its caller, with a buffer or without. *)
Returned(t, bh, hasBuffer) ==
  IF Len(stack[t]) > 1 /\ hasBuffer
  THEN [stack EXCEPT ![t] = [Under(t) EXCEPT ![Len(Under(t))].bh = bh]]
  ELSE [stack EXCEPT ![t] = Under(t)]

Leaves(t, bh) == /\ held' = IF Len(stack[t]) = 1 THEN [held EXCEPT ![t] = bh] ELSE held
                 /\ cpu' = IF Len(stack[t]) = 1 THEN NoTask ELSE t

Return(t) == stack' = Returned(t, NULL, FALSE) /\ Leaves(t, NULL)
ReturnBuffer(t, bh) == stack' = Returned(t, bh, TRUE) /\ Leaves(t, bh)

Change(b, f) == buf' = [buf EXCEPT ![b] = f]

-----------------------------------------------------------------------------
(* getblk and get_hash_table.                                              *)
find_buffer(blk) == {b \in Buffers : buf[b].blk = blk}
BADNESS(b) == 2 * (IF buf[b].dirt THEN 1 ELSE 0) + (IF buf[b].lock THEN 1 ELSE 0)

(* The places of the unused buffers in free_list, and the first of these   *)
(* buffers with the least badness.                                         *)
Unused == {k \in DOMAIN free_list : buf[free_list[k]].count = 0}
Candidate == LET least == Min({BADNESS(free_list[k]) : k \in Unused})
             IN  free_list[Min({k \in Unused : BADNESS(free_list[k]) = least})]

Getblk(t) ==
  LET f == Top(t)
      found == find_buffer(f.blk)
  IN  /\ Run(t, "getblk")
      /\ IF found # {}
         THEN LET b == CHOOSE b \in found : TRUE
              IN  /\ Change(b, [buf[b] EXCEPT !.count = @ + 1])
                  /\ Goto(t, [f EXCEPT !.at = "hash", !.bh = b])
         ELSE /\ IF Unused = {}
                 THEN Goto(t, [f EXCEPT !.at = "none"])
                 ELSE Goto(t, [f EXCEPT !.at = "victim", !.bh = Candidate])
              /\ UNCHANGED buf
      /\ UNCHANGED <<free_list, io, inodes, newer>>

(* Past wait_on_buffer in get_hash_table.                                  *)
MustWait_not(b) == FALSE    \* mutant: no wait_on_buffer
MustWait(b) == buf[b].lock

Hash(t) ==
  LET f == Top(t)
      b == f.bh
  IN  /\ Run(t, "hash") /\ ~MustWait(b)
      /\ IF buf[b].blk = f.blk
         THEN ReturnBuffer(t, b) /\ UNCHANGED buf
         ELSE /\ Change(b, [buf[b] EXCEPT !.count = @ - 1])
              /\ Goto(t, [f EXCEPT !.at = "getblk"])
      /\ UNCHANGED <<free_list, io, inodes, newer>>

(* What getblk tests again after its sleeps; mutants: what it might forget. *)
InUse(b) == buf[b].count > 0

MustSync_untested(b) == FALSE
MustSync(b) == buf[b].dirt

Added_untested(blk) == FALSE
Added(blk) == find_buffer(blk) # {}

Place(b) == CHOOSE k \in DOMAIN free_list : free_list[k] = b
NewHead(blk) == [blk |-> blk, count |-> 1, lock |-> FALSE,
                 dirt |-> FALSE, uptodate |-> FALSE]

(* Past wait_on_buffer in getblk: in use again, dirty, or found meanwhile; *)
(* otherwise the buffer goes to the end of the list and to the new block.  *)
Victim(t) ==
  LET f == Top(t)
      b == f.bh
  IN  /\ Run(t, "victim") /\ ~buf[b].lock
      /\ \/ /\ InUse(b) \/ (~MustSync(b) /\ Added(f.blk))
            /\ Goto(t, [f EXCEPT !.at = "getblk"])
            /\ UNCHANGED <<buf, free_list>>
         \/ /\ ~InUse(b) /\ MustSync(b)
            /\ Call(t, f, Frame("sync1", Dev(buf[b].blk), NULL, 1))
            /\ UNCHANGED <<buf, free_list>>
         \/ /\ ~InUse(b) /\ ~MustSync(b) /\ ~Added(f.blk)
            /\ Change(b, NewHead(f.blk))
            /\ free_list' = Append(RemoveAt(free_list, Place(b)), b)
            /\ ReturnBuffer(t, b)
      /\ UNCHANGED <<io, inodes, newer>>

-----------------------------------------------------------------------------
(* brelse: past its wait_on_buffer.  It wakes who waits for any buffer.    *)
Wake(s) == [t \in Tasks |->
             IF s[t] # <<>> /\ Last(s[t]).at = "none"
             THEN Append(Front(s[t]), [Last(s[t]) EXCEPT !.at = "getblk"]) ELSE s[t]]

Released_not(b) == buf    \* mutant: b_count is not decremented
Released(b) == [buf EXCEPT ![b].count = @ - 1]

Brelse(t) ==
  LET b == Top(t).bh
  IN  /\ Run(t, "brelse") /\ ~buf[b].lock
      /\ buf' = Released(b)
      /\ stack' = Wake(Returned(t, NULL, TRUE))
      /\ Leaves(t, NULL)
      /\ UNCHANGED <<free_list, io, inodes, newer>>

-----------------------------------------------------------------------------
(* ll_rw_block(f.i, f.bh): make_request takes the lock, finds that there   *)
(* is nothing to do, or waits for a request (see Sleep) and queues it.     *)
LockBuffer(t) ==
  LET f == Top(t)
      b == f.bh
      needless == IF f.i = WRITE THEN ~buf[b].dirt ELSE buf[b].uptodate
  IN  /\ Run(t, "lock") /\ ~buf[b].lock
      /\ IF needless
         THEN Return(t) /\ UNCHANGED buf
         ELSE /\ Change(b, [buf[b] EXCEPT !.lock = TRUE])
              /\ Goto(t, [f EXCEPT !.at = "slot"])
      /\ UNCHANGED <<free_list, io, inodes, newer>>

AddRequest(t) ==
  LET b == Top(t).bh
  IN  /\ Run(t, "slot")
      /\ io' = [io EXCEPT ![b] = Top(t).i]
      /\ Change(b, [buf[b] EXCEPT !.dirt = FALSE])
      /\ Return(t)
      /\ UNCHANGED <<free_list, inodes, newer>>

(* end_request, in the interrupt of the device.  What is changed while the *)
(* write is under way may or may not reach the disk; it is dirty again.    *)
EndRequest(b, ok) ==
  /\ io[b] # -1
  /\ ~ok => io[b] \in Failures
  /\ io' = [io EXCEPT ![b] = -1]
  /\ Change(b, [buf[b] EXCEPT !.lock = FALSE, !.uptodate = ok])
  /\ newer' = IF io[b] = WRITE /\ ~buf[b].dirt THEN newer \ {buf[b].blk} ELSE newer
  /\ UNCHANGED <<free_list, inodes, stack, held, cpu>>

-----------------------------------------------------------------------------
(* bread.                                                                  *)
Bread(t) ==
  LET f == Top(t)
  IN  /\ Run(t, "bread")
      /\ Call(t, [f EXCEPT !.at = "have"], Frame("getblk", f.blk, NULL, 0))
      /\ UNCHANGED <<cache, inodes, newer>>

Have(t) ==
  LET f == Top(t)
  IN  /\ Run(t, "have")
      /\ IF buf[f.bh].uptodate
         THEN ReturnBuffer(t, f.bh)
         ELSE Call(t, [f EXCEPT !.at = "filled"], Frame("lock", NULL, f.bh, READ))
      /\ UNCHANGED <<cache, inodes, newer>>

(* Past the last wait_on_buffer of bread and breada.                       *)
Filled(t) ==
  LET f == Top(t)
  IN  /\ Run(t, "filled") /\ ~buf[f.bh].lock
      /\ IF buf[f.bh].uptodate THEN ReturnBuffer(t, f.bh)
                               ELSE Goto(t, [f EXCEPT !.at = "brelse"])
      /\ UNCHANGED <<cache, inodes, newer>>

(* breada: f.i keeps the first buffer while the next block is got, asked   *)
(* for and dropped.  READA is given the first buffer, as in the code.      *)
Breada(t) ==
  LET f == Top(t)
  IN  /\ \/ /\ Run(t, "breada")
            /\ Call(t, [f EXCEPT !.at = "first"], Frame("getblk", f.blk, NULL, 0))
         \/ /\ Run(t, "first") /\ buf[f.bh].uptodate
            /\ Goto(t, [f EXCEPT !.at = "more", !.i = f.bh])
         \/ /\ Run(t, "first") /\ ~buf[f.bh].uptodate
            /\ Call(t, [f EXCEPT !.at = "more", !.i = f.bh], Frame("lock", NULL, f.bh, READ))
         \/ /\ Run(t, "more")
            /\ \E next \in Blocks \ {f.blk} :
                 /\ Dev(next) = Dev(f.blk)
                 /\ Call(t, [f EXCEPT !.at = "drop"], Frame("getblk", next, NULL, 0))
      /\ UNCHANGED <<cache, inodes, newer>>

(* The buffer of the next block is dropped, with no wake_up.  READA does   *)
(* not sleep: it gives up on a locked buffer and when requests run out.    *)
Dropped_not(b) == buf    \* mutant: b_count is not decremented
Dropped(b) == [buf EXCEPT ![b].count = @ - 1]

Drop(t) ==
  LET f == Top(t)
      b == f.i
      dropped == Dropped(f.bh)
      mayRead == ~buf[f.bh].uptodate /\ ~buf[b].lock /\ ~buf[b].uptodate
  IN  /\ Run(t, "drop")
      /\ Goto(t, [f EXCEPT !.at = "filled", !.bh = b])
      /\ \/ buf' = dropped /\ UNCHANGED io
         \/ /\ mayRead
            /\ buf' = [dropped EXCEPT ![b].lock = TRUE, ![b].dirt = FALSE]
            /\ io' = [io EXCEPT ![b] = READ]
      /\ UNCHANGED <<free_list, inodes, newer>>

-----------------------------------------------------------------------------
(* sync_dev(f.blk): the passes "sync1" and "sync2" over the buffers, with  *)
(* sync_inodes in between; f.i is the next buffer.  sys_sync is one pass,  *)
(* "syncall", over all buffers, after sync_inodes.                         *)
WaitOf == [sync1 |-> "wait1", sync2 |-> "wait2", syncall |-> "waitall"]
InPass(f, pass, b) == pass = "syncall" \/ Dev(buf[b].blk) = f.blk

SyncNext(t, pass) ==
  LET f == Top(t)
      rest == {b \in Buffers : b >= f.i /\ InPass(f, pass, b)}
  IN  /\ Run(t, pass)
      /\ \/ /\ rest # {}
            /\ Goto(t, [f EXCEPT !.at = WaitOf[pass], !.i = Min(rest)])
         \/ /\ rest = {} /\ pass = "sync1"
            /\ Call(t, [f EXCEPT !.at = "sync2", !.i = 1], Frame("inodes", NULL, NULL, 1))
         \/ /\ rest = {} /\ pass # "sync1"
            /\ Return(t)
      /\ UNCHANGED <<cache, inodes, newer>>

SyncBuffer(t, pass) ==
  LET f == Top(t)
      next == [f EXCEPT !.at = pass, !.i = f.i + 1]
  IN  /\ Run(t, WaitOf[pass]) /\ ~buf[f.i].lock
      /\ IF InPass(f, pass, f.i) /\ buf[f.i].dirt
         THEN Call(t, next, Frame("lock", NULL, f.i, WRITE))
         ELSE Goto(t, next)
      /\ UNCHANGED <<cache, inodes, newer>>

(* sync_inodes: past wait_on_inode of the f.i-th inode, or past the last.  *)
SyncInodes(t) ==
  LET f == Top(t)
      next == [f EXCEPT !.i = f.i + 1]
  IN  /\ Run(t, "inodes") /\ f.i \notin i_lock
      /\ \/ f.i \notin Inodes /\ Return(t)
         \/ f.i \in i_dirt /\ Call(t, next, Frame("write", NULL, NULL, f.i))
         \/ f.i \in Inodes \ i_dirt /\ Goto(t, next)
      /\ UNCHANGED <<cache, inodes, newer>>

(* write_inode: the inode is locked while its block is read and changed.   *)
WriteInode(t) ==
  LET f == Top(t)
  IN  /\ Run(t, "write") /\ f.i \notin i_lock
      /\ IF f.i \in i_dirt
         THEN /\ i_lock' = i_lock \cup {f.i}
              /\ Call(t, [f EXCEPT !.at = "store"], Frame("bread", InodeBlock[f.i], NULL, 0))
         ELSE Return(t) /\ UNCHANGED i_lock
      /\ UNCHANGED <<cache, i_dirt, newer>>

(* Without its block, write_inode panics: nothing follows.                 *)
Stored(b) == [buf[b] EXCEPT !.dirt = TRUE]

StoreInode(t) ==
  LET f == Top(t)
  IN  /\ Run(t, "store") /\ f.bh # NULL
      /\ Change(f.bh, Stored(f.bh))
      /\ newer' = newer \cup {buf[f.bh].blk}
      /\ i_dirt' = i_dirt \ {f.i}
      /\ Call(t, [f EXCEPT !.at = "unlock"], Frame("brelse", NULL, f.bh, 0))
      /\ UNCHANGED <<free_list, io, i_lock>>

UnlockInode(t) ==
  /\ Run(t, "unlock")
  /\ i_lock' = i_lock \ {Top(t).i}
  /\ Return(t)
  /\ UNCHANGED <<cache, i_dirt, newer>>

-----------------------------------------------------------------------------
(* A task that has to wait gives up the processor: for a locked buffer or  *)
(* inode, or for any buffer.  It may have to wait for a request, when all  *)
(* are in use, or for a page of the user.                                  *)
Waits(t) ==
  LET f == Top(t)
  IN  \/ f.at \in {"hash", "victim", "brelse", "lock", "filled"} /\ buf[f.bh].lock
      \/ f.at \in Range(WaitOf) /\ buf[f.i].lock
      \/ f.at \in {"inodes", "write"} /\ f.i \in i_lock
      \/ f.at = "none"

MaySleep(t) == At(t, "slot") \/ (At(t, "copy") /\ CopySleeps)

Sleep(t) == /\ cpu = t /\ (Waits(t) \/ MaySleep(t))
            /\ cpu' = NoTask
            /\ UNCHANGED <<cache, inodes, stack, held, newer>>

(* What the rest of the file system does, between calls of the cache.      *)
Begin(t, f) == /\ stack[t] = <<>> /\ cpu = NoTask
               /\ f.at \in Ops
               /\ stack' = [stack EXCEPT ![t] = <<f>>]
               /\ cpu' = t
               /\ UNCHANGED <<cache, inodes, held, newer>>

(* A block is new to one user only: nobody else has it or asks for it.     *)
Free(blk) == /\ \A b \in Range(held) \ {NULL} : buf[b].blk # blk
             /\ \A t \in Tasks : \A k \in DOMAIN stack[t] : stack[t][k].blk # blk

Request(t) ==
  /\ held[t] = NULL
  /\ \/ \E blk \in Blocks : \/ Begin(t, Frame("bread", blk, NULL, 0))
                            \/ Begin(t, Frame("breada", blk, NULL, 0))
                            \/ Free(blk) /\ Begin(t, Frame("new", blk, NULL, 0))
     \/ \E i \in i_dirt : Begin(t, Frame("write", NULL, NULL, i))
     \/ /\ "sync" \in Ops /\ stack[t] = <<>> /\ cpu = NoTask
        /\ stack' = [stack EXCEPT ![t] = <<Frame("syncall", NULL, NULL, 1),
                                           Frame("inodes", NULL, NULL, 1)>>]
        /\ cpu' = t
        /\ UNCHANGED <<cache, inodes, held, newer>>

(* new_block: a new block is cleared in memory and never read.             *)
NewBlock(t) ==
  LET f == Top(t)
  IN  \/ /\ Run(t, "new")
         /\ Call(t, [f EXCEPT !.at = "clear"], Frame("getblk", f.blk, NULL, 0))
         /\ UNCHANGED <<cache, inodes, newer>>
      \/ /\ Run(t, "clear")
         /\ Change(f.bh, [buf[f.bh] EXCEPT !.dirt = TRUE, !.uptodate = TRUE])
         /\ newer' = newer \cup {f.blk}
         /\ Goto(t, [f EXCEPT !.at = "brelse"])
         /\ UNCHANGED <<free_list, io, inodes>>

(* The holder of a buffer releases it, or changes the data.                *)
Release(t) ==
  /\ held[t] # NULL /\ stack[t] = <<>> /\ cpu = NoTask
  /\ stack' = [stack EXCEPT ![t] = <<Frame("brelse", NULL, held[t], 0)>>]
  /\ held' = [held EXCEPT ![t] = NULL] /\ cpu' = t
  /\ UNCHANGED <<cache, inodes, newer>>

(* file_write marks the buffer dirty and then copies from user space, and  *)
(* block_write copies and does not mark it at all.  The copy may sleep     *)
(* when the page of the user is not in memory (see CopySleeps).            *)
Write(t) ==
  LET b == held[t]
  IN  /\ b # NULL /\ stack[t] = <<>> /\ cpu = NoTask
      /\ \/ /\ "file_write" \in Ops
            /\ Change(b, [buf[b] EXCEPT !.dirt = TRUE])
         \/ /\ "block_write" \in Ops
            /\ UNCHANGED buf
      /\ stack' = [stack EXCEPT ![t] = <<Frame("copy", NULL, b, 0)>>]
      /\ held' = [held EXCEPT ![t] = NULL] /\ cpu' = t
      /\ UNCHANGED <<free_list, io, inodes, newer>>

Copy(t) ==
  LET f == Top(t)
  IN  /\ Run(t, "copy")
      /\ newer' = newer \cup {buf[f.bh].blk}
      /\ Goto(t, [f EXCEPT !.at = "brelse"])
      /\ UNCHANGED <<cache, inodes>>

ChangeInode(i) == /\ i \notin i_dirt \cup i_lock /\ cpu = NoTask
                  /\ i_dirt' = i_dirt \cup {i}
                  /\ UNCHANGED <<cache, i_lock, stack, held, cpu, newer>>

Continue(t) ==
  \/ Getblk(t) \/ Hash(t) \/ Victim(t) \/ Brelse(t) \/ LockBuffer(t) \/ AddRequest(t)
  \/ Bread(t) \/ Have(t) \/ Filled(t) \/ Breada(t) \/ Drop(t)
  \/ \E pass \in DOMAIN WaitOf : SyncNext(t, pass) \/ SyncBuffer(t, pass)
  \/ SyncInodes(t) \/ WriteInode(t) \/ StoreInode(t) \/ UnlockInode(t)
  \/ NewBlock(t) \/ Copy(t)

Next == \/ \E t \in Tasks : Continue(t) \/ Sleep(t) \/ Request(t) \/ Release(t)
                            \/ Write(t)
        \/ \E b \in Buffers, ok \in BOOLEAN : EndRequest(b, ok)
        \/ \E i \in Inodes : ChangeInode(i)

(* A task that stays ready to run is run (Scheduler!RunnableRuns); one     *)
(* that needs a lock may find it taken each time it looks.  The processor  *)
(* is not left idle, and devices answer.                                   *)
Ready(t) == stack[t] # <<>> /\ ~Waits(t)

Fairness == /\ WF_vars(\E t \in Tasks : Continue(t) \/ Sleep(t))
            /\ \A t \in Tasks : /\ []<>~Ready(t) \/ []<><<Continue(t)>>_vars
                                /\ SF_vars(Release(t))
            /\ \A b \in Buffers : WF_vars(\E ok \in BOOLEAN : EndRequest(b, ok))

Spec == Init /\ [][Next]_vars
FairSpec == Spec /\ Fairness

-----------------------------------------------------------------------------

(* getblk sleeps, in many places, between the search for a block and the   *)
(* use of a buffer for it: yet no block is ever in two buffers.            *)
OneCopy == \A b, c \in Buffers :
             buf[b].blk = buf[c].blk /\ buf[b].blk # NULL => b = c

(* The buffers that a frame has counted in b_count and not given back.     *)
Owned(f) ==
  (IF f.at \in {"hash", "have", "filled", "first", "more", "drop",
                "store", "clear", "copy", "brelse"} THEN {f.bh} ELSE {})
    \cup (IF f.at \in {"more", "drop"} THEN {f.i} ELSE {})

(* The users of b: frames in the stack of a task, or what he held (0).     *)
Places == UNION {{t} \X (0..Len(stack[t])) : t \in Tasks}
Uses(p, b) == IF p[2] = 0 THEN held[p[1]] = b ELSE b \in Owned(stack[p[1]][p[2]])
Users(b) == {p \in Places : Uses(p, b)}

(* b_count is the number of users, over every sleep and every retry of     *)
(* getblk, so "Trying to free free buffer" never happens.                  *)
CountsUsers == \A b \in Buffers : buf[b].count = Cardinality(Users(b))

(* Who has been given a buffer for a block has that block, with its data:  *)
(* getblk hands out an unlocked buffer, bread one that has been read.      *)
RightBlock ==
  \A t \in Tasks :
    /\ At(t, "have") => buf[Top(t).bh].blk = Top(t).blk /\ ~buf[Top(t).bh].lock
    /\ At(t, "filled") => buf[Top(t).bh].blk = Top(t).blk
    /\ held[t] # NULL => buf[held[t]].uptodate

(* Data that is newer than the disk stays in a buffer that is dirty or is  *)
(* being written, and is never read over from the disk.                    *)
WriteUnderWay(b) == io[b] = WRITE \/ buf[b].dirt
NoLostWrite ==
  \A blk \in newer :
    \E b \in find_buffer(blk) : WriteUnderWay(b) /\ io[b] # READ

(* Calls keep returning, however often each has to begin again: the cache  *)
(* as a whole never stops, with a task in it, and never runs in circles.   *)
Busy == \E t \in Tasks : stack[t] # <<>>
Progress == []<>~Busy \/ []<><<\E t \in Tasks : stack[t] # <<>> /\ stack'[t] = <<>>>>_vars

(* inode.c:80: sync_inodes writes the inodes; a locked one is unlocked.    *)
InodesWritten == \A i \in Inodes : (i \in i_lock) ~> (i \notin i_lock)
=============================================================================
