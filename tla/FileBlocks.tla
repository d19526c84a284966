------------------------------ MODULE FileBlocks ------------------------------
(***************************************************************************)
(* The blocks of files: _bmap (fs/inode.c), new_block and free_block       *)
(* (fs/bitmap.c), truncate (fs/truncate.c), and file_read and file_write   *)
(* (fs/file_dev.c) a block at a time, for tasks that share files.          *)
(*                                                                         *)
(* A call runs until it sleeps: for a block to be read, for a locked       *)
(* buffer or in a page fault, its buffer being counted then; and, where    *)
(* buffers are pressed, also before getblk counts one and in brelse.       *)
(***************************************************************************)
EXTENDS Integers, Sequences, FiniteSets, FiniteSetsExt

CONSTANTS Workers, NoWorker,
          Owners,        \* the files
          Zones,         \* the data zones of the device, numbers from 1
          DIRECT, PER,   \* 7 and 512 in the kernel
          BlockCases     \* of [blocks, pressed, shared]: the blocks of files that are used;
                         \* buffers are short and are being written back; a file is
                         \* truncated while others read or write it

VARIABLES
  i_zone,      \* of each file: the direct zones, and the two indirect ones after them
  words,       \* of each zone: the zones in it, as an indirect block
  content,     \* of each zone: which block of which file was written to it
  zmap,        \* the bit map: the zones in use
  b_count,     \* of the buffers of the zones
  work,        \* what each worker does
  turn,        \* who runs in the kernel
  pressing     \* the one of BlockCases that this behaviour is under

blockVars == <<i_zone, words, content, zmap, b_count, work, turn, pressing>>

ASSUME FileBlocksAssumption ==
  /\ NoWorker \notin Workers /\ Zones \subseteq Nat \ {0}
  /\ DIRECT \in Nat \ {0} /\ PER \in Nat \ {0} /\ IsFiniteSet(Workers)
  /\ \A c \in BlockCases : /\ c.blocks \subseteq 0..(DIRECT + PER + PER * PER - 1)
                          /\ c.pressed \in BOOLEAN /\ c.shared \in BOOLEAN

ZoneSlots == 0..(DIRECT + 1)
Single == DIRECT
Double == DIRECT + 1
Words == 0..(PER - 1)
ClearBlock == [w \in Words |-> 0]
None_written == <<>>
Rest == [op |-> "none", at |-> "user", file |-> 0, block |-> 0, path |-> <<>>, bh |-> 0, zone |-> 0,
         slot |-> 0, stack |-> <<>>, busy |-> FALSE]

BlocksRest ==
  /\ i_zone = [f \in Owners |-> [i \in ZoneSlots |-> 0]]
  /\ words = [z \in Zones |-> ClearBlock] /\ content = [z \in Zones |-> None_written]
  /\ zmap = {} /\ b_count = [z \in Zones |-> 0]
  /\ work = [t \in Workers |-> Rest] /\ turn = NoWorker
  /\ pressing \in BlockCases

(* The way to a block: a zone of the inode, and words of indirect blocks.  *)
PathTo(b) ==
  LET s == b - DIRECT  d == b - DIRECT - PER IN
  IF b < DIRECT THEN <<b>>
  ELSE IF s < PER THEN <<Single, s>> ELSE <<Double, d \div PER, d % PER>>

-----------------------------------------------------------------------------
Has_turn(t, where) == turn \in {NoWorker, t} /\ work[t].at = where
Turn(t, c, whose) == work' = [work EXCEPT ![t] = c] /\ turn' \in whose
OnlyPressed(t) == IF pressing.pressed THEN {t, NoWorker} ELSE {t}
Either(t) == {t, NoWorker}
Ends_work(t) == Turn(t, Rest, {NoWorker})
Counted(z) == b_count' = [b_count EXCEPT ![z] = @ + 1]
brelse_(z) == b_count' = IF z = 0 THEN b_count ELSE [b_count EXCEPT ![z] = @ - 1]

AtWork(f) == \E t \in Workers : work[t].op # "none" /\ work[t].file = f
Truncates(f) == \E t \in Workers : work[t].op = "truncate" /\ work[t].file = f
Starts(t) ==
  /\ turn = NoWorker /\ work[t] = Rest
  /\ \E f \in Owners :
       \/ \E op \in {"read", "write"}, b \in pressing.blocks :
            /\ pressing.shared \/ ~Truncates(f)
            /\ Turn(t, [Rest EXCEPT !.op = op, !.at = "map", !.file = f, !.block = b, !.path = PathTo(b)], {t})
       \/ /\ pressing.shared \/ ~AtWork(f)
          /\ Turn(t, [Rest EXCEPT !.op = "truncate", !.at = "cells", !.file = f], {t})
  /\ UNCHANGED <<i_zone, words, content, zmap, b_count, pressing>>

-----------------------------------------------------------------------------
(* _bmap: c.bh is the indirect block whose word is looked at.              *)
Cell(c) == IF c.bh = 0 THEN i_zone[c.file][Head(c.path)] ELSE words[c.bh][Head(c.path)]
Map(t) ==
  /\ Has_turn(t, "map")
  /\ LET c == work[t] IN
       /\ Cell(c) # 0
       /\ Turn(t, [c EXCEPT !.at = "leave", !.zone = Cell(c)], OnlyPressed(t))
  /\ UNCHANGED <<i_zone, words, content, zmap, b_count, pressing>>
(* A hole is not filled for a read, nor when the device is full.           *)
Hole(t) ==
  /\ Has_turn(t, "map")
  /\ LET c == work[t] IN
       /\ Cell(c) = 0 /\ (c.op = "read" \/ Zones \ zmap = {})
       /\ brelse_(c.bh)
  /\ Ends_work(t) /\ UNCHANGED <<i_zone, words, content, zmap, pressing>>

(* new_block sets the bit; after getblk the block is cleared and entered.  *)
NewZone(t) ==
  /\ Has_turn(t, "map")
  /\ LET c == work[t]  z == Min(Zones \ zmap) IN
       /\ Cell(c) = 0 /\ c.op = "write" /\ zmap # Zones
       /\ zmap' = zmap \cup {z}
       /\ Turn(t, [c EXCEPT !.at = "new", !.zone = z], OnlyPressed(t))
  /\ UNCHANGED <<i_zone, words, content, b_count, pressing>>
Entered(c, z) ==
  IF c.bh = 0 THEN /\ i_zone' = [i_zone EXCEPT ![c.file][Head(c.path)] = z]
                   /\ words' = [words EXCEPT ![z] = ClearBlock]
              ELSE /\ words' = [words EXCEPT ![z] = ClearBlock, ![c.bh][Head(c.path)] = z]
                   /\ UNCHANGED i_zone
Enter_new(t) ==
  /\ Has_turn(t, "new")
  /\ LET c == work[t] IN
       /\ Entered(c, c.zone)
       /\ content' = [content EXCEPT ![c.zone] = None_written]
       /\ Turn(t, [c EXCEPT !.at = "leave"], OnlyPressed(t))
  /\ UNCHANGED <<zmap, b_count, pressing>>

(* The indirect block is released, and the zone found is read: the next    *)
(* indirect block, or what is to be copied.                                *)
Leave_indirect(t) ==
  /\ Has_turn(t, "leave")
  /\ brelse_(work[t].bh)
  /\ Turn(t, [work[t] EXCEPT !.at = "get", !.bh = 0], OnlyPressed(t))
  /\ UNCHANGED <<i_zone, words, content, zmap, pressing>>
GetZone(t) ==
  /\ Has_turn(t, "get")
  /\ LET c == work[t] IN
       /\ Counted(c.zone)
       /\ Turn(t, IF Len(c.path) = 1 THEN [c EXCEPT !.at = "copy"]
                  ELSE [c EXCEPT !.at = "map", !.bh = c.zone, !.zone = 0, !.path = Tail(@)], Either(t))
  /\ UNCHANGED <<i_zone, words, content, zmap, pressing>>
CopyBlock(t) ==
  /\ Has_turn(t, "copy")
  /\ LET c == work[t] IN
       /\ brelse_(c.zone)
       /\ content' = IF c.op = "read" THEN content ELSE [content EXCEPT ![c.zone] = <<c.file, c.block>>]
  /\ Ends_work(t) /\ UNCHANGED <<i_zone, words, zmap, pressing>>

-----------------------------------------------------------------------------
(* truncate, free_ind and free_dind: stack holds the indirect blocks whose *)
(* words are gone through, each with the next word and whether one of its  *)
(* blocks was busy.                                                        *)
Top_(c) == Head(c.stack)
CellOf(c) == IF c.stack = <<>> THEN i_zone[c.file][c.slot] ELSE words[Top_(c).zone][Top_(c).word]
Depth(c) == (IF c.slot = Single THEN 1 ELSE IF c.slot = Double THEN 2 ELSE 0) - Len(c.stack)
AtEnd(c) == IF c.stack = <<>> THEN c.slot > Double ELSE Top_(c).word = PER
Advanced(c) == IF c.stack = <<>> THEN [c EXCEPT !.slot = @ + 1] ELSE [c EXCEPT !.stack[1].word = @ + 1]
NotFreed(c) == IF c.stack = <<>> THEN [c EXCEPT !.busy = TRUE] ELSE [c EXCEPT !.stack[1].busy = TRUE]
Goes_through(t, c, whose) == Turn(t, c, whose) /\ UNCHANGED <<i_zone, words, content, zmap, pressing>>

NextCell(t) ==
  /\ Has_turn(t, "cells") /\ ~AtEnd(work[t])
  /\ LET c == work[t]  z == CellOf(c) IN
       \/ z = 0 /\ Goes_through(t, Advanced(c), {t})
       \/ /\ z # 0 /\ Depth(c) = 0
          /\ Goes_through(t, [c EXCEPT !.at = "hash", !.zone = z], {t})
       \/ /\ z # 0 /\ Depth(c) > 0
          /\ Goes_through(t, [c EXCEPT !.at = "indirect", !.zone = z], OnlyPressed(t))
  /\ UNCHANGED b_count
ReadIndirect(t) ==
  /\ Has_turn(t, "indirect")
  /\ LET c == work[t]  b == [zone |-> c.zone, word |-> 0, busy |-> FALSE] IN
       /\ Counted(c.zone)
       /\ Goes_through(t, [c EXCEPT !.at = "cells", !.zone = 0, !.stack = <<b>> \o @], Either(t))
IndirectDone(t) ==
  /\ Has_turn(t, "cells") /\ AtEnd(work[t]) /\ work[t].stack # <<>>
  /\ LET c == work[t]  up == [c EXCEPT !.stack = Tail(@)] IN
       /\ brelse_(Top_(c).zone)
       /\ Goes_through(t, IF Top_(c).busy THEN Advanced(NotFreed(up))
                          ELSE [up EXCEPT !.at = "hash", !.zone = Top_(c).zone], {t})

(* free_block: not while somebody else counts the buffer of the block.     *)
InCache(z) == b_count[z] > 0
LookUp(t) ==
  /\ Has_turn(t, "hash")
  /\ \/ /\ Counted(work[t].zone)
        /\ Turn(t, [work[t] EXCEPT !.at = "free"], Either(t))
     \/ /\ ~InCache(work[t].zone)
        /\ Turn(t, [work[t] EXCEPT !.at = "gone"], {t}) /\ UNCHANGED b_count
  /\ UNCHANGED <<i_zone, words, content, zmap, pressing>>
Busy_not(z) == FALSE    \* mutant: b_count is not looked at
Busy_(z) == b_count[z] > 1
FoundFree(t) ==
  /\ Has_turn(t, "free")
  /\ LET c == work[t] IN
       /\ brelse_(c.zone)
       /\ Goes_through(t, IF Busy_(c.zone) THEN Advanced(NotFreed([c EXCEPT !.at = "cells", !.zone = 0]))
                          ELSE [c EXCEPT !.at = "gone"], {t})
ClearBit(t) ==
  /\ Has_turn(t, "gone")
  /\ LET c == work[t] IN
       /\ zmap' = zmap \ {c.zone}
       /\ IF c.stack = <<>> THEN i_zone' = [i_zone EXCEPT ![c.file][c.slot] = 0] /\ UNCHANGED words
          ELSE words' = [words EXCEPT ![Top_(c).zone][Top_(c).word] = 0] /\ UNCHANGED i_zone
       /\ Turn(t, Advanced([c EXCEPT !.at = "cells", !.zone = 0]), {t})
  /\ UNCHANGED <<content, b_count, pressing>>

(* Once more from the start, if a block was busy.                          *)
TruncateEnds(t) ==
  /\ Has_turn(t, "cells") /\ AtEnd(work[t]) /\ work[t].stack = <<>>
  /\ IF work[t].busy THEN Turn(t, [work[t] EXCEPT !.slot = 0, !.busy = FALSE], {NoWorker})
                     ELSE Ends_work(t)
  /\ UNCHANGED <<i_zone, words, content, zmap, b_count, pressing>>

BlocksNext ==
  \E t \in Workers :
    \/ Starts(t) \/ Map(t) \/ Hole(t) \/ NewZone(t) \/ Enter_new(t) \/ Leave_indirect(t) \/ GetZone(t)
    \/ CopyBlock(t) \/ NextCell(t) \/ ReadIndirect(t) \/ IndirectDone(t) \/ LookUp(t) \/ FoundFree(t)
    \/ ClearBit(t) \/ TruncateEnds(t)
BlocksSpec == BlocksRest /\ [][BlocksNext]_blockVars

-----------------------------------------------------------------------------
(* The references to zones: what refers to them, and where.                *)
FromInodes == {r \in Owners \X ZoneSlots : i_zone[r[1]][r[2]] # 0}
ZonesIn(z) == {<<z, w>> : w \in {v \in Words : z # 0 /\ words[z][v] # 0}}
FromSingles == UNION {ZonesIn(i_zone[f][Single]) : f \in Owners}
FromDoubles == UNION {ZonesIn(i_zone[f][Double]) : f \in Owners}
FromThirds == UNION {ZonesIn(words[r[1]][r[2]]) : r \in FromDoubles}
Refers(z) == Cardinality({r \in FromInodes : i_zone[r[1]][r[2]] = z})
             + Cardinality({r \in FromSingles \cup FromDoubles \cup FromThirds : words[r[1]][r[2]] = z})
WordIn(z, w) == IF z = 0 THEN 0 ELSE words[z][w]
ZoneOf(f, b) ==
  LET p == PathTo(b)  z == i_zone[f][p[1]] IN
  CASE Len(p) = 1 -> z
    [] Len(p) = 2 -> WordIn(z, p[2])
    [] Len(p) = 3 -> WordIn(WordIn(z, p[2]), p[3])

(* The blocks of files stay apart: a zone that a file refers to is marked  *)
(* in the bit map and referred to once, and what is in a block of a file   *)
(* was written to that block.  new_block marks a zone before it sleeps and *)
(* clears it, and truncate leaves a block that another task has in hand.   *)
BlocksApart ==
  /\ \A z \in Zones : Refers(z) <= 1 /\ (Refers(z) = 1 => z \in zmap)
  /\ \A f \in Owners, b \in pressing.blocks :
       LET z == ZoneOf(f, b) IN z # 0 => content[z] \in {None_written, <<f, b>>}
===============================================================================
