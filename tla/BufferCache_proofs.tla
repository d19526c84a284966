--------------------------- MODULE BufferCache_proofs ---------------------------
(***************************************************************************)
(* The block cache, for any tasks, buffers, blocks and inodes, and stacks  *)
(* of any depth: sync_dev may call getblk, which may call sync_dev.        *)
(*                                                                         *)
(* Whoever has a buffer over a sleep relies on b_count: getblk reuses only *)
(* buffers that nobody counts.  So the heart is CountsUsers, and with it   *)
(* which buffer each frame of each stack has, and for which block.         *)
(*                                                                         *)
(* The second half is about the flags and the data, and needs the first:   *)
(* a buffer that somebody counts stays up to date (Right), so that whoever *)
(* looks at it after a sleep finds what he read, and what is newer than    *)
(* the disk is in a buffer that is dirty or being written, which no read   *)
(* of the device and no other block can take (Saved).                      *)
(***************************************************************************)
EXTENDS BufferCache, SequenceTheorems, FiniteSetTheorems, WellFoundedInduction, TLAPS

Heads == [blk : Nat, count : Int, lock : BOOLEAN, dirt : BOOLEAN, uptodate : BOOLEAN]
Labels == {"getblk", "hash", "victim", "none", "bread", "have", "filled", "breada", "first",
           "more", "drop", "new", "clear", "lock", "slot", "sync1", "sync2", "syncall", "wait1",
           "wait2", "waitall", "inodes", "write", "store", "unlock", "copy", "brelse"}
Frames == [at : Labels, blk : Nat, bh : 0..NR_BUFFERS, i : Nat]

Types ==
  /\ io \in [Buffers -> {-1, READ, WRITE}]
  /\ free_list \in Seq(Buffers)
  /\ \A b \in Buffers : \E k \in 1..Len(free_list) : free_list[k] = b
  /\ i_dirt \subseteq Inodes

(* The frames of getblk and of bread, those that wait for a buffer, and    *)
(* those that only the rest of the file system begins.                     *)
GetLabels == {"getblk", "hash", "victim", "none"}
BreadLabels == {"bread", "have", "filled"}
NewLabels == {"have", "first", "clear"}
OutLabels == {"breada", "first", "more", "drop", "new", "clear", "copy"}

(* What each frame has, and besides that the innermost of a stack.         *)
FrameFits(f) ==
  /\ f.at \in {"hash", "victim", "brelse", "lock", "slot", "filled", "more", "copy"}
       => f.bh \in Buffers
  /\ f.at \in {"more", "drop", "wait1", "wait2", "waitall"} => f.i \in Buffers
  /\ f.at = "more" => f.bh = f.i
  /\ f.at \in {"lock", "slot"} => f.i \in {READ, WRITE}
  /\ f.at = "write" => f.i \in Inodes
  /\ f.at \in {"bread", "breada", "new", "write"} => f.bh = NULL
TopFits(f) ==
  /\ f.at \in NewLabels => f.bh \in Buffers
  /\ f.at = "drop" => f.bh \in Buffers \ {f.i}

(* What f has while it waits for the return of g.                          *)
Over(f, g) ==
  /\ g.at \notin OutLabels
  /\ f.at \in NewLabels \cup {"drop"} <=> g.at \in GetLabels
  /\ f.at = "store" => g.at \in BreadLabels \cup {"brelse"}
  /\ g.at \in BreadLabels => f.at = "store"
  /\ g.at = "brelse" => f.at \in {"store", "unlock"}
  /\ f.at \in NewLabels \cup {"store"} => f.bh = NULL
  /\ f.at \in NewLabels => g.blk = f.blk
  /\ f.at = "drop" => f.bh = f.i /\ g.blk # f.blk
  /\ f.at \notin {"slot", "copy"}

Fits(s) ==
  \A k \in 1..Len(s) :
    /\ FrameFits(s[k])
    /\ k = 1 => s[k].at \notin GetLabels
    /\ k < Len(s) => Over(s[k], s[k + 1])
    /\ k = Len(s) => TopFits(s[k])

(* Who has a buffer for a block has that block.                            *)
RightIn(bufs, f) ==
  /\ f.at \in NewLabels \cup {"filled", "more"} /\ f.bh \in Buffers => bufs[f.bh].blk = f.blk
  /\ f.at \in {"more", "drop"} => bufs[f.i].blk = f.blk

(* Elsewhere than here, a task that has begun is the one that runs.        *)
SleepLabels == {"hash", "victim", "brelse", "lock", "filled", "wait1", "wait2", "waitall",
                "inodes", "write", "none", "getblk", "slot", "copy"}

(* The place k of a stack, or 0 for what its task holds, uses b.           *)
One(yes) == IF yes THEN 1 ELSE 0
UseAt(st, has, k, b) == k \in 0..Len(st) /\ IF k = 0 THEN has = b ELSE b \in Owned(st[k])
UsersIn(s, h, b) == {p \in Tasks \X Nat : UseAt(s[p[1]], h[p[1]], p[2], b)}
Count(s, h, b) == Cardinality(UsersIn(s, h, b))

(* The stacks s, what is held h, and the buffer heads bufs belong together. *)
Agree(s, h, bufs) ==
  /\ s \in [Tasks -> Seq(Frames)]
  /\ h \in [Tasks -> 0..NR_BUFFERS]
  /\ bufs \in [Buffers -> Heads]
  /\ \A t \in Tasks : h[t] # NULL => s[t] = <<>>
  /\ \A t \in Tasks : Fits(s[t])
  /\ \A t \in Tasks : \A k \in 1..Len(s[t]) : RightIn(bufs, s[t][k])
  /\ \A b \in Buffers : bufs[b].count = Count(s, h, b)

Asleep == \A t \in Tasks : stack[t] # <<>> /\ cpu # t => Top(t).at \in SleepLabels

(* The inductive invariant for OneCopy and CountsUsers.                    *)
IInv == Types /\ Agree(stack, held, buf) /\ Asleep /\ OneCopy

-----------------------------------------------------------------------------
(* Numbers have a least one: the order of the intervals 0..x is that of    *)
(* their sets, which the library shows to be well-founded.                 *)
LEMMA Smallest ==
  ASSUME NEW T, T \subseteq Nat, T # {}
  PROVE  \E x \in T : \A y \in T : x <= y
<1> DEFINE Below == {0..x : x \in T}
           R == StrictSubsetOrdering(Nat)
<1>1. Below \subseteq FiniteSubsetsOf(Nat)
  <2> SUFFICES ASSUME NEW x \in T PROVE 0..x \in FiniteSubsetsOf(Nat)
    OBVIOUS
  <2>1. 0 \in Int /\ x \in Int /\ 0..x \subseteq Nat
    OBVIOUS
  <2>2. IsFiniteSet(0..x)
    BY <2>1, FS_Interval
  <2> QED BY <2>1, <2>2 DEF FiniteSubsetsOf
<1>2. IsWellFoundedOn(R, FiniteSubsetsOf(Nat))
  BY FS_StrictSubsetOrderingWellFounded
<1>3. PICK B \in Below : \A C \in Below : <<C, B>> \notin R
  <2> HIDE DEF R, Below
  <2>1. Below # {}
    BY DEF Below
  <2> QED BY <1>1, <1>2, <2>1, WFMin
<1>4. PICK x \in T : B = 0..x
  BY <1>3
<1>5. \A y \in T : ~ (y < x)
  <2> SUFFICES ASSUME NEW y \in T, y < x PROVE FALSE
    OBVIOUS
  <2>1. 0..y \subseteq 0..x /\ x \in 0..x /\ x \notin 0..y
    OBVIOUS
  <2>2. <<0..y, B>> \in R
    BY <2>1, <1>4 DEF StrictSubsetOrdering
  <2>3. 0..y \in Below
    OBVIOUS
  <2> QED BY <2>2, <2>3, <1>3
<1> QED BY <1>5

LEMMA MinIsLeast ==
  ASSUME NEW T, T \subseteq Nat, T # {}
  PROVE  Min(T) \in T
<1>1. \E x \in T : \A y \in T : x =< y
  BY Smallest
<1> QED BY <1>1 DEF Min

-----------------------------------------------------------------------------
(* The stack operations: a stack of n frames that is not empty.            *)
LEMMA FrontOf ==
  ASSUME NEW S, NEW s \in Seq(S), s # <<>>
  PROVE  /\ Len(s) \in Nat \ {0} /\ Last(s) = s[Len(s)] /\ Last(s) \in S
         /\ Front(s) \in Seq(S) /\ Len(Front(s)) = Len(s) - 1
         /\ \A k \in 1..(Len(s) - 1) : Front(s)[k] = s[k]
<1>1. Len(s) \in Nat \ {0}
  BY EmptySeq
<1>2. \A k \in 1..(Len(s) - 1) : s[k] \in S
  BY <1>1, ElementOfSeq
<1>3. Last(s) = s[Len(s)] /\ Last(s) \in S
  BY <1>1, ElementOfSeq DEF Last
<1> DEFINE n == Len(s) - 1
           front == SubSeq(s, 1, n)
<1>4. n \in Int /\ 1 \in Int /\ \A k \in 1..n : s[k] \in S
  BY <1>1, <1>2
<1> HIDE DEF n
<1>5. /\ front \in Seq(S) /\ Len(front) = IF 1 <= n THEN n - 1 + 1 ELSE 0
      /\ \A k \in 1..(n - 1 + 1) : front[k] = s[1 + k - 1]
  BY <1>4, SubSeqProperties
<1> HIDE DEF front
<1>6. \A k \in 1..n : front[k] = s[k]
  <2> SUFFICES ASSUME NEW k \in 1..n PROVE front[k] = s[k]
    OBVIOUS
  <2>1. k \in 1..(n - 1 + 1) /\ 1 + k - 1 = k
    BY <1>4
  <2> QED BY <2>1, <1>5
<1>7. Len(front) = n
  <2>1. n \in Nat
    BY <1>1 DEF n
  <2>2. Len(front) = IF 1 <= n THEN n - 1 + 1 ELSE 0
    BY <1>5
  <2> QED BY <2>1, <2>2
<1>8. Front(s) = front
  BY DEF Front, front, n
<1> QED BY <1>1, <1>3, <1>5, <1>6, <1>7, <1>8 DEF n

LEMMA Replaced ==
  ASSUME NEW S, NEW s \in Seq(S), s # <<>>, NEW f \in S
  PROVE  LET new == Append(Front(s), f)
         IN  /\ new \in Seq(S) /\ Len(new) = Len(s)
             /\ \A k \in 1..(Len(s) - 1) : new[k] = s[k]
             /\ new[Len(s)] = f
<1>1. /\ Append(Front(s), f) \in Seq(S)
      /\ Len(Append(Front(s), f)) = Len(Front(s)) + 1
      /\ \A k \in 1..Len(Front(s)) : Append(Front(s), f)[k] = Front(s)[k]
      /\ Append(Front(s), f)[Len(Front(s)) + 1] = f
  BY FrontOf, AppendProperties
<1> QED BY <1>1, FrontOf

LEMMA Called ==
  ASSUME NEW S, NEW s \in Seq(S), s # <<>>, NEW f \in S, NEW g \in S
  PROVE  LET new == Front(s) \o <<f, g>>
         IN  /\ new \in Seq(S) /\ Len(new) = Len(s) + 1
             /\ \A k \in 1..(Len(s) - 1) : new[k] = s[k]
             /\ new[Len(s)] = f /\ new[Len(s) + 1] = g
<1> DEFINE two == <<f, g>>
<1>1. two \in Seq(S) /\ Len(two) = 2 /\ two[1] = f /\ two[2] = g
  OBVIOUS
<1> DEFINE front == Front(s)
           new == front \o two
<1>2. /\ Len(s) \in Nat \ {0} /\ front \in Seq(S) /\ Len(front) = Len(s) - 1
      /\ \A k \in 1..(Len(s) - 1) : front[k] = s[k]
  BY FrontOf
<1> HIDE DEF two, front
<1>3. /\ new \in Seq(S)
      /\ Len(new) = Len(front) + Len(two)
      /\ \A k \in 1..(Len(front) + Len(two)) :
            new[k] = IF k <= Len(front) THEN front[k] ELSE two[k - Len(front)]
  BY <1>1, <1>2, ConcatProperties
<1> HIDE DEF new
<1>4. Len(new) = Len(s) + 1 /\ \A k \in 1..(Len(s) - 1) : new[k] = s[k]
  BY <1>1, <1>2, <1>3
<1>5. new[Len(s)] = two[1] /\ new[Len(s) + 1] = two[2]
  BY <1>1, <1>2, <1>3
<1>6. new = Front(s) \o <<f, g>>
  BY DEF new, front, two
<1> QED BY <1>1, <1>3, <1>4, <1>5, <1>6

(* The buffer that a call returns is put into the frame of its caller.     *)
LEMMA Given ==
  ASSUME NEW s \in Seq(Frames), Len(s) > 1, NEW b \in 0..NR_BUFFERS
  PROVE  LET n == Len(s) - 1
             new == [Front(s) EXCEPT ![n].bh = b]
         IN  /\ Len(Front(s)) = n /\ n \in Nat \ {0}
             /\ new \in Seq(Frames) /\ Len(new) = n
             /\ \A k \in 1..(n - 1) : new[k] = s[k]
             /\ s[n] \in Frames /\ new[n] = [s[n] EXCEPT !.bh = b] /\ new[n] \in Frames
<1> DEFINE n == Len(s) - 1
           f == [s[n] EXCEPT !.bh = b]
<1>1. s # <<>>
  <2>1. Len(<<>>) = 0
    OBVIOUS
  <2> QED BY <2>1
<1>2. /\ n \in Nat \ {0} /\ Front(s) \in Seq(Frames) /\ Len(Front(s)) = n
      /\ \A k \in 1..n : Front(s)[k] = s[k]
  <2>1. Len(s) \in Nat \ {0} /\ Front(s) \in Seq(Frames) /\ Len(Front(s)) = Len(s) - 1
        /\ \A k \in 1..(Len(s) - 1) : Front(s)[k] = s[k]
    BY <1>1, FrontOf
  <2> QED BY <2>1
<1>3. s[n] \in Frames
  BY <1>2, ElementOfSeq
<1>4. f \in Frames
  BY <1>3 DEF Frames
<1>5. [Front(s) EXCEPT ![n].bh = b] = [Front(s) EXCEPT ![n] = f]
  <2>1. Front(s)[n] = s[n]
    BY <1>2
  <2> QED BY <2>1
<1> HIDE DEF f
<1>6. /\ [Front(s) EXCEPT ![n] = f] \in Seq(Frames) /\ Len([Front(s) EXCEPT ![n] = f]) = n
      /\ \A k \in 1..n : [Front(s) EXCEPT ![n] = f][k] = IF k = n THEN f ELSE Front(s)[k]
  <2>1. n \in 1..Len(Front(s))
    BY <1>2
  <2> HIDE DEF n
  <2> QED BY <1>2, <1>4, <2>1, ExceptSeq
<1> DEFINE new == [Front(s) EXCEPT ![n] = f]
<1>7. new \in Seq(Frames) /\ Len(new) = n
  BY <1>6
<1>8. \A k \in 1..(n - 1) : new[k] = s[k]
  <2> SUFFICES ASSUME NEW k \in 1..(n - 1) PROVE new[k] = s[k]
    OBVIOUS
  <2>1. k \in 1..n /\ k # n
    BY <1>2
  <2> HIDE DEF n
  <2> QED BY <2>1, <1>2, <1>6
<1>9. new[n] = f
  BY <1>2, <1>6
<1>10. new = [Front(s) EXCEPT ![n].bh = b]
  BY <1>5
<1> HIDE DEF new
<1> QED BY <1>2, <1>3, <1>4, <1>7, <1>8, <1>9, <1>10 DEF f

-----------------------------------------------------------------------------
(* An operation changes the uses at one or two places of one task.         *)
LEMMA UsersAreThese ==
  ASSUME stack \in [Tasks -> Seq(Frames)], NEW b
  PROVE  Users(b) = UsersIn(stack, held, b)
<1>1. \A t \in Tasks : Len(stack[t]) \in Nat
  BY LenProperties
<1>2. ASSUME NEW p \in Users(b) PROVE p \in UsersIn(stack, held, b)
  <2>1. PICK t \in Tasks : p \in {t} \X (0..Len(stack[t]))
    BY DEF Users, Places
  <2>2. p \in Tasks \X Nat /\ p[1] = t /\ p[2] \in 0..Len(stack[t])
    BY <1>1, <2>1
  <2> QED BY <2>2, <1>2 DEF Users, Uses, UsersIn, UseAt
<1>3. ASSUME NEW p \in UsersIn(stack, held, b) PROVE p \in Users(b)
  <2>1. p \in Tasks \X Nat /\ UseAt(stack[p[1]], held[p[1]], p[2], b)
    BY DEF UsersIn
  <2>2. p \in {p[1]} \X (0..Len(stack[p[1]]))
    BY <2>1 DEF UseAt
  <2>3. p \in Places
    BY <2>1, <2>2 DEF Places
  <2> QED BY <2>1, <2>3 DEF Users, Uses, UseAt
<1> QED BY <1>2, <1>3

LEMMA FinitelyMany ==
  ASSUME NEW s \in [Tasks -> Seq(Frames)], NEW h, NEW b
  PROVE  IsFiniteSet(UsersIn(s, h, b)) /\ Count(s, h, b) \in Nat
<1> DEFINE row == [t \in Tasks |-> {t} \X (0..Len(s[t]))]
           rows == {row[t] : t \in Tasks}
<1>1. IsFiniteSet(rows)
  <2>1. row \in Surjection(Tasks, rows)
    BY DEF Surjection
  <2>2. IsFiniteSet(Tasks)
    BY CacheAssumption
  <2> HIDE DEF row, rows
  <2> QED BY <2>1, <2>2, FS_Surjection
<1>2. \A r \in rows : IsFiniteSet(r)
  <2> SUFFICES ASSUME NEW t \in Tasks PROVE IsFiniteSet({t} \X (0..Len(s[t])))
    OBVIOUS
  <2>1. 0 \in Int /\ Len(s[t]) \in Int
    BY LenProperties
  <2>2. IsFiniteSet({t}) /\ IsFiniteSet(0..Len(s[t]))
    BY <2>1, FS_Singleton, FS_Interval
  <2> QED BY <2>2, FS_Product
<1>3. IsFiniteSet(UNION rows)
  <2> HIDE DEF rows
  <2> QED BY <1>1, <1>2, FS_UNION
<1>4. UsersIn(s, h, b) \subseteq UNION rows
  <2> SUFFICES ASSUME NEW p \in UsersIn(s, h, b) PROVE p \in UNION rows
    OBVIOUS
  <2>1. p \in Tasks \X Nat /\ p[2] \in 0..Len(s[p[1]])
    BY DEF UsersIn, UseAt
  <2>2. p \in {p[1]} \X (0..Len(s[p[1]])) /\ p[1] \in Tasks
    BY <2>1
  <2> QED BY <2>2
<1> HIDE DEF rows
<1>5. IsFiniteSet(UsersIn(s, h, b))
  BY <1>3, <1>4, FS_Subset
<1> QED BY <1>5, FS_CardinalityType DEF Count

LEMMA TwoPlaces ==
  ASSUME NEW S, NEW T, NEW x, NEW y, IsFiniteSet(S), IsFiniteSet(T), x # y,
         \A z : z # x /\ z # y => (z \in S <=> z \in T)
  PROVE  Cardinality(T) = Cardinality(S) - One(x \in S) - One(y \in S)
                                         + One(x \in T) + One(y \in T)
<1> DEFINE Rest(U) == (U \ {x}) \ {y}
<1>1. ASSUME NEW U, IsFiniteSet(U)
      PROVE  /\ Cardinality(U) \in Nat
             /\ Cardinality(Rest(U)) = Cardinality(U) - One(x \in U) - One(y \in U)
  <2>1. Cardinality(U) \in Nat
    BY <1>1, FS_CardinalityType
  <2>2. /\ IsFiniteSet(U \ {x})
        /\ Cardinality(U \ {x}) = IF x \in U THEN Cardinality(U) - 1 ELSE Cardinality(U)
    BY <1>1, FS_RemoveElement
  <2>3. Cardinality(Rest(U)) = IF y \in U \ {x} THEN Cardinality(U \ {x}) - 1 ELSE Cardinality(U \ {x})
    BY <2>2, FS_RemoveElement
  <2>4. y \in U \ {x} <=> y \in U
    OBVIOUS
  <2> QED BY <2>1, <2>2, <2>3, <2>4 DEF One
<1>2. Rest(S) = Rest(T)
  OBVIOUS
<1>3. /\ Cardinality(S) \in Nat
      /\ Cardinality(Rest(S)) = Cardinality(S) - One(x \in S) - One(y \in S)
  BY <1>1
<1>4. /\ Cardinality(T) \in Nat
      /\ Cardinality(Rest(T)) = Cardinality(T) - One(x \in T) - One(y \in T)
  BY <1>1
<1> HIDE DEF Rest
<1> QED BY <1>2, <1>3, <1>4 DEF One

-----------------------------------------------------------------------------
(* What an operation may do to the heads: the buffers in lost are counted  *)
(* once less, those in gained once more, and only an unused buffer is      *)
(* given to another block.                                                 *)
Recount(bufs, bufs2, lost, gained) ==
  /\ bufs2 \in [Buffers -> Heads]
  /\ \A b \in Buffers :
       /\ bufs2[b].blk = bufs[b].blk \/ bufs[b].count = 0
       /\ bufs2[b].count = bufs[b].count - One(b \in lost) + One(b \in gained)

LEMMA OwnedIsCounted ==
  ASSUME NEW s, NEW h, NEW bufs, Agree(s, h, bufs), NEW t \in Tasks, NEW k \in 1..Len(s[t]),
         NEW b \in Buffers, b \in Owned(s[t][k])
  PROVE  bufs[b].count # 0
<1>1. s \in [Tasks -> Seq(Frames)] /\ Len(s[t]) \in Nat
  BY LenProperties DEF Agree
<1>2. <<t, k>> \in UsersIn(s, h, b)
  BY <1>1 DEF UsersIn, UseAt
<1>3. IsFiniteSet(UsersIn(s, h, b))
  BY <1>1, FinitelyMany
<1>4. Count(s, h, b) # 0
  BY <1>2, <1>3, FS_EmptySet DEF Count
<1> QED BY <1>4 DEF Agree

LEMMA RightStays ==
  ASSUME NEW s, NEW h, NEW bufs, NEW bufs2, NEW lost, NEW gained,
         Agree(s, h, bufs), Recount(bufs, bufs2, lost, gained),
         NEW t \in Tasks, NEW k \in 1..Len(s[t])
  PROVE  RightIn(bufs2, s[t][k])
<1> DEFINE f == s[t][k]
<1>1. RightIn(bufs, f) /\ FrameFits(f)
  BY DEF Agree, Fits
<1>2. \A b \in Buffers : b \in Owned(f) => bufs2[b].blk = bufs[b].blk
  BY OwnedIsCounted DEF Recount
<1> HIDE DEF f
<1>3. f.at \in NewLabels \cup {"filled", "more"} => f.bh \in Owned(f)
  BY DEF NewLabels, Owned
<1>4. f.at \in {"more", "drop"} => f.i \in Owned(f) /\ f.i \in Buffers
  BY <1>1 DEF FrameFits, Owned
<1>5. RightIn(bufs2, f)
  BY <1>1, <1>2, <1>3, <1>4 DEF RightIn
<1> QED BY <1>5 DEF f

(* A task with the stack st that holds had goes on with new and has: its   *)
(* uses change at the places m and n.                                      *)
UsesMove(st, had, new, has, lost, gained, m, n) ==
  /\ m \in Nat /\ n \in Nat /\ m # n
  /\ \A b \in Buffers :
       /\ \A k \in Nat : k \notin {m, n} => (UseAt(new, has, k, b) <=> UseAt(st, had, k, b))
       /\ One(UseAt(new, has, m, b)) + One(UseAt(new, has, n, b)) + One(b \in lost)
            = One(UseAt(st, had, m, b)) + One(UseAt(st, had, n, b)) + One(b \in gained)

StackStep(st, had, new, has, bufs, bufs2, lost, gained) ==
  /\ new \in Seq(Frames) /\ has \in 0..NR_BUFFERS /\ (has # NULL => new = <<>>)
  /\ Fits(new) /\ \A k \in 1..Len(new) : RightIn(bufs2, new[k])
  /\ Recount(bufs, bufs2, lost, gained)
  /\ \E m, n \in Nat : UsesMove(st, had, new, has, lost, gained, m, n)

LEMMA StackStepKeeps ==
  ASSUME NEW s, NEW h, NEW bufs, NEW bufs2, NEW lost, NEW gained, Agree(s, h, bufs),
         NEW t \in Tasks, NEW new, NEW has,
         StackStep(s[t], h[t], new, has, bufs, bufs2, lost, gained)
  PROVE  Agree([s EXCEPT ![t] = new], [h EXCEPT ![t] = has], bufs2)
<1> DEFINE s2 == [s EXCEPT ![t] = new]
           h2 == [h EXCEPT ![t] = has]
<1>0. /\ new \in Seq(Frames) /\ has \in 0..NR_BUFFERS /\ (has # NULL => new = <<>>)
      /\ Fits(new) /\ (\A k \in 1..Len(new) : RightIn(bufs2, new[k]))
      /\ Recount(bufs, bufs2, lost, gained)
  BY DEF StackStep
<1>1. s \in [Tasks -> Seq(Frames)] /\ h \in [Tasks -> 0..NR_BUFFERS]
  BY DEF Agree
<1>2. /\ s2 \in [Tasks -> Seq(Frames)] /\ s2[t] = new /\ \A u \in Tasks \ {t} : s2[u] = s[u]
      /\ h2 \in [Tasks -> 0..NR_BUFFERS] /\ h2[t] = has /\ \A u \in Tasks \ {t} : h2[u] = h[u]
  BY <1>0, <1>1
<1> HIDE DEF s2, h2
<1>3. \A u \in Tasks : \A k \in 1..Len(s2[u]) : RightIn(bufs2, s2[u][k])
  <2> SUFFICES ASSUME NEW u \in Tasks, NEW k \in 1..Len(s2[u]) PROVE RightIn(bufs2, s2[u][k])
    OBVIOUS
  <2>1. CASE u = t
    BY <1>0, <1>2, <2>1
  <2>2. CASE u # t
    <3>1. s2[u] = s[u] /\ k \in 1..Len(s[u])
      BY <1>2, <2>2
    <3> QED BY <1>0, <3>1, RightStays
  <2> QED BY <2>1, <2>2
<1>4. ASSUME NEW b \in Buffers PROVE bufs2[b].count = Count(s2, h2, b)
  <2>1. PICK m \in Nat, n \in Nat :
          /\ m # n
          /\ \A k \in Nat : k \notin {m, n} => (UseAt(new, has, k, b) <=> UseAt(s[t], h[t], k, b))
          /\ One(UseAt(new, has, m, b)) + One(UseAt(new, has, n, b)) + One(b \in lost)
               = One(UseAt(s[t], h[t], m, b)) + One(UseAt(s[t], h[t], n, b)) + One(b \in gained)
    BY DEF StackStep, UsesMove
  <2>2. /\ Count(s, h, b) \in Nat
        /\ Count(s2, h2, b) =
             Count(s, h, b) - One(UseAt(s[t], h[t], m, b)) - One(UseAt(s[t], h[t], n, b))
                            + One(UseAt(new, has, m, b)) + One(UseAt(new, has, n, b))
    <3> DEFINE S == UsersIn(s, h, b)
               T == UsersIn(s2, h2, b)
               x == <<t, m>>
               y == <<t, n>>
    <3>1. IsFiniteSet(S) /\ IsFiniteSet(T) /\ Count(s, h, b) \in Nat
      BY <1>1, <1>2, FinitelyMany
    <3>2. x # y
      BY <2>1
    <3>3. ASSUME NEW z, z # x, z # y PROVE z \in S <=> z \in T
      <4>1. CASE z \in Tasks \X Nat
        <5>1. z = <<z[1], z[2]>> /\ z[1] \in Tasks /\ z[2] \in Nat
          BY <4>1
        <5>2. z[1] # t \/ z[2] \notin {m, n}
          BY <3>3, <5>1
        <5>3. UseAt(s2[z[1]], h2[z[1]], z[2], b) <=> UseAt(s[z[1]], h[z[1]], z[2], b)
          BY <1>2, <2>1, <5>1, <5>2
        <5> QED BY <4>1, <5>3 DEF UsersIn
      <4>2. CASE z \notin Tasks \X Nat
        BY <4>2 DEF UsersIn
      <4> QED BY <4>1, <4>2
    <3>4. /\ x \in S <=> UseAt(s[t], h[t], m, b)
          /\ y \in S <=> UseAt(s[t], h[t], n, b)
          /\ x \in T <=> UseAt(new, has, m, b)
          /\ y \in T <=> UseAt(new, has, n, b)
      <4>1. x \in Tasks \X Nat /\ y \in Tasks \X Nat /\ x[1] = t /\ x[2] = m /\ y[1] = t /\ y[2] = n
        OBVIOUS
      <4> QED BY <1>2, <4>1 DEF UsersIn
    <3> HIDE DEF S, T, x, y
    <3>5. Cardinality(T) = Cardinality(S) - One(x \in S) - One(y \in S) + One(x \in T) + One(y \in T)
      BY <3>1, <3>2, <3>3, TwoPlaces
    <3>6. Count(s, h, b) = Cardinality(S) /\ Count(s2, h2, b) = Cardinality(T)
      BY DEF Count, S, T
    <3>7. /\ One(x \in S) = One(UseAt(s[t], h[t], m, b))
          /\ One(y \in S) = One(UseAt(s[t], h[t], n, b))
          /\ One(x \in T) = One(UseAt(new, has, m, b))
          /\ One(y \in T) = One(UseAt(new, has, n, b))
      BY <3>4, Zenon DEF One
    <3> QED BY <3>1, <3>5, <3>6, <3>7
  <2>3. bufs[b].count = Count(s, h, b)
    BY DEF Agree
  <2>4. bufs2[b].count = bufs[b].count - One(b \in lost) + One(b \in gained)
    BY <1>0 DEF Recount
  <2> DEFINE new1 == One(UseAt(new, has, m, b))
             new2 == One(UseAt(new, has, n, b))
             old1 == One(UseAt(s[t], h[t], m, b))
             old2 == One(UseAt(s[t], h[t], n, b))
             less == One(b \in lost)
             more == One(b \in gained)
             sum == Count(s, h, b)
  <2>6. /\ less \in Int /\ more \in Int /\ new1 \in Int /\ new2 \in Int
        /\ old1 \in Int /\ old2 \in Int /\ sum \in Int
    BY <2>2 DEF One
  <2>7. /\ Count(s2, h2, b) = sum - old1 - old2 + new1 + new2
        /\ bufs2[b].count = sum - less + more
        /\ new1 + new2 + less = old1 + old2 + more
    BY <2>1, <2>2, <2>3, <2>4
  <2> HIDE DEF new1, new2, old1, old2, less, more, sum
  <2> QED BY <2>6, <2>7
<1>5. Agree(s2, h2, bufs2)
  <2>1. bufs2 \in [Buffers -> Heads]
    BY <1>0 DEF Recount
  <2>2. \A u \in Tasks : h2[u] # NULL => s2[u] = <<>>
    BY <1>0, <1>2 DEF Agree
  <2>3. \A u \in Tasks : Fits(s2[u])
    BY <1>0, <1>2 DEF Agree
  <2> QED BY <1>2, <1>3, <1>4, <2>1, <2>2, <2>3 DEF Agree
<1> QED BY <1>5 DEF s2, h2

(* A stack whose first j frames are those of st.                           *)
Above(st, new, j) == /\ new \in Seq(Frames) /\ j \in Nat /\ j <= Len(st) /\ j <= Len(new)
                     /\ \A k \in 1..j : new[k] = st[k]

LEMMA FitsAbove ==
  ASSUME NEW st \in Seq(Frames), NEW new, NEW j, Above(st, new, j), Fits(st),
         j < Len(new) => \/ j = 0 /\ new[1].at \notin GetLabels
                         \/ j > 0 /\ Over(st[j], new[j + 1]),
         j = Len(new) => j = 0 \/ TopFits(st[j]),
         \A k \in (j + 1)..Len(new) : /\ FrameFits(new[k])
                                      /\ k < Len(new) => Over(new[k], new[k + 1])
                                      /\ k = Len(new) => TopFits(new[k])
  PROVE  Fits(new)
<1>1. /\ Len(st) \in Nat /\ Len(new) \in Nat
      /\ j \in Nat /\ j <= Len(st) /\ j <= Len(new) /\ \A k \in 1..j : new[k] = st[k]
  BY LenProperties DEF Above
<1> SUFFICES ASSUME NEW k \in 1..Len(new)
             PROVE  /\ FrameFits(new[k])
                    /\ k = 1 => new[k].at \notin GetLabels
                    /\ k < Len(new) => Over(new[k], new[k + 1])
                    /\ k = Len(new) => TopFits(new[k])
  BY DEF Fits
<1>2. CASE k <= j
  <2>1. k \in 1..Len(st) /\ new[k] = st[k] /\ (k < j => new[k + 1] = st[k + 1])
    BY <1>1, <1>2
  <2>2. /\ FrameFits(st[k])
        /\ k = 1 => st[k].at \notin GetLabels
        /\ k < Len(st) => Over(st[k], st[k + 1])
    BY <2>1 DEF Fits
  <2> QED BY <1>1, <1>2, <2>1, <2>2
<1>3. CASE k > j
  <2>1. k \in (j + 1)..Len(new)
    BY <1>1, <1>3
  <2>2. k = 1 => j = 0
    BY <1>1, <1>3
  <2> QED BY <1>1, <2>1, <2>2
<1> QED BY <1>1, <1>2, <1>3

LEMMA RightAbove ==
  ASSUME NEW s, NEW h, NEW bufs, NEW bufs2, NEW lost, NEW gained,
         Agree(s, h, bufs), Recount(bufs, bufs2, lost, gained),
         NEW t \in Tasks, NEW new, NEW j, Above(s[t], new, j),
         \A k \in (j + 1)..Len(new) : RightIn(bufs2, new[k])
  PROVE  \A k \in 1..Len(new) : RightIn(bufs2, new[k])
<1>1. /\ Len(s[t]) \in Nat /\ Len(new) \in Nat
      /\ j \in Nat /\ j <= Len(s[t]) /\ \A k \in 1..j : new[k] = s[t][k]
  BY LenProperties DEF Agree, Above
<1> SUFFICES ASSUME NEW k \in 1..Len(new) PROVE RightIn(bufs2, new[k])
  OBVIOUS
<1>2. CASE k <= j
  <2>1. k \in 1..Len(s[t]) /\ new[k] = s[t][k]
    BY <1>1, <1>2
  <2> QED BY <2>1, RightStays
<1>3. CASE k > j
  BY <1>1, <1>3
<1> QED BY <1>1, <1>2, <1>3

LEMMA UsesAbove ==
  ASSUME NEW st \in Seq(Frames), NEW new, NEW j, Above(st, new, j), NEW b \in Buffers, NEW has,
         NEW k \in Nat, k <= j \/ (k > Len(st) /\ k > Len(new))
  PROVE  UseAt(new, has, k, b) <=> UseAt(st, has, k, b)
<1>1. /\ Len(st) \in Nat /\ Len(new) \in Nat
      /\ j \in Nat /\ j <= Len(st) /\ j <= Len(new) /\ \A i \in 1..j : new[i] = st[i]
  BY LenProperties DEF Above
<1>2. CASE k <= j
  <2>1. k \in 0..Len(st) /\ k \in 0..Len(new) /\ (k # 0 => k \in 1..j)
    BY <1>1, <1>2
  <2> QED BY <1>1, <2>1 DEF UseAt
<1>3. CASE k > Len(st) /\ k > Len(new)
  BY <1>1, <1>3 DEF UseAt
<1> QED BY <1>2, <1>3

(* The innermost frame goes on as f.                                       *)
Follows(f, top) ==
  /\ FrameFits(f) /\ TopFits(f)
  /\ top.at \notin GetLabels => f.at \notin GetLabels
  /\ \A caller : Over(caller, top) => Over(caller, f)

LEMMA GotoKeeps ==
  ASSUME NEW s, NEW h, NEW bufs, NEW bufs2, Agree(s, h, bufs),
         NEW t \in Tasks, s[t] # <<>>, NEW f \in Frames, Follows(f, Last(s[t])),
         RightIn(bufs2, f), Recount(bufs, bufs2, Owned(Last(s[t])), Owned(f))
  PROVE  Agree([s EXCEPT ![t] = Append(Front(s[t]), f)], h, bufs2)
<1> DEFINE new == Append(Front(s[t]), f)
           n == Len(s[t])
           j == n - 1
<1>1. s \in [Tasks -> Seq(Frames)] /\ s[t] \in Seq(Frames)
  BY DEF Agree
<1>2. n \in Nat \ {0} /\ Last(s[t]) = s[t][n]
  BY <1>1, FrontOf
<1>3. new \in Seq(Frames) /\ Len(new) = n /\ (\A k \in 1..(n - 1) : new[k] = s[t][k]) /\ new[n] = f
  BY <1>1, Replaced
<1> HIDE DEF new, n, j
<1>4. h \in [Tasks -> 0..NR_BUFFERS] /\ h[t] = NULL
  BY DEF Agree
<1>5. Fits(new)
  <2>1. Fits(s[t]) /\ FrameFits(f) /\ TopFits(f)
    BY DEF Agree, Follows
  <2>2. n = 1 => f.at \notin GetLabels
    BY <1>2, <2>1 DEF Fits, Follows, n
  <2>3. j > 0 => Over(s[t][j], f)
    <3>1. j > 0 => j \in 1..n /\ j < n /\ j + 1 = n
      BY <1>2 DEF j
    <3> QED BY <1>2, <2>1, <3>1 DEF Fits, Follows, n
  <2>4. j \in Nat /\ j + 1 = n /\ Above(s[t], new, j)
    BY <1>2, <1>3 DEF Above, j, n
  <2> QED BY <1>1, <1>2, <1>3, <2>1, <2>2, <2>3, <2>4, FitsAbove
<1>6. \A k \in 1..Len(new) : RightIn(bufs2, new[k])
  <2>1. j \in Nat /\ j + 1 = n /\ Above(s[t], new, j)
    BY <1>2, <1>3 DEF Above, j, n
  <2>2. \A k \in (j + 1)..Len(new) : RightIn(bufs2, new[k])
    BY <1>3, <2>1
  <2>3. Agree(s, h, bufs) /\ Recount(bufs, bufs2, Owned(Last(s[t])), Owned(f))
    OBVIOUS
  <2> QED BY <2>1, <2>2, <2>3, RightAbove
<1>7. n + 1 \in Nat /\ n \in Nat /\ n # n + 1
  BY <1>2
<1>8. ASSUME NEW b \in Buffers
      PROVE  /\ \A k \in Nat : k \notin {n, n + 1} =>
                  (UseAt(new, NULL, k, b) <=> UseAt(s[t], NULL, k, b))
             /\ One(UseAt(new, NULL, n, b)) + One(UseAt(new, NULL, n + 1, b))
                  + One(b \in Owned(Last(s[t])))
                  = One(UseAt(s[t], NULL, n, b)) + One(UseAt(s[t], NULL, n + 1, b))
                      + One(b \in Owned(f))
  <2>1. /\ UseAt(s[t], NULL, n, b) <=> b \in Owned(Last(s[t]))
        /\ UseAt(new, NULL, n, b) <=> b \in Owned(f)
        /\ ~UseAt(s[t], NULL, n + 1, b) /\ ~UseAt(new, NULL, n + 1, b)
    BY <1>2, <1>3 DEF UseAt, n
  <2>2. ASSUME NEW k \in Nat, k \notin {n, n + 1}
        PROVE  UseAt(new, NULL, k, b) <=> UseAt(s[t], NULL, k, b)
    <3>1. j \in Nat /\ j + 1 = n /\ Above(s[t], new, j) /\ Len(s[t]) = n
      BY <1>2, <1>3 DEF Above, j, n
    <3>2. k <= j \/ (k > Len(s[t]) /\ k > Len(new))
      BY <1>2, <1>3, <2>2, <3>1
    <3> QED BY <1>1, <3>1, <3>2, UsesAbove
  <2>3. /\ One(UseAt(s[t], NULL, n, b)) = One(b \in Owned(Last(s[t])))
        /\ One(UseAt(new, NULL, n, b)) = One(b \in Owned(f))
        /\ One(UseAt(s[t], NULL, n + 1, b)) = 0 /\ One(UseAt(new, NULL, n + 1, b)) = 0
    BY <2>1, Zenon DEF One
  <2>4. \A P : One(P) \in Int
    BY DEF One
  <2> QED BY <2>2, <2>3, <2>4
<1>9. StackStep(s[t], h[t], new, NULL, bufs, bufs2, Owned(Last(s[t])), Owned(f))
  <2>1. NULL \in 0..NR_BUFFERS
    BY CacheAssumption DEF NULL
  <2>2. UsesMove(s[t], h[t], new, NULL, Owned(Last(s[t])), Owned(f), n, n + 1)
    BY <1>4, <1>7, <1>8 DEF UsesMove
  <2> QED BY <1>3, <1>5, <1>6, <1>7, <2>1, <2>2 DEF StackStep
<1>10. [h EXCEPT ![t] = NULL] = h
  BY <1>4
<1>11. Agree([s EXCEPT ![t] = new], [h EXCEPT ![t] = NULL], bufs2)
  BY <1>9, StackStepKeeps
<1> QED BY <1>10, <1>11 DEF new

(* ... as f, and has called g.                                             *)
LEMMA CallKeeps ==
  ASSUME NEW s, NEW h, NEW bufs, NEW bufs2, Agree(s, h, bufs),
         NEW t \in Tasks, s[t] # <<>>, NEW f \in Frames, NEW g \in Frames,
         FrameFits(f), Last(s[t]).at \notin GetLabels => f.at \notin GetLabels,
         \A caller : Over(caller, Last(s[t])) => Over(caller, f),
         Over(f, g), FrameFits(g), TopFits(g), RightIn(bufs2, f), RightIn(bufs2, g),
         Owned(f) \cap Owned(g) \cap Buffers = {},
         Recount(bufs, bufs2, Owned(Last(s[t])), Owned(f) \cup Owned(g))
  PROVE  Agree([s EXCEPT ![t] = Front(s[t]) \o <<f, g>>], h, bufs2)
<1> DEFINE new == Front(s[t]) \o <<f, g>>
           n == Len(s[t])
           j == n - 1
           m == n + 1
<1>1. s \in [Tasks -> Seq(Frames)] /\ s[t] \in Seq(Frames)
  BY DEF Agree
<1>2. n \in Nat \ {0} /\ Last(s[t]) = s[t][n]
  BY <1>1, FrontOf
<1>3. /\ new \in Seq(Frames) /\ Len(new) = m /\ (\A k \in 1..j : new[k] = s[t][k])
      /\ new[n] = f /\ new[m] = g
  BY <1>1, Called
<1>4. h \in [Tasks -> 0..NR_BUFFERS] /\ h[t] = NULL
  BY DEF Agree
<1>5. /\ j \in Nat /\ j + 1 = n /\ m \in Nat /\ m = n + 1 /\ n # m /\ Len(s[t]) = n
      /\ Above(s[t], new, j)
  BY <1>2, <1>3 DEF Above
<1> HIDE DEF new, n, j, m
<1>6. Fits(new)
  <2>1. Fits(s[t])
    BY DEF Agree
  <2>2. j = 0 => f.at \notin GetLabels
    BY <1>2, <1>5, <2>1 DEF Fits
  <2>3. j > 0 => Over(s[t][j], f)
    <3>1. j > 0 => j \in 1..n /\ j < n
      BY <1>2, <1>5
    <3> QED BY <1>2, <1>5, <2>1, <3>1 DEF Fits
  <2>4. \A k \in (j + 1)..Len(new) : k = n \/ k = m
    BY <1>2, <1>3, <1>5
  <2>5. j < Len(new) /\ n < Len(new)
    BY <1>2, <1>3, <1>5
  <2>6. \A k \in (j + 1)..Len(new) : /\ FrameFits(new[k])
                                     /\ k < Len(new) => Over(new[k], new[k + 1])
                                     /\ k = Len(new) => TopFits(new[k])
    BY <1>3, <1>5, <2>4, <2>5
  <2>7. /\ j < Len(new) => \/ j = 0 /\ new[1].at \notin GetLabels
                           \/ j > 0 /\ Over(s[t][j], new[j + 1])
        /\ j = Len(new) => j = 0 \/ TopFits(s[t][j])
    BY <1>3, <1>5, <2>2, <2>3, <2>5
  <2> QED BY <1>1, <1>5, <2>1, <2>6, <2>7, FitsAbove, Zenon
<1>7. \A k \in 1..Len(new) : RightIn(bufs2, new[k])
  <2>1. \A k \in (j + 1)..Len(new) : k = n \/ k = m
    BY <1>2, <1>3, <1>5
  <2>2. \A k \in (j + 1)..Len(new) : RightIn(bufs2, new[k])
    BY <1>3, <2>1
  <2>3. Agree(s, h, bufs) /\ Recount(bufs, bufs2, Owned(Last(s[t])), Owned(f) \cup Owned(g))
    OBVIOUS
  <2> QED BY <1>5, <2>2, <2>3, RightAbove
<1>8. ASSUME NEW b \in Buffers
      PROVE  /\ \A k \in Nat : k \notin {n, m} =>
                  (UseAt(new, NULL, k, b) <=> UseAt(s[t], NULL, k, b))
             /\ One(UseAt(new, NULL, n, b)) + One(UseAt(new, NULL, m, b))
                  + One(b \in Owned(Last(s[t])))
                  = One(UseAt(s[t], NULL, n, b)) + One(UseAt(s[t], NULL, m, b))
                      + One(b \in Owned(f) \cup Owned(g))
  <2>1. /\ UseAt(s[t], NULL, n, b) <=> b \in Owned(Last(s[t]))
        /\ UseAt(new, NULL, n, b) <=> b \in Owned(f)
        /\ ~UseAt(s[t], NULL, m, b)
        /\ UseAt(new, NULL, m, b) <=> b \in Owned(g)
    BY <1>2, <1>3, <1>5 DEF UseAt
  <2>2. ASSUME NEW k \in Nat, k \notin {n, m}
        PROVE  UseAt(new, NULL, k, b) <=> UseAt(s[t], NULL, k, b)
    <3>1. k <= j \/ (k > Len(s[t]) /\ k > Len(new))
      BY <1>2, <1>3, <1>5, <2>2
    <3> QED BY <1>1, <1>5, <3>1, UsesAbove
  <2>3. One(UseAt(new, NULL, n, b)) + One(UseAt(new, NULL, m, b))
          = One(b \in Owned(f) \cup Owned(g))
    BY <2>1 DEF One
  <2>4. /\ One(UseAt(s[t], NULL, n, b)) = One(b \in Owned(Last(s[t])))
        /\ One(UseAt(s[t], NULL, m, b)) = 0
    BY <2>1, Zenon DEF One
  <2>5. \A P : One(P) \in Int
    BY DEF One
  <2> QED BY <2>2, <2>3, <2>4, <2>5
<1>9. StackStep(s[t], h[t], new, NULL, bufs, bufs2, Owned(Last(s[t])), Owned(f) \cup Owned(g))
  <2>1. NULL \in 0..NR_BUFFERS
    BY CacheAssumption DEF NULL
  <2>2. UsesMove(s[t], h[t], new, NULL, Owned(Last(s[t])), Owned(f) \cup Owned(g), n, m)
    BY <1>2, <1>4, <1>5, <1>8 DEF UsesMove
  <2>3. n \in Nat /\ m \in Nat
    BY <1>2, <1>5
  <2> QED BY <1>3, <1>6, <1>7, <2>1, <2>2, <2>3 DEF StackStep
<1>10. [h EXCEPT ![t] = NULL] = h
  BY <1>4
<1>11. Agree([s EXCEPT ![t] = new], [h EXCEPT ![t] = NULL], bufs2)
  BY <1>9, StackStepKeeps
<1> QED BY <1>10, <1>11 DEF new

(* The frame p, whose call of top returns b.                               *)
LEMMA GivenFrame ==
  ASSUME NEW p \in Frames, NEW top \in Frames, NEW bufs2, Over(p, top), FrameFits(p),
         RightIn(bufs2, p), NEW b \in 0..NR_BUFFERS,
         \/ /\ b \in Buffers
            /\ top.at \in BreadLabels \/ (top.at \in GetLabels /\ bufs2[b].blk = top.blk)
         \/ b = NULL /\ top.at = "brelse",
         NEW q, q = [p EXCEPT !.bh = b]
  PROVE  /\ q \in Frames /\ FrameFits(q) /\ TopFits(q) /\ RightIn(bufs2, q)
         /\ q.at = p.at
         /\ \A caller : Over(caller, p) => Over(caller, q)
         /\ \A c \in Buffers : One(c \in Owned(q)) = One(c \in Owned(p)) + One(c \in {b})
<1>1. /\ q \in Frames /\ q.at = p.at /\ q.blk = p.blk /\ q.bh = b /\ q.i = p.i
      /\ p.bh \in 0..NR_BUFFERS
  BY DEF Frames
<1>2. \A caller : Over(caller, p) => Over(caller, q)
  BY <1>1 DEF Over
<1>3. NULL \notin Buffers /\ NULL = 0
  BY CacheAssumption DEF NULL, Buffers
<1>4. CASE b \in Buffers /\ top.at \in GetLabels /\ bufs2[b].blk = top.blk
  <2>1. CASE p.at = "drop"
    <3>1. p.bh = p.i /\ top.blk # p.blk /\ p.i \in Buffers /\ bufs2[p.i].blk = p.blk
      BY <2>1 DEF Over, FrameFits, RightIn
    <3>2. b # p.i
      BY <1>4, <3>1
    <3>3. Owned(p) = {p.i} /\ Owned(q) = {b, p.i}
      BY <1>1, <2>1, <3>1 DEF Owned
    <3>4. FrameFits(q) /\ TopFits(q) /\ RightIn(bufs2, q)
      BY <1>1, <1>4, <2>1, <3>1, <3>2 DEF FrameFits, TopFits, RightIn, NewLabels
    <3> QED BY <1>1, <1>2, <3>2, <3>3, <3>4 DEF One
  <2>2. CASE p.at \in NewLabels
    <3>1. p.bh = NULL /\ top.blk = p.blk
      BY <2>2 DEF Over
    <3>2. \A c \in Buffers : c \notin Owned(p) /\ (c \in Owned(q) <=> c = b)
      BY <1>1, <1>3, <2>2, <3>1 DEF Owned, NewLabels
    <3>3. FrameFits(q) /\ TopFits(q) /\ RightIn(bufs2, q)
      BY <1>1, <1>4, <2>2, <3>1 DEF FrameFits, TopFits, RightIn, NewLabels
    <3>4. \A c \in Buffers : One(c \in Owned(q)) = One(c \in Owned(p)) + One(c \in {b})
      BY <3>2 DEF One
    <3> QED BY <1>1, <1>2, <3>3, <3>4
  <2> QED BY <1>4, <2>1, <2>2 DEF Over
<1>5. CASE (b \in Buffers /\ top.at \in BreadLabels) \/ (b = NULL /\ top.at = "brelse")
  <2>1. p.at = "store" \/ (p.at = "unlock" /\ b = NULL)
    BY <1>5 DEF Over, BreadLabels
  <2>2. p.at = "store" => p.bh = NULL
    BY DEF Over
  <2>3. \A c \in Buffers : c \notin Owned(p) /\ (c \in Owned(q) <=> c = b)
    BY <1>1, <1>3, <2>1, <2>2 DEF Owned
  <2>4. FrameFits(q) /\ TopFits(q) /\ RightIn(bufs2, q)
    BY <1>1, <2>1 DEF FrameFits, TopFits, RightIn, NewLabels
  <2>5. \A c \in Buffers : One(c \in Owned(q)) = One(c \in Owned(p)) + One(c \in {b})
    BY <2>3 DEF One
  <2> QED BY <1>1, <1>2, <2>4, <2>5
<1> QED BY <1>4, <1>5

(* A call returns b to its caller ...                                      *)
LEMMA GiveKeeps ==
  ASSUME NEW s, NEW h, NEW bufs, NEW bufs2, Agree(s, h, bufs),
         NEW t \in Tasks, Len(s[t]) > 1, NEW b \in 0..NR_BUFFERS,
         \/ /\ b \in Buffers
            /\ \/ Last(s[t]).at \in BreadLabels
               \/ Last(s[t]).at \in GetLabels /\ bufs2[b].blk = Last(s[t]).blk
         \/ b = NULL /\ Last(s[t]).at = "brelse",
         Recount(bufs, bufs2, Owned(Last(s[t])), {b})
  PROVE  Agree([s EXCEPT ![t] = [Front(s[t]) EXCEPT ![Len(Front(s[t]))].bh = b]], h, bufs2)
<1> DEFINE n == Len(s[t])
           m == n - 1
           j == n - 2
           p == s[t][m]
           q == [p EXCEPT !.bh = b]
           new == [Front(s[t]) EXCEPT ![m].bh = b]
<1>1. s \in [Tasks -> Seq(Frames)] /\ s[t] \in Seq(Frames) /\ n \in Nat /\ n > 1 /\ Len(s[t]) = n
  BY LenProperties DEF Agree
<1>2. s[t] # <<>>
  <2>1. Len(<<>>) = 0
    OBVIOUS
  <2> QED BY <1>1, <2>1
<1>3. Last(s[t]) = s[t][n] /\ Last(s[t]) \in Frames
  BY <1>1, <1>2, FrontOf
<1>4. /\ Len(Front(s[t])) = m /\ m \in Nat \ {0} /\ new \in Seq(Frames) /\ Len(new) = m
      /\ (\A k \in 1..(m - 1) : new[k] = s[t][k]) /\ p \in Frames /\ new[m] = q
  BY <1>1, Given
<1>5. h \in [Tasks -> 0..NR_BUFFERS] /\ h[t] = NULL
  BY <1>2 DEF Agree
<1>6. /\ j \in Nat /\ m \in Nat /\ j + 1 = m /\ m + 1 = n /\ m - 1 = j /\ n # m
      /\ m \in 1..n /\ n \in 1..n
  BY <1>1
<1>7. Above(s[t], new, j)
  BY <1>1, <1>4, <1>6 DEF Above
<1> HIDE DEF new, n, m, j
<1>8. Over(p, Last(s[t])) /\ FrameFits(p) /\ RightIn(bufs2, p)
  <2>1. Over(p, Last(s[t])) /\ FrameFits(p)
    <3>1. Fits(s[t]) /\ m \in 1..Len(s[t]) /\ m < Len(s[t]) /\ s[t][m + 1] = Last(s[t])
      BY <1>1, <1>3, <1>6 DEF Agree
    <3> QED BY <3>1 DEF Fits
  <2> QED BY <1>1, <1>6, <2>1, RightStays
<1>9. /\ q \in Frames /\ FrameFits(q) /\ TopFits(q) /\ RightIn(bufs2, q) /\ q.at = p.at
      /\ \A caller : Over(caller, p) => Over(caller, q)
      /\ \A c \in Buffers : One(c \in Owned(q)) = One(c \in Owned(p)) + One(c \in {b})
  <2>1. \/ /\ b \in Buffers
           /\ \/ Last(s[t]).at \in BreadLabels
              \/ Last(s[t]).at \in GetLabels /\ bufs2[b].blk = Last(s[t]).blk
        \/ b = NULL /\ Last(s[t]).at = "brelse"
    OBVIOUS
  <2>2. q = [p EXCEPT !.bh = b]
    OBVIOUS
  <2> HIDE DEF p, q
  <2>3. p \in Frames /\ Last(s[t]) \in Frames
    BY <1>3, <1>4
  <2> QED BY <1>8, <2>1, <2>2, <2>3, GivenFrame
<1> HIDE DEF q
<1>10. Fits(new)
  <2>1. Fits(s[t])
    BY DEF Agree
  <2>2. j = 0 => q.at \notin GetLabels
    BY <1>1, <1>6, <1>9, <2>1 DEF Fits
  <2>3. j > 0 => Over(s[t][j], q)
    <3>1. j > 0 => j \in 1..n /\ j < n
      BY <1>6
    <3> QED BY <1>1, <1>6, <1>9, <2>1, <3>1 DEF Fits
  <2>4. \A k \in (j + 1)..Len(new) : k = m /\ k = Len(new)
    BY <1>4, <1>6
  <2>5. \A k \in (j + 1)..Len(new) : /\ FrameFits(new[k])
                                     /\ k < Len(new) => Over(new[k], new[k + 1])
                                     /\ k = Len(new) => TopFits(new[k])
    BY <1>4, <1>6, <1>9, <2>4
  <2>6. /\ j < Len(new) => \/ j = 0 /\ new[1].at \notin GetLabels
                           \/ j > 0 /\ Over(s[t][j], new[j + 1])
        /\ j = Len(new) => j = 0 \/ TopFits(s[t][j])
    BY <1>4, <1>6, <2>2, <2>3
  <2> QED BY <1>1, <1>7, <2>1, <2>5, <2>6, FitsAbove, Zenon
<1>11. \A k \in 1..Len(new) : RightIn(bufs2, new[k])
  <2>1. \A k \in (j + 1)..Len(new) : k = m
    BY <1>4, <1>6
  <2>2. \A k \in (j + 1)..Len(new) : RightIn(bufs2, new[k])
    BY <1>4, <1>9, <2>1
  <2>3. Agree(s, h, bufs) /\ Recount(bufs, bufs2, Owned(Last(s[t])), {b})
    OBVIOUS
  <2> QED BY <1>7, <2>2, <2>3, RightAbove
<1>12. UsesMove(s[t], h[t], new, NULL, Owned(Last(s[t])), {b}, m, n)
  <2> SUFFICES ASSUME NEW c \in Buffers
               PROVE  /\ \A k \in Nat : k \notin {m, n} =>
                          (UseAt(new, NULL, k, c) <=> UseAt(s[t], NULL, k, c))
                      /\ One(UseAt(new, NULL, m, c)) + One(UseAt(new, NULL, n, c))
                           + One(c \in Owned(Last(s[t])))
                           = One(UseAt(s[t], NULL, m, c)) + One(UseAt(s[t], NULL, n, c))
                               + One(c \in {b})
    BY <1>1, <1>5, <1>6 DEF UsesMove
  <2>1. /\ UseAt(s[t], NULL, n, c) <=> c \in Owned(Last(s[t]))
        /\ UseAt(s[t], NULL, m, c) <=> c \in Owned(p)
        /\ UseAt(new, NULL, m, c) <=> c \in Owned(q)
        /\ ~UseAt(new, NULL, n, c)
    BY <1>1, <1>3, <1>4, <1>6 DEF UseAt
  <2>2. ASSUME NEW k \in Nat, k \notin {m, n}
        PROVE  UseAt(new, NULL, k, c) <=> UseAt(s[t], NULL, k, c)
    <3>1. k <= j \/ (k > Len(s[t]) /\ k > Len(new))
      BY <1>1, <1>4, <1>6, <2>2
    <3> QED BY <1>1, <1>7, <3>1, UsesAbove
  <2>3. /\ One(UseAt(s[t], NULL, n, c)) = One(c \in Owned(Last(s[t])))
        /\ One(UseAt(s[t], NULL, m, c)) = One(c \in Owned(p))
        /\ One(UseAt(new, NULL, m, c)) = One(c \in Owned(q))
        /\ One(UseAt(new, NULL, n, c)) = 0
    BY <2>1, Zenon DEF One
  <2>4. \A P : One(P) \in Int
    BY DEF One
  <2> QED BY <1>9, <2>2, <2>3, <2>4
<1>13. StackStep(s[t], h[t], new, NULL, bufs, bufs2, Owned(Last(s[t])), {b})
  <2>1. NULL \in 0..NR_BUFFERS
    BY CacheAssumption DEF NULL
  <2> QED BY <1>1, <1>4, <1>6, <1>10, <1>11, <1>12, <2>1 DEF StackStep
<1>14. [h EXCEPT ![t] = NULL] = h
  BY <1>5
<1>15. Agree([s EXCEPT ![t] = new], [h EXCEPT ![t] = NULL], bufs2)
  BY <1>13, StackStepKeeps
<1> QED BY <1>4, <1>14, <1>15 DEF new

(* ... or only returns.                                                    *)
LEMMA ReturnKeeps ==
  ASSUME NEW s, NEW h, NEW bufs, NEW bufs2, Agree(s, h, bufs),
         NEW t \in Tasks, Len(s[t]) > 1,
         Last(s[t]).at \notin GetLabels,
         Recount(bufs, bufs2, Owned(Last(s[t])), {NULL})
  PROVE  Agree([s EXCEPT ![t] = Front(s[t])], h, bufs2)
<1> DEFINE n == Len(s[t])
           j == n - 1
           new == Front(s[t])
           m == n + 1
<1>1. s \in [Tasks -> Seq(Frames)] /\ s[t] \in Seq(Frames) /\ n \in Nat /\ n > 1 /\ Len(s[t]) = n
  BY LenProperties DEF Agree
<1>2. s[t] # <<>>
  <2>1. Len(<<>>) = 0
    OBVIOUS
  <2> QED BY <1>1, <2>1
<1>3. /\ Last(s[t]) = s[t][n] /\ Last(s[t]) \in Frames /\ new \in Seq(Frames) /\ Len(new) = j
      /\ \A k \in 1..j : new[k] = s[t][k]
  BY <1>1, <1>2, FrontOf
<1>4. h \in [Tasks -> 0..NR_BUFFERS] /\ h[t] = NULL
  BY <1>2 DEF Agree
<1>5. j \in Nat \ {0} /\ m \in Nat /\ j + 1 = n /\ n + 1 = m /\ n # m /\ j \in 1..n
  <2> HIDE DEF n
  <2> QED BY <1>1
<1>6. Above(s[t], new, j)
  BY <1>1, <1>3, <1>5 DEF Above
<1> HIDE DEF new, n, m, j
<1>7. Fits(new)
  <2>1. Fits(s[t])
    BY DEF Agree
  <2>2. TopFits(s[t][j])
    <3>1. Over(s[t][j], Last(s[t]))
      BY <1>1, <1>3, <1>5, <2>1 DEF Fits
    <3> QED BY <3>1 DEF Over, TopFits
  <2>3. \A k \in (j + 1)..Len(new) : FALSE
    BY <1>3, <1>5
  <2>4. ~(j < Len(new))
    BY <1>3, <1>5
  <2> QED BY <1>1, <1>6, <2>1, <2>2, <2>3, <2>4, FitsAbove, Zenon
<1>8. \A k \in 1..Len(new) : RightIn(bufs2, new[k])
  <2>1. \A k \in (j + 1)..Len(new) : RightIn(bufs2, new[k])
    BY <1>3, <1>5
  <2>2. Agree(s, h, bufs) /\ Recount(bufs, bufs2, Owned(Last(s[t])), {NULL})
    OBVIOUS
  <2> QED BY <1>6, <2>1, <2>2, RightAbove
<1>9. UsesMove(s[t], h[t], new, NULL, Owned(Last(s[t])), {NULL}, n, m)
  <2> SUFFICES ASSUME NEW c \in Buffers
               PROVE  /\ \A k \in Nat : k \notin {n, m} =>
                          (UseAt(new, NULL, k, c) <=> UseAt(s[t], NULL, k, c))
                      /\ One(UseAt(new, NULL, n, c)) + One(UseAt(new, NULL, m, c))
                           + One(c \in Owned(Last(s[t])))
                           = One(UseAt(s[t], NULL, n, c)) + One(UseAt(s[t], NULL, m, c))
                               + One(c \in {NULL})
    BY <1>1, <1>4, <1>5 DEF UsesMove
  <2>1. /\ UseAt(s[t], NULL, n, c) <=> c \in Owned(Last(s[t]))
        /\ ~UseAt(s[t], NULL, m, c) /\ ~UseAt(new, NULL, m, c) /\ ~UseAt(new, NULL, n, c)
        /\ c \notin {NULL}
    BY <1>1, <1>3, <1>5, CacheAssumption DEF UseAt, Buffers, NULL
  <2>2. ASSUME NEW k \in Nat, k \notin {n, m}
        PROVE  UseAt(new, NULL, k, c) <=> UseAt(s[t], NULL, k, c)
    <3>1. k <= j \/ (k > Len(s[t]) /\ k > Len(new))
      BY <1>1, <1>3, <1>5, <2>2
    <3> QED BY <1>1, <1>6, <3>1, UsesAbove
  <2>3. /\ One(UseAt(s[t], NULL, n, c)) = One(c \in Owned(Last(s[t])))
        /\ One(UseAt(s[t], NULL, m, c)) = 0 /\ One(c \in {NULL}) = 0
        /\ One(UseAt(new, NULL, n, c)) = 0 /\ One(UseAt(new, NULL, m, c)) = 0
    BY <2>1, Zenon DEF One
  <2>4. \A P : One(P) \in Int
    BY DEF One
  <2> QED BY <2>2, <2>3, <2>4
<1>10. StackStep(s[t], h[t], new, NULL, bufs, bufs2, Owned(Last(s[t])), {NULL})
  <2>1. NULL \in 0..NR_BUFFERS
    BY CacheAssumption DEF NULL
  <2> QED BY <1>1, <1>3, <1>5, <1>7, <1>8, <1>9, <2>1 DEF StackStep
<1>11. [h EXCEPT ![t] = NULL] = h
  BY <1>4
<1>12. Agree([s EXCEPT ![t] = new], [h EXCEPT ![t] = NULL], bufs2)
  BY <1>10, StackStepKeeps
<1> QED BY <1>11, <1>12 DEF new

(* The outermost call returns: its task holds b, or nothing.               *)
LEMMA LeaveKeeps ==
  ASSUME NEW s, NEW h, NEW bufs, NEW bufs2, Agree(s, h, bufs),
         NEW t \in Tasks, Len(s[t]) = 1, NEW b \in 0..NR_BUFFERS,
         Recount(bufs, bufs2, Owned(Last(s[t])), {b})
  PROVE  Agree([s EXCEPT ![t] = Front(s[t])], [h EXCEPT ![t] = b], bufs2)
<1>1. s[t] \in Seq(Frames)
  BY DEF Agree
<1>2. s[t] # <<>>
  <2>1. Len(<<>>) = 0 /\ 0 # 1
    OBVIOUS
  <2> QED BY <2>1, Zenon
<1>3. Last(s[t]) = s[t][1] /\ Front(s[t]) \in Seq(Frames) /\ Len(Front(s[t])) = 0
  <2> DEFINE n == Len(s[t])
  <2>1. /\ Last(s[t]) = s[t][n] /\ Front(s[t]) \in Seq(Frames) /\ Len(Front(s[t])) = n - 1
        /\ n = 1
    BY <1>1, <1>2, FrontOf
  <2> HIDE DEF n
  <2> QED BY <2>1
<1>4. Front(s[t]) = <<>>
  BY <1>3, EmptySeq
<1>5. h[t] = NULL
  BY <1>2 DEF Agree
<1>6. Fits(<<>>) /\ \A k \in 1..Len(<<>>) : RightIn(bufs2, <<>>[k])
  BY DEF Fits
<1>7. UsesMove(s[t], h[t], <<>>, b, Owned(Last(s[t])), {b}, 0, 1)
  <2> SUFFICES ASSUME NEW c \in Buffers
               PROVE  /\ \A k \in Nat : k \notin {0, 1} =>
                          (UseAt(<<>>, b, k, c) <=> UseAt(s[t], NULL, k, c))
                      /\ One(UseAt(<<>>, b, 0, c)) + One(UseAt(<<>>, b, 1, c))
                           + One(c \in Owned(Last(s[t])))
                           = One(UseAt(s[t], NULL, 0, c)) + One(UseAt(s[t], NULL, 1, c))
                               + One(c \in {b})
    BY <1>5 DEF UsesMove
  <2>1. /\ \A k \in Nat : k \notin {0, 1} =>
             (UseAt(<<>>, b, k, c) <=> UseAt(s[t], NULL, k, c))
        /\ UseAt(<<>>, b, 0, c) <=> c \in {b}
        /\ ~UseAt(<<>>, b, 1, c) /\ ~UseAt(s[t], NULL, 0, c)
        /\ UseAt(s[t], NULL, 1, c) <=> c \in Owned(Last(s[t]))
    BY <1>3, CacheAssumption DEF UseAt, Buffers, NULL
  <2>2. /\ One(UseAt(<<>>, b, 0, c)) = One(c \in {b})
        /\ One(UseAt(s[t], NULL, 1, c)) = One(c \in Owned(Last(s[t])))
        /\ One(UseAt(<<>>, b, 1, c)) = 0 /\ One(UseAt(s[t], NULL, 0, c)) = 0
    BY <2>1, Zenon DEF One
  <2>3. \A P : One(P) \in Int
    BY DEF One
  <2> QED BY <2>1, <2>2, <2>3
<1>8. StackStep(s[t], h[t], <<>>, b, bufs, bufs2, Owned(Last(s[t])), {b})
  <2>1. <<>> \in Seq(Frames)
    OBVIOUS
  <2> QED BY <1>6, <1>7, <2>1 DEF StackStep
<1> QED BY <1>4, <1>8, StackStepKeeps

(* A task begins a call, with the buffer it held or without.               *)
LEMMA BeginKeeps ==
  ASSUME NEW s, NEW h, NEW bufs, NEW bufs2, Agree(s, h, bufs),
         NEW t \in Tasks, s[t] = <<>>, NEW f \in Frames,
         FrameFits(f), TopFits(f), f.at \notin GetLabels, RightIn(bufs2, f),
         Recount(bufs, bufs2, {h[t]}, Owned(f))
  PROVE  Agree([s EXCEPT ![t] = <<f>>], [h EXCEPT ![t] = NULL], bufs2)
<1>1. <<f>> \in Seq(Frames) /\ Len(<<f>>) = 1 /\ <<f>>[1] = f
  OBVIOUS
<1>2. Fits(<<f>>) /\ \A k \in 1..Len(<<f>>) : RightIn(bufs2, <<f>>[k])
  BY <1>1 DEF Fits
<1>3. UsesMove(s[t], h[t], <<f>>, NULL, {h[t]}, Owned(f), 0, 1)
  <2> SUFFICES ASSUME NEW c \in Buffers
               PROVE  /\ \A k \in Nat : k \notin {0, 1} =>
                          (UseAt(<<f>>, NULL, k, c) <=> UseAt(<<>>, h[t], k, c))
                      /\ One(UseAt(<<f>>, NULL, 0, c)) + One(UseAt(<<f>>, NULL, 1, c))
                           + One(c \in {h[t]})
                           = One(UseAt(<<>>, h[t], 0, c)) + One(UseAt(<<>>, h[t], 1, c))
                               + One(c \in Owned(f))
    BY DEF UsesMove
  <2>1. /\ \A k \in Nat : k \notin {0, 1} =>
             (UseAt(<<f>>, NULL, k, c) <=> UseAt(<<>>, h[t], k, c))
        /\ UseAt(<<>>, h[t], 0, c) <=> c \in {h[t]}
        /\ ~UseAt(<<>>, h[t], 1, c) /\ ~UseAt(<<f>>, NULL, 0, c)
        /\ UseAt(<<f>>, NULL, 1, c) <=> c \in Owned(f)
    BY <1>1, CacheAssumption DEF UseAt, Buffers, NULL
  <2>2. /\ One(UseAt(<<>>, h[t], 0, c)) = One(c \in {h[t]})
        /\ One(UseAt(<<f>>, NULL, 1, c)) = One(c \in Owned(f))
        /\ One(UseAt(<<>>, h[t], 1, c)) = 0 /\ One(UseAt(<<f>>, NULL, 0, c)) = 0
    BY <2>1, Zenon DEF One
  <2>3. \A P : One(P) \in Int
    BY DEF One
  <2> QED BY <2>1, <2>2, <2>3
<1>4. StackStep(s[t], h[t], <<f>>, NULL, bufs, bufs2, {h[t]}, Owned(f))
  <2>1. NULL \in 0..NR_BUFFERS
    BY CacheAssumption DEF NULL
  <2> QED BY <1>1, <1>2, <1>3, <2>1 DEF StackStep
<1> QED BY <1>4, StackStepKeeps

-----------------------------------------------------------------------------
(* The return from a call as the module has it, at any depth.              *)
Holding(t, b) == IF Len(stack[t]) = 1 THEN [held EXCEPT ![t] = b] ELSE held

LEMMA ReturnedKeeps ==
  ASSUME Agree(stack, held, buf), NEW bufs2, NEW t \in Tasks, stack[t] # <<>>,
         Top(t).at \notin GetLabels, Recount(buf, bufs2, Owned(Top(t)), {NULL})
  PROVE  Agree(Returned(t, NULL, FALSE), Holding(t, NULL), bufs2)
<1> DEFINE n == Len(stack[t])
<1>1. n \in Nat \ {0} /\ NULL \in 0..NR_BUFFERS
  BY FrontOf, CacheAssumption DEF Agree, NULL
<1>2. CASE n = 1
  BY <1>1, <1>2, LeaveKeeps DEF Returned, Holding, Under, Top
<1>3. CASE n > 1
  <2>1. n # 1
    <3> HIDE DEF n
    <3> QED BY <1>1, <1>3
  <2> QED BY <1>3, <2>1, ReturnKeeps DEF Returned, Holding, Under, Top
<1> HIDE DEF n
<1>4. n = 1 \/ n > 1
  BY <1>1
<1> QED BY <1>2, <1>3, <1>4, Zenon

LEMMA ReturnedBufferKeeps ==
  ASSUME Agree(stack, held, buf), NEW bufs2, NEW t \in Tasks, stack[t] # <<>>,
         NEW b \in 0..NR_BUFFERS,
         \/ /\ b \in Buffers
            /\ \/ Top(t).at \in BreadLabels
               \/ Top(t).at \in GetLabels /\ bufs2[b].blk = Top(t).blk
         \/ b = NULL /\ Top(t).at = "brelse",
         Recount(buf, bufs2, Owned(Top(t)), {b})
  PROVE  Agree(Returned(t, b, TRUE), Holding(t, b), bufs2)
<1> DEFINE n == Len(stack[t])
<1>1. n \in Nat \ {0}
  BY FrontOf DEF Agree
<1>2. CASE n = 1
  <2>1. ~(n > 1)
    <3> HIDE DEF n
    <3> QED BY <1>2
  <2>2. Agree([stack EXCEPT ![t] = Front(stack[t])], [held EXCEPT ![t] = b], bufs2)
    BY <1>2, LeaveKeeps DEF Top
  <2> QED BY <1>2, <2>1, <2>2 DEF Returned, Holding, Under
<1>3. CASE n > 1
  <2>1. n # 1
    <3> HIDE DEF n
    <3> QED BY <1>1, <1>3
  <2> QED BY <1>3, <2>1, GiveKeeps DEF Returned, Holding, Under, Top
<1> HIDE DEF n
<1>4. n = 1 \/ n > 1
  BY <1>1
<1> QED BY <1>2, <1>3, <1>4, Zenon

(* Who slept for any buffer looks again: no use changes.                   *)
LEMMA WakeKeeps ==
  ASSUME NEW s, NEW h, NEW bufs, Agree(s, h, bufs)
  PROVE  Agree(Wake(s), h, bufs)
<1> DEFINE w == Wake(s)
           Woken(f, g) == f.at = "none" /\ g = [f EXCEPT !.at = "getblk"]
<1>1. s \in [Tasks -> Seq(Frames)]
  BY DEF Agree
<1>2. ASSUME NEW t \in Tasks
      PROVE  /\ w[t] \in Seq(Frames) /\ Len(w[t]) = Len(s[t])
             /\ \A k \in 1..Len(s[t]) :
                  w[t][k] = s[t][k] \/ (k = Len(s[t]) /\ Woken(s[t][k], w[t][k]))
             /\ s[t] = <<>> => w[t] = <<>>
  <2>1. CASE s[t] # <<>> /\ Last(s[t]).at = "none"
    <3> DEFINE g == [Last(s[t]) EXCEPT !.at = "getblk"]
               n == Len(s[t])
    <3>1. n \in Nat \ {0} /\ Last(s[t]) = s[t][n] /\ Last(s[t]) \in Frames
      BY <1>1, <2>1, FrontOf
    <3>2. g \in Frames
      <4>1. "getblk" \in Labels
        BY DEF Labels
      <4>2. \A f \in Frames, l \in Labels : [f EXCEPT !.at = l] \in Frames
        BY DEF Frames
      <4> QED BY <3>1, <4>1, <4>2
    <3>3. w[t] = Append(Front(s[t]), g)
      BY <2>1 DEF Wake
    <3> HIDE DEF g, w
    <3>4. /\ w[t] \in Seq(Frames) /\ Len(w[t]) = n
          /\ (\A k \in 1..(n - 1) : w[t][k] = s[t][k]) /\ w[t][n] = g
      BY <1>1, <2>1, <3>2, <3>3, Replaced
    <3>5. Woken(s[t][n], g)
      BY <2>1, <3>1 DEF g
    <3> HIDE DEF n, Woken
    <3>6. \A k \in 1..n : k = n \/ k \in 1..(n - 1)
      BY <3>1
    <3>7. n = Len(s[t])
      BY DEF n
    <3> QED BY <2>1, <3>4, <3>5, <3>6, <3>7
  <2>2. CASE ~(s[t] # <<>> /\ Last(s[t]).at = "none")
    <3>1. w[t] = s[t]
      BY <2>2 DEF Wake
    <3> QED BY <1>1, <3>1
  <2> QED BY <2>1, <2>2
<1>3. w \in [Tasks -> Seq(Frames)]
  BY <1>2 DEF Wake
<1> HIDE DEF w
<1>4. ASSUME NEW f \in Frames, NEW g, Woken(f, g), FrameFits(f)
      PROVE  FrameFits(g) /\ Owned(f) = {} /\ Owned(g) = {} /\ TopFits(g) /\ RightIn(bufs, g)
  <2>1. /\ g.at = "getblk" /\ g.bh = f.bh /\ g.i = f.i /\ g.blk = f.blk /\ f.at = "none"
    BY <1>4 DEF Frames
  <2> QED BY <2>1, <1>4 DEF FrameFits, TopFits, Owned, RightIn, NewLabels
<1>5. ASSUME NEW f \in Frames, NEW g, Woken(f, g), NEW c, Over(c, f)
      PROVE  Over(c, g)
  <2>1. g.at = "getblk" /\ g.blk = f.blk /\ f.at = "none"
    BY <1>5 DEF Frames
  <2> QED BY <2>1, <1>5 DEF Over, GetLabels, BreadLabels, OutLabels
<1>6. ASSUME NEW t \in Tasks PROVE Fits(w[t])
  <2>1. Fits(s[t]) /\ s[t] \in Seq(Frames) /\ Len(s[t]) \in Nat
    BY <1>1, LenProperties DEF Agree
  <2> SUFFICES ASSUME NEW k \in 1..Len(w[t])
               PROVE  /\ FrameFits(w[t][k])
                      /\ k = 1 => w[t][k].at \notin GetLabels
                      /\ k < Len(w[t]) => Over(w[t][k], w[t][k + 1])
                      /\ k = Len(w[t]) => TopFits(w[t][k])
    BY DEF Fits
  <2>2. /\ k \in 1..Len(s[t]) /\ Len(w[t]) = Len(s[t]) /\ s[t][k] \in Frames
        /\ w[t][k] = s[t][k] \/ (k = Len(s[t]) /\ Woken(s[t][k], w[t][k]))
        /\ FrameFits(s[t][k])
        /\ k = 1 => s[t][k].at \notin GetLabels
        /\ k < Len(s[t]) => Over(s[t][k], s[t][k + 1])
        /\ k = Len(s[t]) => TopFits(s[t][k])
    BY <1>2, <2>1, ElementOfSeq DEF Fits
  <2>3. CASE k = Len(s[t]) /\ Woken(s[t][k], w[t][k])
    <3>1. s[t][k].at \in GetLabels
      BY <2>3 DEF GetLabels
    <3> HIDE DEF Woken
    <3> QED BY <1>4, <2>1, <2>2, <2>3, <3>1
  <2>4. CASE w[t][k] = s[t][k]
    <3>1. ASSUME k < Len(s[t]) PROVE Over(s[t][k], w[t][k + 1])
      <4>1. k + 1 \in 1..Len(s[t])
        BY <2>1, <2>2, <3>1
      <4>2. s[t][k + 1] \in Frames
        BY <2>1, <4>1, ElementOfSeq
      <4> HIDE DEF Woken
      <4> QED BY <1>2, <1>5, <2>2, <3>1, <4>1, <4>2
    <3> QED BY <2>2, <2>4, <3>1
  <2> QED BY <2>2, <2>3, <2>4
<1>7. ASSUME NEW t \in Tasks, NEW k \in 1..Len(w[t]) PROVE RightIn(bufs, w[t][k])
  <2>1. /\ k \in 1..Len(s[t]) /\ s[t][k] \in Frames
        /\ w[t][k] = s[t][k] \/ Woken(s[t][k], w[t][k])
        /\ RightIn(bufs, s[t][k]) /\ FrameFits(s[t][k])
    BY <1>1, <1>2, ElementOfSeq DEF Agree, Fits
  <2> HIDE DEF Woken
  <2> QED BY <1>4, <2>1
<1>8. ASSUME NEW b \in Buffers PROVE Count(w, h, b) = Count(s, h, b)
  <2>1. ASSUME NEW t \in Tasks, NEW k \in Nat
        PROVE  UseAt(w[t], h[t], k, b) <=> UseAt(s[t], h[t], k, b)
    <3>1. CASE k \in 1..Len(s[t])
      <4>1. /\ w[t][k] = s[t][k] \/ Woken(s[t][k], w[t][k])
            /\ s[t][k] \in Frames /\ FrameFits(s[t][k])
        BY <1>1, <1>2, <3>1, ElementOfSeq DEF Agree, Fits
      <4> HIDE DEF Woken
      <4>2. Owned(w[t][k]) = Owned(s[t][k])
        <5>1. CASE w[t][k] = s[t][k]
          BY <5>1
        <5>2. CASE Woken(s[t][k], w[t][k])
          BY <1>4, <4>1, <5>2
        <5> QED BY <4>1, <5>1, <5>2
      <4>3. Len(w[t]) = Len(s[t])
        BY <1>2
      <4> QED BY <4>2, <4>3, <3>1 DEF UseAt
    <3>2. CASE k \notin 1..Len(s[t])
      <4>1. Len(w[t]) = Len(s[t]) /\ (k \in 0..Len(s[t]) => k = 0)
        BY <1>1, <1>2, <3>2, LenProperties
      <4> QED BY <4>1 DEF UseAt
    <3> QED BY <3>1, <3>2
  <2>2. UsersIn(w, h, b) = UsersIn(s, h, b)
    BY <2>1 DEF UsersIn
  <2> QED BY <2>2 DEF Count
<1>9. \A t \in Tasks : h[t] # NULL => w[t] = <<>>
  BY <1>2 DEF Agree
<1>10. Agree(w, h, bufs)
  BY <1>3, <1>6, <1>7, <1>8, <1>9 DEF Agree
<1> QED BY <1>10 DEF w

-----------------------------------------------------------------------------
(* The same for the actions of the task that runs.                         *)
LEMMA TopIs ==
  ASSUME Agree(stack, held, buf), NEW t \in Tasks, stack[t] # <<>>
  PROVE  /\ Top(t) \in Frames /\ FrameFits(Top(t)) /\ TopFits(Top(t)) /\ RightIn(buf, Top(t))
         /\ \A b \in Buffers : b \in Owned(Top(t)) => buf[b].count # 0
<1> DEFINE n == Len(stack[t])
<1>1. stack[t] \in Seq(Frames) /\ Fits(stack[t])
  BY DEF Agree
<1>2. n \in Nat \ {0} /\ Top(t) = stack[t][n] /\ Top(t) \in Frames
  BY <1>1, FrontOf DEF Top
<1>3. n \in 1..n /\ n = Len(stack[t])
  <2> HIDE DEF n
  <2>1. n \in 1..n
    BY <1>2
  <2> QED BY <2>1 DEF n
<1> HIDE DEF n
<1>4. FrameFits(Top(t)) /\ TopFits(Top(t))
  BY <1>1, <1>2, <1>3 DEF Fits
<1>5. RightIn(buf, Top(t))
  BY <1>2, <1>3 DEF Agree
<1>6. \A b \in Buffers : b \in Owned(Top(t)) => buf[b].count # 0
  BY <1>2, <1>3, OwnedIsCounted
<1> QED BY <1>2, <1>4, <1>5, <1>6

LEMMA AsleepKeeps ==
  ASSUME Asleep, NEW t \in Tasks, cpu \in {t, NoTask}, cpu' = t \/ stack'[t] = <<>>,
         \A u \in Tasks \ {t} : stack'[u] = stack[u] \/ Last(stack'[u]).at \in SleepLabels
  PROVE  Asleep'
<1> SUFFICES ASSUME NEW u \in Tasks, stack'[u] # <<>>, cpu' # u
             PROVE  Last(stack'[u]).at \in SleepLabels
  BY DEF Asleep, Top
<1>1. u # t
  OBVIOUS
<1>2. CASE stack'[u] = stack[u]
  <2>1. cpu # u
    BY <1>1, CacheAssumption
  <2> QED BY <1>2, <2>1 DEF Asleep, Top
<1> QED BY <1>1, <1>2

LEMMA GotoStep ==
  ASSUME Agree(stack, held, buf), Asleep, NEW t \in Tasks, stack[t] # <<>>, cpu \in {t, NoTask},
         NEW f \in Frames, Goto(t, f), Follows(f, Top(t)), RightIn(buf', f),
         Recount(buf, buf', Owned(Top(t)), Owned(f))
  PROVE  Agree(stack', held', buf') /\ Asleep'
<1>1. stack' = [stack EXCEPT ![t] = Append(Front(stack[t]), f)] /\ held' = held /\ cpu' = t
  BY DEF Goto, Under
<1>2. Agree(stack', held', buf')
  BY <1>1, GotoKeeps DEF Top
<1>3. \A u \in Tasks \ {t} : stack'[u] = stack[u]
  BY <1>1 DEF Agree
<1> QED BY <1>1, <1>2, <1>3, AsleepKeeps

(* f is where the frame top goes on once its call of g has returned.       *)
Calls(f, g, top) ==
  /\ f \in Frames /\ g \in Frames /\ FrameFits(f) /\ FrameFits(g) /\ TopFits(g)
  /\ top.at \notin GetLabels => f.at \notin GetLabels
  /\ \A caller : Over(caller, top) => Over(caller, f)
  /\ Over(f, g) /\ Owned(f) \cap Owned(g) \cap Buffers = {}

LEMMA CallStep ==
  ASSUME Agree(stack, held, buf), Asleep, NEW t \in Tasks, stack[t] # <<>>, cpu \in {t, NoTask},
         NEW f, NEW g, Call(t, f, g), Calls(f, g, Top(t)), RightIn(buf', f), RightIn(buf', g),
         Recount(buf, buf', Owned(Top(t)), Owned(f) \cup Owned(g))
  PROVE  Agree(stack', held', buf') /\ Asleep'
<1>1. /\ stack' = [stack EXCEPT ![t] = Front(stack[t]) \o <<f, g>>]
      /\ held' = held /\ cpu' = t
  BY DEF Call, Under
<1>2. Agree(stack', held', buf')
  <2>1. /\ f \in Frames /\ g \in Frames /\ FrameFits(f) /\ FrameFits(g) /\ TopFits(g)
        /\ Last(stack[t]).at \notin GetLabels => f.at \notin GetLabels
        /\ \A caller : Over(caller, Last(stack[t])) => Over(caller, f)
        /\ Over(f, g) /\ Owned(f) \cap Owned(g) \cap Buffers = {}
    BY DEF Calls, Top
  <2>2. Recount(buf, buf', Owned(Last(stack[t])), Owned(f) \cup Owned(g))
    BY DEF Top
  <2> QED BY <1>1, <2>1, <2>2, CallKeeps
<1>3. \A u \in Tasks \ {t} : stack'[u] = stack[u]
  BY <1>1 DEF Agree
<1> QED BY <1>1, <1>2, <1>3, AsleepKeeps

LEMMA LeavesStack ==
  ASSUME Agree(stack, held, buf), NEW t \in Tasks, stack[t] # <<>>, NEW b, NEW yes \in BOOLEAN,
         Leaves(t, b)
  PROVE  /\ held' = Holding(t, b)
         /\ cpu' = t \/ Returned(t, b, yes)[t] = <<>>
         /\ \A u \in Tasks \ {t} : Returned(t, b, yes)[u] = stack[u]
<1> DEFINE n == Len(stack[t])
<1>1. stack \in [Tasks -> Seq(Frames)] /\ Front(stack[t]) \in Seq(Frames)
      /\ n \in Nat \ {0} /\ Len(Front(stack[t])) = n - 1
  BY FrontOf DEF Agree
<1>2. CASE n = 1
  <2>1. Front(stack[t]) = <<>>
    <3>1. Len(Front(stack[t])) = 0
      <4> HIDE DEF n
      <4> QED BY <1>1, <1>2
    <3> QED BY <1>1, <3>1, EmptySeq
  <2>2. ~(n > 1)
    <3> HIDE DEF n
    <3> QED BY <1>2
  <2> QED BY <1>1, <1>2, <2>1, <2>2 DEF Leaves, Holding, Returned, Under
<1>3. CASE n # 1
  BY <1>1, <1>3 DEF Leaves, Holding, Returned
<1> QED BY <1>2, <1>3

LEMMA ReturnStep ==
  ASSUME Agree(stack, held, buf), Asleep, NEW t \in Tasks, stack[t] # <<>>, cpu \in {t, NoTask},
         Return(t), Top(t).at \notin GetLabels, Recount(buf, buf', Owned(Top(t)), {NULL})
  PROVE  Agree(stack', held', buf') /\ Asleep'
<1>1. stack' = Returned(t, NULL, FALSE) /\ Leaves(t, NULL)
  BY DEF Return
<1>2. /\ held' = Holding(t, NULL)
      /\ cpu' = t \/ Returned(t, NULL, FALSE)[t] = <<>>
      /\ \A u \in Tasks \ {t} : Returned(t, NULL, FALSE)[u] = stack[u]
  BY <1>1, LeavesStack
<1>3. Agree(stack', held', buf')
  BY <1>1, <1>2, ReturnedKeeps
<1> QED BY <1>1, <1>2, <1>3, AsleepKeeps

LEMMA ReturnBufferStep ==
  ASSUME Agree(stack, held, buf), Asleep, NEW t \in Tasks, stack[t] # <<>>, cpu \in {t, NoTask},
         NEW b \in Buffers, ReturnBuffer(t, b),
         \/ Top(t).at \in BreadLabels
         \/ Top(t).at \in GetLabels /\ buf'[b].blk = Top(t).blk,
         Recount(buf, buf', Owned(Top(t)), {b})
  PROVE  Agree(stack', held', buf') /\ Asleep'
<1>1. stack' = Returned(t, b, TRUE) /\ Leaves(t, b)
  BY DEF ReturnBuffer
<1>2. /\ held' = Holding(t, b)
      /\ cpu' = t \/ Returned(t, b, TRUE)[t] = <<>>
      /\ \A u \in Tasks \ {t} : Returned(t, b, TRUE)[u] = stack[u]
  BY <1>1, LeavesStack
<1>3. b \in 0..NR_BUFFERS
  BY CacheAssumption DEF Buffers
<1>4. Agree(stack', held', buf')
  BY <1>1, <1>2, <1>3, ReturnedBufferKeeps
<1> QED BY <1>1, <1>2, <1>4, AsleepKeeps

(* How the heads change: not at all, or that of b becomes g.               *)
LEMMA SameCounts ==
  ASSUME Agree(stack, held, buf), buf' = buf, NEW lost, NEW gained,
         \A b \in Buffers : b \in lost <=> b \in gained
  PROVE  Recount(buf, buf', lost, gained)
<1>1. buf \in [Buffers -> Heads] /\ \A b \in Buffers : buf[b].count \in Int
  BY DEF Agree, Heads
<1>2. \A b \in Buffers : One(b \in lost) = One(b \in gained) /\ One(b \in gained) \in Int
  BY DEF One
<1> QED BY <1>1, <1>2 DEF Recount

LEMMA OneCount ==
  ASSUME Agree(stack, held, buf), NEW lost, NEW gained, NEW b \in Buffers, NEW g \in Heads,
         Change(b, g), g.blk = buf[b].blk \/ buf[b].count = 0,
         g.count = buf[b].count - One(b \in lost) + One(b \in gained),
         \A c \in Buffers \ {b} : c \in lost <=> c \in gained
  PROVE  Recount(buf, buf', lost, gained)
<1>1. buf \in [Buffers -> Heads] /\ \A c \in Buffers : buf[c].count \in Int
  BY DEF Agree, Heads
<1>2. \A c \in Buffers \ {b} : One(c \in lost) = One(c \in gained) /\ One(c \in gained) \in Int
  BY DEF One
<1>3. buf' \in [Buffers -> Heads] /\ buf'[b] = g /\ \A c \in Buffers \ {b} : buf'[c] = buf[c]
  BY <1>1 DEF Change
<1> QED BY <1>1, <1>2, <1>3 DEF Recount

-----------------------------------------------------------------------------
(* What every action of the task that runs starts from and ends with.      *)
LEMMA Running ==
  ASSUME IInv, NEW t \in Tasks, NEW label, Run(t, label)
  PROVE  /\ Agree(stack, held, buf) /\ Asleep /\ stack[t] # <<>> /\ cpu \in {t, NoTask}
         /\ Top(t).at = label /\ Top(t) \in Frames
         /\ FrameFits(Top(t)) /\ TopFits(Top(t)) /\ RightIn(buf, Top(t))
BY TopIs DEF IInv, Run, At

LEMMA Finish ==
  ASSUME IInv, Agree(stack', held', buf'), Asleep', io' \in [Buffers -> {-1, READ, WRITE}],
         UNCHANGED free_list, i_dirt' \subseteq Inodes,
         \A b \in Buffers : buf'[b].blk = buf[b].blk
  PROVE  IInv'
BY DEF IInv, Types, OneCopy, Agree

LEMMA FrameIs ==
  ASSUME NEW label \in Labels, NEW blk \in Nat, NEW bh \in 0..NR_BUFFERS, NEW i \in Nat
  PROVE  LET f == Frame(label, blk, bh, i)
         IN  f \in Frames /\ f.at = label /\ f.blk = blk /\ f.bh = bh /\ f.i = i
BY DEF Frame, Frames

LEMMA HeadOf ==
  ASSUME Agree(stack, held, buf), NEW b \in Buffers
  PROVE  /\ buf \in [Buffers -> Heads] /\ buf[b] \in Heads
         /\ buf[b].count \in Nat /\ buf[b].blk \in Nat
<1>1. buf \in [Buffers -> Heads] /\ buf[b] \in Heads
  BY DEF Agree
<1>2. buf[b].count \in Nat
  BY FinitelyMany DEF Agree
<1>3. \A g \in Heads : g.blk \in Nat
  BY DEF Heads
<1> QED BY <1>1, <1>2, <1>3

LEMMA CountUp ==
  ASSUME Agree(stack, held, buf), NEW b \in Buffers,
         Change(b, [buf[b] EXCEPT !.count = @ + 1])
  PROVE  Recount(buf, buf', {}, {b}) /\ \A c \in Buffers : buf'[c].blk = buf[c].blk
<1> DEFINE head == buf[b]
           g == [head EXCEPT !.count = @ + 1]
<1>1. buf \in [Buffers -> Heads] /\ head \in Heads /\ head.count \in Nat
  BY HeadOf
<1>2. Change(b, g)
  OBVIOUS
<1> HIDE DEF head
<1>3. g \in Heads /\ g.blk = head.blk /\ g.count = head.count + 1
  BY <1>1 DEF Heads
<1> HIDE DEF g
<1>4. g.count = buf[b].count - One(b \in {}) + One(b \in {b})
  BY <1>1, <1>3 DEF One, head
<1>5. Recount(buf, buf', {}, {b})
  BY <1>2, <1>3, <1>4, OneCount DEF head
<1> QED BY <1>1, <1>2, <1>3, <1>5 DEF Change, head

LEMMA CountDown ==
  ASSUME Agree(stack, held, buf), NEW b \in Buffers, NEW gained, gained \cap Buffers = {},
         Change(b, [buf[b] EXCEPT !.count = @ - 1])
  PROVE  Recount(buf, buf', {b}, gained) /\ \A c \in Buffers : buf'[c].blk = buf[c].blk
<1> DEFINE head == buf[b]
           g == [head EXCEPT !.count = @ - 1]
<1>1. buf \in [Buffers -> Heads] /\ head \in Heads /\ head.count \in Nat
  BY HeadOf
<1>2. Change(b, g)
  OBVIOUS
<1> HIDE DEF head
<1>3. g \in Heads /\ g.blk = head.blk /\ g.count = head.count - 1
  BY <1>1 DEF Heads
<1> HIDE DEF g
<1>4. g.count = buf[b].count - One(b \in {b}) + One(b \in gained)
  BY <1>1, <1>3 DEF One, head
<1>5. Recount(buf, buf', {b}, gained)
  BY <1>2, <1>3, <1>4, OneCount DEF head
<1> QED BY <1>1, <1>2, <1>3, <1>5 DEF Change, head

(* Only flags change: of no buffer, or of some.                            *)
LEMMA FlagsChange ==
  ASSUME Agree(stack, held, buf), NEW lost, NEW gained,
         \A c \in Buffers : c \in lost <=> c \in gained,
         buf' \in [Buffers -> Heads],
         \A c \in Buffers : buf'[c].blk = buf[c].blk /\ buf'[c].count = buf[c].count
  PROVE  Recount(buf, buf', lost, gained)
<1>1. \A c \in Buffers : buf[c].count \in Nat
  BY HeadOf
<1>2. \A c \in Buffers : One(c \in lost) = One(c \in gained) /\ One(c \in gained) \in Int
  BY DEF One
<1> QED BY <1>1, <1>2 DEF Recount

LEMMA StacksKept ==
  ASSUME Agree(stack, held, buf), Asleep, UNCHANGED <<stack, held, cpu>>,
         Recount(buf, buf', {}, {})
  PROVE  Agree(stack', held', buf') /\ Asleep'
<1>1. \A t \in Tasks : \A k \in 1..Len(stack[t]) : RightIn(buf', stack[t][k])
  BY RightStays
<1>2. \A b \in Buffers : buf'[b].count = Count(stack, held, b)
  <2> SUFFICES ASSUME NEW b \in Buffers PROVE buf'[b].count = Count(stack, held, b)
    OBVIOUS
  <2>1. buf[b].count \in Nat /\ buf[b].count = Count(stack, held, b)
    BY HeadOf DEF Agree
  <2> QED BY <2>1 DEF Recount, One
<1>3. buf' \in [Buffers -> Heads]
  BY DEF Recount
<1>4. Agree(stack, held, buf')
  BY <1>1, <1>2, <1>3 DEF Agree
<1> QED BY <1>4 DEF Asleep, Top

LEMMA SameCaller ==
  ASSUME NEW f, NEW g,
         \/ f.at \in GetLabels /\ g.at \in GetLabels /\ f.blk = g.blk
         \/ f.at \in BreadLabels /\ g.at \in BreadLabels \cup {"brelse"}
         \/ f.at \in OutLabels
         \/ {f.at, g.at} \cap (GetLabels \cup BreadLabels \cup OutLabels \cup {"brelse"}) = {}
  PROVE  \A caller : Over(caller, f) => Over(caller, g)
<1> SUFFICES ASSUME NEW caller, Over(caller, f) PROVE Over(caller, g)
  OBVIOUS
<1>1. CASE f.at \in GetLabels /\ g.at \in GetLabels /\ f.blk = g.blk
  BY <1>1 DEF Over, GetLabels, BreadLabels, OutLabels
<1>2. CASE f.at \in BreadLabels /\ g.at \in BreadLabels \cup {"brelse"}
  BY <1>2 DEF Over, GetLabels, BreadLabels, OutLabels, NewLabels
<1>3. CASE f.at \in OutLabels
  BY <1>3 DEF Over
<1>4. CASE {f.at, g.at} \cap (GetLabels \cup BreadLabels \cup OutLabels \cup {"brelse"}) = {}
  BY <1>4 DEF Over
<1> QED BY <1>1, <1>2, <1>3, <1>4

-----------------------------------------------------------------------------
(* getblk.                                                                 *)
LEMMA CandidateIsBuffer ==
  ASSUME Types, Agree(stack, held, buf), Unused # {}
  PROVE  Candidate \in Buffers
<1> DEFINE bad == {BADNESS(free_list[k]) : k \in Unused}
           first == {k \in Unused : BADNESS(free_list[k]) = Min(bad)}
<1>1. Unused \subseteq Nat /\ \A k \in Unused : free_list[k] \in Buffers
  <2>1. free_list \in Seq(Buffers) /\ DOMAIN free_list = 1..Len(free_list) /\ Len(free_list) \in Nat
    BY DEF Types
  <2>2. \A k \in 1..Len(free_list) : free_list[k] \in Buffers
    BY <2>1, ElementOfSeq
  <2> QED BY <2>1, <2>2 DEF Unused
<1>2. bad \subseteq Nat /\ bad # {}
  BY DEF BADNESS
<1>3. Min(bad) \in bad
  BY <1>2, MinIsLeast
<1>4. first # {} /\ first \subseteq Nat
  BY <1>1, <1>3
<1>5. Min(first) \in first
  <2> HIDE DEF first
  <2> QED BY <1>4, MinIsLeast
<1> QED BY <1>1, <1>5 DEF Candidate

LEMMA GetblkKeeps ==
  ASSUME IInv, NEW t \in Tasks, Getblk(t)
  PROVE  IInv'
<1> DEFINE f == Top(t)
           found == find_buffer(f.blk)
<1>1. /\ Agree(stack, held, buf) /\ Asleep /\ stack[t] # <<>> /\ cpu \in {t, NoTask}
      /\ f.at = "getblk" /\ f \in Frames /\ RightIn(buf, f)
  BY Running DEF Getblk
<1>2. UNCHANGED <<free_list, io, inodes>> /\ Types
  BY DEF Getblk, IInv
<1>3. Owned(f) = {}
  BY <1>1 DEF Owned
<1>4. CASE found # {}
  <2> DEFINE b == CHOOSE c \in found : TRUE
             g == [f EXCEPT !.at = "hash", !.bh = b]
  <2>1. b \in Buffers
    BY <1>4 DEF find_buffer
  <2>2. Change(b, [buf[b] EXCEPT !.count = @ + 1]) /\ Goto(t, g)
    BY <1>4 DEF Getblk
  <2> HIDE DEF b
  <2>3. g \in Frames /\ g.at = "hash" /\ g.bh = b /\ g.blk = f.blk
    <3>1. "hash" \in Labels /\ b \in 0..NR_BUFFERS
      BY <2>1, CacheAssumption DEF Labels, Buffers
    <3> HIDE DEF f
    <3> QED BY <1>1, <3>1 DEF Frames
  <2> HIDE DEF g, f
  <2>5. Owned(g) = {b}
    BY <2>3 DEF Owned
  <2>6. FrameFits(g) /\ TopFits(g) /\ RightIn(buf', g)
    BY <2>1, <2>3 DEF FrameFits, TopFits, RightIn, NewLabels
  <2>7. Follows(g, f)
    <3>1. f.at \in GetLabels /\ g.at \in GetLabels /\ f.blk = g.blk
      BY <1>1, <2>3 DEF GetLabels
    <3> QED BY <2>6, <3>1, SameCaller DEF Follows
  <2>8. Recount(buf, buf', Owned(f), Owned(g))
    <3>1. Recount(buf, buf', {}, {b})
      BY <1>1, <2>1, <2>2, CountUp
    <3> QED BY <1>3, <2>5, <3>1
  <2>9. Agree(stack', held', buf') /\ Asleep'
    BY <1>1, <2>2, <2>3, <2>6, <2>7, <2>8, GotoStep DEF f
  <2>10. \A c \in Buffers : buf'[c].blk = buf[c].blk
    BY <1>1, <2>1, <2>2, CountUp
  <2> QED BY <1>2, <2>9, <2>10, Finish DEF Types, inodes
<1>5. CASE found = {}
  <2> DEFINE Goes(g) == /\ g \in Frames /\ g.blk = f.blk /\ Goto(t, g)
                        /\ g.at = "none" \/ (g.at = "victim" /\ g.bh \in Buffers)
  <2>1. buf' = buf /\ \E g : Goes(g)
    <3>1. CASE Unused = {}
      <4> DEFINE g == [f EXCEPT !.at = "none"]
      <4>1. g \in Frames /\ g.at = "none" /\ g.blk = f.blk
        BY <1>1 DEF Frames, Labels
      <4> HIDE DEF f
      <4>2. Goto(t, g) /\ buf' = buf
        BY <1>5, <3>1 DEF Getblk, f
      <4> HIDE DEF g
      <4> QED BY <4>1, <4>2
    <3>2. CASE Unused # {}
      <4> DEFINE g == [f EXCEPT !.at = "victim", !.bh = Candidate]
      <4>1. Candidate \in Buffers
        BY <1>1, <1>2, <3>2, CandidateIsBuffer
      <4>2. g \in Frames /\ g.at = "victim" /\ g.blk = f.blk /\ g.bh \in Buffers
        <5>1. "victim" \in Labels /\ Candidate \in 0..NR_BUFFERS
          BY <4>1, CacheAssumption DEF Labels, Buffers
        <5> HIDE DEF f
        <5> QED BY <1>1, <4>1, <5>1 DEF Frames
      <4> HIDE DEF f
      <4>3. Goto(t, g) /\ buf' = buf
        BY <1>5, <3>2 DEF Getblk, f
      <4> HIDE DEF g
      <4> QED BY <4>2, <4>3
    <3> QED BY <3>1, <3>2
  <2>2. PICK g : Goes(g)
    BY <2>1
  <2> HIDE DEF f
  <2>3. Owned(g) = {}
    BY <2>2 DEF Owned
  <2>4. FrameFits(g) /\ TopFits(g) /\ RightIn(buf', g)
    BY <2>2 DEF FrameFits, TopFits, RightIn, NewLabels
  <2>5. Follows(g, f)
    <3>1. f.at \in GetLabels /\ g.at \in GetLabels /\ f.blk = g.blk
      BY <1>1, <2>2 DEF GetLabels
    <3> QED BY <2>4, <3>1, SameCaller DEF Follows
  <2>6. Recount(buf, buf', Owned(f), Owned(g))
    BY <1>1, <1>3, <2>1, <2>3, SameCounts
  <2>7. Agree(stack', held', buf') /\ Asleep'
    BY <1>1, <2>2, <2>4, <2>5, <2>6, GotoStep DEF f
  <2> QED BY <1>2, <2>1, <2>7, Finish DEF Types, inodes
<1> QED BY <1>4, <1>5

LEMMA HashKeeps ==
  ASSUME IInv, NEW t \in Tasks, Hash(t)
  PROVE  IInv'
<1> DEFINE f == Top(t)
           b == f.bh
<1>1. /\ Agree(stack, held, buf) /\ Asleep /\ stack[t] # <<>> /\ cpu \in {t, NoTask}
      /\ f.at = "hash" /\ f \in Frames /\ FrameFits(f)
  BY Running DEF Hash
<1>2. UNCHANGED <<free_list, io, inodes>> /\ Types
  BY DEF Hash, IInv
<1>3. b \in Buffers /\ Owned(f) = {b} /\ f.at \in GetLabels
  BY <1>1 DEF Owned, FrameFits, GetLabels
<1>4. CASE buf[b].blk = f.blk
  <2>1. ReturnBuffer(t, b) /\ buf' = buf
    BY <1>4 DEF Hash
  <2>2. Recount(buf, buf', Owned(f), {b})
    BY <1>1, <1>3, <2>1, SameCounts
  <2>3. Agree(stack', held', buf') /\ Asleep'
    BY <1>1, <1>3, <1>4, <2>1, <2>2, ReturnBufferStep
  <2> QED BY <1>2, <2>1, <2>3, Finish DEF Types, inodes
<1>5. CASE buf[b].blk # f.blk
  <2> DEFINE g == [f EXCEPT !.at = "getblk"]
  <2>1. Change(b, [buf[b] EXCEPT !.count = @ - 1]) /\ Goto(t, g)
    BY <1>5 DEF Hash
  <2>2. g \in Frames /\ g.at = "getblk" /\ g.blk = f.blk
    <3> HIDE DEF f
    <3> QED BY <1>1 DEF Frames, Labels
  <2> HIDE DEF g
  <2>3. Owned(g) = {}
    BY <2>2 DEF Owned
  <2>4. FrameFits(g) /\ TopFits(g) /\ RightIn(buf', g)
    BY <2>2 DEF FrameFits, TopFits, RightIn, NewLabels
  <2>5. Follows(g, f)
    <3>1. g.at \in GetLabels
      BY <2>2 DEF GetLabels
    <3> QED BY <1>3, <2>2, <2>4, <3>1, SameCaller DEF Follows
  <2>6. Recount(buf, buf', {b}, {}) /\ \A c \in Buffers : buf'[c].blk = buf[c].blk
    BY <1>1, <1>3, <2>1, CountDown
  <2>7. Recount(buf, buf', Owned(f), Owned(g))
    BY <1>3, <2>3, <2>6
  <2>8. Agree(stack', held', buf') /\ Asleep'
    BY <1>1, <2>1, <2>2, <2>4, <2>5, <2>7, GotoStep
  <2> QED BY <1>2, <2>6, <2>8, Finish DEF Types, inodes
<1> QED BY <1>4, <1>5

(* The buffer moves to the end of free_list, which keeps all buffers.      *)
LEMMA MovedToEnd ==
  ASSUME Types, NEW b \in Buffers
  PROVE  LET new == Append(RemoveAt(free_list, Place(b)), b)
         IN  new \in Seq(Buffers) /\ \A c \in Buffers : \E k \in 1..Len(new) : new[k] = c
<1> DEFINE n == Len(free_list)
           i == Place(b)
           left == SubSeq(free_list, 1, i - 1)
           right == SubSeq(free_list, i + 1, n)
           rest == left \o right
           new == Append(rest, b)
<1>1. /\ free_list \in Seq(Buffers) /\ n \in Nat /\ DOMAIN free_list = 1..n
      /\ \A k \in 1..n : free_list[k] \in Buffers
      /\ \A c \in Buffers : \E k \in 1..n : free_list[k] = c
  BY ElementOfSeq, LenProperties DEF Types
<1>2. i \in 1..n /\ free_list[i] = b
  BY <1>1 DEF Place
<1> HIDE DEF i, n
<1>3. /\ left \in Seq(Buffers) /\ Len(left) = i - 1
      /\ \A k \in 1..(i - 1) : left[k] = free_list[k]
  <2>1. 1 \in Int /\ i - 1 \in Int /\ \A k \in 1..(i - 1) : free_list[k] \in Buffers
    BY <1>1, <1>2
  <2>2. /\ left \in Seq(Buffers)
        /\ Len(left) = IF 1 <= i - 1 THEN (i - 1) - 1 + 1 ELSE 0
        /\ \A k \in 1..((i - 1) - 1 + 1) : left[k] = free_list[1 + k - 1]
    BY <2>1, SubSeqProperties
  <2> HIDE DEF left
  <2>3. \A k \in 1..(i - 1) : k \in 1..((i - 1) - 1 + 1) /\ 1 + k - 1 = k
    BY <1>1, <1>2
  <2>4. Len(left) = i - 1
    BY <1>1, <1>2, <2>2
  <2> QED BY <2>2, <2>3, <2>4
<1>4. /\ right \in Seq(Buffers) /\ Len(right) = n - i
      /\ \A k \in 1..(n - i) : right[k] = free_list[i + k]
  <2>1. i + 1 \in Int /\ n \in Int /\ \A k \in (i + 1)..n : free_list[k] \in Buffers
    BY <1>1, <1>2
  <2>2. /\ right \in Seq(Buffers)
        /\ Len(right) = IF i + 1 <= n THEN n - (i + 1) + 1 ELSE 0
        /\ \A k \in 1..(n - (i + 1) + 1) : right[k] = free_list[i + 1 + k - 1]
    BY <2>1, SubSeqProperties
  <2> HIDE DEF right
  <2>3. \A k \in 1..(n - i) : k \in 1..(n - (i + 1) + 1) /\ i + 1 + k - 1 = i + k
    BY <1>1, <1>2
  <2>4. Len(right) = n - i
    BY <1>1, <1>2, <2>2
  <2> QED BY <2>2, <2>3, <2>4
<1> HIDE DEF left, right
<1>5. /\ rest \in Seq(Buffers) /\ Len(rest) = Len(left) + Len(right)
      /\ \A k \in 1..(Len(left) + Len(right)) :
           rest[k] = IF k <= Len(left) THEN left[k] ELSE right[k - Len(left)]
  BY <1>3, <1>4, ConcatProperties
<1> HIDE DEF rest
<1>6. /\ new \in Seq(Buffers) /\ Len(new) = Len(rest) + 1
      /\ \A k \in 1..Len(rest) : new[k] = rest[k]
      /\ new[Len(rest) + 1] = b
  BY <1>5, AppendProperties
<1> HIDE DEF new
<1>7. Len(rest) = n - 1 /\ n - 1 \in Nat
  BY <1>1, <1>2, <1>3, <1>4, <1>5
<1>8. ASSUME NEW c \in Buffers PROVE \E k \in 1..Len(new) : new[k] = c
  <2>1. PICK k \in 1..n : free_list[k] = c
    BY <1>1
  <2>2. CASE k < i
    <3>1. k \in 1..(n - 1) /\ k \in 1..(i - 1) /\ k <= i - 1
      BY <1>1, <1>2, <2>1, <2>2
    <3>2. rest[k] = c
      BY <1>3, <1>5, <1>7, <2>1, <3>1
    <3>3. k \in 1..Len(new) /\ new[k] = c
      BY <1>6, <1>7, <3>1, <3>2
    <3> QED BY <3>3
  <2>3. CASE k > i
    <3> DEFINE j == k - 1
    <3>1. j \in 1..(n - 1) /\ ~(j <= i - 1) /\ j - (i - 1) \in 1..(n - i) /\ i + (j - (i - 1)) = k
      BY <1>1, <1>2, <2>1, <2>3
    <3> HIDE DEF j
    <3>2. rest[j] = c
      <4>1. rest[j] = right[j - (i - 1)]
        BY <1>3, <1>5, <1>7, <3>1
      <4> QED BY <1>4, <2>1, <3>1, <4>1
    <3>3. j \in 1..Len(new) /\ new[j] = c
      BY <1>6, <1>7, <3>1, <3>2
    <3> QED BY <3>3
  <2>4. CASE k = i
    <3>1. Len(rest) + 1 \in 1..Len(new) /\ c = b
      BY <1>2, <1>6, <1>7, <2>1, <2>4
    <3> QED BY <1>6, <3>1
  <2> QED BY <1>1, <1>2, <2>1, <2>2, <2>3, <2>4
<1>9. Append(RemoveAt(free_list, Place(b)), b) = new
  BY DEF RemoveAt, new, rest, left, right, i, n
<1> QED BY <1>6, <1>8, <1>9

LEMMA VictimKeeps ==
  ASSUME IInv, NEW t \in Tasks, Victim(t)
  PROVE  IInv'
<1> DEFINE f == Top(t)
           b == f.bh
<1>1. /\ Agree(stack, held, buf) /\ Asleep /\ stack[t] # <<>> /\ cpu \in {t, NoTask}
      /\ f.at = "victim" /\ f \in Frames /\ FrameFits(f)
  BY Running DEF Victim
<1>2. UNCHANGED <<io, inodes>> /\ Types /\ OneCopy
  BY DEF Victim, IInv
<1>3. b \in Buffers /\ Owned(f) = {} /\ f.at \in GetLabels
  BY <1>1 DEF Owned, FrameFits, GetLabels
<1>4. /\ buf \in [Buffers -> Heads] /\ buf[b] \in Heads
      /\ buf[b].count \in Nat /\ buf[b].blk \in Nat
  BY <1>1, <1>3, HeadOf
<1>5. CASE Goto(t, [f EXCEPT !.at = "getblk"]) /\ UNCHANGED <<buf, free_list>>
  <2> DEFINE g == [f EXCEPT !.at = "getblk"]
  <2>1. g \in Frames /\ g.at = "getblk" /\ g.blk = f.blk
    <3> HIDE DEF f
    <3> QED BY <1>1 DEF Frames, Labels
  <2>2. Goto(t, g) /\ buf' = buf
    BY <1>5
  <2> HIDE DEF g
  <2>3. Owned(g) = {}
    BY <2>1 DEF Owned
  <2>4. FrameFits(g) /\ TopFits(g) /\ RightIn(buf', g)
    BY <2>1 DEF FrameFits, TopFits, RightIn, NewLabels
  <2>5. Follows(g, f)
    <3>1. g.at \in GetLabels
      BY <2>1 DEF GetLabels
    <3> QED BY <1>3, <2>1, <2>4, <3>1, SameCaller DEF Follows
  <2>6. Recount(buf, buf', Owned(f), Owned(g))
    BY <1>1, <1>3, <2>2, <2>3, SameCounts
  <2>7. Agree(stack', held', buf') /\ Asleep'
    BY <1>1, <2>1, <2>2, <2>4, <2>5, <2>6, GotoStep
  <2> QED BY <1>2, <1>5, <2>7, Finish DEF Types, inodes
<1>6. CASE Call(t, f, Frame("sync1", Dev(buf[b].blk), NULL, 1)) /\ UNCHANGED <<buf, free_list>>
  <2> DEFINE g == Frame("sync1", Dev(buf[b].blk), NULL, 1)
  <2>1. g \in Frames /\ g.at = "sync1"
    <3>1. /\ "sync1" \in Labels /\ Dev(buf[b].blk) \in Nat /\ NULL \in 0..NR_BUFFERS /\ 1 \in Nat
      BY <1>4, CacheAssumption DEF Labels, Dev, NULL
    <3> QED BY <3>1, FrameIs
  <2>2. Call(t, f, g) /\ buf' = buf
    BY <1>6
  <2> HIDE DEF g
  <2>3. Owned(g) = {} /\ FrameFits(g) /\ TopFits(g) /\ RightIn(buf', g) /\ RightIn(buf', f)
    BY <1>1, <2>1 DEF Owned, FrameFits, TopFits, RightIn, NewLabels
  <2>4. Over(f, g)
    BY <1>1, <2>1 DEF Over, GetLabels, BreadLabels, NewLabels, OutLabels
  <2>5. Calls(f, g, f)
    BY <1>1, <1>3, <2>1, <2>3, <2>4 DEF Calls
  <2>6. Recount(buf, buf', Owned(f), Owned(f) \cup Owned(g))
    BY <1>1, <1>3, <2>2, <2>3, SameCounts
  <2>7. Agree(stack', held', buf') /\ Asleep'
    BY <1>1, <2>2, <2>3, <2>5, <2>6, CallStep
  <2> QED BY <1>2, <1>6, <2>7, Finish DEF Types, inodes
<1>7. CASE /\ ~InUse(b) /\ ~Added(f.blk) /\ Change(b, NewHead(f.blk)) /\ ReturnBuffer(t, b)
           /\ free_list' = Append(RemoveAt(free_list, Place(b)), b)
  <2> DEFINE head == NewHead(f.blk)
  <2>1. buf[b].count = 0
    BY <1>4, <1>7 DEF InUse
  <2>2. head \in Heads /\ head.blk = f.blk /\ head.count = 1
    <3>1. f.blk \in Nat
      BY <1>1 DEF Frames
    <3> QED BY <3>1 DEF NewHead, Heads
  <2> HIDE DEF head
  <2>3. /\ Change(b, head) /\ buf'[b] = head
        /\ \A c \in Buffers \ {b} : buf'[c] = buf[c] /\ buf[c].blk # f.blk
    BY <1>3, <1>4, <1>7 DEF Change, Added, find_buffer, head
  <2>4. Recount(buf, buf', Owned(f), {b})
    <3>1. head.count = buf[b].count - One(b \in {}) + One(b \in {b})
      BY <2>1, <2>2 DEF One
    <3>2. Recount(buf, buf', {}, {b})
      BY <1>1, <1>3, <2>1, <2>2, <2>3, <3>1, OneCount
    <3> QED BY <1>3, <3>2
  <2>5. Agree(stack', held', buf') /\ Asleep'
    BY <1>1, <1>3, <1>7, <2>2, <2>3, <2>4, ReturnBufferStep
  <2>6. Types'
    BY <1>2, <1>3, <1>7, MovedToEnd DEF Types, inodes
  <2>7. OneCopy'
    BY <1>2, <2>2, <2>3 DEF OneCopy
  <2> QED BY <2>5, <2>6, <2>7 DEF IInv
<1> QED BY <1>5, <1>6, <1>7 DEF Victim

LEMMA BrelseKeeps ==
  ASSUME IInv, NEW t \in Tasks, Brelse(t)
  PROVE  IInv'
<1> DEFINE f == Top(t)
           b == f.bh
<1>1. /\ Agree(stack, held, buf) /\ Asleep /\ stack[t] # <<>> /\ cpu \in {t, NoTask}
      /\ f.at = "brelse" /\ f \in Frames /\ FrameFits(f)
  BY Running DEF Brelse
<1>2. UNCHANGED <<free_list, io, inodes>> /\ Types
  BY DEF Brelse, IInv
<1>3. b \in Buffers /\ Owned(f) = {b}
  BY <1>1 DEF Owned, FrameFits
<1>4. /\ Change(b, [buf[b] EXCEPT !.count = @ - 1])
      /\ stack' = Wake(Returned(t, NULL, TRUE)) /\ Leaves(t, NULL)
  BY DEF Brelse, Released, Change
<1>5. NULL \in 0..NR_BUFFERS /\ {NULL} \cap Buffers = {}
  BY CacheAssumption DEF NULL, Buffers
<1>6. Recount(buf, buf', {b}, {NULL}) /\ \A c \in Buffers : buf'[c].blk = buf[c].blk
  BY <1>1, <1>3, <1>4, <1>5, CountDown
<1>7. /\ held' = Holding(t, NULL)
      /\ cpu' = t \/ Returned(t, NULL, TRUE)[t] = <<>>
      /\ \A u \in Tasks \ {t} : Returned(t, NULL, TRUE)[u] = stack[u]
  BY <1>1, <1>4, LeavesStack
<1>8. Agree(Returned(t, NULL, TRUE), held', buf')
  BY <1>1, <1>3, <1>5, <1>6, <1>7, ReturnedBufferKeeps
<1>9. Agree(stack', held', buf')
  BY <1>4, <1>8, WakeKeeps
<1>10. Asleep'
  <2> DEFINE s == Returned(t, NULL, TRUE)
  <2>1. s \in [Tasks -> Seq(Frames)]
    BY <1>8 DEF Agree
  <2> HIDE DEF s
  <2>2. ASSUME NEW u \in Tasks
        PROVE  \/ stack'[u] = s[u]
               \/ s[u] # <<>> /\ stack'[u] # <<>> /\ Last(stack'[u]).at \in SleepLabels
    <3>1. CASE s[u] # <<>> /\ Last(s[u]).at = "none"
      <4> DEFINE g == [Last(s[u]) EXCEPT !.at = "getblk"]
      <4>1. g.at = "getblk" /\ g \in Frames
        <5>1. Last(s[u]) \in Frames
          BY <2>1, <3>1, FrontOf
        <5> DEFINE last == Last(s[u])
        <5> HIDE DEF last
        <5>2. last \in Frames => [last EXCEPT !.at = "getblk"].at = "getblk"
                                 /\ [last EXCEPT !.at = "getblk"] \in Frames
          BY DEF Frames, Labels
        <5> QED BY <5>1, <5>2 DEF last
      <4>2. stack'[u] = Append(Front(s[u]), g)
        BY <1>4, <3>1 DEF Wake, s
      <4> HIDE DEF g
      <4>3. stack'[u] \in Seq(Frames) /\ Len(stack'[u]) = Len(s[u]) /\ stack'[u][Len(s[u])] = g
            /\ Len(s[u]) \in Nat \ {0}
        BY <2>1, <3>1, <4>1, <4>2, Replaced, FrontOf
      <4>4. stack'[u] # <<>> /\ Last(stack'[u]) = g
        BY <4>3 DEF Last
      <4> QED BY <3>1, <4>1, <4>4 DEF SleepLabels
    <3>2. CASE ~(s[u] # <<>> /\ Last(s[u]).at = "none")
      BY <1>4, <3>2 DEF Wake, s
    <3> QED BY <3>1, <3>2
  <2>3. cpu' = t \/ stack'[t] = <<>>
    BY <1>7, <2>2 DEF s
  <2>4. \A u \in Tasks \ {t} : stack'[u] = stack[u] \/ Last(stack'[u]).at \in SleepLabels
    BY <1>7, <2>2 DEF s
  <2> QED BY <1>1, <2>3, <2>4, AsleepKeeps
<1> QED BY <1>2, <1>6, <1>9, <1>10, Finish DEF Types, inodes

-----------------------------------------------------------------------------
(* ll_rw_block and end_request.                                            *)
LEMMA LockBufferKeeps ==
  ASSUME IInv, NEW t \in Tasks, LockBuffer(t)
  PROVE  IInv'
<1> DEFINE f == Top(t)
           b == f.bh
<1>1. /\ Agree(stack, held, buf) /\ Asleep /\ stack[t] # <<>> /\ cpu \in {t, NoTask}
      /\ f.at = "lock" /\ f \in Frames /\ FrameFits(f)
  BY Running DEF LockBuffer
<1>2. UNCHANGED <<free_list, io, inodes>> /\ Types
  BY DEF LockBuffer, IInv
<1>3. b \in Buffers /\ f.i \in {READ, WRITE} /\ Owned(f) = {} /\ f.at \notin GetLabels
  BY <1>1 DEF Owned, FrameFits, GetLabels
<1>4. buf \in [Buffers -> Heads]
  BY <1>1 DEF Agree
<1>5. CASE Return(t) /\ buf' = buf
  <2>1. Recount(buf, buf', Owned(f), {NULL})
    BY <1>1, <1>3, <1>5, CacheAssumption, SameCounts DEF Buffers, NULL
  <2>2. Agree(stack', held', buf') /\ Asleep'
    BY <1>1, <1>3, <1>5, <2>1, ReturnStep
  <2> QED BY <1>2, <1>5, <2>2, Finish DEF Types, inodes
<1>6. CASE Change(b, [buf[b] EXCEPT !.lock = TRUE]) /\ Goto(t, [f EXCEPT !.at = "slot"])
  <2> DEFINE g == [f EXCEPT !.at = "slot"]
  <2>1. g \in Frames /\ g.at = "slot" /\ g.bh = f.bh /\ g.i = f.i
    <3> HIDE DEF f
    <3> QED BY <1>1 DEF Frames, Labels
  <2>2. Goto(t, g)
    BY <1>6
  <2> HIDE DEF g
  <2>3. Owned(g) = {} /\ FrameFits(g) /\ TopFits(g) /\ RightIn(buf', g)
    BY <1>3, <2>1 DEF Owned, FrameFits, TopFits, RightIn, NewLabels
  <2>4. Follows(g, f)
    <3>1. /\ g.at \notin GetLabels
          /\ {f.at, g.at} \cap (GetLabels \cup BreadLabels \cup OutLabels \cup {"brelse"}) = {}
      BY <1>1, <2>1 DEF GetLabels, BreadLabels, OutLabels
    <3> QED BY <2>3, <3>1, SameCaller DEF Follows
  <2>5. /\ buf' \in [Buffers -> Heads]
        /\ \A c \in Buffers : buf'[c].blk = buf[c].blk /\ buf'[c].count = buf[c].count
    <3> DEFINE x == [buf[b] EXCEPT !.lock = TRUE]
    <3>1. x \in Heads /\ x.blk = buf[b].blk /\ x.count = buf[b].count
      BY <1>3, <1>4 DEF Heads
    <3>2. buf' = [buf EXCEPT ![b] = x]
      BY <1>6 DEF Change
    <3> HIDE DEF x
    <3> QED BY <1>3, <1>4, <3>1, <3>2
  <2>6. Recount(buf, buf', Owned(f), Owned(g))
    BY <1>1, <1>3, <2>3, <2>5, FlagsChange
  <2>7. Agree(stack', held', buf') /\ Asleep'
    BY <1>1, <2>1, <2>2, <2>3, <2>4, <2>6, GotoStep
  <2> QED BY <1>2, <2>5, <2>7, Finish DEF Types, inodes
<1> QED BY <1>5, <1>6 DEF LockBuffer

LEMMA AddRequestKeeps ==
  ASSUME IInv, NEW t \in Tasks, AddRequest(t)
  PROVE  IInv'
<1> DEFINE f == Top(t)
           b == f.bh
<1>1. /\ Agree(stack, held, buf) /\ Asleep /\ stack[t] # <<>> /\ cpu \in {t, NoTask}
      /\ f.at = "slot" /\ f \in Frames /\ FrameFits(f)
  BY Running DEF AddRequest
<1>2. UNCHANGED <<free_list, inodes>> /\ Types
  BY DEF AddRequest, IInv
<1>3. b \in Buffers /\ f.i \in {READ, WRITE} /\ Owned(f) = {} /\ f.at \notin GetLabels
  BY <1>1 DEF Owned, FrameFits, GetLabels
<1>4. buf \in [Buffers -> Heads]
  BY <1>1 DEF Agree
<1>5. /\ buf' \in [Buffers -> Heads]
      /\ \A c \in Buffers : buf'[c].blk = buf[c].blk /\ buf'[c].count = buf[c].count
  BY <1>3, <1>4 DEF Change, Heads, AddRequest
<1>6. Recount(buf, buf', Owned(f), {NULL})
  BY <1>1, <1>3, <1>5, CacheAssumption, FlagsChange DEF Buffers, NULL
<1>7. Agree(stack', held', buf') /\ Asleep'
  BY <1>1, <1>3, <1>6, ReturnStep DEF AddRequest
<1>8. io' \in [Buffers -> {-1, READ, WRITE}]
  BY <1>2, <1>3 DEF AddRequest, Types
<1> QED BY <1>2, <1>5, <1>7, <1>8, Finish DEF Types, inodes

LEMMA EndRequestKeeps ==
  ASSUME IInv, NEW b \in Buffers, NEW ok \in BOOLEAN, EndRequest(b, ok)
  PROVE  IInv'
<1>1. Agree(stack, held, buf) /\ Asleep /\ Types /\ UNCHANGED <<free_list, inodes, stack, held, cpu>>
  BY DEF IInv, EndRequest
<1>2. buf \in [Buffers -> Heads]
  BY <1>1 DEF Agree
<1>3. /\ buf' \in [Buffers -> Heads]
      /\ \A c \in Buffers : buf'[c].blk = buf[c].blk /\ buf'[c].count = buf[c].count
  BY <1>2 DEF Change, Heads, EndRequest
<1>4. Recount(buf, buf', {}, {})
  BY <1>1, <1>3, FlagsChange
<1>5. Agree(stack', held', buf') /\ Asleep'
  BY <1>1, <1>4, StacksKept
<1>6. io' \in [Buffers -> {-1, READ, WRITE}]
  BY <1>1 DEF EndRequest, Types
<1> QED BY <1>1, <1>3, <1>5, <1>6, Finish DEF Types, inodes

-----------------------------------------------------------------------------
(* Steps that leave the buffers and the dirty inodes alone.                *)
LEMMA GotoOnly ==
  ASSUME IInv, NEW t \in Tasks, stack[t] # <<>>, cpu \in {t, NoTask}, UNCHANGED <<cache, i_dirt>>,
         NEW g \in Frames, Goto(t, g), Follows(g, Top(t)), RightIn(buf, g),
         \A b \in Buffers : b \in Owned(Top(t)) <=> b \in Owned(g)
  PROVE  IInv'
<1>1. Agree(stack, held, buf) /\ Asleep /\ Types /\ buf' = buf /\ UNCHANGED <<free_list, io>>
  BY DEF IInv, cache
<1>2. Recount(buf, buf', Owned(Top(t)), Owned(g))
  BY <1>1, SameCounts
<1>3. Agree(stack', held', buf') /\ Asleep'
  BY <1>1, <1>2, GotoStep
<1> QED BY <1>1, <1>3, Finish DEF Types

LEMMA CallOnly ==
  ASSUME IInv, NEW t \in Tasks, stack[t] # <<>>, cpu \in {t, NoTask}, UNCHANGED <<cache, i_dirt>>,
         NEW f, NEW g, Call(t, f, g), Calls(f, g, Top(t)), RightIn(buf, f), RightIn(buf, g),
         \A b \in Buffers : b \in Owned(Top(t)) <=> b \in Owned(f) \cup Owned(g)
  PROVE  IInv'
<1>1. Agree(stack, held, buf) /\ Asleep /\ Types /\ buf' = buf /\ UNCHANGED <<free_list, io>>
  BY DEF IInv, cache
<1>2. Recount(buf, buf', Owned(Top(t)), Owned(f) \cup Owned(g))
  BY <1>1, SameCounts
<1>3. Agree(stack', held', buf') /\ Asleep'
  BY <1>1, <1>2, CallStep
<1> QED BY <1>1, <1>3, Finish DEF Types

LEMMA ReturnOnly ==
  ASSUME IInv, NEW t \in Tasks, stack[t] # <<>>, cpu \in {t, NoTask}, UNCHANGED <<cache, i_dirt>>,
         Return(t), Top(t).at \notin GetLabels, Owned(Top(t)) = {}
  PROVE  IInv'
<1>1. Agree(stack, held, buf) /\ Asleep /\ Types /\ buf' = buf /\ UNCHANGED <<free_list, io>>
  BY DEF IInv, cache
<1>2. Recount(buf, buf', Owned(Top(t)), {NULL})
  BY <1>1, SameCounts, CacheAssumption DEF Buffers, NULL
<1>3. Agree(stack', held', buf') /\ Asleep'
  BY <1>1, <1>2, ReturnStep
<1> QED BY <1>1, <1>3, Finish DEF Types

LEMMA ReturnBufferOnly ==
  ASSUME IInv, NEW t \in Tasks, stack[t] # <<>>, cpu \in {t, NoTask}, UNCHANGED <<cache, i_dirt>>,
         NEW b \in Buffers, ReturnBuffer(t, b), Top(t).at \in BreadLabels, Owned(Top(t)) = {b}
  PROVE  IInv'
<1>1. Agree(stack, held, buf) /\ Asleep /\ Types /\ buf' = buf /\ UNCHANGED <<free_list, io>>
  BY DEF IInv, cache
<1>2. Recount(buf, buf', Owned(Top(t)), {b})
  BY <1>1, SameCounts
<1>3. Agree(stack', held', buf') /\ Asleep'
  BY <1>1, <1>2, ReturnBufferStep
<1> QED BY <1>1, <1>3, Finish DEF Types

-----------------------------------------------------------------------------
(* bread and breada.                                                       *)
LEMMA BreadKeeps ==
  ASSUME IInv, NEW t \in Tasks, Bread(t)
  PROVE  IInv'
<1> DEFINE f == Top(t)
           g == [f EXCEPT !.at = "have"]
           c == Frame("getblk", f.blk, NULL, 0)
<1>1. /\ Agree(stack, held, buf) /\ stack[t] # <<>> /\ cpu \in {t, NoTask}
      /\ f.at = "bread" /\ f \in Frames /\ FrameFits(f)
  BY Running DEF Bread
<1>2. Call(t, g, c) /\ UNCHANGED <<cache, i_dirt>>
  BY DEF Bread, inodes
<1>3. g \in Frames /\ g.at = "have" /\ g.bh = f.bh /\ g.blk = f.blk
  <2> HIDE DEF f
  <2> QED BY <1>1 DEF Frames, Labels
<1>4. f.bh = NULL /\ NULL \notin Buffers /\ NULL \in 0..NR_BUFFERS /\ f.blk \in Nat
  BY <1>1, CacheAssumption DEF FrameFits, Buffers, NULL, Frames
<1>5. c \in Frames /\ c.at = "getblk" /\ c.blk = f.blk
  <2> HIDE DEF f
  <2>1. "getblk" \in Labels /\ 0 \in Nat
    BY DEF Labels
  <2> QED BY <1>4, <2>1, FrameIs
<1> HIDE DEF g, c
<1>6. /\ FrameFits(g) /\ FrameFits(c) /\ TopFits(c) /\ RightIn(buf, g) /\ RightIn(buf, c)
      /\ Owned(g) = {NULL} /\ Owned(c) = {} /\ Owned(f) = {}
  BY <1>1, <1>3, <1>4, <1>5 DEF FrameFits, TopFits, RightIn, Owned, NewLabels
<1>7. Over(g, c)
  BY <1>3, <1>4, <1>5 DEF Over, NewLabels, GetLabels, BreadLabels, OutLabels
<1>8. Calls(g, c, f)
  <2>1. f.at \in BreadLabels /\ g.at \in BreadLabels /\ g.at \notin GetLabels
    BY <1>1, <1>3 DEF BreadLabels, GetLabels
  <2> QED BY <1>3, <1>5, <1>6, <1>7, <2>1, SameCaller DEF Calls
<1> QED BY <1>1, <1>2, <1>4, <1>6, <1>8, CallOnly

LEMMA HaveKeeps ==
  ASSUME IInv, NEW t \in Tasks, Have(t)
  PROVE  IInv'
<1> DEFINE f == Top(t)
           g == [f EXCEPT !.at = "filled"]
           c == Frame("lock", NULL, f.bh, READ)
<1>1. /\ Agree(stack, held, buf) /\ stack[t] # <<>> /\ cpu \in {t, NoTask}
      /\ f.at = "have" /\ f \in Frames /\ TopFits(f) /\ RightIn(buf, f)
  BY Running DEF Have
<1>2. UNCHANGED <<cache, i_dirt>> /\ (ReturnBuffer(t, f.bh) \/ Call(t, g, c))
  BY DEF Have, inodes
<1>3. f.bh \in Buffers /\ f.bh \in 0..NR_BUFFERS /\ Owned(f) = {f.bh} /\ f.at \in BreadLabels
  BY <1>1, CacheAssumption DEF TopFits, NewLabels, Owned, Buffers, BreadLabels
<1>4. CASE ReturnBuffer(t, f.bh)
  BY <1>1, <1>2, <1>3, <1>4, ReturnBufferOnly
<1>5. CASE Call(t, g, c)
  <2>1. g \in Frames /\ g.at = "filled" /\ g.bh = f.bh /\ g.blk = f.blk
    <3> HIDE DEF f
    <3> QED BY <1>1 DEF Frames, Labels
  <2>2. c \in Frames /\ c.at = "lock" /\ c.bh = f.bh /\ c.i = READ
    BY <1>3, FrameIs DEF Labels, NULL, READ
  <2> HIDE DEF g, c
  <2>3. /\ FrameFits(g) /\ FrameFits(c) /\ TopFits(c) /\ RightIn(buf, g) /\ RightIn(buf, c)
        /\ Owned(g) = {f.bh} /\ Owned(c) = {}
    BY <1>1, <1>3, <2>1, <2>2 DEF FrameFits, TopFits, RightIn, Owned, NewLabels
  <2>4. Over(g, c)
    BY <2>1, <2>2 DEF Over, NewLabels, GetLabels, BreadLabels, OutLabels
  <2>5. Calls(g, c, f)
    <3>1. g.at \in BreadLabels /\ g.at \notin GetLabels
      BY <2>1 DEF BreadLabels, GetLabels
    <3> QED BY <1>3, <2>1, <2>2, <2>3, <2>4, <3>1, SameCaller DEF Calls
  <2> QED BY <1>1, <1>2, <1>3, <1>5, <2>3, <2>5, CallOnly
<1> QED BY <1>2, <1>4, <1>5

LEMMA FilledKeeps ==
  ASSUME IInv, NEW t \in Tasks, Filled(t)
  PROVE  IInv'
<1> DEFINE f == Top(t)
           g == [f EXCEPT !.at = "brelse"]
<1>1. /\ Agree(stack, held, buf) /\ stack[t] # <<>> /\ cpu \in {t, NoTask}
      /\ f.at = "filled" /\ f \in Frames /\ FrameFits(f)
  BY Running DEF Filled
<1>2. UNCHANGED <<cache, i_dirt>> /\ (ReturnBuffer(t, f.bh) \/ Goto(t, g))
  BY DEF Filled, inodes
<1>3. f.bh \in Buffers /\ Owned(f) = {f.bh} /\ f.at \in BreadLabels
  BY <1>1 DEF FrameFits, Owned, BreadLabels
<1>4. CASE ReturnBuffer(t, f.bh)
  BY <1>1, <1>2, <1>3, <1>4, ReturnBufferOnly
<1>5. CASE Goto(t, g)
  <2>1. g \in Frames /\ g.at = "brelse" /\ g.bh = f.bh
    <3> HIDE DEF f
    <3> QED BY <1>1 DEF Frames, Labels
  <2> HIDE DEF g
  <2>2. FrameFits(g) /\ TopFits(g) /\ RightIn(buf, g) /\ Owned(g) = {f.bh}
    BY <1>3, <2>1 DEF FrameFits, TopFits, RightIn, Owned, NewLabels
  <2>3. Follows(g, f)
    <3>1. g.at \in BreadLabels \cup {"brelse"} /\ g.at \notin GetLabels
      BY <2>1 DEF GetLabels
    <3> QED BY <1>3, <2>2, <3>1, SameCaller DEF Follows
  <2> QED BY <1>1, <1>2, <1>3, <1>5, <2>1, <2>2, <2>3, GotoOnly
<1> QED BY <1>2, <1>4, <1>5

LEMMA BreadaKeeps ==
  ASSUME IInv, NEW t \in Tasks, Breada(t)
  PROVE  IInv'
<1> DEFINE f == Top(t)
<1>1. /\ Agree(stack, held, buf) /\ stack[t] # <<>> /\ cpu \in {t, NoTask} /\ f \in Frames
      /\ FrameFits(f) /\ TopFits(f) /\ RightIn(buf, f) /\ f.at \in {"breada", "first", "more"}
  BY Running DEF Breada
<1>2. UNCHANGED <<cache, i_dirt>>
  BY DEF Breada, inodes
<1>3. f.at \in OutLabels /\ f.blk \in Nat /\ NULL \notin Buffers /\ NULL \in 0..NR_BUFFERS
  BY <1>1, CacheAssumption DEF OutLabels, Buffers, NULL, Frames
<1>4. CASE f.at = "breada" /\ Call(t, [f EXCEPT !.at = "first"], Frame("getblk", f.blk, NULL, 0))
  <2> DEFINE g == [f EXCEPT !.at = "first"]
             c == Frame("getblk", f.blk, NULL, 0)
  <2>1. g \in Frames /\ g.at = "first" /\ g.bh = f.bh /\ g.blk = f.blk
    <3> HIDE DEF f
    <3> QED BY <1>1 DEF Frames, Labels
  <2>2. c \in Frames /\ c.at = "getblk" /\ c.blk = f.blk
    BY <1>3, FrameIs, SMTT(30) DEF Labels
  <2>3. Call(t, g, c)
    BY <1>4
  <2> HIDE DEF g, c
  <2>4. f.bh = NULL
    BY <1>1, <1>4 DEF FrameFits
  <2>5. /\ FrameFits(g) /\ FrameFits(c) /\ TopFits(c) /\ RightIn(buf, g) /\ RightIn(buf, c)
        /\ Owned(g) = {NULL} /\ Owned(c) = {} /\ Owned(f) = {}
    BY <1>3, <1>4, <2>1, <2>2, <2>4 DEF FrameFits, TopFits, RightIn, Owned, NewLabels
  <2>6. Over(g, c) /\ g.at \notin GetLabels
    BY <2>1, <2>2, <2>4 DEF Over, NewLabels, GetLabels, BreadLabels, OutLabels
  <2>7. Calls(g, c, f)
    BY <1>3, <2>1, <2>2, <2>5, <2>6, SameCaller DEF Calls
  <2> QED BY <1>1, <1>2, <1>3, <2>3, <2>5, <2>7, CallOnly
<1>5. CASE f.at = "first" /\ (\/ Goto(t, [f EXCEPT !.at = "more", !.i = f.bh])
                              \/ Call(t, [f EXCEPT !.at = "more", !.i = f.bh],
                                         Frame("lock", NULL, f.bh, READ)))
  <2> DEFINE g == [f EXCEPT !.at = "more", !.i = f.bh]
             c == Frame("lock", NULL, f.bh, READ)
  <2>1. f.bh \in Buffers /\ f.bh \in 0..NR_BUFFERS /\ f.bh \in Nat /\ Owned(f) = {f.bh}
    BY <1>1, <1>5, CacheAssumption DEF TopFits, NewLabels, Owned, Buffers
  <2>2. g \in Frames /\ g.at = "more" /\ g.bh = f.bh /\ g.blk = f.blk /\ g.i = f.bh
    <3> HIDE DEF f
    <3> QED BY <1>1, <2>1 DEF Frames, Labels
  <2>3. c \in Frames /\ c.at = "lock" /\ c.bh = f.bh /\ c.i = READ
    BY <2>1, FrameIs DEF Labels, NULL, READ
  <2>4. Goto(t, g) \/ Call(t, g, c)
    BY <1>5
  <2> HIDE DEF g, c
  <2>5. /\ FrameFits(g) /\ TopFits(g) /\ FrameFits(c) /\ TopFits(c) /\ RightIn(buf, g)
        /\ RightIn(buf, c) /\ Owned(g) = {f.bh} /\ Owned(c) = {}
    BY <1>1, <1>5, <2>1, <2>2, <2>3 DEF FrameFits, TopFits, RightIn, Owned, NewLabels
  <2>6. Over(g, c) /\ g.at \notin GetLabels
    BY <2>2, <2>3 DEF Over, NewLabels, GetLabels, BreadLabels, OutLabels
  <2>7. Calls(g, c, f) /\ Follows(g, f)
    BY <1>3, <2>2, <2>3, <2>5, <2>6, SameCaller DEF Calls, Follows
  <2>8. CASE Goto(t, g)
    BY <1>1, <1>2, <2>1, <2>2, <2>5, <2>7, <2>8, GotoOnly
  <2>9. CASE Call(t, g, c)
    BY <1>1, <1>2, <2>1, <2>5, <2>7, <2>9, CallOnly
  <2> QED BY <2>4, <2>8, <2>9
<1>6. CASE /\ f.at = "more"
           /\ \E next \in Blocks \ {f.blk} :
                Call(t, [f EXCEPT !.at = "drop"], Frame("getblk", next, NULL, 0))
  <2> PICK next \in Blocks \ {f.blk} :
             Call(t, [f EXCEPT !.at = "drop"], Frame("getblk", next, NULL, 0))
    BY <1>6
  <2> DEFINE g == [f EXCEPT !.at = "drop"]
             c == Frame("getblk", next, NULL, 0)
  <2>1. g \in Frames /\ g.at = "drop" /\ g.bh = f.bh /\ g.blk = f.blk /\ g.i = f.i
    <3> HIDE DEF f
    <3> QED BY <1>1 DEF Frames, Labels
  <2>2. c \in Frames /\ c.at = "getblk" /\ c.blk = next
    <3>1. next \in Nat /\ 0 \in Nat /\ "getblk" \in Labels
      BY CacheAssumption DEF Labels
    <3> HIDE DEF f
    <3> QED BY <1>3, <3>1, FrameIs
  <2>3. Call(t, g, c)
    OBVIOUS
  <2> HIDE DEF g, c
  <2>4. f.bh \in Buffers /\ f.i = f.bh /\ Owned(f) = {f.bh} /\ next # f.blk
    BY <1>1, <1>6 DEF FrameFits, Owned
  <2>5. /\ FrameFits(g) /\ FrameFits(c) /\ TopFits(c) /\ RightIn(buf, g) /\ RightIn(buf, c)
        /\ Owned(g) = {f.bh} /\ Owned(c) = {}
    BY <1>1, <1>6, <2>1, <2>2, <2>4 DEF FrameFits, TopFits, RightIn, Owned, NewLabels
  <2>6. Over(g, c) /\ g.at \notin GetLabels
    BY <2>1, <2>2, <2>4 DEF Over, NewLabels, GetLabels, BreadLabels, OutLabels
  <2>7. Calls(g, c, f)
    BY <1>3, <2>1, <2>2, <2>5, <2>6, SameCaller DEF Calls
  <2> QED BY <1>1, <1>2, <2>3, <2>4, <2>5, <2>7, CallOnly
<1>7. \/ f.at = "breada" /\ Call(t, [f EXCEPT !.at = "first"], Frame("getblk", f.blk, NULL, 0))
      \/ f.at = "first" /\ (\/ Goto(t, [f EXCEPT !.at = "more", !.i = f.bh])
                            \/ Call(t, [f EXCEPT !.at = "more", !.i = f.bh],
                                       Frame("lock", NULL, f.bh, READ)))
      \/ /\ f.at = "more"
         /\ \E next \in Blocks \ {f.blk} :
              Call(t, [f EXCEPT !.at = "drop"], Frame("getblk", next, NULL, 0))
  BY DEF Breada, Run, At
<1> QED BY <1>4, <1>5, <1>6, <1>7

LEMMA DropKeeps ==
  ASSUME IInv, NEW t \in Tasks, Drop(t)
  PROVE  IInv'
<1> DEFINE f == Top(t)
           b == f.i
           d == f.bh
           g == [f EXCEPT !.at = "filled", !.bh = b]
<1>1. /\ Agree(stack, held, buf) /\ Asleep /\ stack[t] # <<>> /\ cpu \in {t, NoTask} /\ f \in Frames
      /\ FrameFits(f) /\ TopFits(f) /\ RightIn(buf, f) /\ f.at = "drop"
  BY Running DEF Drop
<1>2. UNCHANGED <<free_list, inodes>> /\ Types /\ Goto(t, g)
  BY DEF Drop, IInv
<1>3. b \in Buffers /\ d \in Buffers /\ b # d /\ Owned(f) = {b, d} /\ b \in 0..NR_BUFFERS
  BY <1>1, CacheAssumption DEF FrameFits, TopFits, Owned, Buffers
<1>4. g \in Frames /\ g.at = "filled" /\ g.bh = b /\ g.blk = f.blk
  <2> HIDE DEF f
  <2> QED BY <1>1, <1>3 DEF Frames, Labels
<1>5. buf \in [Buffers -> Heads] /\ \A c \in Buffers : buf[c].count \in Nat
  BY <1>1, <1>3, HeadOf
<1>6. /\ buf' = [buf EXCEPT ![d].count = @ - 1]
         \/ buf' = [buf EXCEPT ![d].count = @ - 1, ![b].lock = TRUE, ![b].dirt = FALSE]
      /\ io' = io \/ io' = [io EXCEPT ![b] = READ]
  BY DEF Drop, Dropped
<1> HIDE DEF f, g, b, d
<1>7. /\ buf' \in [Buffers -> Heads]
      /\ \A c \in Buffers : buf'[c].blk = buf[c].blk
      /\ \A c \in Buffers \ {d} : buf'[c].count = buf[c].count
      /\ buf'[d].count = buf[d].count - 1
  <2>1. CASE buf' = [buf EXCEPT ![d].count = @ - 1]
    BY <1>3, <1>5, <2>1 DEF Heads
  <2>2. CASE buf' = [buf EXCEPT ![d].count = @ - 1, ![b].lock = TRUE, ![b].dirt = FALSE]
    <3> DEFINE one == [buf[d] EXCEPT !.count = @ - 1]
               two == [buf[b] EXCEPT !.lock = TRUE, !.dirt = FALSE]
    <3>1. buf' = [buf EXCEPT ![d] = one, ![b] = two]
      BY <1>3, <1>5, <2>2
    <3>2. one \in Heads /\ one.blk = buf[d].blk /\ one.count = buf[d].count - 1
      BY <1>3, <1>5 DEF Heads
    <3>3. two \in Heads /\ two.blk = buf[b].blk /\ two.count = buf[b].count
      BY <1>3, <1>5 DEF Heads
    <3> HIDE DEF one, two
    <3> QED BY <1>3, <1>5, <3>1, <3>2, <3>3
  <2> QED BY <1>6, <2>1, <2>2
<1>8. Owned(g) = {b} /\ FrameFits(g) /\ TopFits(g) /\ RightIn(buf', g)
  <2>1. buf'[b].blk = f.blk
    BY <1>1, <1>3, <1>7 DEF RightIn, b
  <2> QED BY <1>3, <1>4, <2>1 DEF FrameFits, TopFits, RightIn, Owned, NewLabels
<1>9. Follows(g, f)
  <2>1. f.at \in OutLabels /\ g.at \notin GetLabels
    BY <1>1, <1>4 DEF OutLabels, GetLabels
  <2> QED BY <1>8, <2>1, SameCaller DEF Follows
<1>10. Recount(buf, buf', Owned(f), Owned(g))
  BY <1>3, <1>5, <1>7, <1>8 DEF Recount, One
<1>11. Agree(stack', held', buf') /\ Asleep'
  BY <1>1, <1>2, <1>4, <1>8, <1>9, <1>10, GotoStep DEF f
<1>12. io' \in [Buffers -> {-1, READ, WRITE}]
  BY <1>2, <1>3, <1>6 DEF Types
<1> QED BY <1>2, <1>7, <1>11, <1>12, Finish DEF Types, inodes

-----------------------------------------------------------------------------
(* sync_dev, sys_sync and sync_inodes: nothing is counted.                 *)
LEMMA PassLabels ==
  ASSUME NEW pass \in DOMAIN WaitOf
  PROVE  /\ pass \in {"sync1", "sync2", "syncall"} /\ pass \in Labels
         /\ WaitOf[pass] \in {"wait1", "wait2", "waitall"} /\ WaitOf[pass] \in Labels
BY DEF WaitOf, Labels

LEMMA SyncNextKeeps ==
  ASSUME IInv, NEW t \in Tasks, NEW pass \in DOMAIN WaitOf, SyncNext(t, pass)
  PROVE  IInv'
<1> DEFINE f == Top(t)
           rest == {b \in Buffers : b >= f.i /\ InPass(f, pass, b)}
<1>1. /\ Agree(stack, held, buf) /\ stack[t] # <<>> /\ cpu \in {t, NoTask} /\ f \in Frames
      /\ f.at = pass /\ FrameFits(f)
  BY Running DEF SyncNext
<1>2. UNCHANGED <<cache, i_dirt>>
  BY DEF SyncNext, inodes
<1>3. pass \in {"sync1", "sync2", "syncall"} /\ WaitOf[pass] \in {"wait1", "wait2", "waitall"}
      /\ WaitOf[pass] \in Labels
  BY PassLabels
<1>4. Owned(f) = {} /\ f.at \notin GetLabels \cup BreadLabels \cup OutLabels \cup {"brelse"}
  BY <1>1, <1>3 DEF Owned, GetLabels, BreadLabels, OutLabels
<1>5. CASE rest # {} /\ Goto(t, [f EXCEPT !.at = WaitOf[pass], !.i = Min(rest)])
  <2> DEFINE least == Min(rest)
             g == [f EXCEPT !.at = WaitOf[pass], !.i = least]
  <2>1. least \in Buffers
    <3>1. rest \subseteq Nat /\ rest \subseteq Buffers /\ rest # {}
      BY <1>5, CacheAssumption DEF Buffers
    <3> HIDE DEF rest
    <3>2. Min(rest) \in rest
      BY <3>1, MinIsLeast
    <3> QED BY <3>1, <3>2
  <2> HIDE DEF least
  <2>2. g \in Frames /\ g.at = WaitOf[pass] /\ g.i = least
    <3>1. least \in Nat
      BY <2>1, CacheAssumption DEF Buffers
    <3> DEFINE wait == WaitOf[pass]
    <3> HIDE DEF f, wait
    <3> QED BY <1>1, <1>3, <3>1 DEF Frames, wait
  <2>3. Goto(t, g)
    BY <1>5 DEF least
  <2> HIDE DEF g, f
  <2>4. Owned(g) = {} /\ FrameFits(g) /\ TopFits(g) /\ RightIn(buf, g)
    BY <1>3, <2>1, <2>2 DEF Owned, FrameFits, TopFits, RightIn, NewLabels
  <2>5. Follows(g, f)
    <3>1. g.at \notin GetLabels \cup BreadLabels \cup OutLabels \cup {"brelse"}
      BY <1>3, <2>2 DEF GetLabels, BreadLabels, OutLabels
    <3> QED BY <1>4, <2>4, <3>1, SameCaller DEF Follows
  <2> QED BY <1>1, <1>2, <1>4, <2>2, <2>3, <2>4, <2>5, GotoOnly DEF f
<1>6. CASE Call(t, [f EXCEPT !.at = "sync2", !.i = 1], Frame("inodes", NULL, NULL, 1))
  <2> DEFINE g == [f EXCEPT !.at = "sync2", !.i = 1]
             c == Frame("inodes", NULL, NULL, 1)
  <2>1. g \in Frames /\ g.at = "sync2"
    <3> HIDE DEF f
    <3> QED BY <1>1 DEF Frames, Labels
  <2>2. c \in Frames /\ c.at = "inodes"
    <3>1. "inodes" \in Labels /\ NULL \in Nat /\ NULL \in 0..NR_BUFFERS /\ 1 \in Nat
      BY CacheAssumption DEF Labels, NULL
    <3> QED BY <3>1, FrameIs
  <2>3. Call(t, g, c)
    BY <1>6
  <2> HIDE DEF g, c, f
  <2>4. /\ Owned(g) = {} /\ Owned(c) = {} /\ FrameFits(g) /\ FrameFits(c) /\ TopFits(c)
        /\ RightIn(buf, g) /\ RightIn(buf, c)
    BY <2>1, <2>2 DEF Owned, FrameFits, TopFits, RightIn, NewLabels
  <2>5. Over(g, c) /\ g.at \notin GetLabels \cup BreadLabels \cup OutLabels \cup {"brelse"}
    BY <2>1, <2>2 DEF Over, NewLabels, GetLabels, BreadLabels, OutLabels
  <2>6. Calls(g, c, f)
    BY <1>4, <2>1, <2>2, <2>4, <2>5, SameCaller DEF Calls
  <2> QED BY <1>1, <1>2, <1>4, <2>3, <2>4, <2>6, CallOnly DEF f
<1>7. CASE Return(t)
  BY <1>1, <1>2, <1>4, <1>7, ReturnOnly
<1> QED BY <1>5, <1>6, <1>7 DEF SyncNext

LEMMA SyncBufferKeeps ==
  ASSUME IInv, NEW t \in Tasks, NEW pass \in DOMAIN WaitOf, SyncBuffer(t, pass)
  PROVE  IInv'
<1> DEFINE f == Top(t)
           next == [f EXCEPT !.at = pass, !.i = f.i + 1]
           c == Frame("lock", NULL, f.i, WRITE)
<1>1. /\ Agree(stack, held, buf) /\ stack[t] # <<>> /\ cpu \in {t, NoTask} /\ f \in Frames
      /\ f.at = WaitOf[pass] /\ FrameFits(f)
  BY Running DEF SyncBuffer
<1>2. UNCHANGED <<cache, i_dirt>> /\ (Call(t, next, c) \/ Goto(t, next))
  BY DEF SyncBuffer, inodes
<1>3. pass \in {"sync1", "sync2", "syncall"} /\ WaitOf[pass] \in {"wait1", "wait2", "waitall"}
      /\ pass \in Labels
  BY PassLabels
<1>4. Owned(f) = {} /\ f.at \notin GetLabels \cup BreadLabels \cup OutLabels \cup {"brelse"}
  BY <1>1, <1>3 DEF Owned, GetLabels, BreadLabels, OutLabels
<1>5. f.i \in Buffers /\ f.i \in Nat /\ f.i \in 0..NR_BUFFERS
  BY <1>1, <1>3, CacheAssumption DEF FrameFits, Buffers
<1>6. next \in Frames /\ next.at = pass
  <2> DEFINE j == f.i + 1
  <2>1. j \in Nat /\ f \in Frames /\ pass \in Labels
    BY <1>1, <1>3, <1>5
  <2> HIDE DEF f, j
  <2>2. [f EXCEPT !.at = pass, !.i = j] \in Frames
    BY <2>1 DEF Frames
  <2>3. [f EXCEPT !.at = pass, !.i = j].at = pass
    BY <2>1 DEF Frames
  <2> QED BY <2>2, <2>3 DEF j
<1>7. c \in Frames /\ c.at = "lock" /\ c.bh = f.i /\ c.i = WRITE
  <2>1. "lock" \in Labels /\ NULL \in Nat /\ WRITE \in Nat
    BY DEF Labels, NULL, WRITE
  <2> HIDE DEF f
  <2> QED BY <1>5, <2>1, FrameIs
<1> HIDE DEF next, c, f
<1>8. /\ Owned(next) = {} /\ Owned(c) = {} /\ FrameFits(next) /\ TopFits(next) /\ FrameFits(c)
      /\ TopFits(c) /\ RightIn(buf, next) /\ RightIn(buf, c)
  BY <1>3, <1>5, <1>6, <1>7 DEF Owned, FrameFits, TopFits, RightIn, NewLabels
<1>9. Over(next, c) /\ next.at \notin GetLabels \cup BreadLabels \cup OutLabels \cup {"brelse"}
  BY <1>3, <1>6, <1>7 DEF Over, NewLabels, GetLabels, BreadLabels, OutLabels
<1>10. Calls(next, c, f) /\ Follows(next, f)
  BY <1>4, <1>6, <1>7, <1>8, <1>9, SameCaller DEF Calls, Follows
<1>11. CASE Goto(t, next)
  BY <1>1, <1>2, <1>4, <1>6, <1>8, <1>10, <1>11, GotoOnly DEF f
<1>12. CASE Call(t, next, c)
  BY <1>1, <1>2, <1>4, <1>8, <1>10, <1>12, CallOnly DEF f
<1> QED BY <1>2, <1>11, <1>12

LEMMA SyncInodesKeeps ==
  ASSUME IInv, NEW t \in Tasks, SyncInodes(t)
  PROVE  IInv'
<1> DEFINE f == Top(t)
           next == [f EXCEPT !.i = f.i + 1]
           c == Frame("write", NULL, NULL, f.i)
<1>1. /\ Agree(stack, held, buf) /\ stack[t] # <<>> /\ cpu \in {t, NoTask} /\ f \in Frames
      /\ f.at = "inodes" /\ FrameFits(f)
  BY Running DEF SyncInodes
<1>2. /\ UNCHANGED <<cache, i_dirt>> /\ i_dirt \subseteq Inodes
      /\ Return(t) \/ (f.i \in i_dirt /\ Call(t, next, c)) \/ Goto(t, next)
  BY DEF SyncInodes, inodes, IInv, Types
<1>3. Owned(f) = {} /\ f.at \notin GetLabels \cup BreadLabels \cup OutLabels \cup {"brelse"}
  BY <1>1 DEF Owned, GetLabels, BreadLabels, OutLabels
<1>4. next \in Frames /\ next.at = "inodes"
  <2> HIDE DEF f
  <2> QED BY <1>1 DEF Frames
<1>5. c \in Frames /\ c.at = "write" /\ c.bh = NULL /\ c.i = f.i
  <2>1. "write" \in Labels /\ NULL \in Nat /\ NULL \in 0..NR_BUFFERS /\ f.i \in Nat
    BY <1>1, CacheAssumption DEF Labels, NULL, Frames
  <2> HIDE DEF f
  <2> QED BY <2>1, FrameIs
<1> HIDE DEF next, c, f
<1>6. /\ Owned(next) = {} /\ Owned(c) = {} /\ FrameFits(next) /\ TopFits(next)
      /\ TopFits(c) /\ RightIn(buf, next) /\ RightIn(buf, c)
  BY <1>4, <1>5 DEF Owned, FrameFits, TopFits, RightIn, NewLabels
<1>7. Over(next, c) /\ next.at \notin GetLabels \cup BreadLabels \cup OutLabels \cup {"brelse"}
  BY <1>4, <1>5 DEF Over, NewLabels, GetLabels, BreadLabels, OutLabels
<1>8. Follows(next, f)
  BY <1>3, <1>6, <1>7, SameCaller DEF Follows
<1>9. CASE Goto(t, next)
  BY <1>1, <1>2, <1>3, <1>4, <1>6, <1>8, <1>9, GotoOnly DEF f
<1>10. CASE f.i \in i_dirt /\ Call(t, next, c)
  <2>1. FrameFits(c)
    BY <1>2, <1>5, <1>10 DEF FrameFits
  <2>2. Calls(next, c, f)
    BY <1>3, <1>4, <1>5, <1>6, <1>7, <1>8, <2>1 DEF Calls, Follows
  <2> QED BY <1>1, <1>2, <1>3, <1>6, <1>10, <2>2, CallOnly DEF f
<1>11. CASE Return(t)
  BY <1>1, <1>2, <1>3, <1>11, ReturnOnly DEF f
<1> QED BY <1>2, <1>9, <1>10, <1>11

LEMMA WriteInodeKeeps ==
  ASSUME IInv, NEW t \in Tasks, WriteInode(t)
  PROVE  IInv'
<1> DEFINE f == Top(t)
           g == [f EXCEPT !.at = "store"]
           c == Frame("bread", InodeBlock[f.i], NULL, 0)
<1>1. /\ Agree(stack, held, buf) /\ stack[t] # <<>> /\ cpu \in {t, NoTask} /\ f \in Frames
      /\ f.at = "write" /\ FrameFits(f)
  BY Running DEF WriteInode
<1>2. UNCHANGED <<cache, i_dirt>> /\ (Call(t, g, c) \/ Return(t))
  BY DEF WriteInode, inodes
<1>3. Owned(f) = {} /\ f.at \notin GetLabels \cup BreadLabels \cup OutLabels \cup {"brelse"}
  BY <1>1 DEF Owned, GetLabels, BreadLabels, OutLabels
<1>4. g \in Frames /\ g.at = "store" /\ g.bh = NULL
  <2>1. f.bh = NULL
    BY <1>1 DEF FrameFits
  <2> HIDE DEF f
  <2> QED BY <1>1, <2>1 DEF Frames, Labels
<1>5. c \in Frames /\ c.at = "bread" /\ c.bh = NULL
  <2>1. f.i \in 1..Len(InodeBlock)
    BY <1>1 DEF FrameFits, Inodes
  <2>2. InodeBlock[f.i] \in Nat
    BY <2>1, CacheAssumption, ElementOfSeq
  <2>3. "bread" \in Labels /\ NULL \in 0..NR_BUFFERS /\ 0 \in Nat
    BY CacheAssumption DEF Labels, NULL
  <2> HIDE DEF f
  <2> QED BY <2>2, <2>3, FrameIs
<1> HIDE DEF g, c, f
<1>6. /\ \A b \in Buffers : b \notin Owned(g) \cup Owned(c)
      /\ Owned(g) \cap Owned(c) \cap Buffers = {}
      /\ FrameFits(g) /\ FrameFits(c) /\ TopFits(c) /\ RightIn(buf, g) /\ RightIn(buf, c)
  BY <1>4, <1>5, CacheAssumption DEF Owned, FrameFits, TopFits, RightIn, NewLabels, Buffers, NULL
<1>7. Over(g, c) /\ g.at \notin GetLabels \cup BreadLabels \cup OutLabels \cup {"brelse"}
  BY <1>4, <1>5 DEF Over, NewLabels, GetLabels, BreadLabels, OutLabels
<1>8. Calls(g, c, f)
  BY <1>3, <1>4, <1>5, <1>6, <1>7, SameCaller DEF Calls
<1>9. CASE Call(t, g, c)
  BY <1>1, <1>2, <1>3, <1>6, <1>8, <1>9, CallOnly DEF f
<1>10. CASE Return(t)
  BY <1>1, <1>2, <1>3, <1>10, ReturnOnly DEF f
<1> QED BY <1>2, <1>9, <1>10

LEMMA StoreInodeKeeps ==
  ASSUME IInv, NEW t \in Tasks, StoreInode(t)
  PROVE  IInv'
<1> DEFINE f == Top(t)
           b == f.bh
           g == [f EXCEPT !.at = "unlock"]
           c == Frame("brelse", NULL, b, 0)
<1>1. /\ Agree(stack, held, buf) /\ Asleep /\ stack[t] # <<>> /\ cpu \in {t, NoTask}
      /\ f \in Frames /\ f.at = "store"
  BY Running DEF StoreInode
<1>2. /\ UNCHANGED <<free_list, io>> /\ Types /\ i_dirt' \subseteq i_dirt /\ Call(t, g, c)
      /\ Change(b, [buf[b] EXCEPT !.dirt = TRUE]) /\ b # NULL
  BY DEF StoreInode, Stored, IInv
<1>3. b \in Buffers /\ b \in 0..NR_BUFFERS /\ Owned(f) = {b}
  BY <1>1, <1>2, CacheAssumption DEF Frames, Buffers, NULL, Owned
<1>4. g \in Frames /\ g.at = "unlock"
  <2> HIDE DEF f
  <2> QED BY <1>1 DEF Frames, Labels
<1>5. c \in Frames /\ c.at = "brelse" /\ c.bh = b
  <2>1. "brelse" \in Labels /\ NULL \in Nat /\ 0 \in Nat
    BY DEF Labels, NULL
  <2> HIDE DEF b
  <2> QED BY <1>3, <2>1, FrameIs
<1> HIDE DEF g, c, f, b
<1>6. /\ Owned(g) = {} /\ Owned(c) = {b} /\ FrameFits(g) /\ FrameFits(c) /\ TopFits(c)
      /\ RightIn(buf', g) /\ RightIn(buf', c)
  BY <1>3, <1>4, <1>5 DEF Owned, FrameFits, TopFits, RightIn, NewLabels
<1>7. /\ Over(g, c)
      /\ {f.at, g.at} \cap (GetLabels \cup BreadLabels \cup OutLabels \cup {"brelse"}) = {}
  BY <1>1, <1>4, <1>5 DEF Over, NewLabels, GetLabels, BreadLabels, OutLabels
<1>8. Calls(g, c, f)
  BY <1>4, <1>5, <1>6, <1>7, SameCaller DEF Calls
<1>9. /\ buf' \in [Buffers -> Heads]
      /\ \A d \in Buffers : buf'[d].blk = buf[d].blk /\ buf'[d].count = buf[d].count
  <2>1. buf \in [Buffers -> Heads]
    BY <1>1 DEF Agree
  <2> QED BY <1>2, <1>3, <2>1 DEF Change, Heads
<1>10. Recount(buf, buf', Owned(f), Owned(g) \cup Owned(c))
  BY <1>1, <1>3, <1>6, <1>9, FlagsChange
<1>11. Agree(stack', held', buf') /\ Asleep'
  BY <1>1, <1>2, <1>6, <1>8, <1>10, CallStep DEF f
<1> QED BY <1>2, <1>9, <1>11, Finish DEF Types

LEMMA UnlockInodeKeeps ==
  ASSUME IInv, NEW t \in Tasks, UnlockInode(t)
  PROVE  IInv'
<1>1. stack[t] # <<>> /\ cpu \in {t, NoTask} /\ Top(t).at = "unlock"
  BY Running DEF UnlockInode
<1>2. UNCHANGED <<cache, i_dirt>> /\ Return(t)
  BY DEF UnlockInode
<1>3. Owned(Top(t)) = {} /\ Top(t).at \notin GetLabels
  BY <1>1 DEF Owned, GetLabels
<1> QED BY <1>1, <1>2, <1>3, ReturnOnly

-----------------------------------------------------------------------------
(* The rest of the file system.                                            *)
LEMMA NewBlockKeeps ==
  ASSUME IInv, NEW t \in Tasks, NewBlock(t)
  PROVE  IInv'
<1> DEFINE f == Top(t)
<1>1. /\ Agree(stack, held, buf) /\ Asleep /\ stack[t] # <<>> /\ cpu \in {t, NoTask}
      /\ f.at \in {"new", "clear"} /\ f \in Frames /\ FrameFits(f) /\ TopFits(f)
  BY Running DEF NewBlock
<1>2. f.at \in OutLabels /\ f.blk \in Nat /\ NULL \notin Buffers /\ NULL \in 0..NR_BUFFERS
  BY <1>1, CacheAssumption DEF OutLabels, Buffers, NULL, Frames
<1>3. CASE /\ f.at = "new" /\ UNCHANGED <<cache, inodes>>
           /\ Call(t, [f EXCEPT !.at = "clear"], Frame("getblk", f.blk, NULL, 0))
  <2> DEFINE g == [f EXCEPT !.at = "clear"]
             c == Frame("getblk", f.blk, NULL, 0)
  <2>1. g \in Frames /\ g.at = "clear" /\ g.bh = f.bh /\ g.blk = f.blk
    <3> HIDE DEF f
    <3> QED BY <1>1 DEF Frames, Labels
  <2>2. c \in Frames /\ c.at = "getblk" /\ c.blk = f.blk
    BY <1>2, FrameIs, SMTT(30) DEF Labels
  <2>3. Call(t, g, c) /\ UNCHANGED <<cache, i_dirt>>
    BY <1>3 DEF inodes
  <2> HIDE DEF g, c
  <2>4. f.bh = NULL
    BY <1>1, <1>3 DEF FrameFits
  <2>5. /\ FrameFits(g) /\ FrameFits(c) /\ TopFits(c) /\ RightIn(buf, g) /\ RightIn(buf, c)
        /\ Owned(g) = {NULL} /\ Owned(c) = {} /\ Owned(f) = {}
    BY <1>2, <1>3, <2>1, <2>2, <2>4 DEF FrameFits, TopFits, RightIn, Owned, NewLabels
  <2>6. Over(g, c) /\ g.at \notin GetLabels
    BY <2>1, <2>2, <2>4 DEF Over, NewLabels, GetLabels, BreadLabels, OutLabels
  <2>7. Calls(g, c, f)
    BY <1>2, <2>1, <2>2, <2>5, <2>6, SameCaller DEF Calls
  <2> QED BY <1>1, <1>2, <2>3, <2>5, <2>7, CallOnly
<1>4. CASE /\ f.at = "clear" /\ UNCHANGED <<free_list, io, inodes>>
           /\ Change(f.bh, [buf[f.bh] EXCEPT !.dirt = TRUE, !.uptodate = TRUE])
           /\ Goto(t, [f EXCEPT !.at = "brelse"])
  <2> DEFINE g == [f EXCEPT !.at = "brelse"]
             b == f.bh
  <2>1. b \in Buffers /\ Owned(f) = {b} /\ Types
    BY <1>1, <1>4 DEF TopFits, NewLabels, Owned, IInv
  <2>2. g \in Frames /\ g.at = "brelse" /\ g.bh = b
    <3> HIDE DEF f
    <3> QED BY <1>1 DEF Frames, Labels
  <2>3. Goto(t, g) /\ Change(b, [buf[b] EXCEPT !.dirt = TRUE, !.uptodate = TRUE])
    BY <1>4
  <2> HIDE DEF g, b
  <2>4. FrameFits(g) /\ TopFits(g) /\ RightIn(buf', g) /\ Owned(g) = {b}
    BY <2>1, <2>2 DEF FrameFits, TopFits, RightIn, Owned, NewLabels
  <2>5. Follows(g, f)
    <3>1. g.at \notin GetLabels
      BY <2>2 DEF GetLabels
    <3> QED BY <1>2, <2>4, <3>1, SameCaller DEF Follows
  <2>6. /\ buf' \in [Buffers -> Heads]
        /\ \A d \in Buffers : buf'[d].blk = buf[d].blk /\ buf'[d].count = buf[d].count
    <3>1. buf \in [Buffers -> Heads]
      BY <1>1 DEF Agree
    <3> QED BY <2>1, <2>3, <3>1 DEF Change, Heads
  <2>7. Recount(buf, buf', Owned(f), Owned(g))
    BY <1>1, <2>1, <2>4, <2>6, FlagsChange
  <2>8. Agree(stack', held', buf') /\ Asleep'
    BY <1>1, <2>2, <2>3, <2>4, <2>5, <2>7, GotoStep
  <2> QED BY <1>4, <2>1, <2>6, <2>8, Finish DEF Types, inodes
<1>5. \/ /\ f.at = "new" /\ UNCHANGED <<cache, inodes>>
         /\ Call(t, [f EXCEPT !.at = "clear"], Frame("getblk", f.blk, NULL, 0))
      \/ /\ f.at = "clear" /\ UNCHANGED <<free_list, io, inodes>>
         /\ Change(f.bh, [buf[f.bh] EXCEPT !.dirt = TRUE, !.uptodate = TRUE])
         /\ Goto(t, [f EXCEPT !.at = "brelse"])
  BY DEF NewBlock, Run, At
<1> QED BY <1>3, <1>4, <1>5

LEMMA CopyKeeps ==
  ASSUME IInv, NEW t \in Tasks, Copy(t)
  PROVE  IInv'
<1> DEFINE f == Top(t)
           g == [f EXCEPT !.at = "brelse"]
<1>1. /\ stack[t] # <<>> /\ cpu \in {t, NoTask} /\ f \in Frames /\ f.at = "copy" /\ FrameFits(f)
  BY Running DEF Copy
<1>2. UNCHANGED <<cache, i_dirt>> /\ Goto(t, g)
  BY DEF Copy, inodes
<1>3. g \in Frames /\ g.at = "brelse" /\ g.bh = f.bh
  <2> HIDE DEF f
  <2> QED BY <1>1 DEF Frames, Labels
<1> HIDE DEF g, f
<1>4. /\ FrameFits(g) /\ TopFits(g) /\ RightIn(buf, g) /\ Owned(g) = {f.bh} /\ Owned(f) = {f.bh}
      /\ f.at \in OutLabels /\ g.at \notin GetLabels
  BY <1>1, <1>3 DEF FrameFits, TopFits, RightIn, Owned, NewLabels, OutLabels, GetLabels
<1>5. Follows(g, f)
  BY <1>4, SameCaller DEF Follows
<1> QED BY <1>1, <1>2, <1>3, <1>4, <1>5, GotoOnly DEF f

LEMMA SleepKeeps ==
  ASSUME IInv, NEW t \in Tasks, Sleep(t)
  PROVE  IInv'
<1>1. /\ cpu = t /\ cpu' = NoTask /\ UNCHANGED <<cache, inodes, stack, held>>
      /\ Waits(t) \/ MaySleep(t)
  BY DEF Sleep
<1>2. Agree(stack', held', buf') /\ UNCHANGED <<buf, free_list, io>> /\ IInv /\ i_dirt' = i_dirt
  BY <1>1 DEF IInv, cache, inodes
<1>3. Top(t).at \in SleepLabels
  <2>1. Range(WaitOf) = {"wait1", "wait2", "waitall"}
    <3>1. /\ DOMAIN WaitOf = {"sync1", "sync2", "syncall"} /\ WaitOf["sync1"] = "wait1"
          /\ WaitOf["sync2"] = "wait2" /\ WaitOf["syncall"] = "waitall"
      BY DEF WaitOf
    <3> QED BY <3>1 DEF Range
  <2> QED BY <1>1, <2>1 DEF Waits, MaySleep, At, SleepLabels
<1>4. Asleep'
  BY <1>1, <1>2, <1>3 DEF Asleep, Top, IInv
<1> QED BY <1>2, <1>4, Finish DEF IInv, Types

LEMMA BeginsKeep ==
  ASSUME IInv, NEW t \in Tasks, stack[t] = <<>>, cpu = NoTask, cpu' = t,
         UNCHANGED <<free_list, io, i_dirt>>, NEW f \in Frames,
         stack' = [stack EXCEPT ![t] = <<f>>], held' = [held EXCEPT ![t] = NULL],
         FrameFits(f), TopFits(f), f.at \notin GetLabels, RightIn(buf', f),
         \A b \in Buffers : b = held[t] <=> b \in Owned(f),
         buf' \in [Buffers -> Heads],
         \A b \in Buffers : buf'[b].blk = buf[b].blk /\ buf'[b].count = buf[b].count
  PROVE  IInv'
<1>1. Agree(stack, held, buf) /\ Asleep /\ Types
  BY DEF IInv
<1>2. Recount(buf, buf', {held[t]}, Owned(f))
  BY <1>1, FlagsChange
<1>3. Agree(stack', held', buf')
  BY <1>1, <1>2, BeginKeeps
<1>4. Asleep'
  <2>1. \A u \in Tasks \ {t} : stack'[u] = stack[u]
    BY <1>1 DEF Agree
  <2> QED BY <1>1, <2>1, AsleepKeeps
<1> QED BY <1>1, <1>3, <1>4, Finish DEF Types

LEMMA RequestKeeps ==
  ASSUME IInv, NEW t \in Tasks, Request(t)
  PROVE  IInv'
<1>1. /\ Agree(stack, held, buf) /\ Asleep /\ Types /\ held[t] = NULL /\ stack[t] = <<>>
      /\ cpu = NoTask /\ cpu' = t /\ UNCHANGED <<cache, i_dirt, held>>
  BY DEF IInv, Request, Begin, inodes
<1>2. /\ buf' = buf /\ UNCHANGED <<free_list, io, i_dirt>> /\ buf \in [Buffers -> Heads]
      /\ held' = [held EXCEPT ![t] = NULL]
  BY <1>1 DEF cache, Agree
<1>3. NULL \in 0..NR_BUFFERS /\ NULL \in Nat /\ NULL \notin Buffers /\ 0 \in Nat /\ 1 \in Nat
  BY CacheAssumption DEF NULL, Buffers
<1>4. ASSUME NEW f \in Frames, f.at \in {"bread", "breada", "new", "write"},
             f.bh = NULL, f.at = "write" => f.i \in Inodes,
             stack' = [stack EXCEPT ![t] = <<f>>]
      PROVE  IInv'
  <2>1. FrameFits(f) /\ TopFits(f) /\ f.at \notin GetLabels /\ RightIn(buf', f) /\ Owned(f) = {}
    BY <1>4, <1>3 DEF FrameFits, TopFits, RightIn, Owned, NewLabels, GetLabels
  <2>2. \A b \in Buffers : b = held[t] <=> b \in Owned(f)
    BY <1>1, <1>3, <2>1
  <2> QED BY <1>1, <1>2, <1>4, <2>1, <2>2, BeginsKeep
<1>5. ASSUME NEW blk \in Blocks, NEW label \in {"bread", "breada", "new"},
             Begin(t, Frame(label, blk, NULL, 0))
      PROVE  IInv'
  <2> DEFINE f == Frame(label, blk, NULL, 0)
  <2>1. label \in Labels /\ blk \in Nat
    BY CacheAssumption DEF Labels
  <2>2. f \in Frames /\ f.at = label /\ f.bh = NULL
    BY <1>3, <2>1, FrameIs
  <2>3. stack' = [stack EXCEPT ![t] = <<f>>]
    BY <1>5 DEF Begin
  <2> HIDE DEF f
  <2> QED BY <1>4, <2>2, <2>3
<1>6. ASSUME NEW i \in i_dirt, Begin(t, Frame("write", NULL, NULL, i))
      PROVE  IInv'
  <2> DEFINE f == Frame("write", NULL, NULL, i)
  <2>1. "write" \in Labels /\ i \in Nat /\ i \in Inodes
    BY <1>1 DEF Labels, Types, Inodes
  <2>2. f \in Frames /\ f.at = "write" /\ f.bh = NULL /\ f.i = i
    BY <1>3, <2>1, FrameIs
  <2>3. stack' = [stack EXCEPT ![t] = <<f>>]
    BY <1>6 DEF Begin
  <2> HIDE DEF f
  <2> QED BY <1>4, <2>1, <2>2, <2>3
<1>7. ASSUME stack' = [stack EXCEPT ![t] = <<Frame("syncall", NULL, NULL, 1),
                                             Frame("inodes", NULL, NULL, 1)>>]
      PROVE  IInv'
  <2> DEFINE f == Frame("syncall", NULL, NULL, 1)
             g == Frame("inodes", NULL, NULL, 1)
             s == [stack EXCEPT ![t] = <<f>>]
  <2>1. "syncall" \in Labels /\ "inodes" \in Labels
    BY DEF Labels
  <2>2. f \in Frames /\ f.at = "syncall" /\ g \in Frames /\ g.at = "inodes"
    BY <1>3, <2>1, FrameIs
  <2>3. stack' = [stack EXCEPT ![t] = <<f, g>>]
    BY <1>7
  <2> HIDE DEF f, g
  <2>4. /\ FrameFits(f) /\ TopFits(f) /\ RightIn(buf', f) /\ FrameFits(g) /\ TopFits(g)
        /\ RightIn(buf', g) /\ Owned(f) = {} /\ Owned(g) = {} /\ f.at \notin GetLabels
    BY <2>2 DEF FrameFits, TopFits, RightIn, Owned, NewLabels, GetLabels
  <2>5. Over(f, g)
    BY <2>2 DEF Over, NewLabels, GetLabels, BreadLabels, OutLabels
  <2>6. Recount(buf, buf', {held[t]}, Owned(f))
    BY <1>1, <1>2, <1>3, <2>4, SameCounts
  <2>7. Agree(s, held', buf')
    <3>1. Agree(stack, held, buf) /\ stack[t] = <<>>
      BY <1>1
    <3>2. Agree(s, [held EXCEPT ![t] = NULL], buf')
      BY <2>2, <2>4, <2>6, <3>1, BeginKeeps
    <3> QED BY <1>2, <3>2
  <2>8. s[t] = <<f>> /\ s[t] # <<>> /\ [s EXCEPT ![t] = <<f, g>>] = stack'
    BY <1>1, <2>3 DEF Agree
  <2> HIDE DEF s
  <2>9. Last(<<f>>) = f /\ Front(<<f>>) \o <<f, g>> = <<f, g>>
    <3>1. <<f>> \in Seq(Frames) /\ <<f>> # <<>> /\ Len(<<f>>) = 1 /\ <<f>>[1] = f
      BY <2>2
    <3>2. Last(<<f>>) = f
      BY <3>1 DEF Last
    <3>3. Front(<<f>>) \in Seq(Frames) /\ Len(Front(<<f>>)) = Len(<<f>>) - 1
      BY <3>1, FrontOf
    <3>4. Len(Front(<<f>>)) = 0
      <4> DEFINE n == Len(<<f>>)
      <4>1. n = 1 /\ Len(Front(<<f>>)) = n - 1
        BY <3>1, <3>3
      <4> HIDE DEF n
      <4> QED BY <4>1
    <3>5. Front(<<f>>) = <<>>
      BY <3>3, <3>4, EmptySeq
    <3>6. <<f, g>> \in Seq(Frames)
      BY <2>2
    <3>7. <<>> \o <<f, g>> = <<f, g>>
      BY <3>6, ConcatEmptySeq
    <3> QED BY <3>2, <3>5, <3>7
  <2>10. Recount(buf', buf', Owned(f), Owned(f) \cup Owned(g))
    <3>1. \A b \in Buffers : buf'[b].count \in Nat
      BY <1>1, <1>2, HeadOf
    <3> QED BY <1>2, <2>4, <3>1 DEF Recount, One
  <2>11. Agree(stack', held', buf')
    <3>1. Last(s[t]) = f /\ Front(s[t]) \o <<f, g>> = <<f, g>>
      BY <2>8, <2>9
    <3>2. /\ Last(s[t]).at \notin GetLabels => f.at \notin GetLabels
          /\ \A caller : Over(caller, Last(s[t])) => Over(caller, f)
          /\ Owned(f) \cap Owned(g) \cap Buffers = {}
          /\ Recount(buf', buf', Owned(Last(s[t])), Owned(f) \cup Owned(g))
      BY <2>4, <2>10, <3>1
    <3>3. Agree([s EXCEPT ![t] = Front(s[t]) \o <<f, g>>], held', buf')
      BY <2>2, <2>4, <2>5, <2>7, <2>8, <3>2, CallKeeps
    <3> QED BY <2>8, <3>1, <3>3
  <2>12. Asleep'
    <3>1. \A u \in Tasks \ {t} : stack'[u] = stack[u]
      BY <1>1, <2>3 DEF Agree
    <3> QED BY <1>1, <3>1, AsleepKeeps
  <2> QED BY <1>1, <1>2, <2>11, <2>12, Finish DEF Types
<1>8. \/ \E blk \in Blocks : \E label \in {"bread", "breada", "new"} :
           Begin(t, Frame(label, blk, NULL, 0))
      \/ \E i \in i_dirt : Begin(t, Frame("write", NULL, NULL, i))
      \/ stack' = [stack EXCEPT ![t] = <<Frame("syncall", NULL, NULL, 1),
                                         Frame("inodes", NULL, NULL, 1)>>]
  BY DEF Request
<1> QED BY <1>5, <1>6, <1>7, <1>8

LEMMA ReleaseKeeps ==
  ASSUME IInv, NEW t \in Tasks, Release(t)
  PROVE  IInv'
<1> DEFINE b == held[t]
           f == Frame("brelse", NULL, b, 0)
<1>1. /\ Agree(stack, held, buf) /\ b # NULL /\ stack[t] = <<>> /\ cpu = NoTask /\ cpu' = t
      /\ UNCHANGED <<free_list, io, i_dirt>> /\ buf' = buf /\ buf \in [Buffers -> Heads]
      /\ stack' = [stack EXCEPT ![t] = <<f>>] /\ held' = [held EXCEPT ![t] = NULL]
  BY DEF Release, IInv, cache, inodes, Agree
<1>2. b \in Buffers /\ b \in 0..NR_BUFFERS
  BY <1>1, CacheAssumption DEF Agree, Buffers, NULL
<1>3. f \in Frames /\ f.at = "brelse" /\ f.bh = b
  <2>1. "brelse" \in Labels /\ NULL \in Nat /\ 0 \in Nat
    BY DEF Labels, NULL
  <2> QED BY <1>2, <2>1, FrameIs
<1> HIDE DEF f
<1>4. FrameFits(f) /\ TopFits(f) /\ RightIn(buf', f) /\ Owned(f) = {b} /\ f.at \notin GetLabels
  BY <1>2, <1>3 DEF FrameFits, TopFits, RightIn, Owned, NewLabels, GetLabels
<1>5. \A c \in Buffers : c = held[t] <=> c \in Owned(f)
  BY <1>4
<1> QED BY <1>1, <1>3, <1>4, <1>5, BeginsKeep

LEMMA WriteKeeps ==
  ASSUME IInv, NEW t \in Tasks, Write(t)
  PROVE  IInv'
<1> DEFINE b == held[t]
           f == Frame("copy", NULL, b, 0)
<1>1. /\ Agree(stack, held, buf) /\ b # NULL /\ stack[t] = <<>> /\ cpu = NoTask /\ cpu' = t
      /\ UNCHANGED <<free_list, io, i_dirt>> /\ buf \in [Buffers -> Heads]
      /\ Change(b, [buf[b] EXCEPT !.dirt = TRUE]) \/ buf' = buf
      /\ stack' = [stack EXCEPT ![t] = <<f>>] /\ held' = [held EXCEPT ![t] = NULL]
  BY DEF Write, IInv, inodes, Agree
<1>2. b \in Buffers /\ b \in 0..NR_BUFFERS
  BY <1>1, CacheAssumption DEF Agree, Buffers, NULL
<1>3. f \in Frames /\ f.at = "copy" /\ f.bh = b
  <2>1. "copy" \in Labels /\ NULL \in Nat /\ 0 \in Nat
    BY DEF Labels, NULL
  <2> QED BY <1>2, <2>1, FrameIs
<1> HIDE DEF f
<1>4. FrameFits(f) /\ TopFits(f) /\ RightIn(buf', f) /\ Owned(f) = {b} /\ f.at \notin GetLabels
  BY <1>2, <1>3 DEF FrameFits, TopFits, RightIn, Owned, NewLabels, GetLabels
<1>5. \A c \in Buffers : c = held[t] <=> c \in Owned(f)
  BY <1>4
<1>6. /\ buf' \in [Buffers -> Heads]
      /\ \A c \in Buffers : buf'[c].blk = buf[c].blk /\ buf'[c].count = buf[c].count
  <2> HIDE DEF b
  <2>1. CASE Change(b, [buf[b] EXCEPT !.dirt = TRUE])
    BY <1>1, <1>2, <2>1 DEF Change, Heads
  <2> QED BY <1>1, <2>1
<1> QED BY <1>1, <1>3, <1>4, <1>5, <1>6, BeginsKeep

-----------------------------------------------------------------------------
LEMMA InitHolds == Init => IInv
<1> SUFFICES ASSUME Init PROVE IInv
  OBVIOUS
<1>1. NR_BUFFERS \in Nat /\ NULL = 0 /\ NULL \notin Buffers /\ NULL \in 0..NR_BUFFERS
  BY CacheAssumption DEF NULL, Buffers
<1>2. Types
  <2>1. free_list \in Seq(Buffers) /\ Len(free_list) = NR_BUFFERS
    BY <1>1, IsASeq DEF Init, Buffers
  <2>2. \A b \in Buffers : b \in 1..Len(free_list) /\ free_list[b] = b
    BY <2>1 DEF Init, Buffers
  <2>3. io \in [Buffers -> {-1, READ, WRITE}] /\ i_dirt \subseteq Inodes
    BY DEF Init
  <2> QED BY <2>1, <2>2, <2>3 DEF Types
<1>3. ASSUME NEW b \in Buffers PROVE buf[b].count = Count(stack, held, b)
  <2>1. \A t \in Tasks, k \in Nat : ~UseAt(stack[t], held[t], k, b)
    BY <1>1 DEF Init, UseAt
  <2>2. UsersIn(stack, held, b) = {}
    BY <2>1 DEF UsersIn
  <2>3. Cardinality({}) = 0
    BY FS_EmptySet
  <2> QED BY <2>2, <2>3 DEF Count, Init
<1>4. Agree(stack, held, buf)
  <2>1. stack \in [Tasks -> Seq(Frames)] /\ held \in [Tasks -> 0..NR_BUFFERS]
    BY <1>1 DEF Init
  <2>2. buf \in [Buffers -> Heads]
    BY <1>1 DEF Init, Heads
  <2>3. \A t \in Tasks : stack[t] = <<>> /\ Len(stack[t]) = 0
    BY DEF Init
  <2> QED BY <1>3, <2>1, <2>2, <2>3 DEF Agree, Fits
<1>5. Asleep /\ OneCopy
  BY DEF Init, Asleep, OneCopy
<1> QED BY <1>2, <1>4, <1>5 DEF IInv

LEMMA StepKeeps == IInv /\ [Next]_vars => IInv'
<1> SUFFICES ASSUME IInv, [Next]_vars PROVE IInv'
  OBVIOUS
<1>1. ASSUME NEW t \in Tasks, Continue(t) PROVE IInv'
  <2>1. CASE Getblk(t)
    BY <2>1, GetblkKeeps
  <2>2. CASE Hash(t)
    BY <2>2, HashKeeps
  <2>3. CASE Victim(t)
    BY <2>3, VictimKeeps
  <2>4. CASE Brelse(t)
    BY <2>4, BrelseKeeps
  <2>5. CASE LockBuffer(t)
    BY <2>5, LockBufferKeeps
  <2>6. CASE AddRequest(t)
    BY <2>6, AddRequestKeeps
  <2>7. CASE Bread(t)
    BY <2>7, BreadKeeps
  <2>8. CASE Have(t)
    BY <2>8, HaveKeeps
  <2>9. CASE Filled(t)
    BY <2>9, FilledKeeps
  <2>10. CASE Breada(t)
    BY <2>10, BreadaKeeps
  <2>11. CASE Drop(t)
    BY <2>11, DropKeeps
  <2>12. ASSUME NEW pass \in DOMAIN WaitOf, SyncNext(t, pass) PROVE IInv'
    BY <2>12, SyncNextKeeps
  <2>13. ASSUME NEW pass \in DOMAIN WaitOf, SyncBuffer(t, pass) PROVE IInv'
    BY <2>13, SyncBufferKeeps
  <2>14. CASE SyncInodes(t)
    BY <2>14, SyncInodesKeeps
  <2>15. CASE WriteInode(t)
    BY <2>15, WriteInodeKeeps
  <2>16. CASE StoreInode(t)
    BY <2>16, StoreInodeKeeps
  <2>17. CASE UnlockInode(t)
    BY <2>17, UnlockInodeKeeps
  <2>18. CASE NewBlock(t)
    BY <2>18, NewBlockKeeps
  <2>19. CASE Copy(t)
    BY <2>19, CopyKeeps
  <2> QED BY <1>1, <2>1, <2>2, <2>3, <2>4, <2>5, <2>6, <2>7, <2>8, <2>9, <2>10, <2>11, <2>12,
             <2>13, <2>14, <2>15, <2>16, <2>17, <2>18, <2>19 DEF Continue
<1>2. ASSUME NEW t \in Tasks, Sleep(t) PROVE IInv'
  BY <1>2, SleepKeeps
<1>3. ASSUME NEW t \in Tasks, Request(t) PROVE IInv'
  BY <1>3, RequestKeeps
<1>4. ASSUME NEW t \in Tasks, Release(t) PROVE IInv'
  BY <1>4, ReleaseKeeps
<1>5. ASSUME NEW t \in Tasks, Write(t) PROVE IInv'
  BY <1>5, WriteKeeps
<1>6. ASSUME NEW b \in Buffers, NEW ok \in BOOLEAN, EndRequest(b, ok) PROVE IInv'
  BY <1>6, EndRequestKeeps
<1>7. ASSUME NEW i \in Inodes, ChangeInode(i) PROVE IInv'
  <2>1. UNCHANGED <<buf, free_list, io, stack, held, cpu>> /\ i_dirt' \subseteq Inodes
    BY <1>7 DEF ChangeInode, cache, IInv, Types
  <2> QED BY <2>1 DEF IInv, Types, Asleep, Top, OneCopy
<1>8. CASE UNCHANGED vars
  BY <1>8 DEF vars, cache, inodes, IInv, Types, Asleep, Top, OneCopy
<1> QED BY <1>1, <1>2, <1>3, <1>4, <1>5, <1>6, <1>7, <1>8 DEF Next

-----------------------------------------------------------------------------
(* However many tasks search for the same block at the same time, sleeping *)
(* between the search and the use of a buffer: it is in one buffer only.   *)
THEOREM OneCopyAlways == Spec => []OneCopy
<1>1. IInv => OneCopy
  BY DEF IInv
<1> QED BY <1>1, InitHolds, StepKeeps, PTL DEF Spec

(* b_count is the number of users of a buffer, over every sleep and every  *)
(* retry: no buffer in use is given to another block, none is released by  *)
(* who does not have it, and none is lost.                                 *)
THEOREM CountsUsersAlways == Spec => []CountsUsers
<1>1. IInv => CountsUsers
  <2> SUFFICES ASSUME IInv, NEW b \in Buffers PROVE buf[b].count = Cardinality(Users(b))
    BY DEF CountsUsers
  <2>1. stack \in [Tasks -> Seq(Frames)] /\ buf[b].count = Count(stack, held, b)
    BY DEF IInv, Agree
  <2>2. Users(b) = UsersIn(stack, held, b)
    BY <2>1, UsersAreThese
  <2> QED BY <2>1, <2>2 DEF Count
<1> QED BY <1>1, InitHolds, StepKeeps, PTL DEF Spec

-----------------------------------------------------------------------------
(* What the flags mean: a buffer is locked by the one task that is to      *)
(* queue it or is queued; what is not up to date is not dirty, and what is *)
(* read is not up to date.                                                 *)
FlagsFit == \A b \in Buffers : /\ io[b] # -1 => buf[b].lock
                               /\ buf[b].dirt => buf[b].uptodate
                               /\ io[b] = READ => ~buf[b].uptodate

Queues(t, b) == At(t, "slot") /\ Top(t).bh = b
HasRight(t) ==
  /\ At(t, "slot") => /\ buf[Top(t).bh].lock /\ io[Top(t).bh] = -1
                      /\ Top(t).i = READ => ~buf[Top(t).bh].uptodate
  /\ At(t, "have") \/ At(t, "clear") => ~buf[Top(t).bh].lock
  /\ At(t, "store") /\ Top(t).bh # NULL => buf[Top(t).bh].uptodate
  /\ At(t, "copy") => buf[Top(t).bh].uptodate
  /\ held[t] # NULL => buf[held[t]].uptodate

Right == /\ FlagsFit
         /\ \A t \in Tasks : HasRight(t)
         /\ \A t, u \in Tasks, b \in Buffers : Queues(t, b) /\ Queues(u, b) => t = u

(* What is newer than the disk is in a buffer that holds it and that will  *)
(* be written, if file_write marks a buffer and copies without a sleep.    *)
Careful == ~CopySleeps /\ "block_write" \notin Ops
Unsaved(b) == WriteUnderWay(b) /\ buf[b].uptodate
Marked(t) == At(t, "copy") => cpu = t /\ buf[Top(t).bh].dirt
Saved == Careful => /\ \A t \in Tasks : Marked(t)
                    /\ \A blk \in newer : \E b \in find_buffer(blk) : Unsaved(b)

(* What a step of t may do to the buffers: nothing to those in use that    *)
(* are up to date, to those another task is to queue, or to unsaved data.  *)
BuffersKept(t) ==
  /\ FlagsFit'
  /\ \A b \in Buffers :
       /\ buf[b].count # 0 /\ buf[b].uptodate => buf'[b].uptodate
       /\ buf[b].lock /\ io[b] = -1 /\ ~Queues(t, b)
            => buf'[b].lock /\ io'[b] = -1 /\ (buf'[b].uptodate => buf[b].uptodate)
       /\ Unsaved(b) => Unsaved(b)' /\ buf'[b].blk = buf[b].blk
NewerKept == Careful => \A blk \in newer' \ newer : \E b \in find_buffer(blk)' : Unsaved(b)'

(* The other tasks stay where they are, or look for a buffer again.        *)
OthersStay(t) ==
  \A u \in Tasks \ {t} :
    /\ held'[u] = held[u]
    /\ stack'[u] = stack[u] \/ (stack'[u] # <<>> /\ Last(stack'[u]).at = "getblk")

LEMMA HeldIsCounted ==
  ASSUME Agree(stack, held, buf), NEW t \in Tasks, held[t] # NULL
  PROVE  held[t] \in Buffers /\ buf[held[t]].count # 0
<1> DEFINE b == held[t]
<1>1. b \in Buffers /\ stack \in [Tasks -> Seq(Frames)] /\ Len(stack[t]) \in Nat
  BY LenProperties, CacheAssumption DEF Agree, Buffers, NULL
<1>2. <<t, 0>> \in UsersIn(stack, held, b)
  BY <1>1 DEF UsersIn, UseAt
<1>3. IsFiniteSet(UsersIn(stack, held, b))
  BY <1>1, FinitelyMany
<1>4. Count(stack, held, b) # 0
  BY <1>2, <1>3, FS_EmptySet DEF Count
<1> QED BY <1>1, <1>4 DEF Agree

(* A step of t that keeps the buffers and ends in a right place.           *)
LEMMA StepIsRight ==
  ASSUME IInv, Right, Saved, NEW t \in Tasks, cpu \in {t, NoTask}, OthersStay(t),
         BuffersKept(t), NewerKept, HasRight(t)', Careful => Marked(t)',
         \A b \in Buffers : Queues(t, b)' => Queues(t, b) \/ ~buf[b].lock
  PROVE  Right' /\ Saved'
<1>0. Agree(stack, held, buf) /\ Asleep
  BY DEF IInv
<1>1. ASSUME NEW u \in Tasks \ {t}
      PROVE  /\ HasRight(u)' /\ (Careful => Marked(u)')
             /\ \A b \in Buffers : Queues(u, b)' => Queues(u, b) /\ ~Queues(t, b)
                                                  /\ buf[b].lock /\ buf'[b].lock
  <2>1. cpu # u /\ held'[u] = held[u]
    BY CacheAssumption DEF OthersStay
  <2>2. held[u] # NULL => buf'[held[u]].uptodate
    BY <1>0, HeldIsCounted DEF Right, HasRight, BuffersKept
  <2>3. CASE stack'[u] # <<>> /\ Last(stack'[u]).at = "getblk"
    BY <2>1, <2>2, <2>3 DEF HasRight, Marked, Queues, At, Top
  <2>4. CASE stack'[u] = stack[u] /\ stack[u] # <<>>
    <3> DEFINE f == Top(u)
               b == f.bh
    <3>1. Top(u)' = f
      BY <2>4 DEF Top
    <3>2. f \in Frames /\ FrameFits(f) /\ \A c \in Buffers : c \in Owned(f) => buf[c].count # 0
      BY <1>0, <2>4, TopIs
    <3>3. f.at \notin {"have", "clear", "store"} /\ (Careful => f.at # "copy")
      BY <1>0, <2>1, <2>4 DEF Asleep, SleepLabels, Saved, Marked, At
    <3>4. CASE f.at = "slot"
      <4>1. b \in Buffers /\ Queues(u, b) /\ ~Queues(t, b)
        BY <2>4, <3>2, <3>4 DEF FrameFits, Queues, At, Right
      <4>2. buf[b].lock /\ io[b] = -1 /\ (f.i = READ => ~buf[b].uptodate)
        BY <2>4, <3>4 DEF Right, HasRight, At
      <4>3. buf'[b].lock /\ io'[b] = -1 /\ (buf'[b].uptodate => buf[b].uptodate)
        BY <4>1, <4>2 DEF BuffersKept
      <4>4. HasRight(u)'
        BY <2>1, <2>2, <2>4, <3>1, <3>4, <4>2, <4>3 DEF HasRight, At
      <4>5. Marked(u)'
        BY <2>4, <3>1, <3>4 DEF Marked, At
      <4>6. \A c \in Buffers : Queues(u, c)' => c = b
        BY <3>1 DEF Queues
      <4> QED BY <4>1, <4>2, <4>3, <4>4, <4>5, <4>6
    <3>5. CASE f.at # "slot"
      <4>1. f.at = "copy" => buf'[b].uptodate
        <5>1. f.at = "copy" => b \in Buffers /\ b \in Owned(f) /\ buf[b].uptodate
          BY <2>4, <3>2 DEF FrameFits, Owned, Right, HasRight, At
        <5> QED BY <3>2, <5>1 DEF BuffersKept
      <4>2. HasRight(u)'
        BY <2>1, <2>2, <2>4, <3>1, <3>3, <3>5, <4>1 DEF HasRight, At
      <4> QED BY <2>4, <3>1, <3>3, <3>5, <4>2 DEF Marked, Queues, At
    <3> QED BY <3>4, <3>5
  <2>5. CASE stack'[u] = stack[u] /\ stack[u] = <<>>
    BY <2>1, <2>2, <2>5 DEF HasRight, Marked, Queues, At
  <2> QED BY <2>3, <2>4, <2>5 DEF OthersStay
<1>2. Right'
  <2>1. \A u \in Tasks : HasRight(u)'
    BY <1>1
  <2>2. ASSUME NEW u \in Tasks, NEW v \in Tasks, NEW b \in Buffers, Queues(u, b)', Queues(v, b)'
        PROVE  u = v
    BY <1>1, <2>2 DEF Right
  <2>3. FlagsFit'
    BY DEF BuffersKept
  <2> QED BY <2>1, <2>2, <2>3 DEF Right
<1>3. Saved'
  <2> SUFFICES ASSUME Careful
               PROVE  /\ \A u \in Tasks : Marked(u)'
                      /\ \A blk \in newer' : \E b \in find_buffer(blk)' : Unsaved(b)'
    BY DEF Saved, Careful
  <2>1. \A u \in Tasks : Marked(u)'
    BY <1>1
  <2>2. ASSUME NEW blk \in newer' PROVE \E b \in find_buffer(blk)' : Unsaved(b)'
    <3>1. CASE blk \in newer
      <4>1. PICK b \in find_buffer(blk) : Unsaved(b)
        BY <3>1 DEF Saved
      <4>2. b \in Buffers /\ Unsaved(b)' /\ buf'[b].blk = blk
        BY <4>1 DEF BuffersKept, find_buffer
      <4> QED BY <4>2 DEF find_buffer
    <3>2. CASE blk \notin newer
      BY <3>2 DEF NewerKept
    <3> QED BY <3>1, <3>2
  <2> QED BY <2>1, <2>2
<1> QED BY <1>2, <1>3

(* Where t stands, and what it holds, after each kind of step.             *)
LEMMA TopAfterCall ==
  ASSUME Agree(stack, held, buf), NEW t \in Tasks, stack[t] # <<>>, NEW f,
         Goto(t, f) \/ \E g : Call(t, g, f)
  PROVE  OthersStay(t) /\ stack'[t] # <<>> /\ Top(t)' = f /\ held'[t] = NULL
<1>1. /\ stack \in [Tasks -> Seq(Frames)] /\ stack[t] \in Seq(Frames) /\ held[t] = NULL
      /\ Len(stack[t]) \in Nat \ {0}
  BY FrontOf DEF Agree
<1>2. CASE Goto(t, f)
  <2> DEFINE new == Append(Front(stack[t]), f)
             S == Frames \cup {f}
  <2>1. stack[t] \in Seq(S) /\ f \in S
    BY <1>1
  <2> HIDE DEF S
  <2>2. new \in Seq(S) /\ Len(new) = Len(stack[t]) /\ new[Len(stack[t])] = f
    BY <1>1, <2>1, Replaced
  <2>3. stack' = [stack EXCEPT ![t] = new] /\ held' = held
    BY <1>2 DEF Goto, Under
  <2> HIDE DEF new
  <2>4. new # <<>> /\ Last(new) = f
    BY <1>1, <2>2 DEF Last
  <2> QED BY <1>1, <2>3, <2>4 DEF OthersStay, Top
<1>3. CASE \E g : Call(t, g, f)
  <2>1. PICK g : Call(t, g, f)
    BY <1>3
  <2> DEFINE new == Front(stack[t]) \o <<g, f>>
             S == Frames \cup {f, g}
  <2>2. stack[t] \in Seq(S) /\ f \in S /\ g \in S
    BY <1>1
  <2> HIDE DEF S
  <2>3. new \in Seq(S) /\ Len(new) = Len(stack[t]) + 1 /\ new[Len(stack[t]) + 1] = f
    BY <1>1, <2>2, Called
  <2>4. stack' = [stack EXCEPT ![t] = new] /\ held' = held
    BY <2>1 DEF Call, Under
  <2> HIDE DEF new
  <2>5. new # <<>> /\ Last(new) = f
    BY <1>1, <2>3 DEF Last
  <2> QED BY <1>1, <2>4, <2>5 DEF OthersStay, Top
<1> QED BY <1>2, <1>3

(* The frame that called has now b, if the call returns a buffer.          *)
Resumes(p, f, b, yes) == p \in Frames /\ f = IF yes THEN [p EXCEPT !.bh = b] ELSE p

LEMMA TopAfterReturn ==
  ASSUME Agree(stack, held, buf), NEW t \in Tasks, stack[t] # <<>>, NEW b \in 0..NR_BUFFERS,
         NEW yes \in BOOLEAN, Leaves(t, b)
  PROVE  LET s == Returned(t, b, yes)
         IN  /\ s \in [Tasks -> Seq(Frames)]
             /\ \A u \in Tasks \ {t} : s[u] = stack[u] /\ held'[u] = held[u]
             /\ \/ s[t] = <<>> /\ held'[t] = b /\ Top(t).at \notin GetLabels
                \/ /\ s[t] # <<>> /\ held'[t] = NULL
                   /\ \E p : Resumes(p, Last(s[t]), b, yes) /\ Over(p, Top(t))
<1> DEFINE n == Len(stack[t])
           s == Returned(t, b, yes)
<1>1. /\ stack \in [Tasks -> Seq(Frames)] /\ stack[t] \in Seq(Frames)
      /\ held \in [Tasks -> 0..NR_BUFFERS] /\ held[t] = NULL /\ Fits(stack[t])
  BY DEF Agree
<1>2. /\ n \in Nat \ {0} /\ Top(t) = stack[t][n] /\ Front(stack[t]) \in Seq(Frames)
      /\ Len(Front(stack[t])) = n - 1 /\ n = Len(stack[t])
      /\ \A k \in 1..(n - 1) : Front(stack[t])[k] = stack[t][k]
  BY <1>1, FrontOf DEF Top
<1>3. CASE n = 1
  <2>1. Front(stack[t]) = <<>> /\ ~(n > 1) /\ 1 \in 1..n /\ Top(t) = stack[t][1]
    <3> HIDE DEF n
    <3>1. Len(Front(stack[t])) = 0 /\ ~(n > 1) /\ 1 \in 1..n
      BY <1>2, <1>3
    <3> QED BY <1>2, <1>3, <3>1, EmptySeq
  <2>2. Top(t).at \notin GetLabels
    BY <1>1, <2>1 DEF Fits
  <2>3. s = [stack EXCEPT ![t] = <<>>] /\ held' = [held EXCEPT ![t] = b]
    BY <1>3, <2>1 DEF Returned, Leaves, Under
  <2>4. <<>> \in Seq(Frames)
    OBVIOUS
  <2> HIDE DEF s
  <2>5. /\ s \in [Tasks -> Seq(Frames)] /\ s[t] = <<>> /\ held'[t] = b
        /\ \A u \in Tasks \ {t} : s[u] = stack[u] /\ held'[u] = held[u]
    BY <1>1, <2>3, <2>4
  <2> QED BY <2>2, <2>5 DEF s
<1>4. CASE n # 1
  <2>1. n > 1 /\ held' = held
    <3>1. n > 1
      <4>1. n \in Nat \ {0} /\ n # 1
        BY <1>2, <1>4
      <4> HIDE DEF n
      <4> QED BY <4>1
    <3> QED BY <1>4, <3>1 DEF Leaves
  <2> DEFINE m == n - 1
             p == stack[t][m]
             new == IF yes THEN [Front(stack[t]) EXCEPT ![m].bh = b] ELSE Front(stack[t])
  <2>2. s = [stack EXCEPT ![t] = new]
    BY <1>2, <2>1 DEF Returned, Under
  <2>3. p \in Frames /\ m \in 1..n /\ m < n /\ m + 1 = n /\ m \in Nat \ {0}
    <3>1. m \in 1..n /\ m < n /\ m + 1 = n /\ m \in Nat \ {0}
      <4> HIDE DEF n
      <4> QED BY <1>2, <2>1
    <3> QED BY <1>1, <1>2, <3>1, ElementOfSeq
  <2>4. Over(p, Top(t))
    BY <1>1, <1>2, <2>3 DEF Fits
  <2>5. /\ new \in Seq(Frames) /\ Len(new) = m
        /\ new[m] = IF yes THEN [p EXCEPT !.bh = b] ELSE p
    <3>1. CASE yes
      <4>1. new = [Front(stack[t]) EXCEPT ![m].bh = b]
        BY <3>1
      <4>2. /\ [Front(stack[t]) EXCEPT ![m].bh = b] \in Seq(Frames)
            /\ Len([Front(stack[t]) EXCEPT ![m].bh = b]) = m
            /\ [Front(stack[t]) EXCEPT ![m].bh = b][m] = [p EXCEPT !.bh = b]
        BY <1>1, <1>2, <2>1, Given
      <4> QED BY <3>1, <4>1, <4>2
    <3>2. CASE ~yes
      <4>1. new = Front(stack[t])
        BY <3>2
      <4>2. m \in 1..m
        <5> HIDE DEF m
        <5> QED BY <2>3
      <4> QED BY <1>2, <3>2, <4>1, <4>2
    <3> QED BY <3>1, <3>2
  <2> HIDE DEF new, s, p, m, n
  <2>6. new # <<>> /\ Last(new) = new[m]
    BY <2>3, <2>5 DEF Last
  <2>7. Resumes(p, Last(new), b, yes)
    BY <2>3, <2>5, <2>6 DEF Resumes
  <2>8. /\ s \in [Tasks -> Seq(Frames)] /\ s[t] = new /\ held'[t] = NULL
        /\ \A u \in Tasks \ {t} : s[u] = stack[u] /\ held'[u] = held[u]
    BY <1>1, <2>1, <2>2, <2>5
  <2>9. s[t] # <<>> /\ held'[t] = NULL
        /\ \E q : Resumes(q, Last(s[t]), b, yes) /\ Over(q, Top(t))
    BY <2>4, <2>6, <2>7, <2>8
  <2> QED BY <2>8, <2>9 DEF s
<1> QED BY <1>3, <1>4

(* No data or flag changes: buffers are only counted, or not even that.    *)
SameFlags == /\ io' = io /\ newer' = newer
             /\ \A b \in Buffers : /\ buf'[b].blk = buf[b].blk /\ buf'[b].lock = buf[b].lock
                                   /\ buf'[b].dirt = buf[b].dirt
                                   /\ buf'[b].uptodate = buf[b].uptodate

LEMMA SameFlagsKeep ==
  ASSUME Right, SameFlags, NEW t \in Tasks
  PROVE  BuffersKept(t) /\ NewerKept
<1>1. FlagsFit'
  BY DEF Right, FlagsFit, SameFlags
<1>2. \A b \in Buffers : Unsaved(b) => Unsaved(b)'
  BY DEF Unsaved, WriteUnderWay, SameFlags
<1> QED BY <1>1, <1>2 DEF BuffersKept, NewerKept, SameFlags

LEMMA CountIsNoFlag ==
  ASSUME Agree(stack, held, buf), UNCHANGED <<io, newer>>, NEW b \in Buffers, NEW n,
         Change(b, [buf[b] EXCEPT !.count = n])
  PROVE  SameFlags
<1> DEFINE head == buf[b]
           g == [head EXCEPT !.count = n]
<1>1. buf \in [Buffers -> Heads] /\ head \in Heads
  BY HeadOf
<1>2. buf' = [buf EXCEPT ![b] = g]
  BY DEF Change
<1> HIDE DEF head
<1>3. /\ g.blk = head.blk /\ g.lock = head.lock /\ g.dirt = head.dirt
      /\ g.uptodate = head.uptodate
  BY <1>1 DEF Heads
<1> HIDE DEF g
<1> QED BY <1>1, <1>2, <1>3 DEF SameFlags, head

(* Nothing is asked of who stands elsewhere than at these labels.          *)
CareLabels == {"slot", "have", "clear", "store", "copy"}

LEMMA ElsewhereIsRight ==
  ASSUME NEW t \in Tasks, held'[t] = NULL, stack'[t] = <<>> \/ Top(t)'.at \notin CareLabels
  PROVE  /\ HasRight(t)' /\ Marked(t)' /\ \A b \in Buffers : ~Queues(t, b)'
BY DEF CareLabels, HasRight, Marked, Queues, At

LEMMA StepTo ==
  ASSUME IInv, Right, Saved, NEW t \in Tasks, stack[t] # <<>>, cpu \in {t, NoTask},
         NEW f, Goto(t, f) \/ \E g : Call(t, g, f),
         f.at \notin CareLabels, BuffersKept(t), NewerKept
  PROVE  Right' /\ Saved'
<1>1. OthersStay(t) /\ Top(t)' = f /\ held'[t] = NULL
  BY TopAfterCall DEF IInv
<1>2. HasRight(t)' /\ Marked(t)' /\ \A b \in Buffers : ~Queues(t, b)'
  BY <1>1, ElsewhereIsRight
<1> QED BY <1>1, <1>2, StepIsRight

LEMMA StepBack ==
  ASSUME IInv, Right, Saved, NEW t \in Tasks, stack[t] # <<>>, cpu \in {t, NoTask},
         Return(t), Top(t).at \notin GetLabels, BuffersKept(t), NewerKept
  PROVE  Right' /\ Saved'
<1>1. /\ \A u \in Tasks \ {t} : stack'[u] = stack[u] /\ held'[u] = held[u]
      /\ \/ stack'[t] = <<>> /\ held'[t] = NULL
         \/ /\ stack'[t] # <<>> /\ held'[t] = NULL
            /\ \E p : Resumes(p, Top(t)', NULL, FALSE) /\ Over(p, Top(t))
  <2>1. NULL \in 0..NR_BUFFERS /\ Agree(stack, held, buf)
    BY CacheAssumption DEF NULL, IInv
  <2>2. stack' = Returned(t, NULL, FALSE) /\ Leaves(t, NULL)
    BY DEF Return
  <2>3. Top(t)' = Last(stack'[t])
    BY DEF Top
  <2> DEFINE s == Returned(t, NULL, FALSE)
  <2>4. /\ s \in [Tasks -> Seq(Frames)]
        /\ \A u \in Tasks \ {t} : s[u] = stack[u] /\ held'[u] = held[u]
        /\ \/ s[t] = <<>> /\ held'[t] = NULL /\ Top(t).at \notin GetLabels
           \/ /\ s[t] # <<>> /\ held'[t] = NULL
              /\ \E p : Resumes(p, Last(s[t]), NULL, FALSE) /\ Over(p, Top(t))
    BY <2>1, <2>2, TopAfterReturn
  <2> HIDE DEF s
  <2>5. stack' = s
    BY <2>2 DEF s
  <2> QED BY <2>3, <2>4, <2>5
<1>2. OthersStay(t)
  BY <1>1 DEF OthersStay
<1>3. HasRight(t)' /\ Marked(t)' /\ \A b \in Buffers : ~Queues(t, b)'
  <2>1. CASE stack'[t] = <<>>
    BY <1>1, <2>1, ElsewhereIsRight
  <2>2. CASE stack'[t] # <<>>
    <3>1. PICK p : Resumes(p, Top(t)', NULL, FALSE) /\ Over(p, Top(t))
      BY <1>1, <2>2
    <3>2. Top(t)' = p /\ p.at \notin {"slot", "copy", "have", "clear"} /\ (p.at = "store" => p.bh = NULL)
      BY <3>1 DEF Resumes, Over, NewLabels
    <3> QED BY <1>1, <3>2 DEF HasRight, Marked, Queues, At
  <2> QED BY <2>1, <2>2
<1> QED BY <1>2, <1>3, StepIsRight

(* getblk returns a buffer that is not locked, bread one that is up to date. *)
LEMMA StepBackWith ==
  ASSUME IInv, Right, Saved, NEW t \in Tasks, stack[t] # <<>>, cpu \in {t, NoTask},
         NEW b \in Buffers, ReturnBuffer(t, b), BuffersKept(t), NewerKept,
         \/ Top(t).at \in GetLabels /\ ~buf'[b].lock
         \/ Top(t).at \in BreadLabels /\ buf'[b].uptodate
  PROVE  Right' /\ Saved'
<1>1. /\ \A u \in Tasks \ {t} : stack'[u] = stack[u] /\ held'[u] = held[u]
      /\ \/ stack'[t] = <<>> /\ held'[t] = b /\ Top(t).at \notin GetLabels
         \/ /\ stack'[t] # <<>> /\ held'[t] = NULL
            /\ \E p : Resumes(p, Top(t)', b, TRUE) /\ Over(p, Top(t))
  <2>1. b \in 0..NR_BUFFERS /\ Agree(stack, held, buf)
    BY CacheAssumption DEF Buffers, IInv
  <2> QED BY <2>1, TopAfterReturn DEF ReturnBuffer, Top
<1>2. OthersStay(t)
  BY <1>1 DEF OthersStay
<1>3. HasRight(t)' /\ Marked(t)' /\ \A c \in Buffers : ~Queues(t, c)'
  <2>1. CASE stack'[t] = <<>>
    BY <1>1, <2>1 DEF HasRight, Marked, Queues, At
  <2>2. CASE stack'[t] # <<>>
    <3>1. PICK p : Resumes(p, Top(t)', b, TRUE) /\ Over(p, Top(t))
      BY <1>1, <2>2
    <3>2. Top(t)'.at = p.at /\ Top(t)'.bh = b
      <4>1. p \in Frames /\ Top(t)' = [p EXCEPT !.bh = b]
        BY <3>1 DEF Resumes
      <4> QED BY <4>1 DEF Frames
    <3>3. /\ p.at \notin {"slot", "copy"}
          /\ p.at \in {"have", "clear"} => ~buf'[b].lock
          /\ p.at = "store" => buf'[b].uptodate
      BY <3>1 DEF Over, NewLabels, GetLabels, BreadLabels
    <3> QED BY <1>1, <3>2, <3>3 DEF HasRight, Marked, Queues, At
  <2> QED BY <2>1, <2>2
<1> QED BY <1>2, <1>3, StepIsRight

-----------------------------------------------------------------------------
LEMMA FramesGoOn ==
  ASSUME NEW f \in Frames, NEW label, NEW b, NEW i
  PROVE  /\ [f EXCEPT !.at = label].at = label
         /\ [f EXCEPT !.at = label, !.bh = b].at = label
         /\ [f EXCEPT !.at = label, !.i = i].at = label
BY DEF Frames

LEMMA GetblkIsRight ==
  ASSUME IInv, Right, Saved, NEW t \in Tasks, Getblk(t)
  PROVE  Right' /\ Saved'
<1> DEFINE f == Top(t)
           found == find_buffer(f.blk)
<1>1. Agree(stack, held, buf) /\ stack[t] # <<>> /\ cpu \in {t, NoTask} /\ f \in Frames
  BY Running DEF Getblk
<1>2. UNCHANGED <<io, newer>>
  BY DEF Getblk
<1>3. CASE found # {}
  <2> DEFINE b == CHOOSE c \in found : TRUE
             g == [f EXCEPT !.at = "hash", !.bh = b]
  <2>1. b \in Buffers
    BY <1>3 DEF find_buffer
  <2>2. Change(b, [buf[b] EXCEPT !.count = @ + 1]) /\ Goto(t, g)
    BY <1>3 DEF Getblk
  <2>3. g.at \notin CareLabels
    BY <1>1, FramesGoOn DEF CareLabels
  <2> HIDE DEF b, g, f
  <2>4. BuffersKept(t) /\ NewerKept
    BY <1>1, <1>2, <2>1, <2>2, CountIsNoFlag, SameFlagsKeep
  <2> QED BY <1>1, <2>2, <2>3, <2>4, StepTo
<1>4. CASE found = {}
  <2>1. PICK g : Goto(t, g) /\ g.at \notin CareLabels
    <3>1. /\ [f EXCEPT !.at = "none"].at \notin CareLabels
          /\ [f EXCEPT !.at = "victim", !.bh = Candidate].at \notin CareLabels
      BY <1>1, FramesGoOn DEF CareLabels
    <3> QED BY <1>4, <3>1 DEF Getblk
  <2>2. BuffersKept(t) /\ NewerKept
    <3>1. SameFlags
      BY <1>2, <1>4 DEF Getblk, SameFlags
    <3> QED BY <3>1, SameFlagsKeep
  <2> QED BY <1>1, <2>1, <2>2, StepTo
<1> QED BY <1>3, <1>4

LEMMA HashIsRight ==
  ASSUME IInv, Right, Saved, NEW t \in Tasks, Hash(t)
  PROVE  Right' /\ Saved'
<1> DEFINE f == Top(t)
           b == f.bh
<1>1. /\ Agree(stack, held, buf) /\ stack[t] # <<>> /\ cpu \in {t, NoTask} /\ f \in Frames
      /\ f.at = "hash" /\ FrameFits(f)
  BY Running DEF Hash
<1>2. UNCHANGED <<io, newer>> /\ ~buf[b].lock
  BY DEF Hash, MustWait
<1>3. b \in Buffers /\ f.at \in GetLabels
  BY <1>1 DEF FrameFits, GetLabels
<1>4. CASE buf[b].blk = f.blk
  <2>1. ReturnBuffer(t, b) /\ buf' = buf
    BY <1>4 DEF Hash
  <2>2. BuffersKept(t) /\ NewerKept
    <3>1. SameFlags
      BY <1>2, <2>1 DEF SameFlags
    <3> QED BY <3>1, SameFlagsKeep
  <2> QED BY <1>1, <1>2, <1>3, <2>1, <2>2, StepBackWith
<1>5. CASE buf[b].blk # f.blk
  <2> DEFINE g == [f EXCEPT !.at = "getblk"]
  <2>1. Change(b, [buf[b] EXCEPT !.count = @ - 1]) /\ Goto(t, g)
    BY <1>5 DEF Hash
  <2>2. g.at \notin CareLabels
    BY <1>1, FramesGoOn DEF CareLabels
  <2> HIDE DEF g
  <2>3. BuffersKept(t) /\ NewerKept
    BY <1>1, <1>2, <1>3, <2>1, CountIsNoFlag, SameFlagsKeep
  <2> QED BY <1>1, <2>1, <2>2, <2>3, StepTo
<1> QED BY <1>4, <1>5

LEMMA VictimIsRight ==
  ASSUME IInv, Right, Saved, NEW t \in Tasks, Victim(t)
  PROVE  Right' /\ Saved'
<1> DEFINE f == Top(t)
           b == f.bh
<1>1. /\ Agree(stack, held, buf) /\ stack[t] # <<>> /\ cpu \in {t, NoTask} /\ f \in Frames
      /\ f.at = "victim" /\ FrameFits(f)
  BY Running DEF Victim
<1>2. UNCHANGED <<io, newer>> /\ ~buf[b].lock
  BY DEF Victim
<1>3. /\ b \in Buffers /\ f.at \in GetLabels /\ buf \in [Buffers -> Heads]
      /\ buf[b].count \in Nat
  BY <1>1, HeadOf DEF FrameFits, GetLabels
<1>4. ASSUME buf' = buf, NEW g, Goto(t, g) \/ Call(t, f, g), g.at \notin CareLabels
      PROVE  Right' /\ Saved'
  <2>1. SameFlags
    BY <1>2, <1>4 DEF SameFlags
  <2> QED BY <1>1, <1>4, <2>1, SameFlagsKeep, StepTo
<1>5. CASE Goto(t, [f EXCEPT !.at = "getblk"]) /\ UNCHANGED <<buf, free_list>>
  <2>1. [f EXCEPT !.at = "getblk"].at \notin CareLabels
    BY <1>1, FramesGoOn DEF CareLabels
  <2> QED BY <1>4, <1>5, <2>1
<1>6. CASE Call(t, f, Frame("sync1", Dev(buf[b].blk), NULL, 1)) /\ UNCHANGED <<buf, free_list>>
  <2>1. Frame("sync1", Dev(buf[b].blk), NULL, 1).at \notin CareLabels
    BY DEF Frame, CareLabels
  <2> QED BY <1>4, <1>6, <2>1
<1>7. CASE /\ ~InUse(b) /\ ~MustSync(b) /\ Change(b, NewHead(f.blk)) /\ ReturnBuffer(t, b)
  <2>1. buf[b].count = 0 /\ ~buf[b].dirt /\ io[b] = -1
    BY <1>2, <1>3, <1>7 DEF InUse, MustSync, Right, FlagsFit
  <2>2. /\ ~buf'[b].lock /\ ~buf'[b].dirt /\ ~buf'[b].uptodate
        /\ \A c \in Buffers \ {b} : buf'[c] = buf[c]
    BY <1>3, <1>7 DEF Change, NewHead
  <2>3. FlagsFit'
    BY <1>2, <2>1, <2>2 DEF FlagsFit, Right
  <2>4. \A c \in Buffers : Unsaved(c) => c # b /\ Unsaved(c)'
    BY <1>2, <2>1, <2>2 DEF Unsaved, WriteUnderWay, WRITE
  <2>5. BuffersKept(t)
    BY <1>2, <2>1, <2>2, <2>3, <2>4 DEF BuffersKept
  <2>6. NewerKept
    BY <1>2 DEF NewerKept
  <2> QED BY <1>1, <1>3, <1>7, <2>2, <2>5, <2>6, StepBackWith
<1> QED BY <1>5, <1>6, <1>7 DEF Victim

LEMMA WokenStays ==
  ASSUME NEW s \in [Tasks -> Seq(Frames)], NEW u \in Tasks
  PROVE  \/ Wake(s)[u] = s[u] /\ (s[u] = <<>> \/ Last(s[u]).at # "none")
         \/ Wake(s)[u] # <<>> /\ Last(Wake(s)[u]).at = "getblk" /\ Last(s[u]).at = "none"
<1>1. CASE s[u] # <<>> /\ Last(s[u]).at = "none"
  <2> DEFINE g == [Last(s[u]) EXCEPT !.at = "getblk"]
             n == Len(s[u])
             S == Frames \cup {g}
             new == Append(Front(s[u]), g)
  <2>1. Last(s[u]) \in Frames /\ n \in Nat \ {0}
    BY <1>1, FrontOf
  <2>2. g.at = "getblk"
    BY <2>1, FramesGoOn
  <2>3. Wake(s)[u] = new
    BY <1>1 DEF Wake
  <2>4. s[u] \in Seq(S) /\ g \in S
    OBVIOUS
  <2> HIDE DEF g, S
  <2>5. new \in Seq(S) /\ Len(new) = n /\ new[n] = g
    BY <1>1, <2>4, Replaced
  <2> HIDE DEF new, n
  <2>6. new # <<>> /\ Last(new) = g
    BY <2>1, <2>5 DEF Last
  <2> QED BY <1>1, <2>2, <2>3, <2>6
<1>2. CASE ~(s[u] # <<>> /\ Last(s[u]).at = "none")
  BY <1>2 DEF Wake
<1> QED BY <1>1, <1>2

LEMMA BrelseIsRight ==
  ASSUME IInv, Right, Saved, NEW t \in Tasks, Brelse(t)
  PROVE  Right' /\ Saved'
<1> DEFINE f == Top(t)
           b == f.bh
           s == Returned(t, NULL, TRUE)
<1>1. /\ Agree(stack, held, buf) /\ stack[t] # <<>> /\ cpu \in {t, NoTask} /\ f \in Frames
      /\ f.at = "brelse" /\ FrameFits(f)
  BY Running DEF Brelse
<1>2. /\ UNCHANGED <<io, newer>> /\ stack' = Wake(s) /\ Leaves(t, NULL)
      /\ Change(b, [buf[b] EXCEPT !.count = @ - 1])
  BY DEF Brelse, Released, Change
<1>3. b \in Buffers /\ NULL \in 0..NR_BUFFERS
  BY <1>1, CacheAssumption DEF FrameFits, NULL
<1>4. BuffersKept(t) /\ NewerKept
  BY <1>1, <1>2, <1>3, CountIsNoFlag, SameFlagsKeep
<1>5. /\ s \in [Tasks -> Seq(Frames)]
      /\ \A u \in Tasks \ {t} : s[u] = stack[u] /\ held'[u] = held[u]
      /\ \/ s[t] = <<>> /\ held'[t] = NULL
         \/ /\ s[t] # <<>> /\ held'[t] = NULL
            /\ \E p : Resumes(p, Last(s[t]), NULL, TRUE) /\ Over(p, Top(t))
  BY <1>1, <1>2, <1>3, TopAfterReturn
<1> HIDE DEF s
<1>6. OthersStay(t)
  <2> SUFFICES ASSUME NEW u \in Tasks \ {t}
               PROVE  /\ held'[u] = held[u]
                      /\ stack'[u] = stack[u] \/ (stack'[u] # <<>> /\ Last(stack'[u]).at = "getblk")
    BY DEF OthersStay
  <2>1. \/ Wake(s)[u] = s[u]
        \/ Wake(s)[u] # <<>> /\ Last(Wake(s)[u]).at = "getblk"
    BY <1>5, WokenStays
  <2> QED BY <1>2, <1>5, <2>1
<1>7. HasRight(t)' /\ Marked(t)' /\ \A c \in Buffers : ~Queues(t, c)'
  <2>1. CASE s[t] = <<>>
    <3>1. stack'[t] = <<>>
      BY <1>2, <2>1 DEF Wake
    <3> QED BY <1>5, <3>1, ElsewhereIsRight
  <2>2. CASE s[t] # <<>>
    <3>1. PICK p : Resumes(p, Last(s[t]), NULL, TRUE) /\ Over(p, Top(t))
      BY <1>5, <2>2
    <3>2. p.at \in {"store", "unlock"}
      BY <1>1, <3>1 DEF Over
    <3>3. Last(s[t]).at = p.at /\ Last(s[t]).bh = NULL
      <4>1. p \in Frames /\ Last(s[t]) = [p EXCEPT !.bh = NULL]
        BY <3>1 DEF Resumes
      <4> QED BY <4>1 DEF Frames
    <3>4. stack'[t] = s[t]
      BY <1>2, <1>5, <3>2, <3>3, WokenStays
    <3> QED BY <1>5, <3>2, <3>3, <3>4 DEF HasRight, Marked, Queues, At, Top
  <2> QED BY <2>1, <2>2
<1> QED BY <1>1, <1>4, <1>6, <1>7, StepIsRight

LEMMA LockBufferIsRight ==
  ASSUME IInv, Right, Saved, NEW t \in Tasks, LockBuffer(t)
  PROVE  Right' /\ Saved'
<1> DEFINE f == Top(t)
           b == f.bh
<1>1. /\ Agree(stack, held, buf) /\ stack[t] # <<>> /\ cpu \in {t, NoTask} /\ f \in Frames
      /\ f.at = "lock" /\ FrameFits(f)
  BY Running DEF LockBuffer
<1>2. UNCHANGED <<io, newer>> /\ ~buf[b].lock
  BY DEF LockBuffer
<1>3. /\ b \in Buffers /\ f.i \in {READ, WRITE} /\ f.at \notin GetLabels
      /\ buf \in [Buffers -> Heads]
  BY <1>1, HeadOf DEF FrameFits, GetLabels
<1>4. CASE Return(t) /\ buf' = buf
  <2>1. SameFlags
    BY <1>2, <1>4 DEF SameFlags
  <2> QED BY <1>1, <1>3, <1>4, <2>1, SameFlagsKeep, StepBack
<1>5. CASE /\ Change(b, [buf[b] EXCEPT !.lock = TRUE]) /\ Goto(t, [f EXCEPT !.at = "slot"])
           /\ f.i = READ => ~buf[b].uptodate
  <2> DEFINE g == [f EXCEPT !.at = "slot"]
  <2>1. g.at = "slot" /\ g.bh = b /\ g.i = f.i
    <3> HIDE DEF f
    <3> QED BY <1>1 DEF Frames
  <2>2. Goto(t, g)
    BY <1>5
  <2> HIDE DEF g
  <2>3. io[b] = -1
    BY <1>2, <1>3 DEF Right, FlagsFit
  <2>4. /\ buf'[b].lock /\ buf'[b].blk = buf[b].blk /\ buf'[b].dirt = buf[b].dirt
        /\ buf'[b].uptodate = buf[b].uptodate
        /\ \A c \in Buffers \ {b} : buf'[c] = buf[c]
    BY <1>3, <1>5 DEF Change, Heads
  <2>5. FlagsFit'
    BY <1>2, <2>3, <2>4 DEF FlagsFit, Right
  <2>6. \A c \in Buffers : Unsaved(c) => Unsaved(c)'
    BY <1>2, <2>4 DEF Unsaved, WriteUnderWay
  <2>7. BuffersKept(t) /\ NewerKept
    <3>1. \A c \in Buffers : /\ buf'[c].blk = buf[c].blk /\ buf'[c].uptodate = buf[c].uptodate
                             /\ (buf[c].lock => buf'[c].lock) /\ io'[c] = io[c]
      BY <1>2, <2>4
    <3> QED BY <1>2, <2>5, <2>6, <3>1 DEF BuffersKept, NewerKept
  <2>8. OthersStay(t) /\ stack'[t] # <<>> /\ Top(t)' = g /\ held'[t] = NULL
    BY <1>1, <2>2, TopAfterCall
  <2>9. HasRight(t)' /\ Marked(t)' /\ \A c \in Buffers : Queues(t, c)' => c = b
    BY <1>2, <1>5, <2>1, <2>3, <2>4, <2>8 DEF HasRight, Marked, Queues, At
  <2> QED BY <1>1, <1>2, <2>7, <2>8, <2>9, StepIsRight
<1>6. f.i = READ => f.i # WRITE
  BY DEF READ, WRITE
<1> QED BY <1>4, <1>5, <1>6 DEF LockBuffer

LEMMA AddRequestIsRight ==
  ASSUME IInv, Right, Saved, NEW t \in Tasks, AddRequest(t)
  PROVE  Right' /\ Saved'
<1> DEFINE f == Top(t)
           b == f.bh
<1>1. /\ Agree(stack, held, buf) /\ stack[t] # <<>> /\ cpu \in {t, NoTask} /\ f \in Frames
      /\ f.at = "slot" /\ FrameFits(f)
  BY Running DEF AddRequest
<1>2. /\ b \in Buffers /\ f.i \in {READ, WRITE} /\ f.at \notin GetLabels
      /\ buf \in [Buffers -> Heads] /\ io \in [Buffers -> {-1, READ, WRITE}]
  BY <1>1, HeadOf DEF FrameFits, GetLabels, IInv, Types
<1>3. /\ Return(t) /\ newer' = newer /\ io' = [io EXCEPT ![b] = f.i]
      /\ Change(b, [buf[b] EXCEPT !.dirt = FALSE])
  BY DEF AddRequest
<1>4. Queues(t, b) /\ buf[b].lock /\ io[b] = -1 /\ (f.i = READ => ~buf[b].uptodate)
  BY <1>1 DEF Right, HasRight, Queues, At
<1>5. /\ buf'[b].lock /\ buf'[b].blk = buf[b].blk /\ ~buf'[b].dirt
      /\ buf'[b].uptodate = buf[b].uptodate /\ io'[b] = f.i
      /\ \A c \in Buffers \ {b} : buf'[c] = buf[c] /\ io'[c] = io[c]
  BY <1>2, <1>3, <1>4 DEF Change, Heads
<1> HIDE DEF f
<1>6. FlagsFit'
  BY <1>4, <1>5 DEF FlagsFit, Right
<1>7. \A c \in Buffers : Unsaved(c) => Unsaved(c)'
  BY <1>2, <1>4, <1>5 DEF Unsaved, WriteUnderWay
<1>8. BuffersKept(t) /\ NewerKept
  <2>1. \A c \in Buffers : /\ buf'[c].blk = buf[c].blk /\ buf'[c].uptodate = buf[c].uptodate
                           /\ (buf[c].lock => buf'[c].lock)
                           /\ ~Queues(t, c) => io'[c] = io[c]
    BY <1>4, <1>5
  <2> QED BY <1>3, <1>6, <1>7, <2>1 DEF BuffersKept, NewerKept
<1> QED BY <1>1, <1>2, <1>3, <1>8, StepBack DEF f

LEMMA EndRequestIsRight ==
  ASSUME WRITE \notin Failures, IInv, Right, Saved,
         NEW b \in Buffers, NEW ok \in BOOLEAN, EndRequest(b, ok)
  PROVE  Right' /\ Saved'
<1>1. Agree(stack, held, buf) /\ buf \in [Buffers -> Heads] /\ io \in [Buffers -> {-1, READ, WRITE}]
  BY DEF IInv, Types, Agree
<1>2. /\ UNCHANGED <<stack, held, cpu>> /\ io[b] # -1 /\ io' = [io EXCEPT ![b] = -1]
      /\ ~ok => io[b] \in Failures
      /\ Change(b, [buf[b] EXCEPT !.lock = FALSE, !.uptodate = ok])
      /\ newer' = IF io[b] = WRITE /\ ~buf[b].dirt THEN newer \ {buf[b].blk} ELSE newer
  BY DEF EndRequest
<1>3. ok \/ io[b] = READ
  BY <1>1, <1>2
<1>4. /\ ~buf'[b].lock /\ buf'[b].blk = buf[b].blk /\ buf'[b].dirt = buf[b].dirt
      /\ buf'[b].uptodate = ok /\ io'[b] = -1
      /\ \A c \in Buffers \ {b} : buf'[c] = buf[c] /\ io'[c] = io[c]
  BY <1>1, <1>2 DEF Change, Heads
<1>5. buf[b].uptodate => ok
  BY <1>3 DEF Right, FlagsFit
<1>6. FlagsFit'
  BY <1>4, <1>5 DEF FlagsFit, Right, READ
<1>7. ASSUME NEW u \in Tasks PROVE HasRight(u)' /\ (Marked(u) => Marked(u)')
  <2>1. Top(u)' = Top(u) /\ stack'[u] = stack[u] /\ held'[u] = held[u] /\ cpu' = cpu
    BY <1>2 DEF Top
  <2>2. /\ held[u] # NULL => held[u] \in Buffers
        /\ stack[u] # <<>> => FrameFits(Top(u)) /\ TopFits(Top(u)) /\ Top(u) \in Frames
    BY <1>1, HeldIsCounted, TopIs
  <2>3. \A c \in Buffers : buf[c].uptodate => buf'[c].uptodate
    BY <1>4, <1>5
  <2>4. held'[u] # NULL => buf'[held'[u]].uptodate
    BY <2>1, <2>2, <2>3 DEF Right, HasRight
  <2>5. CASE stack[u] = <<>>
    BY <2>1, <2>4, <2>5 DEF HasRight, Marked, At
  <2>6. CASE stack[u] # <<>>
    <3> DEFINE f == Top(u)
               c == f.bh
    <3>1. /\ f.at \in {"slot", "have", "clear", "copy"} => c \in Buffers
          /\ f.at = "store" /\ c # NULL => c \in Buffers
      BY <2>2, <2>6, CacheAssumption DEF FrameFits, TopFits, NewLabels, Frames, Buffers, NULL
    <3>2. f.at = "slot" => c # b /\ buf[c].lock /\ io[c] = -1 /\ (f.i = READ => ~buf[c].uptodate)
      BY <1>2, <2>6 DEF Right, HasRight, At
    <3>3. f.at \in {"have", "clear"} => ~buf[c].lock
      BY <2>6 DEF Right, HasRight, At
    <3>4. f.at = "copy" \/ (f.at = "store" /\ c # NULL) => buf[c].uptodate
      BY <2>6 DEF Right, HasRight, At
    <3>5. HasRight(u)'
      BY <1>4, <2>1, <2>3, <2>4, <2>6, <3>1, <3>2, <3>3, <3>4 DEF HasRight, At
    <3>6. Marked(u) => Marked(u)'
      BY <1>4, <2>1, <2>6, <3>1 DEF Marked, At
    <3> QED BY <3>5, <3>6
  <2> QED BY <2>5, <2>6
<1>8. \A u, v \in Tasks, c \in Buffers : Queues(u, c)' /\ Queues(v, c)' => u = v
  BY <1>2 DEF Queues, At, Top, Right
<1>9. Saved'
  <2> SUFFICES ASSUME Careful, NEW blk \in newer' PROVE \E c \in find_buffer(blk)' : Unsaved(c)'
    BY <1>7 DEF Saved, Careful
  <2>1. PICK c \in find_buffer(blk) : Unsaved(c)
    BY <1>2 DEF Saved
  <2>2. c \in Buffers /\ buf'[c].blk = blk
    BY <1>4, <2>1 DEF find_buffer
  <2>3. Unsaved(c)'
    <3>1. CASE c # b
      BY <1>4, <2>1, <2>2, <3>1 DEF Unsaved, WriteUnderWay
    <3>2. CASE c = b
      <4>1. ~(io[b] = WRITE /\ ~buf[b].dirt)
        BY <1>2, <2>1, <3>2 DEF find_buffer
      <4> QED BY <1>4, <1>5, <2>1, <3>2, <4>1 DEF Unsaved, WriteUnderWay
    <3> QED BY <3>1, <3>2
  <2> QED BY <2>2, <2>3 DEF find_buffer
<1> QED BY <1>6, <1>7, <1>8, <1>9 DEF Right

(* Steps that leave all buffers alone.                                     *)
LEMMA QuietStepTo ==
  ASSUME IInv, Right, Saved, NEW t \in Tasks, NEW label, Run(t, label), UNCHANGED <<cache, newer>>,
         NEW f, Goto(t, f) \/ \E g : Call(t, g, f), f.at \notin CareLabels
  PROVE  Right' /\ Saved'
<1>1. SameFlags
  BY DEF SameFlags, cache
<1>2. stack[t] # <<>> /\ cpu \in {t, NoTask}
  BY Running
<1> QED BY <1>1, <1>2, SameFlagsKeep, StepTo

LEMMA QuietStepBack ==
  ASSUME IInv, Right, Saved, NEW t \in Tasks, NEW label, Run(t, label), UNCHANGED <<cache, newer>>,
         Return(t), label \notin GetLabels
  PROVE  Right' /\ Saved'
<1>1. SameFlags
  BY DEF SameFlags, cache
<1>2. stack[t] # <<>> /\ cpu \in {t, NoTask} /\ Top(t).at = label
  BY Running
<1> QED BY <1>1, <1>2, SameFlagsKeep, StepBack

LEMMA BreadIsRight ==
  ASSUME IInv, Right, Saved, NEW t \in Tasks, Bread(t) \/ Have(t) \/ Filled(t)
  PROVE  Right' /\ Saved'
<1> DEFINE f == Top(t)
<1>1. UNCHANGED <<cache, newer>> /\ \E label \in BreadLabels : Run(t, label)
  BY DEF Bread, Have, Filled, BreadLabels
<1>2. /\ stack[t] # <<>> /\ cpu \in {t, NoTask} /\ f \in Frames /\ f.at \in BreadLabels
      /\ FrameFits(f) /\ TopFits(f)
  BY <1>1, Running
<1>3. ASSUME NEW g, Goto(t, g) \/ \E h : Call(t, h, g), g.at \notin CareLabels
      PROVE  Right' /\ Saved'
  BY <1>1, <1>3, QuietStepTo
<1>4. CASE ReturnBuffer(t, f.bh) /\ buf[f.bh].uptodate /\ f.at \in {"have", "filled"}
  <2>1. f.bh \in Buffers
    BY <1>2, <1>4 DEF FrameFits, TopFits, NewLabels
  <2>2. SameFlags /\ buf'[f.bh].uptodate
    BY <1>1, <1>4 DEF SameFlags, cache
  <2> QED BY <1>2, <1>4, <2>1, <2>2, SameFlagsKeep, StepBackWith
<1>5. /\ Frame("getblk", f.blk, NULL, 0).at \notin CareLabels
      /\ Frame("lock", NULL, f.bh, READ).at \notin CareLabels
      /\ [f EXCEPT !.at = "brelse"].at \notin CareLabels
  <2>1. [f EXCEPT !.at = "brelse"].at = "brelse"
    BY <1>2, FramesGoOn
  <2> QED BY <2>1 DEF Frame, CareLabels
<1>6. \/ \E g, h : (Goto(t, g) \/ Call(t, h, g)) /\ g.at \notin CareLabels
      \/ ReturnBuffer(t, f.bh) /\ buf[f.bh].uptodate /\ f.at \in {"have", "filled"}
  <2>1. CASE Bread(t)
    BY <1>5, <2>1 DEF Bread
  <2>2. CASE Have(t)
    BY <1>5, <2>2 DEF Have, Run, At
  <2>3. CASE Filled(t)
    BY <1>5, <2>3 DEF Filled, Run, At
  <2> QED BY <2>1, <2>2, <2>3
<1> QED BY <1>3, <1>4, <1>6

LEMMA BreadaIsRight ==
  ASSUME IInv, Right, Saved, NEW t \in Tasks, Breada(t)
  PROVE  Right' /\ Saved'
<1> DEFINE f == Top(t)
<1>1. UNCHANGED <<cache, newer>> /\ \E label : Run(t, label)
  BY DEF Breada
<1>2. f \in Frames
  BY <1>1, Running
<1>3. PICK g : (Goto(t, g) \/ \E h : Call(t, h, g)) /\ g.at \notin CareLabels
  <2>1. [f EXCEPT !.at = "more", !.i = f.bh].at = "more"
    BY <1>2, FramesGoOn
  <2>2. [f EXCEPT !.at = "more", !.i = f.bh].at \notin CareLabels
    BY <2>1 DEF CareLabels
  <2>3. /\ Frame("lock", NULL, f.bh, READ).at \notin CareLabels
        /\ \A blk : Frame("getblk", blk, NULL, 0).at \notin CareLabels
    BY DEF Frame, CareLabels
  <2> QED BY <2>2, <2>3 DEF Breada
<1> QED BY <1>1, <1>3, QuietStepTo

LEMMA DropIsRight ==
  ASSUME IInv, Right, Saved, NEW t \in Tasks, Drop(t)
  PROVE  Right' /\ Saved'
<1> DEFINE f == Top(t)
           b == f.i
           g == [f EXCEPT !.at = "filled", !.bh = b]
           head == buf[f.bh]
           dropped == [buf EXCEPT ![f.bh].count = @ - 1]
<1>1. /\ Agree(stack, held, buf) /\ stack[t] # <<>> /\ cpu \in {t, NoTask} /\ f \in Frames
      /\ f.at = "drop" /\ FrameFits(f) /\ TopFits(f)
  BY Running DEF Drop
<1>2. f.bh \in Buffers /\ b \in Buffers /\ b # f.bh
  BY <1>1 DEF FrameFits, TopFits
<1>3. g.at \notin CareLabels
  <2>1. g.at = "filled"
    BY <1>1, FramesGoOn
  <2> QED BY <2>1 DEF CareLabels
<1>4. Goto(t, g) /\ newer' = newer
  BY DEF Drop
<1>5. /\ buf \in [Buffers -> Heads] /\ io \in [Buffers -> {-1, READ, WRITE}] /\ head \in Heads
      /\ buf[b] \in Heads
  BY <1>1, <1>2, HeadOf DEF IInv, Types
<1>6. CASE buf' = dropped /\ io' = io
  <2>1. Change(f.bh, [head EXCEPT !.count = @ - 1])
    BY <1>6 DEF Change
  <2>2. SameFlags
    BY <1>1, <1>2, <1>4, <1>6, <2>1, CountIsNoFlag
  <2> QED BY <1>1, <1>3, <1>4, <2>2, SameFlagsKeep, StepTo
<1>7. CASE /\ ~buf[b].lock /\ ~buf[b].uptodate /\ io' = [io EXCEPT ![b] = READ]
           /\ buf' = [dropped EXCEPT ![b].lock = TRUE, ![b].dirt = FALSE]
  <2> DEFINE asked == [buf[b] EXCEPT !.lock = TRUE, !.dirt = FALSE]
             kept == [head EXCEPT !.count = @ - 1]
  <2>1. /\ buf'[b] = asked /\ buf'[f.bh] = kept
        /\ \A c \in Buffers \ {b, f.bh} : buf'[c] = buf[c]
        /\ io'[b] = READ /\ \A c \in Buffers \ {b} : io'[c] = io[c]
    <3>1. dropped \in [Buffers -> {dropped[c] : c \in Buffers}] /\ dropped[b] = buf[b]
          /\ dropped[f.bh] = kept /\ \A c \in Buffers \ {b, f.bh} : dropped[c] = buf[c]
      BY <1>2, <1>5
    <3> HIDE DEF dropped, b, kept
    <3>2. buf' = [dropped EXCEPT ![b] = [dropped[b] EXCEPT !.lock = TRUE, !.dirt = FALSE]]
      BY <1>7
    <3> QED BY <1>2, <1>5, <1>7, <3>1, <3>2
  <2>2. /\ asked.lock /\ ~asked.dirt /\ asked.blk = buf[b].blk
        /\ asked.uptodate = buf[b].uptodate
    <3> DEFINE old == buf[b]
    <3> HIDE DEF old
    <3>1. old \in Heads => LET new == [old EXCEPT !.lock = TRUE, !.dirt = FALSE]
                           IN  /\ new.lock /\ ~new.dirt /\ new.blk = old.blk
                               /\ new.uptodate = old.uptodate
      BY DEF Heads
    <3> QED BY <1>5, <3>1 DEF old
  <2>3. /\ kept.lock = head.lock /\ kept.dirt = head.dirt /\ kept.blk = head.blk
        /\ kept.uptodate = head.uptodate
    <3> HIDE DEF head
    <3> QED BY <1>5 DEF Heads
  <2> HIDE DEF asked, kept
  <2>4. \A c \in Buffers : /\ buf'[c].blk = buf[c].blk /\ buf'[c].uptodate = buf[c].uptodate
                           /\ (buf[c].lock => buf'[c].lock)
                           /\ c # b => /\ buf'[c].lock = buf[c].lock /\ buf'[c].dirt = buf[c].dirt
                                       /\ io'[c] = io[c]
    BY <2>1, <2>2, <2>3 DEF head
  <2>5. buf'[b].lock /\ ~buf'[b].dirt /\ io'[b] = READ
    BY <2>1, <2>2
  <2> HIDE DEF f
  <2>6. FlagsFit'
    <3> SUFFICES ASSUME NEW c \in Buffers
                 PROVE  /\ io'[c] # -1 => buf'[c].lock
                        /\ buf'[c].dirt => buf'[c].uptodate
                        /\ io'[c] = READ => ~buf'[c].uptodate
      BY DEF FlagsFit
    <3>1. /\ io[c] # -1 => buf[c].lock
          /\ buf[c].dirt => buf[c].uptodate
          /\ io[c] = READ => ~buf[c].uptodate
      BY DEF FlagsFit, Right
    <3>2. CASE c = b
      BY <1>7, <2>4, <2>5, <3>2
    <3>3. CASE c # b
      BY <2>4, <3>1, <3>3
    <3> QED BY <3>2, <3>3
  <2>7. ASSUME NEW c \in Buffers, Unsaved(c) PROVE Unsaved(c)'
    <3>1. c # b /\ buf[c].uptodate /\ (io[c] = WRITE \/ buf[c].dirt)
      BY <1>7, <2>7 DEF Unsaved, WriteUnderWay
    <3>2. buf'[c].uptodate /\ buf'[c].dirt = buf[c].dirt /\ io'[c] = io[c]
      BY <2>4, <3>1
    <3> QED BY <3>1, <3>2 DEF Unsaved, WriteUnderWay
  <2>8. BuffersKept(t) /\ NewerKept
    <3>1. \A c \in Buffers : buf[c].lock /\ io[c] = -1 => c # b
      BY <1>7
    <3>2. \A c \in Buffers : Unsaved(c) => Unsaved(c)' /\ buf'[c].blk = buf[c].blk
      BY <2>4, <2>7
    <3>3. BuffersKept(t)
      BY <2>4, <2>6, <3>1, <3>2 DEF BuffersKept
    <3> QED BY <1>4, <3>3 DEF NewerKept
  <2> QED BY <1>1, <1>3, <1>4, <2>8, StepTo DEF f
<1> QED BY <1>6, <1>7 DEF Drop, Dropped

LEMMA SyncIsRight ==
  ASSUME IInv, Right, Saved, NEW t \in Tasks, NEW pass \in DOMAIN WaitOf,
         SyncNext(t, pass) \/ SyncBuffer(t, pass)
  PROVE  Right' /\ Saved'
<1> DEFINE f == Top(t)
           wait == WaitOf[pass]
<1>1. /\ pass \in {"sync1", "sync2", "syncall"} /\ wait \in {"wait1", "wait2", "waitall"}
  BY PassLabels
<1>2. UNCHANGED <<cache, newer>> /\ \E label \in {pass, wait} : Run(t, label)
  BY DEF SyncNext, SyncBuffer
<1>3. PICK label \in {pass, wait} : Run(t, label)
  BY <1>2
<1>4. f \in Frames /\ label \notin GetLabels
  BY <1>1, <1>3, Running DEF GetLabels
<1> HIDE DEF wait
<1>5. /\ \A i : [f EXCEPT !.at = wait, !.i = i].at = wait
      /\ \A i : [f EXCEPT !.at = pass, !.i = i].at = pass
  BY <1>4, FramesGoOn
<1>6. /\ wait \notin CareLabels /\ pass \notin CareLabels
      /\ Frame("inodes", NULL, NULL, 1).at \notin CareLabels
      /\ \A i : Frame("lock", NULL, i, WRITE).at \notin CareLabels
  BY <1>1 DEF Frame, CareLabels
<1>7. CASE SyncNext(t, pass)
  <2>1. \/ \E i : Goto(t, [f EXCEPT !.at = wait, !.i = i])
        \/ \E g : Call(t, g, Frame("inodes", NULL, NULL, 1))
        \/ Return(t)
    BY <1>7 DEF SyncNext, wait
  <2> HIDE DEF f
  <2>2. Return(t) \/ \E g : (Goto(t, g) \/ \E h : Call(t, h, g)) /\ g.at \notin CareLabels
    BY <1>5, <1>6, <2>1
  <2> QED BY <1>2, <1>3, <1>4, <2>2, QuietStepTo, QuietStepBack
<1>8. CASE SyncBuffer(t, pass)
  <2>1. \/ \E g : Call(t, g, Frame("lock", NULL, f.i, WRITE))
        \/ \E i : Goto(t, [f EXCEPT !.at = pass, !.i = i])
    BY <1>8 DEF SyncBuffer
  <2> HIDE DEF f
  <2>2. \E g : (Goto(t, g) \/ \E h : Call(t, h, g)) /\ g.at \notin CareLabels
    BY <1>5, <1>6, <2>1
  <2> QED BY <1>2, <1>3, <2>2, QuietStepTo
<1> QED BY <1>7, <1>8

LEMMA SyncInodesIsRight ==
  ASSUME IInv, Right, Saved, NEW t \in Tasks, SyncInodes(t) \/ WriteInode(t) \/ UnlockInode(t)
  PROVE  Right' /\ Saved'
<1> DEFINE f == Top(t)
<1>1. UNCHANGED <<cache, newer>> /\ \E label \in {"inodes", "write", "unlock"} : Run(t, label)
  BY DEF SyncInodes, WriteInode, UnlockInode
<1>2. PICK label \in {"inodes", "write", "unlock"} : Run(t, label)
  BY <1>1
<1>3. f \in Frames /\ f.at = label /\ label \notin GetLabels
  BY <1>2, Running DEF GetLabels
<1>4. /\ Frame("write", NULL, NULL, f.i).at \notin CareLabels
      /\ Frame("bread", InodeBlock[f.i], NULL, 0).at \notin CareLabels
  BY DEF Frame, CareLabels
<1>5. Return(t) \/ \E g : (Goto(t, g) \/ \E h : Call(t, h, g)) /\ g.at \notin CareLabels
  <2>1. CASE SyncInodes(t)
    <3>1. f.at = "inodes"
      BY <2>1 DEF SyncInodes, Run, At
    <3>2. [f EXCEPT !.i = f.i + 1].at \notin CareLabels
      <4> DEFINE i == f.i + 1
      <4> HIDE DEF f, i
      <4>1. [f EXCEPT !.i = i].at = "inodes"
        BY <1>3, <3>1 DEF Frames
      <4>2. [f EXCEPT !.i = i].at \notin CareLabels
        BY <4>1 DEF CareLabels
      <4> QED BY <4>2 DEF i
    <3> QED BY <1>4, <2>1, <3>2 DEF SyncInodes
  <2>2. CASE WriteInode(t)
    BY <1>4, <2>2 DEF WriteInode
  <2>3. CASE UnlockInode(t)
    BY <2>3 DEF UnlockInode
  <2> QED BY <2>1, <2>2, <2>3
<1> QED BY <1>1, <1>2, <1>3, <1>5, QuietStepTo, QuietStepBack

(* A buffer that is up to date becomes dirty.                              *)
LEMMA DirtyKeeps ==
  ASSUME IInv, Right, NEW t \in Tasks, NEW b \in Buffers, io' = io,
         NEW g, buf' = [buf EXCEPT ![b] = g], g.blk = buf[b].blk, g.lock = buf[b].lock,
         g.dirt, g.uptodate, buf[b].uptodate \/ (io[b] = -1 /\ ~buf[b].lock)
  PROVE  BuffersKept(t) /\ (newer' \subseteq newer \cup {buf[b].blk} => NewerKept)
<1>1. buf \in [Buffers -> Heads]
  BY HeadOf DEF IInv
<1>2. buf'[b] = g /\ \A c \in Buffers \ {b} : buf'[c] = buf[c]
  BY <1>1
<1>3. FlagsFit'
  BY <1>2 DEF FlagsFit, Right, READ
<1>4. Unsaved(b)' /\ \A c \in Buffers : Unsaved(c) => Unsaved(c)'
  BY <1>2 DEF Unsaved, WriteUnderWay
<1>5. b \in find_buffer(buf[b].blk)'
  BY <1>2 DEF find_buffer
<1> QED BY <1>2, <1>3, <1>4, <1>5 DEF BuffersKept, NewerKept

LEMMA StoreInodeIsRight ==
  ASSUME IInv, Right, Saved, NEW t \in Tasks, StoreInode(t)
  PROVE  Right' /\ Saved'
<1> DEFINE f == Top(t)
           b == f.bh
<1>1. /\ Agree(stack, held, buf) /\ stack[t] # <<>> /\ cpu \in {t, NoTask} /\ f \in Frames
      /\ f.at = "store"
  BY Running DEF StoreInode
<1>2. /\ b # NULL /\ io' = io /\ newer' = newer \cup {buf[b].blk}
      /\ buf' = [buf EXCEPT ![b] = Stored(b)]
      /\ \E g : Call(t, g, Frame("brelse", NULL, b, 0))
  BY DEF StoreInode, Change
<1>3. b \in Buffers /\ buf \in [Buffers -> Heads]
  BY <1>1, <1>2, CacheAssumption, HeadOf DEF Frames, Buffers, NULL
<1>4. buf[b].uptodate
  BY <1>1, <1>2 DEF Right, HasRight, At
<1>5. /\ Stored(b).blk = buf[b].blk /\ Stored(b).lock = buf[b].lock /\ Stored(b).dirt
      /\ Stored(b).uptodate
  <2> DEFINE head == buf[b]
  <2>1. head \in Heads /\ head.uptodate
    BY <1>3, <1>4
  <2> HIDE DEF head
  <2>2. LET g == [head EXCEPT !.dirt = TRUE]
        IN  g.blk = head.blk /\ g.lock = head.lock /\ g.dirt /\ g.uptodate
    BY <2>1 DEF Heads
  <2> QED BY <2>2 DEF Stored, head
<1> HIDE DEF f
<1>6. BuffersKept(t) /\ NewerKept
  <2> HIDE DEF b
  <2> QED BY <1>2, <1>3, <1>4, <1>5, DirtyKeeps
<1>7. Frame("brelse", NULL, b, 0).at \notin CareLabels
  BY DEF Frame, CareLabels
<1> QED BY <1>1, <1>2, <1>6, <1>7, StepTo DEF f

LEMMA NewBlockIsRight ==
  ASSUME IInv, Right, Saved, NEW t \in Tasks, NewBlock(t)
  PROVE  Right' /\ Saved'
<1> DEFINE f == Top(t)
           b == f.bh
           g == [f EXCEPT !.at = "brelse"]
<1>1. CASE /\ Run(t, "new") /\ UNCHANGED <<cache, newer>>
           /\ \E h : Call(t, h, Frame("getblk", f.blk, NULL, 0))
  <2>1. Frame("getblk", f.blk, NULL, 0).at \notin CareLabels
    BY DEF Frame, CareLabels
  <2> QED BY <1>1, <2>1, QuietStepTo
<1>2. CASE /\ Run(t, "clear") /\ Goto(t, g) /\ io' = io /\ newer' = newer \cup {f.blk}
           /\ buf' = [buf EXCEPT ![b] = [buf[b] EXCEPT !.dirt = TRUE, !.uptodate = TRUE]]
  <2>1. /\ Agree(stack, held, buf) /\ stack[t] # <<>> /\ cpu \in {t, NoTask} /\ f \in Frames
        /\ f.at = "clear" /\ TopFits(f) /\ RightIn(buf, f)
    BY <1>2, Running
  <2>2. b \in Buffers /\ buf \in [Buffers -> Heads] /\ buf[b].blk = f.blk
    BY <2>1, HeadOf DEF TopFits, RightIn, NewLabels
  <2>3. ~buf[b].lock /\ io[b] = -1
    BY <2>1, <2>2 DEF Right, HasRight, FlagsFit, At
  <2> DEFINE head == buf[b]
             cleared == [head EXCEPT !.dirt = TRUE, !.uptodate = TRUE]
  <2>4. /\ cleared.blk = head.blk /\ cleared.lock = head.lock /\ cleared.dirt /\ cleared.uptodate
    <3>1. head \in Heads
      BY <2>2
    <3> HIDE DEF head
    <3> QED BY <3>1 DEF Heads
  <2>5. buf' = [buf EXCEPT ![b] = cleared]
    BY <1>2
  <2>6. g.at \notin CareLabels
    BY <2>1, FramesGoOn DEF CareLabels
  <2> HIDE DEF cleared, f, g
  <2>7. BuffersKept(t) /\ NewerKept
    <3> HIDE DEF b
    <3> QED BY <1>2, <2>2, <2>3, <2>4, <2>5, DirtyKeeps
  <2> QED BY <1>2, <2>1, <2>6, <2>7, StepTo DEF f
<1> QED BY <1>1, <1>2 DEF NewBlock, Change

LEMMA CopyIsRight ==
  ASSUME IInv, Right, Saved, NEW t \in Tasks, Copy(t)
  PROVE  Right' /\ Saved'
<1> DEFINE f == Top(t)
           b == f.bh
           g == [f EXCEPT !.at = "brelse"]
<1>1. /\ stack[t] # <<>> /\ cpu \in {t, NoTask} /\ f \in Frames /\ f.at = "copy" /\ FrameFits(f)
  BY Running DEF Copy
<1>2. UNCHANGED cache /\ newer' = newer \cup {buf[b].blk} /\ Goto(t, g)
  BY DEF Copy
<1>3. b \in Buffers /\ buf[b].uptodate /\ (Careful => buf[b].dirt)
  BY <1>1 DEF FrameFits, Right, HasRight, Saved, Marked, At
<1>4. g.at \notin CareLabels
  BY <1>1, FramesGoOn DEF CareLabels
<1>5. buf' = buf /\ io' = io
  BY <1>2 DEF cache
<1> HIDE DEF f, g
<1>6. BuffersKept(t)
  <2>1. FlagsFit' /\ \A c \in Buffers : Unsaved(c) => Unsaved(c)'
    BY <1>5 DEF FlagsFit, Right, Unsaved, WriteUnderWay
  <2> QED BY <1>5, <2>1 DEF BuffersKept
<1>7. NewerKept
  BY <1>2, <1>3, <1>5 DEF NewerKept, find_buffer, Unsaved, WriteUnderWay
<1> QED BY <1>1, <1>2, <1>4, <1>6, <1>7, StepTo DEF f

LEMMA SleepIsRight ==
  ASSUME IInv, Right, Saved, NEW t \in Tasks, Sleep(t)
  PROVE  Right' /\ Saved'
<1>1. /\ cpu = t /\ UNCHANGED <<cache, stack, held, newer>>
      /\ Waits(t) \/ MaySleep(t)
  BY DEF Sleep
<1>2. SameFlags
  BY <1>1 DEF SameFlags, cache
<1>3. buf' = buf /\ io' = io /\ stack' = stack /\ held' = held
  BY <1>1 DEF cache
<1>4. At(t, "copy") => ~Careful
  <2>1. Top(t).at = "copy" => ~Waits(t)
    <3>1. Range(WaitOf) = {"wait1", "wait2", "waitall"}
      <4>1. /\ DOMAIN WaitOf = {"sync1", "sync2", "syncall"} /\ WaitOf["sync1"] = "wait1"
            /\ WaitOf["sync2"] = "wait2" /\ WaitOf["syncall"] = "waitall"
        BY DEF WaitOf
      <4> QED BY <4>1 DEF Range
    <3> QED BY <3>1 DEF Waits
  <2> QED BY <1>1, <2>1 DEF MaySleep, At, Careful
<1>5. HasRight(t)' /\ (Careful => Marked(t)') /\ \A b \in Buffers : Queues(t, b)' => Queues(t, b)
  <2>1. HasRight(t)' /\ \A b \in Buffers : Queues(t, b)' => Queues(t, b)
    BY <1>3 DEF HasRight, Right, Queues, At, Top
  <2>2. Careful => Marked(t)'
    BY <1>3, <1>4 DEF Marked, At, Top
  <2> QED BY <2>1, <2>2
<1>6. OthersStay(t)
  BY <1>3 DEF OthersStay
<1> QED BY <1>1, <1>2, <1>5, <1>6, SameFlagsKeep, StepIsRight

(* A task begins a call, with the stack st of one frame or two.            *)
LEMMA BeginIsRight ==
  ASSUME IInv, Right, Saved, NEW t \in Tasks, cpu = NoTask, UNCHANGED <<cache, newer>>,
         NEW st, stack' = [stack EXCEPT ![t] = st], Last(st).at \notin CareLabels,
         held' = [held EXCEPT ![t] = NULL]
  PROVE  Right' /\ Saved'
<1>1. stack \in [Tasks -> Seq(Frames)] /\ held \in [Tasks -> 0..NR_BUFFERS]
  BY DEF IInv, Agree
<1>2. SameFlags
  BY DEF SameFlags, cache
<1>3. OthersStay(t) /\ held'[t] = NULL /\ Top(t)'.at \notin CareLabels
  BY <1>1 DEF OthersStay, Top
<1> QED BY <1>2, <1>3, SameFlagsKeep, ElsewhereIsRight, StepIsRight

LEMMA LastOfOne ==
  ASSUME NEW f, NEW g
  PROVE  Last(<<f>>) = f /\ Last(<<f, g>>) = g
<1>1. Len(<<f, g>>) = 2 /\ <<f, g>>[2] = g
  OBVIOUS
<1>2. Len(<<f>>) = 1 /\ <<f>>[1] = f
  OBVIOUS
<1> QED BY <1>1, <1>2, Zenon DEF Last

LEMMA RequestIsRight ==
  ASSUME IInv, Right, Saved, NEW t \in Tasks, Request(t) \/ Release(t)
  PROVE  Right' /\ Saved'
<1>1. cpu = NoTask /\ UNCHANGED <<cache, newer>> /\ held \in [Tasks -> 0..NR_BUFFERS]
  BY DEF Request, Release, Begin, IInv, Agree
<1>2. held' = [held EXCEPT ![t] = NULL]
  BY <1>1 DEF Request, Release, Begin
<1>3. \A label, blk, b, i : label \notin CareLabels => Frame(label, blk, b, i).at \notin CareLabels
  BY DEF Frame
<1>4. \E st : stack' = [stack EXCEPT ![t] = st] /\ Last(st).at \notin CareLabels
  <2>1. /\ "bread" \notin CareLabels /\ "breada" \notin CareLabels /\ "new" \notin CareLabels
        /\ "write" \notin CareLabels /\ "inodes" \notin CareLabels /\ "brelse" \notin CareLabels
    BY DEF CareLabels
  <2>2. \/ \E label \in {"bread", "breada", "new", "write", "brelse"} : \E blk, b, i :
             stack' = [stack EXCEPT ![t] = <<Frame(label, blk, b, i)>>]
        \/ stack' = [stack EXCEPT ![t] = <<Frame("syncall", NULL, NULL, 1),
                                           Frame("inodes", NULL, NULL, 1)>>]
    BY DEF Request, Release, Begin
  <2>3. CASE \E label \in {"bread", "breada", "new", "write", "brelse"} : \E blk, b, i :
               stack' = [stack EXCEPT ![t] = <<Frame(label, blk, b, i)>>]
    <3>1. PICK label \in {"bread", "breada", "new", "write", "brelse"} : \E blk, b, i :
             stack' = [stack EXCEPT ![t] = <<Frame(label, blk, b, i)>>]
      BY <2>3
    <3>2. PICK blk, b, i : stack' = [stack EXCEPT ![t] = <<Frame(label, blk, b, i)>>]
      BY <3>1
    <3>3. Last(<<Frame(label, blk, b, i)>>).at \notin CareLabels
      <4>1. Last(<<Frame(label, blk, b, i)>>) = Frame(label, blk, b, i)
        BY LastOfOne
      <4> QED BY <1>3, <2>1, <4>1
    <3> QED BY <3>2, <3>3
  <2>4. CASE stack' = [stack EXCEPT ![t] = <<Frame("syncall", NULL, NULL, 1),
                                             Frame("inodes", NULL, NULL, 1)>>]
    <3>1. Last(<<Frame("syncall", NULL, NULL, 1), Frame("inodes", NULL, NULL, 1)>>).at
             \notin CareLabels
      <4>1. Last(<<Frame("syncall", NULL, NULL, 1), Frame("inodes", NULL, NULL, 1)>>)
              = Frame("inodes", NULL, NULL, 1)
        BY LastOfOne
      <4> QED BY <1>3, <2>1, <4>1
    <3> QED BY <2>4, <3>1
  <2> QED BY <2>2, <2>3, <2>4
<1> QED BY <1>1, <1>2, <1>4, BeginIsRight

LEMMA WriteIsRight ==
  ASSUME IInv, Right, Saved, NEW t \in Tasks, Write(t)
  PROVE  Right' /\ Saved'
<1>1. PICK b : b = held[t]
  OBVIOUS
<1>2. /\ b # NULL /\ cpu = NoTask /\ UNCHANGED <<io, newer>> /\ cpu' = t
      /\ stack' = [stack EXCEPT ![t] = <<Frame("copy", NULL, b, 0)>>]
      /\ held' = [held EXCEPT ![t] = NULL]
      /\ \/ buf' = [buf EXCEPT ![b] = [buf[b] EXCEPT !.dirt = TRUE]]
         \/ buf' = buf /\ ~Careful
  BY <1>1 DEF Write, Change, Careful
<1>3. /\ b \in Buffers /\ buf[b].uptodate /\ buf \in [Buffers -> Heads] /\ buf[b] \in Heads
      /\ stack \in [Tasks -> Seq(Frames)] /\ held \in [Tasks -> 0..NR_BUFFERS]
  BY <1>1, <1>2, HeldIsCounted DEF IInv, Agree, Right, HasRight
<1>4. /\ OthersStay(t) /\ held'[t] = NULL /\ Top(t)' = Frame("copy", NULL, b, 0)
      /\ Top(t)'.at = "copy" /\ Top(t)'.bh = b
  <2> DEFINE f == Frame("copy", NULL, b, 0)
  <2>1. Last(<<f>>) = f
    BY LastOfOne
  <2>2. f.at = "copy" /\ f.bh = b
    BY DEF Frame
  <2> HIDE DEF f
  <2>3. stack' = [stack EXCEPT ![t] = <<f>>]
    BY <1>2 DEF f
  <2>4. Top(t)' = f /\ held'[t] = NULL
    BY <1>2, <1>3, <2>1, <2>3 DEF Top
  <2>5. OthersStay(t)
    BY <1>2, <1>3, <2>3 DEF OthersStay
  <2> QED BY <2>2, <2>4, <2>5 DEF f
<1>5. BuffersKept(t) /\ NewerKept /\ buf'[b].uptodate /\ (Careful => buf'[b].dirt)
  <2>1. CASE buf' = buf /\ ~Careful
    BY <1>2, <1>3, <2>1, SameFlagsKeep DEF SameFlags
  <2>2. CASE buf' = [buf EXCEPT ![b] = [buf[b] EXCEPT !.dirt = TRUE]]
    <3> DEFINE head == buf[b]
               g == [head EXCEPT !.dirt = TRUE]
    <3>1. g.blk = head.blk /\ g.lock = head.lock /\ g.dirt /\ g.uptodate
      <4>1. head \in Heads /\ head.uptodate
        BY <1>3
      <4> HIDE DEF head
      <4> QED BY <4>1 DEF Heads
    <3>2. buf' = [buf EXCEPT ![b] = g]
      BY <2>2
    <3> HIDE DEF g
    <3>3. BuffersKept(t) /\ NewerKept
      BY <1>2, <1>3, <3>1, <3>2, DirtyKeeps
    <3>4. buf'[b] = g
      BY <1>3, <3>2
    <3> QED BY <3>1, <3>3, <3>4
  <2> QED BY <1>2, <2>1, <2>2
<1>6. HasRight(t)' /\ (Careful => Marked(t)') /\ \A c \in Buffers : ~Queues(t, c)'
  BY <1>2, <1>4, <1>5 DEF HasRight, Marked, Queues, At
<1> QED BY <1>2, <1>4, <1>5, <1>6, StepIsRight

-----------------------------------------------------------------------------
LEMMA RightFromTheStart == Init => Right /\ Saved
<1> SUFFICES ASSUME Init PROVE Right /\ Saved
  OBVIOUS
<1>1. FlagsFit
  BY DEF Init, FlagsFit, READ
<1>2. \A t \in Tasks : HasRight(t) /\ Marked(t) /\ \A b \in Buffers : ~Queues(t, b)
  BY DEF Init, HasRight, Marked, Queues, At
<1>3. newer = {}
  BY DEF Init
<1> QED BY <1>1, <1>2, <1>3 DEF Right, Saved

LEMMA NextIsRight ==
  WRITE \notin Failures /\ IInv /\ Right /\ Saved /\ [Next]_vars => Right' /\ Saved'
<1> SUFFICES ASSUME WRITE \notin Failures, IInv, Right, Saved, [Next]_vars
             PROVE  Right' /\ Saved'
  OBVIOUS
<1>1. ASSUME NEW t \in Tasks, Continue(t) PROVE Right' /\ Saved'
  <2>1. CASE Getblk(t)
    BY <2>1, GetblkIsRight
  <2>2. CASE Hash(t)
    BY <2>2, HashIsRight
  <2>3. CASE Victim(t)
    BY <2>3, VictimIsRight
  <2>4. CASE Brelse(t)
    BY <2>4, BrelseIsRight
  <2>5. CASE LockBuffer(t)
    BY <2>5, LockBufferIsRight
  <2>6. CASE AddRequest(t)
    BY <2>6, AddRequestIsRight
  <2>7. CASE Bread(t) \/ Have(t) \/ Filled(t)
    BY <2>7, BreadIsRight
  <2>8. CASE Breada(t)
    BY <2>8, BreadaIsRight
  <2>9. CASE Drop(t)
    BY <2>9, DropIsRight
  <2>10. ASSUME NEW pass \in DOMAIN WaitOf, SyncNext(t, pass) \/ SyncBuffer(t, pass)
         PROVE  Right' /\ Saved'
    BY <2>10, SyncIsRight
  <2>11. CASE SyncInodes(t) \/ WriteInode(t) \/ UnlockInode(t)
    BY <2>11, SyncInodesIsRight
  <2>12. CASE StoreInode(t)
    BY <2>12, StoreInodeIsRight
  <2>13. CASE NewBlock(t)
    BY <2>13, NewBlockIsRight
  <2>14. CASE Copy(t)
    BY <2>14, CopyIsRight
  <2> QED BY <1>1, <2>1, <2>2, <2>3, <2>4, <2>5, <2>6, <2>7, <2>8, <2>9, <2>10, <2>11, <2>12,
             <2>13, <2>14 DEF Continue
<1>2. ASSUME NEW t \in Tasks, Sleep(t) PROVE Right' /\ Saved'
  BY <1>2, SleepIsRight
<1>3. ASSUME NEW t \in Tasks, Request(t) \/ Release(t) PROVE Right' /\ Saved'
  BY <1>3, RequestIsRight
<1>4. ASSUME NEW t \in Tasks, Write(t) PROVE Right' /\ Saved'
  BY <1>4, WriteIsRight
<1>5. ASSUME NEW b \in Buffers, NEW ok \in BOOLEAN, EndRequest(b, ok) PROVE Right' /\ Saved'
  BY <1>5, EndRequestIsRight
<1>6. ASSUME UNCHANGED <<buf, io, stack, held, cpu, newer>> PROVE Right' /\ Saved'
  <2>1. FlagsFit' /\ \A t \in Tasks : HasRight(t)'
    BY <1>6 DEF Right, FlagsFit, HasRight, At, Top
  <2>2. \A t, u \in Tasks, b \in Buffers : Queues(t, b)' /\ Queues(u, b)' => t = u
    BY <1>6 DEF Right, Queues, At, Top
  <2>3. Saved'
    BY <1>6 DEF Saved, Careful, Marked, At, Top, find_buffer, Unsaved, WriteUnderWay
  <2> QED BY <2>1, <2>2, <2>3 DEF Right
<1>7. ASSUME NEW i \in Inodes, ChangeInode(i) PROVE Right' /\ Saved'
  BY <1>6, <1>7 DEF ChangeInode, cache
<1>8. CASE UNCHANGED vars
  BY <1>6, <1>8 DEF vars, cache
<1> QED BY <1>1, <1>2, <1>3, <1>4, <1>5, <1>7, <1>8 DEF Next

(* If no write of a device fails, who is given a buffer has the right      *)
(* block in it, read and not being changed by the device.                  *)
THEOREM RightBlockAlways == WRITE \notin Failures => (Spec => []RightBlock)
<1> SUFFICES ASSUME WRITE \notin Failures PROVE Spec => []RightBlock
  OBVIOUS
<1>1. Init => IInv /\ Right /\ Saved
  BY InitHolds, RightFromTheStart
<1>2. (IInv /\ Right /\ Saved) /\ [Next]_vars => (IInv /\ Right /\ Saved)'
  BY StepKeeps, NextIsRight
<1>3. IInv /\ Right => RightBlock
  <2> SUFFICES ASSUME IInv, Right, NEW t \in Tasks
               PROVE  /\ At(t, "have") => buf[Top(t).bh].blk = Top(t).blk /\ ~buf[Top(t).bh].lock
                      /\ At(t, "filled") => buf[Top(t).bh].blk = Top(t).blk
                      /\ held[t] # NULL => buf[held[t]].uptodate
    BY DEF RightBlock
  <2>1. stack[t] # <<>> => FrameFits(Top(t)) /\ TopFits(Top(t)) /\ RightIn(buf, Top(t))
    BY TopIs DEF IInv
  <2> QED BY <2>1 DEF Right, HasRight, At, FrameFits, TopFits, RightIn, NewLabels
<1> QED BY <1>1, <1>2, <1>3, PTL DEF Spec

(* ... and no change of data in memory is lost, where file_write's copy    *)
(* does not sleep and block_write is not used.                             *)
THEOREM NoLostWriteAlways ==
  WRITE \notin Failures /\ ~CopySleeps /\ "block_write" \notin Ops => (Spec => []NoLostWrite)
<1> SUFFICES ASSUME WRITE \notin Failures, ~CopySleeps, "block_write" \notin Ops
             PROVE  Spec => []NoLostWrite
  OBVIOUS
<1>1. Init => IInv /\ Right /\ Saved
  BY InitHolds, RightFromTheStart
<1>2. (IInv /\ Right /\ Saved) /\ [Next]_vars => (IInv /\ Right /\ Saved)'
  BY StepKeeps, NextIsRight
<1>3. Right /\ Saved => NoLostWrite
  <2> SUFFICES ASSUME Right, Saved, NEW blk \in newer
               PROVE  \E b \in find_buffer(blk) : WriteUnderWay(b) /\ io[b] # READ
    BY DEF NoLostWrite
  <2>1. PICK b \in find_buffer(blk) : Unsaved(b)
    BY DEF Saved, Careful
  <2>2. io[b] # READ
    BY <2>1 DEF Unsaved, Right, FlagsFit, find_buffer
  <2> QED BY <2>1, <2>2 DEF Unsaved
<1> QED BY <1>1, <1>2, <1>3, PTL DEF Spec
=============================================================================
