--------------------------- MODULE InodeCache_proofs ---------------------------
(***************************************************************************)
(* The inodes in memory, for any users, slots and numbers, and below them  *)
(* the blocks of files, for any tasks, files and zones.                    *)
(*                                                                         *)
(* Whoever has an inode over a sleep relies on its count: a slot is given  *)
(* another number only if nobody counts it.  So the first part says what   *)
(* each call has (FitsIn), that a slot on its way to a number is its       *)
(* caller's alone (Emptied), and that the counts are exact.                *)
(*                                                                         *)
(* The second part is about locks, flags and data: a slot that nobody      *)
(* uses is clean and not locked, and a slot that is read has one user.     *)
(*                                                                         *)
(* The last part is about free_inode's panic: an inode that is truncated   *)
(* has one user, since nobody else finds its number by a name any more.    *)
(***************************************************************************)
EXTENDS InodeCache, FileBlocks, WellFoundedInduction, FiniteSetTheorems, TLAPS

Ops == {"none", "iget", "new", "iput", "sync"}
Places == {"user", "empty", "free", "write", "writing", "new", "scan", "found", "read",
           "reading", "put", "truncate", "sync", "next"}
Inodes_ == [num : Numbers \cup {0}, count : Int, lock : BOOLEAN, dirt : BOOLEAN, data : Int]
Calls_ == [op : Ops, at : Places, slot : 0..NR_INODE, num : Numbers \cup {0},
           empty : 0..NR_INODE]
Holds_ == [slot : 0..NR_INODE, num : Numbers \cup {0}]

Types ==
  /\ inode \in [Slots_ -> Inodes_]
  /\ stored \in [Numbers -> Int] /\ latest \in [Numbers -> Int]
  /\ linked \subseteq Numbers /\ imap \subseteq Numbers
  /\ does \in [InodeUsers -> Calls_] /\ holds \in [InodeUsers -> Holds_]

(* What a user has in a call c, where he holds h and names have links.     *)
FitsIn(c, h, names) ==
  /\ c.op = "none" => c.at = "user"
  /\ c.op \in {"iget", "new"} => c.at \in {"empty", "free", "write", "writing"}
                                   \/ (c.op = "new" /\ c.at = "new")
                                   \/ (c.op = "iget" /\ c.at \in {"scan", "found", "read", "reading"})
  /\ c.op = "iput" => c.at \in {"put", "write", "writing", "truncate"} /\ h.slot = c.slot
  /\ c.op = "sync" => c.at \in {"sync", "next", "write", "writing"}
  /\ c.empty # 0 <=> c.at \in {"new", "scan", "found"}
  /\ c.slot = 0 => c.at \in {"user", "empty", "new", "scan"}
  /\ c.op \in {"iget", "new"} =>
       IF c.at \in {"read", "reading"} THEN h.slot = c.slot /\ h.num = c.num
                                       ELSE h.slot = 0 /\ h.num = 0
  /\ c.op = "iget" => c.num \in names
  /\ c.at = "truncate" => h.num \notin names
  /\ h.slot = 0 <=> h.num = 0
Fitting == \A u \in InodeUsers : FitsIn(does[u], holds[u], linked)

HoldersIn(h, s) == {u \in InodeUsers : h[u].slot = s}
EmptiesIn(d, s) == {u \in InodeUsers : d[u].empty = s}
CountsExact == \A s \in Slots_ : inode[s].count = Cardinality(HoldersIn(holds, s))
                                                + Cardinality(EmptiesIn(does, s))
Emptied == \A u \in InodeUsers :
             does[u].empty # 0 => inode[does[u].empty].num = 0 /\ inode[does[u].empty].count = 1
Alone == \A s, r \in Slots_ : inode[s].num = inode[r].num /\ inode[s].num # 0 => s = r
HeldRight == \A u \in InodeUsers : holds[u].slot # 0 => inode[holds[u].slot].num = holds[u].num
Mapped == /\ linked \subseteq imap
          /\ \A s \in Slots_ : inode[s].num # 0 => inode[s].num \in imap

IInv == /\ Types /\ Fitting /\ CountsExact /\ Emptied /\ Alone /\ HeldRight /\ Mapped
        /\ "race" \notin uses

-----------------------------------------------------------------------------
(* Numbers have a least one: the intervals below them are ordered as sets. *)
LEMMA Smallest ==
  ASSUME NEW T, T \subseteq Nat, T # {}
  PROVE  \E x \in T : \A y \in T : x <= y
<1> DEFINE Below == {0..x : x \in T}
           R == StrictSubsetOrdering(Nat)
<1>1. Below \subseteq FiniteSubsetsOf(Nat)
  <2> SUFFICES ASSUME NEW x \in T PROVE 0..x \in FiniteSubsetsOf(Nat)
    OBVIOUS
  <2>1. 0 \in Int /\ x \in Int /\ 0..x \subseteq Nat
    OBVIOUS
  <2>2. IsFiniteSet(0..x)
    BY <2>1, FS_Interval
  <2> QED BY <2>1, <2>2 DEF FiniteSubsetsOf
<1>2. IsWellFoundedOn(R, FiniteSubsetsOf(Nat))
  BY FS_StrictSubsetOrderingWellFounded
<1>3. PICK B \in Below : \A C \in Below : <<C, B>> \notin R
  <2> HIDE DEF R, Below
  <2>1. Below # {}
    BY DEF Below
  <2> QED BY <1>1, <1>2, <2>1, WFMin
<1>4. PICK x \in T : B = 0..x
  BY <1>3
<1>5. \A y \in T : ~ (y < x)
  <2> SUFFICES ASSUME NEW y \in T, y < x PROVE FALSE
    OBVIOUS
  <2>1. 0..y \subseteq 0..x /\ x \in 0..x /\ x \notin 0..y
    OBVIOUS
  <2>2. <<0..y, B>> \in R
    BY <2>1, <1>4 DEF StrictSubsetOrdering
  <2>3. 0..y \in Below
    OBVIOUS
  <2> QED BY <2>2, <2>3, <1>3
<1> QED BY <1>5

LEMMA LeastIsMember ==
  ASSUME NEW T, T \subseteq Nat, T # {}
  PROVE  Min(T) \in T
<1>1. \E x \in T : \A y \in T : x <= y
  BY Smallest
<1> QED BY <1>1 DEF Min

-----------------------------------------------------------------------------
(* Counting members.                                                       *)

LEMMA UsersFinite ==
  ASSUME NEW S \in SUBSET InodeUsers
  PROVE  IsFiniteSet(S) /\ Cardinality(S) \in Nat
BY InodeAssumption, FS_Subset, FS_CardinalityType

(* A set and the one that it becomes when at most u goes or comes.         *)
LEMMA OneMember ==
  ASSUME NEW S \in SUBSET InodeUsers, NEW T \in SUBSET InodeUsers, NEW u \in InodeUsers,
         \A v \in InodeUsers : v # u => (v \in S <=> v \in T)
  PROVE  /\ Cardinality(S) \in Nat /\ Cardinality(T) \in Nat
         /\ (u \in S <=> u \in T) => Cardinality(T) = Cardinality(S)
         /\ u \notin S /\ u \in T => Cardinality(T) = Cardinality(S) + 1
         /\ u \in S /\ u \notin T => Cardinality(T) = Cardinality(S) - 1
<1>1. IsFiniteSet(S) /\ Cardinality(S) \in Nat /\ IsFiniteSet(T) /\ Cardinality(T) \in Nat
  BY UsersFinite
<1>2. ASSUME u \in S <=> u \in T PROVE Cardinality(T) = Cardinality(S)
  <2>1. S = T
    BY <1>2
  <2> QED BY <2>1
<1>3. ASSUME u \notin S, u \in T PROVE Cardinality(T) = Cardinality(S) + 1
  <2>1. T = S \cup {u}
    BY <1>3
  <2> QED BY <1>1, <1>3, <2>1, FS_AddElement
<1>4. ASSUME u \in S, u \notin T PROVE Cardinality(T) = Cardinality(S) - 1
  <2>1. T = S \ {u}
    BY <1>4
  <2> QED BY <1>1, <1>4, <2>1, FS_RemoveElement
<1> QED BY <1>1, <1>2, <1>3, <1>4

LEMMA SomeMember ==
  ASSUME NEW S \in SUBSET InodeUsers, NEW u \in S
  PROVE  Cardinality(S) >= 1
<1>1. Cardinality(S) # 0
  BY UsersFinite, FS_EmptySet
<1> QED BY <1>1, UsersFinite

LEMMA TwoMembers ==
  ASSUME NEW S \in SUBSET InodeUsers, NEW u \in S, NEW v \in S, u # v
  PROVE  Cardinality(S) >= 2
<1> DEFINE T == S \ {u}
<1>1. Cardinality(T) = Cardinality(S) - 1 /\ Cardinality(S) \in Nat
  BY UsersFinite, FS_RemoveElement
<1>2. T \in SUBSET InodeUsers /\ v \in T
  OBVIOUS
<1> HIDE DEF T
<1>3. Cardinality(T) >= 1
  BY <1>2, SomeMember
<1>4. Cardinality(T) \in Nat
  BY <1>2, UsersFinite
<1> QED BY <1>1, <1>3, <1>4

(* A slot whose count is 0 is nobody's.                                    *)
LEMMA Nobodys ==
  ASSUME CountsExact, NEW s \in Slots_, inode[s].count = 0
  PROVE  \A v \in InodeUsers : holds[v].slot # s /\ does[v].empty # s
<1> SUFFICES ASSUME NEW v \in InodeUsers, holds[v].slot = s \/ does[v].empty = s
             PROVE  FALSE
  OBVIOUS
<1> DEFINE H == HoldersIn(holds, s)
           E == EmptiesIn(does, s)
<1>1. H \in SUBSET InodeUsers /\ E \in SUBSET InodeUsers /\ (v \in H \/ v \in E)
  BY DEF HoldersIn, EmptiesIn
<1>2. 0 = Cardinality(H) + Cardinality(E)
  BY DEF CountsExact
<1> HIDE DEF H, E
<1>3. Cardinality(H) \in Nat /\ Cardinality(E) \in Nat
  BY <1>1, UsersFinite
<1>4. Cardinality(H) >= 1 \/ Cardinality(E) >= 1
  BY <1>1, SomeMember
<1> QED BY <1>2, <1>3, <1>4

(* A slot whose count is 1 is the only one's who has it.                   *)
LEMMA OnlyHolders ==
  ASSUME CountsExact, NEW s \in Slots_, inode[s].count = 1,
         NEW u \in InodeUsers, holds[u].slot = s
  PROVE  \A v \in InodeUsers : does[v].empty # s /\ (v # u => holds[v].slot # s)
<1> SUFFICES ASSUME NEW v \in InodeUsers, does[v].empty = s \/ (v # u /\ holds[v].slot = s)
             PROVE  FALSE
  OBVIOUS
<1> DEFINE H == HoldersIn(holds, s)
           E == EmptiesIn(does, s)
<1>1. H \in SUBSET InodeUsers /\ E \in SUBSET InodeUsers /\ u \in H
      /\ (v \in E \/ (v # u /\ v \in H))
  BY DEF HoldersIn, EmptiesIn
<1>2. 1 = Cardinality(H) + Cardinality(E)
  BY DEF CountsExact
<1> HIDE DEF H, E
<1>3. Cardinality(H) \in Nat /\ Cardinality(E) \in Nat
  BY <1>1, UsersFinite
<1>4. Cardinality(H) >= 1
  BY <1>1, SomeMember
<1>5. CASE v \in E
  <2>1. Cardinality(E) >= 1
    BY <1>1, <1>5, SomeMember
  <2> QED BY <1>2, <1>3, <1>4, <2>1
<1>6. CASE v # u /\ v \in H
  <2>1. Cardinality(H) >= 2
    BY <1>1, <1>6, TwoMembers
  <2> QED BY <1>2, <1>3, <2>1
<1> QED BY <1>1, <1>5, <1>6

LEMMA OnlyEmpties ==
  ASSUME CountsExact, NEW s \in Slots_, inode[s].count = 1,
         NEW u \in InodeUsers, does[u].empty = s
  PROVE  \A v \in InodeUsers : holds[v].slot # s /\ (v # u => does[v].empty # s)
<1> SUFFICES ASSUME NEW v \in InodeUsers, holds[v].slot = s \/ (v # u /\ does[v].empty = s)
             PROVE  FALSE
  OBVIOUS
<1> DEFINE H == HoldersIn(holds, s)
           E == EmptiesIn(does, s)
<1>1. H \in SUBSET InodeUsers /\ E \in SUBSET InodeUsers /\ u \in E
      /\ (v \in H \/ (v # u /\ v \in E))
  BY DEF HoldersIn, EmptiesIn
<1>2. 1 = Cardinality(H) + Cardinality(E)
  BY DEF CountsExact
<1> HIDE DEF H, E
<1>3. Cardinality(H) \in Nat /\ Cardinality(E) \in Nat
  BY <1>1, UsersFinite
<1>4. Cardinality(E) >= 1
  BY <1>1, SomeMember
<1>5. CASE v \in H
  <2>1. Cardinality(H) >= 1
    BY <1>1, <1>5, SomeMember
  <2> QED BY <1>2, <1>3, <1>4, <2>1
<1>6. CASE v # u /\ v \in E
  <2>1. Cardinality(E) >= 2
    BY <1>1, <1>6, TwoMembers
  <2> QED BY <1>2, <1>3, <2>1
<1> QED BY <1>1, <1>5, <1>6

(* What a step of u does to the counts, if it changes only his own call    *)
(* and what he holds himself.                                              *)
Gain(x, y, s) == IF x = s THEN (IF y = s THEN 0 ELSE -1) ELSE (IF y = s THEN 1 ELSE 0)
LEMMA HoldersRecounted ==
  ASSUME NEW s, NEW u \in InodeUsers, NEW h, NEW i, \A v \in InodeUsers : v # u => i[v] = h[v]
  PROVE  /\ Cardinality(HoldersIn(h, s)) \in Nat
         /\ Cardinality(HoldersIn(i, s)) = Cardinality(HoldersIn(h, s)) + Gain(h[u].slot, i[u].slot, s)
<1> DEFINE H == HoldersIn(h, s)
           I == HoldersIn(i, s)
<1>1. /\ H \in SUBSET InodeUsers /\ I \in SUBSET InodeUsers
      /\ \A v \in InodeUsers : v # u => (v \in H <=> v \in I)
      /\ u \in H <=> h[u].slot = s
      /\ u \in I <=> i[u].slot = s
  BY DEF HoldersIn
<1> HIDE DEF H, I
<1>2. /\ Cardinality(H) \in Nat /\ Cardinality(I) \in Nat
      /\ (u \in H <=> u \in I) => Cardinality(I) = Cardinality(H)
      /\ u \notin H /\ u \in I => Cardinality(I) = Cardinality(H) + 1
      /\ u \in H /\ u \notin I => Cardinality(I) = Cardinality(H) - 1
  BY <1>1, OneMember
<1>3. Cardinality(I) = Cardinality(H) + Gain(h[u].slot, i[u].slot, s)
  BY <1>1, <1>2 DEF Gain
<1> QED BY <1>2, <1>3 DEF H, I

LEMMA EmptiesRecounted ==
  ASSUME NEW s, NEW u \in InodeUsers, NEW d, NEW e, \A v \in InodeUsers : v # u => e[v] = d[v]
  PROVE  /\ Cardinality(EmptiesIn(d, s)) \in Nat
         /\ Cardinality(EmptiesIn(e, s)) = Cardinality(EmptiesIn(d, s)) + Gain(d[u].empty, e[u].empty, s)
<1> DEFINE D == EmptiesIn(d, s)
           E == EmptiesIn(e, s)
<1>1. /\ D \in SUBSET InodeUsers /\ E \in SUBSET InodeUsers
      /\ \A v \in InodeUsers : v # u => (v \in D <=> v \in E)
      /\ u \in D <=> d[u].empty = s
      /\ u \in E <=> e[u].empty = s
  BY DEF EmptiesIn
<1> HIDE DEF D, E
<1>2. /\ Cardinality(D) \in Nat /\ Cardinality(E) \in Nat
      /\ (u \in D <=> u \in E) => Cardinality(E) = Cardinality(D)
      /\ u \notin D /\ u \in E => Cardinality(E) = Cardinality(D) + 1
      /\ u \in D /\ u \notin E => Cardinality(E) = Cardinality(D) - 1
  BY <1>1, OneMember
<1>3. Cardinality(E) = Cardinality(D) + Gain(d[u].empty, e[u].empty, s)
  BY <1>1, <1>2 DEF Gain
<1> QED BY <1>2, <1>3 DEF D, E

-----------------------------------------------------------------------------
(* Steps that leave the numbers and the counts as they are.                *)

Quiet(u) ==
  /\ Types'
  /\ \A s \in Slots_ : inode'[s].num = inode[s].num /\ inode'[s].count = inode[s].count
  /\ holds' = holds /\ imap' = imap /\ linked' \subseteq linked /\ uses' = uses
  /\ \A v \in InodeUsers : v # u => does'[v] = does[v]
  /\ \A v \in InodeUsers : v # u /\ does[v].op = "iget" => does[v].num \in linked'
  /\ does'[u].empty = does[u].empty
  /\ FitsIn(does'[u], holds[u], linked')

LEMMA FitsOn ==
  ASSUME NEW c, NEW h, NEW names, FitsIn(c, h, names), NEW other,
         c.op = "iget" => c.num \in other,
         c.at = "truncate" => h.num \notin other
  PROVE  FitsIn(c, h, other)
BY DEF FitsIn

LEMMA QuietKeeps ==
  ASSUME IInv, NEW u \in InodeUsers, Quiet(u)
  PROVE  IInv'
<1> USE DEF IInv
<1>1. /\ \A s \in Slots_ : inode'[s].num = inode[s].num /\ inode'[s].count = inode[s].count
      /\ holds' = holds /\ imap' = imap /\ linked' \subseteq linked /\ uses' = uses
      /\ \A v \in InodeUsers : does'[v].empty = does[v].empty
  BY DEF Quiet
<1>2. \A v \in InodeUsers : holds[v].slot \in 0..NR_INODE /\ does[v].empty \in 0..NR_INODE
  BY DEF Types, Calls_, Holds_
<1>3. 0..NR_INODE = {0} \cup Slots_
  BY InodeAssumption DEF Slots_
<1>4. Fitting'
  <2> SUFFICES ASSUME NEW v \in InodeUsers PROVE FitsIn(does'[v], holds'[v], linked')
    BY DEF Fitting
  <2>1. CASE v = u
    BY <2>1 DEF Quiet
  <2>2. CASE v # u
    <3>1. FitsIn(does[v], holds[v], linked)
      BY DEF Fitting
    <3>2. does[v].at = "truncate" => holds[v].num \notin linked'
      BY <3>1, <1>1 DEF FitsIn
    <3>3. does[v].op = "iget" => does[v].num \in linked'
      BY <2>2 DEF Quiet
    <3>4. FitsIn(does[v], holds[v], linked')
      BY <3>1, <3>2, <3>3, FitsOn
    <3> QED BY <3>4, <2>2, <1>1 DEF Quiet
  <2> QED BY <2>1, <2>2
<1>5. CountsExact'
  <2>1. \A s : EmptiesIn(does', s) = EmptiesIn(does, s)
    BY <1>1 DEF EmptiesIn
  <2> QED BY <1>1, <2>1 DEF CountsExact
<1>6. Emptied'
  BY <1>1, <1>2, <1>3 DEF Emptied
<1>7. Alone'
  BY <1>1 DEF Alone
<1>8. HeldRight'
  BY <1>1, <1>2, <1>3 DEF HeldRight
<1>9. Mapped'
  BY <1>1 DEF Mapped
<1> QED BY <1>1, <1>4, <1>5, <1>6, <1>7, <1>8, <1>9 DEF Quiet

(* A call goes on, and the inodes stay.                                    *)
LEMMA Goes ==
  ASSUME Types, NEW u \in InodeUsers, NEW c \in Calls_, does' = [does EXCEPT ![u] = c]
  PROVE  /\ does' \in [InodeUsers -> Calls_] /\ does'[u] = c
         /\ \A v \in InodeUsers : v # u => does'[v] = does[v]
BY DEF Types

LEMMA StaysQuiet ==
  ASSUME IInv, NEW u \in InodeUsers, NEW c \in Calls_, does' = [does EXCEPT ![u] = c],
         UNCHANGED <<inode, diskVars, holds>>, c.empty = does[u].empty,
         FitsIn(c, holds[u], linked)
  PROVE  Quiet(u)
<1>1. /\ does' \in [InodeUsers -> Calls_] /\ does'[u] = c
      /\ \A v \in InodeUsers : v # u => does'[v] = does[v]
  BY Goes DEF IInv
<1>2. Types'
  BY <1>1 DEF IInv, Types, diskVars
<1>3. \A v \in InodeUsers : does[v].op = "iget" => does[v].num \in linked
  BY DEF IInv, Fitting, FitsIn
<1> QED BY <1>1, <1>2, <1>3 DEF Quiet, diskVars

(* A call goes on, and no number or count changes.                         *)
LEMMA SlotQuiet ==
  ASSUME IInv, NEW u \in InodeUsers, NEW c \in Calls_, does' = [does EXCEPT ![u] = c],
         inode' \in [Slots_ -> Inodes_],
         \A t \in Slots_ : inode'[t].num = inode[t].num /\ inode'[t].count = inode[t].count,
         holds' = holds, imap' = imap, uses' = uses, linked' \subseteq linked,
         stored' \in [Numbers -> Int], latest' \in [Numbers -> Int],
         \A v \in InodeUsers : v # u /\ does[v].op = "iget" => does[v].num \in linked',
         c.empty = does[u].empty, FitsIn(c, holds[u], linked')
  PROVE  Quiet(u)
<1>1. /\ does' \in [InodeUsers -> Calls_] /\ does'[u] = c
      /\ \A v \in InodeUsers : v # u => does'[v] = does[v]
  BY Goes DEF IInv
<1>2. Types'
  BY <1>1 DEF IInv, Types
<1> QED BY <1>1, <1>2 DEF Quiet

-----------------------------------------------------------------------------
(* The steps, one after the other.                                         *)

(* What is known of a call under way.                                      *)
LEMMA CallType ==
  ASSUME IInv, NEW u \in InodeUsers
  PROVE  /\ does[u] \in Calls_ /\ holds[u] \in Holds_
         /\ FitsIn(does[u], holds[u], linked)
         /\ does[u].slot # 0 => does[u].slot \in Slots_ /\ Mine(u) \in Inodes_
         /\ does[u].empty # 0 => does[u].empty \in Slots_ /\ inode[does[u].empty] \in Inodes_
         /\ holds[u].slot # 0 => holds[u].slot \in Slots_ /\ inode[holds[u].slot] \in Inodes_
<1>1. does[u] \in Calls_ /\ holds[u] \in Holds_ /\ FitsIn(does[u], holds[u], linked)
  BY DEF IInv, Types, Fitting
<1>2. does[u].slot \in 0..NR_INODE /\ does[u].empty \in 0..NR_INODE /\ holds[u].slot \in 0..NR_INODE
  BY <1>1 DEF Calls_, Holds_
<1>3. \A s \in 0..NR_INODE : s # 0 => s \in Slots_
  BY InodeAssumption DEF Slots_
<1>4. \A s \in Slots_ : inode[s] \in Inodes_
  BY DEF IInv, Types
<1> QED BY <1>1, <1>2, <1>3, <1>4 DEF Mine

LEMMA SleepStep ==
  ASSUME IInv, NEW u \in InodeUsers, SleepOnInode(u) \/ RunAgain(u)
  PROVE  IInv'
<1>1. UNCHANGED <<inode, diskVars, does, holds>>
  BY DEF SleepOnInode, RunAgain
<1>2. does' = [does EXCEPT ![u] = does[u]]
  BY <1>1 DEF IInv, Types
<1>3. Quiet(u)
  BY <1>1, <1>2, StaysQuiet, CallType
<1> QED BY <1>3, QuietKeeps

LEMMA AtEaseType ==
  /\ AtEase \in Calls_
  /\ AtEase.op = "none" /\ AtEase.at = "user"
  /\ AtEase.slot = 0 /\ AtEase.num = 0 /\ AtEase.empty = 0
BY InodeAssumption DEF AtEase, Calls_, Ops, Places

(* The calls.                                                              *)
LEMMA BeginStep ==
  ASSUME IInv, NEW u \in InodeUsers, CallIget(u) \/ CallNewInode(u) \/ CallIput(u) \/ CallSync(u)
  PROVE  IInv'
<1>1. does[u] = AtEase /\ FitsIn(AtEase, holds[u], linked) /\ holds[u] \in Holds_
  BY CallType DEF CallIget, CallNewInode, CallIput, CallSync, Idle_
<1>2. CASE CallIget(u)
  <2>1. PICK n \in linked : Begin_(u, [AtEase EXCEPT !.op = "iget", !.at = "empty", !.num = n])
    BY <1>2 DEF CallIget
  <2> DEFINE c == [AtEase EXCEPT !.op = "iget", !.at = "empty", !.num = n]
  <2>2. does' = [does EXCEPT ![u] = c] /\ UNCHANGED <<inode, diskVars, holds>>
    BY <2>1 DEF Begin_, GoOn
  <2>3. c \in Calls_ /\ c.op = "iget" /\ c.at = "empty" /\ c.slot = 0 /\ c.num = n /\ c.empty = 0
    BY AtEaseType DEF Calls_, Ops, Places, IInv, Types
  <2>4. holds[u].slot = 0 /\ holds[u].num = 0
    <3>1. holds[u] = Nothing_held
      BY <1>2 DEF CallIget
    <3> QED BY <3>1 DEF Nothing_held
  <2> HIDE DEF c
  <2>5. FitsIn(c, holds[u], linked) /\ c.empty = does[u].empty
    BY <2>3, <2>4, <1>1 DEF FitsIn, AtEase
  <2>6. Quiet(u)
    BY <2>2, <2>3, <2>5, StaysQuiet
  <2> QED BY <2>6, QuietKeeps
<1>3. CASE CallNewInode(u)
  <2> DEFINE c == [AtEase EXCEPT !.op = "new", !.at = "empty"]
  <2>2. does' = [does EXCEPT ![u] = c] /\ UNCHANGED <<inode, diskVars, holds>>
    BY <1>3 DEF CallNewInode, Begin_, GoOn
  <2>3. c \in Calls_ /\ c.op = "new" /\ c.at = "empty" /\ c.slot = 0 /\ c.empty = 0
    BY AtEaseType, InodeAssumption DEF Calls_, Ops, Places
  <2>4. holds[u].slot = 0 /\ holds[u].num = 0
    <3>1. holds[u] = Nothing_held
      BY <1>3 DEF CallNewInode
    <3> QED BY <3>1 DEF Nothing_held
  <2> HIDE DEF c
  <2>5. FitsIn(c, holds[u], linked) /\ c.empty = does[u].empty
    BY <2>3, <2>4, <1>1 DEF FitsIn, AtEase
  <2>6. Quiet(u)
    BY <2>2, <2>3, <2>5, StaysQuiet
  <2> QED BY <2>6, QuietKeeps
<1>4. CASE CallIput(u)
  <2> DEFINE c == [AtEase EXCEPT !.op = "iput", !.at = "put", !.slot = holds[u].slot]
  <2>2. does' = [does EXCEPT ![u] = c] /\ UNCHANGED <<inode, diskVars, holds>>
    BY <1>4 DEF CallIput, GoOn
  <2>3. c \in Calls_ /\ c.op = "iput" /\ c.at = "put" /\ c.slot = holds[u].slot /\ c.empty = 0
    BY <1>1, AtEaseType, InodeAssumption DEF Calls_, Ops, Places, Holds_
  <2>4. holds[u].slot # 0
    <3>1. holds[u] # [slot |-> 0, num |-> 0]
      BY <1>4 DEF CallIput, Nothing_held
    <3>2. holds[u].slot = 0 => holds[u].num = 0
      BY <1>1 DEF FitsIn
    <3> QED BY <3>1, <3>2, <1>1 DEF Holds_
  <2> HIDE DEF c
  <2>5. FitsIn(c, holds[u], linked) /\ c.empty = does[u].empty
    BY <2>3, <2>4, <1>1 DEF FitsIn, AtEase
  <2>6. Quiet(u)
    BY <2>2, <2>3, <2>5, StaysQuiet
  <2> QED BY <2>6, QuietKeeps
<1>5. CASE CallSync(u)
  <2> DEFINE c == [AtEase EXCEPT !.op = "sync", !.at = "sync", !.slot = 1]
  <2>2. does' = [does EXCEPT ![u] = c] /\ UNCHANGED <<inode, diskVars, holds>>
    BY <1>5 DEF CallSync, Begin_, GoOn
  <2>3. c \in Calls_ /\ c.op = "sync" /\ c.at = "sync" /\ c.slot = 1 /\ c.empty = 0
    <3>1. Cardinality(InodeUsers) >= 1 /\ Cardinality(InodeUsers) \in Nat
      BY SomeMember, UsersFinite
    <3>2. 1 \in 0..NR_INODE
      BY <3>1, InodeAssumption
    <3> QED BY <3>2, AtEaseType, InodeAssumption DEF Calls_, Ops, Places
  <2> HIDE DEF c
  <2>5. FitsIn(c, holds[u], linked) /\ c.empty = does[u].empty
    BY <2>3, <1>1 DEF FitsIn, AtEase
  <2>6. Quiet(u)
    BY <2>2, <2>3, <2>5, StaysQuiet
  <2> QED BY <2>6, QuietKeeps
<1> QED BY <1>2, <1>3, <1>4, <1>5
(* How a call goes on.                                                     *)
LEMMA CallAt ==
  ASSUME NEW d \in Calls_, NEW a \in Places
  PROVE  /\ [d EXCEPT !.at = a] \in Calls_ /\ [d EXCEPT !.at = a].at = a
         /\ [d EXCEPT !.at = a].op = d.op /\ [d EXCEPT !.at = a].slot = d.slot
         /\ [d EXCEPT !.at = a].num = d.num /\ [d EXCEPT !.at = a].empty = d.empty
BY DEF Calls_

LEMMA CallAtSlot ==
  ASSUME NEW d \in Calls_, NEW a \in Places, NEW s \in 0..NR_INODE
  PROVE  LET c == [d EXCEPT !.at = a, !.slot = s]
         IN  /\ c \in Calls_ /\ c.at = a /\ c.op = d.op /\ c.slot = s /\ c.num = d.num
             /\ c.empty = d.empty
BY DEF Calls_

LEMMA CallAtSlots ==
  ASSUME NEW d \in Calls_, NEW a \in Places, NEW s \in 0..NR_INODE, NEW e \in 0..NR_INODE
  PROVE  LET c == [d EXCEPT !.at = a, !.slot = s, !.empty = e]
         IN  /\ c \in Calls_ /\ c.at = a /\ c.op = d.op /\ c.slot = s /\ c.num = d.num
             /\ c.empty = e
BY DEF Calls_

LEMMA NamesHold ==
  ASSUME IInv
  PROVE  \A v \in InodeUsers : does[v].op = "iget" => does[v].num \in linked
BY DEF IInv, Fitting, FitsIn

LEMMA SlotRange == Slots_ \subseteq 0..NR_INODE /\ 0 \in 0..NR_INODE /\ 0 \notin Slots_
BY InodeAssumption DEF Slots_

(* What the holder of an inode does to it.                                 *)
LEMMA HeldStep ==
  ASSUME IInv, NEW u \in InodeUsers, ChangeHeld(u) \/ LastUnlink(u)
  PROVE  IInv'
<1> DEFINE s == holds[u].slot
<1>1. /\ does' = does /\ does' = [does EXCEPT ![u] = does[u]] /\ does[u] = AtEase
      /\ holds' = holds /\ imap' = imap /\ uses' = uses
  BY DEF ChangeHeld, LastUnlink, Idle_, IInv, Types
<1>2. holds[u].num \in linked /\ linked \subseteq Numbers /\ 0 \notin Numbers
  BY InodeAssumption DEF ChangeHeld, LastUnlink, IInv, Types
<1>3. s \in Slots_ /\ inode[s] \in Inodes_
  BY <1>2, CallType DEF FitsIn
<1>4. inode[s].data \in Int
  BY <1>3 DEF Inodes_
<1>5. /\ inode' \in [Slots_ -> Inodes_]
      /\ \A t \in Slots_ : inode'[t].num = inode[t].num /\ inode'[t].count = inode[t].count
  <2>1. CASE ChangeHeld(u)
    <3>1. inode' = [inode EXCEPT ![s].dirt = TRUE, ![s].data = 1 - @]
      BY <2>1 DEF ChangeHeld
    <3> HIDE DEF s
    <3> QED BY <1>3, <1>4, <3>1 DEF IInv, Types, Inodes_
  <2>2. CASE LastUnlink(u)
    <3>1. inode' = [inode EXCEPT ![s].dirt = TRUE]
      BY <2>2 DEF LastUnlink
    <3> HIDE DEF s
    <3> QED BY <1>3, <3>1 DEF IInv, Types, Inodes_
  <2> QED BY <2>1, <2>2
<1>6. stored' \in [Numbers -> Int] /\ latest' \in [Numbers -> Int]
  BY <1>4 DEF ChangeHeld, LastUnlink, IInv, Types
<1>7. /\ linked' \subseteq linked
      /\ \A v \in InodeUsers : v # u /\ does[v].op = "iget" => does[v].num \in linked'
  BY NamesHold DEF ChangeHeld, LastUnlink, IInv
<1>8. FitsIn(does[u], holds[u], linked') /\ does[u] \in Calls_
  BY <1>1, AtEaseType, CallType DEF FitsIn
<1>9. Quiet(u)
  BY <1>1, <1>5, <1>6, <1>7, <1>8, SlotQuiet
<1> QED BY <1>9, QuietKeeps

(* get_empty_inode: the search, and what sends it on.                      *)
LEMMA SearchStep ==
  ASSUME IInv, NEW u \in InodeUsers, EmptySearch(u)
  PROVE  IInv'
<1>1. PICK s \in Slots_ : does' = [does EXCEPT ![u] = [does[u] EXCEPT !.at = "free", !.slot = s]]
  BY DEF EmptySearch, GoOn, Clean, Unused_
<1> DEFINE c == [does[u] EXCEPT !.at = "free", !.slot = s]
<1>2. /\ does[u].at = "empty" /\ UNCHANGED <<inode, diskVars, holds>>
      /\ does[u] \in Calls_ /\ FitsIn(does[u], holds[u], linked)
  BY CallType DEF EmptySearch, At_
<1>3. "free" \in Places /\ s \in 0..NR_INODE /\ s # 0
  BY SlotRange DEF Places
<1>4. /\ c \in Calls_ /\ c.at = "free" /\ c.op = does[u].op /\ c.slot = s /\ c.num = does[u].num
      /\ c.empty = does[u].empty
  BY <1>2, <1>3, CallAtSlot
<1>5. does' = [does EXCEPT ![u] = c]
  BY <1>1
<1> HIDE DEF c
<1>6. FitsIn(c, holds[u], linked)
  BY <1>2, <1>3, <1>4 DEF FitsIn
<1>7. Quiet(u)
  BY <1>2, <1>4, <1>5, <1>6, StaysQuiet
<1> QED BY <1>7, QuietKeeps

LEMMA FoundInUseStep ==
  ASSUME IInv, NEW u \in InodeUsers, EmptyFound(u), Mine(u).dirt \/ Mine(u).count # 0
  PROVE  IInv'
<1>1. /\ does[u].at = "free" /\ UNCHANGED <<diskVars, holds>>
      /\ does[u] \in Calls_ /\ FitsIn(does[u], holds[u], linked)
  BY CallType DEF EmptyFound, At_
<1>2. does[u].slot \in Slots_ /\ Mine(u) \in Inodes_
  BY <1>1, CallType DEF FitsIn
<1>3. \/ inode' = inode /\ does' = [does EXCEPT ![u] = [does[u] EXCEPT !.at = "write"]]
      \/ inode' = inode /\ does' = [does EXCEPT ![u] = [does[u] EXCEPT !.at = "empty", !.slot = 0]]
  BY DEF EmptyFound, GoOn
<1>4. CASE inode' = inode /\ does' = [does EXCEPT ![u] = [does[u] EXCEPT !.at = "write"]]
  <2> DEFINE c == [does[u] EXCEPT !.at = "write"]
  <2>1. "write" \in Places
    BY DEF Places
  <2>2. /\ c \in Calls_ /\ c.at = "write" /\ c.op = does[u].op /\ c.slot = does[u].slot
        /\ c.num = does[u].num /\ c.empty = does[u].empty
    BY <1>1, <2>1, CallAt
  <2>3. does' = [does EXCEPT ![u] = c]
    BY <1>4
  <2> HIDE DEF c
  <2>4. FitsIn(c, holds[u], linked)
    BY <1>1, <2>2 DEF FitsIn
  <2>5. Quiet(u)
    BY <1>1, <1>4, <2>2, <2>3, <2>4, StaysQuiet
  <2> QED BY <2>5, QuietKeeps
<1>5. CASE inode' = inode /\ does' = [does EXCEPT ![u] = [does[u] EXCEPT !.at = "empty", !.slot = 0]]
  <2> DEFINE c == [does[u] EXCEPT !.at = "empty", !.slot = 0]
  <2>1. "empty" \in Places /\ 0 \in 0..NR_INODE
    BY SlotRange DEF Places
  <2>2. /\ c \in Calls_ /\ c.at = "empty" /\ c.op = does[u].op /\ c.slot = 0
        /\ c.num = does[u].num /\ c.empty = does[u].empty
    BY <1>1, <2>1 DEF Calls_
  <2>3. does' = [does EXCEPT ![u] = c]
    BY <1>5
  <2> HIDE DEF c
  <2>4. FitsIn(c, holds[u], linked)
    BY <1>1, <2>2 DEF FitsIn
  <2>5. Quiet(u)
    BY <1>1, <1>5, <2>2, <2>3, <2>4, StaysQuiet
  <2> QED BY <2>5, QuietKeeps
<1> QED BY <1>3, <1>4, <1>5
(* The waits for a block, and the ways back from them.                     *)
AfterPlace(op) == CASE op = "sync" -> "next" [] op = "iput" -> "put" [] OTHER -> "free"
LEMMA FitsAt ==
  ASSUME NEW d \in Calls_, NEW h, NEW names, NEW a \in Places, FitsIn(d, h, names),
         \/ d.at \in {"free", "put", "sync"} /\ a = "write"
         \/ d.at = "write" /\ a = "writing"
         \/ d.at \in {"write", "writing"} /\ a = AfterPlace(d.op)
         \/ d.at = "read" /\ a = "reading"
         \/ d.at = "sync" /\ a = "next"
         \/ d.at = "put" /\ a = "truncate" /\ h.num \notin names
  PROVE  FitsIn([d EXCEPT !.at = a], h, names)
<1> DEFINE c == [d EXCEPT !.at = a]
<1>1. c.at = a /\ c.op = d.op /\ c.slot = d.slot /\ c.num = d.num /\ c.empty = d.empty
  BY CallAt
<1>2. d.op \in Ops
  BY DEF Calls_
<1> HIDE DEF c
<1>3. FitsIn(c, h, names)
  BY <1>1, <1>2 DEF FitsIn, AfterPlace, Ops
<1> QED BY <1>3 DEF c

LEMMA AtQuiet ==
  ASSUME IInv, NEW u \in InodeUsers, NEW a \in Places,
         does' = [does EXCEPT ![u] = [does[u] EXCEPT !.at = a]],
         inode' \in [Slots_ -> Inodes_],
         \A t \in Slots_ : inode'[t].num = inode[t].num /\ inode'[t].count = inode[t].count,
         UNCHANGED <<linked, imap, latest, uses, holds>>, stored' \in [Numbers -> Int],
         LET d == does[u] h == holds[u] IN
         \/ d.at \in {"free", "put", "sync"} /\ a = "write"
         \/ d.at = "write" /\ a = "writing"
         \/ d.at \in {"write", "writing"} /\ a = AfterPlace(d.op)
         \/ d.at = "read" /\ a = "reading"
         \/ d.at = "sync" /\ a = "next"
         \/ d.at = "put" /\ a = "truncate" /\ h.num \notin linked
  PROVE  IInv'
<1> DEFINE c == [does[u] EXCEPT !.at = a]
<1>1. does[u] \in Calls_ /\ FitsIn(does[u], holds[u], linked)
  BY CallType
<1>2. c \in Calls_ /\ c.empty = does[u].empty
  BY <1>1, CallAt
<1>3. FitsIn(c, holds[u], linked)
  BY <1>1, FitsAt
<1>4. does' = [does EXCEPT ![u] = c]
  OBVIOUS
<1> HIDE DEF c
<1>5. /\ linked' \subseteq linked /\ latest' \in [Numbers -> Int] /\ linked' = linked
      /\ \A v \in InodeUsers : v # u /\ does[v].op = "iget" => does[v].num \in linked'
  BY NamesHold DEF IInv, Types
<1>6. Quiet(u)
  BY <1>2, <1>3, <1>4, <1>5, SlotQuiet
<1> QED BY <1>6, QuietKeeps

(* Locking and unlocking, and what is read or written meanwhile.           *)
LEMMA LockEffect ==
  ASSUME IInv, NEW u \in InodeUsers, does[u].slot \in Slots_, LockIt(u)
  PROVE  /\ inode' \in [Slots_ -> Inodes_]
         /\ \A t \in Slots_ : inode'[t].num = inode[t].num /\ inode'[t].count = inode[t].count
<1> DEFINE s == does[u].slot
<1>1. inode' = [inode EXCEPT ![s].lock = TRUE] /\ s \in Slots_
  BY DEF LockIt
<1> HIDE DEF s
<1>2. inode \in [Slots_ -> Inodes_] /\ inode[s] \in Inodes_
  BY <1>1 DEF IInv, Types
<1> DEFINE r == [inode[s] EXCEPT !.lock = TRUE]
<1>3. r \in Inodes_ /\ r.num = inode[s].num /\ r.count = inode[s].count
  BY <1>2 DEF Inodes_
<1>4. inode' = [inode EXCEPT ![s] = r]
  BY <1>1, <1>2
<1> HIDE DEF r
<1> QED BY <1>1, <1>2, <1>3, <1>4

LEMMA UnlockEffect ==
  ASSUME IInv, NEW u \in InodeUsers, does[u].slot \in Slots_, NEW new \in Inodes_,
         new.num = Mine(u).num, new.count = Mine(u).count, Unlocked(u, new)
  PROVE  /\ inode' \in [Slots_ -> Inodes_]
         /\ \A t \in Slots_ : inode'[t].num = inode[t].num /\ inode'[t].count = inode[t].count
<1> DEFINE s == does[u].slot
           r == [new EXCEPT !.lock = FALSE]
<1>1. inode' = [inode EXCEPT ![s] = r] /\ s \in Slots_ /\ Mine(u) = inode[s]
  BY DEF Unlocked, Mine
<1>2. r \in Inodes_ /\ r.num = new.num /\ r.count = new.count
  BY DEF Inodes_
<1> HIDE DEF s, r
<1> QED BY <1>1, <1>2 DEF IInv, Types

LEMMA ReadStep ==
  ASSUME IInv, NEW u \in InodeUsers, ReadInode(u)
  PROVE  IInv'
<1>1. /\ does[u].at = "read" /\ UNCHANGED <<diskVars, holds>> /\ LockIt(u)
      /\ does' = [does EXCEPT ![u] = [does[u] EXCEPT !.at = "reading"]] /\ "reading" \in Places
  BY DEF ReadInode, At_, ForBlock, Places
<1>2. does[u].slot \in Slots_
  BY <1>1, CallType DEF FitsIn
<1>3. stored' \in [Numbers -> Int] /\ UNCHANGED <<linked, imap, latest, uses>>
  BY <1>1 DEF diskVars, IInv, Types
<1>4. /\ inode' \in [Slots_ -> Inodes_]
      /\ \A t \in Slots_ : inode'[t].num = inode[t].num /\ inode'[t].count = inode[t].count
  BY <1>1, <1>2, LockEffect
<1> QED BY <1>1, <1>3, <1>4, AtQuiet

LEMMA HasReadStep ==
  ASSUME IInv, NEW u \in InodeUsers, HasRead(u)
  PROVE  IInv'
<1> DEFINE new == [Mine(u) EXCEPT !.data = stored[Mine(u).num]]
<1>1. /\ does[u].at = "reading" /\ UNCHANGED <<diskVars, holds>> /\ Unlocked(u, new)
      /\ does' = [does EXCEPT ![u] = AtEase]
  BY DEF HasRead, At_, Done
<1>2. /\ does[u].slot \in Slots_ /\ Mine(u) \in Inodes_ /\ does[u] \in Calls_
      /\ FitsIn(does[u], holds[u], linked) /\ does[u].op = "iget" /\ holds[u] \in Holds_
  <2>1. does[u].op \in Ops
    BY CallType DEF Calls_
  <2> QED BY <1>1, <2>1, CallType DEF FitsIn, Ops
<1>3. Mine(u).num = holds[u].num /\ holds[u].num = does[u].num /\ does[u].num \in linked
  <2>1. holds[u].slot = does[u].slot /\ holds[u].num = does[u].num /\ does[u].num \in linked
    BY <1>1, <1>2 DEF FitsIn
  <2>2. holds[u].slot # 0
    BY <1>2, <2>1, SlotRange
  <2> QED BY <2>1, <2>2 DEF Mine, IInv, HeldRight
<1>4. stored[Mine(u).num] \in Int
  BY <1>3 DEF IInv, Types
<1>5. new \in Inodes_ /\ new.num = Mine(u).num /\ new.count = Mine(u).count
  BY <1>2, <1>4 DEF Inodes_
<1> HIDE DEF new
<1>6. /\ inode' \in [Slots_ -> Inodes_]
      /\ \A t \in Slots_ : inode'[t].num = inode[t].num /\ inode'[t].count = inode[t].count
  BY <1>1, <1>2, <1>5, UnlockEffect
<1>7. /\ imap' = imap /\ uses' = uses /\ linked' \subseteq linked /\ linked' = linked
      /\ holds' = holds /\ stored' \in [Numbers -> Int] /\ latest' \in [Numbers -> Int]
      /\ \A v \in InodeUsers : v # u /\ does[v].op = "iget" => does[v].num \in linked'
  BY <1>1, NamesHold DEF diskVars, IInv, Types
<1>8. AtEase \in Calls_ /\ AtEase.empty = does[u].empty /\ FitsIn(AtEase, holds[u], linked')
  BY <1>1, <1>2, <1>7, AtEaseType DEF FitsIn
<1>9. Quiet(u)
  BY <1>1, <1>6, <1>7, <1>8, SlotQuiet
<1> QED BY <1>9, QuietKeeps

LEMMA AfterIs ==
  ASSUME NEW d \in Calls_
  PROVE  /\ After(d) = [d EXCEPT !.at = AfterPlace(d.op)]
         /\ AfterPlace(d.op) \in Places
BY DEF After, AfterPlace, Places

LEMMA WriteStep ==
  ASSUME IInv, NEW u \in InodeUsers, WriteInode_(u)
  PROVE  IInv'
<1>1. does[u].at = "write" /\ UNCHANGED <<diskVars, holds>> /\ "writing" \in Places
  BY DEF WriteInode_, At_, Places
<1>2. does[u].slot \in Slots_ /\ does[u] \in Calls_ /\ Mine(u) \in Inodes_
  BY <1>1, CallType DEF FitsIn
<1>3. stored' \in [Numbers -> Int] /\ UNCHANGED <<linked, imap, latest, uses>>
  BY <1>1 DEF diskVars, IInv, Types
<1>4. CASE LockIt(u) /\ does' = [does EXCEPT ![u] = [does[u] EXCEPT !.at = "writing"]]
  <2>1. /\ inode' \in [Slots_ -> Inodes_]
        /\ \A t \in Slots_ : inode'[t].num = inode[t].num /\ inode'[t].count = inode[t].count
    BY <1>4, <1>2, LockEffect
  <2> QED BY <1>1, <1>3, <1>4, <2>1, AtQuiet
<1>5. CASE Unlocked(u, Mine(u)) /\ does' = [does EXCEPT ![u] = After(does[u])]
  <2>1. /\ inode' \in [Slots_ -> Inodes_]
        /\ \A t \in Slots_ : inode'[t].num = inode[t].num /\ inode'[t].count = inode[t].count
    BY <1>5, <1>2, UnlockEffect
  <2>2. /\ AfterPlace(does[u].op) \in Places
        /\ does' = [does EXCEPT ![u] = [does[u] EXCEPT !.at = AfterPlace(does[u].op)]]
    BY <1>2, <1>5, AfterIs
  <2> QED BY <1>1, <1>3, <2>1, <2>2, AtQuiet
<1> QED BY <1>4, <1>5 DEF WriteInode_, ForBlock, GoOn

LEMMA HasWrittenStep ==
  ASSUME IInv, NEW u \in InodeUsers, HasWritten(u)
  PROVE  IInv'
<1> DEFINE new == [Mine(u) EXCEPT !.dirt = FALSE]
<1>1. /\ does[u].at = "writing" /\ UNCHANGED <<linked, imap, latest, uses, holds>>
      /\ stored' = [stored EXCEPT ![Mine(u).num] = Mine(u).data] /\ Unlocked(u, new)
      /\ does' = [does EXCEPT ![u] = After(does[u])]
  BY DEF HasWritten, At_, GoOn
<1>2. does[u].slot \in Slots_ /\ does[u] \in Calls_ /\ Mine(u) \in Inodes_
  BY <1>1, CallType DEF FitsIn
<1>3. new \in Inodes_ /\ new.num = Mine(u).num /\ new.count = Mine(u).count
      /\ Mine(u).data \in Int
  BY <1>2 DEF Inodes_
<1> HIDE DEF new
<1>4. /\ inode' \in [Slots_ -> Inodes_]
      /\ \A t \in Slots_ : inode'[t].num = inode[t].num /\ inode'[t].count = inode[t].count
  BY <1>1, <1>2, <1>3, UnlockEffect
<1>5. stored' \in [Numbers -> Int]
  BY <1>1, <1>3 DEF IInv, Types
<1>6. /\ AfterPlace(does[u].op) \in Places
      /\ does' = [does EXCEPT ![u] = [does[u] EXCEPT !.at = AfterPlace(does[u].op)]]
  BY <1>1, <1>2, AfterIs
<1> QED BY <1>1, <1>4, <1>5, <1>6, AtQuiet
LEMMA SyncStep ==
  ASSUME IInv, NEW u \in InodeUsers, SyncInodes_(u)
  PROVE  IInv'
<1>1. /\ UNCHANGED <<inode, diskVars, holds>> /\ does[u].at \in {"sync", "next"}
      /\ does[u] \in Calls_ /\ FitsIn(does[u], holds[u], linked) /\ does[u].op \in Ops
  BY CallType DEF SyncInodes_, At_, Calls_
<1>2. /\ inode' \in [Slots_ -> Inodes_]
      /\ \A t \in Slots_ : inode'[t].num = inode[t].num /\ inode'[t].count = inode[t].count
      /\ UNCHANGED <<linked, imap, latest, uses, holds>> /\ stored' \in [Numbers -> Int]
  BY <1>1 DEF diskVars, IInv, Types
<1>3. CASE does[u].at = "sync"
  <2>1. PICK a \in {"write", "next"} : does' = [does EXCEPT ![u] = [does[u] EXCEPT !.at = a]]
    BY <1>3 DEF SyncInodes_, At_, GoOn
  <2>2. a \in Places
    BY DEF Places
  <2> QED BY <1>2, <1>3, <2>1, <2>2, AtQuiet
<1>4. CASE does[u].at = "next" /\ does[u].slot = NR_INODE
  <2>1. does' = [does EXCEPT ![u] = AtEase]
    BY <1>4 DEF SyncInodes_, At_, Done
  <2>2. AtEase \in Calls_ /\ AtEase.empty = does[u].empty /\ FitsIn(AtEase, holds[u], linked)
    BY <1>1, <1>4, AtEaseType DEF FitsIn
  <2>3. Quiet(u)
    BY <1>1, <2>1, <2>2, StaysQuiet
  <2> QED BY <2>3, QuietKeeps
<1>5. CASE does[u].at = "next" /\ does[u].slot # NR_INODE
  <2> DEFINE c == [does[u] EXCEPT !.at = "sync", !.slot = @ + 1]
  <2>1. does' = [does EXCEPT ![u] = c]
    BY <1>5 DEF SyncInodes_, At_, GoOn
  <2>2. does[u].slot + 1 \in Slots_ /\ does[u].slot + 1 # 0
    <3>1. does[u].slot \in 0..NR_INODE
      BY <1>1 DEF Calls_
    <3> QED BY <3>1, <1>5, InodeAssumption DEF Slots_
  <2>3. /\ c \in Calls_ /\ c.at = "sync" /\ c.op = does[u].op /\ c.slot = does[u].slot + 1
        /\ c.num = does[u].num /\ c.empty = does[u].empty
    BY <1>1, <2>2, SlotRange DEF Calls_, Places
  <2> HIDE DEF c
  <2>4. FitsIn(c, holds[u], linked)
    BY <1>1, <1>5, <2>2, <2>3 DEF FitsIn, Ops
  <2>5. Quiet(u)
    BY <1>1, <2>1, <2>3, <2>4, StaysQuiet
  <2> QED BY <2>5, QuietKeeps
<1> QED BY <1>1, <1>3, <1>4, <1>5

(* iget has found a slot, or waited for one that has another number now.   *)
LEMMA ScanFoundStep ==
  ASSUME IInv, NEW u \in InodeUsers, Scan(u), Having(does[u].num) # {}
  PROVE  IInv'
<1>1. /\ does[u].at = "scan" /\ UNCHANGED <<inode, diskVars, holds>>
      /\ does[u] \in Calls_ /\ FitsIn(does[u], holds[u], linked) /\ does[u].op \in Ops
  BY CallType DEF Scan, At_, Calls_
<1>2. PICK s \in Slots_ : does' = [does EXCEPT ![u] = [does[u] EXCEPT !.at = "found", !.slot = s]]
  <2>1. Min(Having(does[u].num)) \in Having(does[u].num)
    <3>1. Having(does[u].num) \subseteq Nat
      BY InodeAssumption DEF Having, Slots_
    <3> QED BY <3>1, LeastIsMember
  <2>2. Min(Having(does[u].num)) \in Slots_
    BY <2>1 DEF Having
  <2> QED BY <2>2 DEF Scan, GoOn
<1> DEFINE c == [does[u] EXCEPT !.at = "found", !.slot = s]
<1>3. /\ c \in Calls_ /\ c.at = "found" /\ c.op = does[u].op /\ c.slot = s
      /\ c.num = does[u].num /\ c.empty = does[u].empty /\ s # 0
  BY <1>1, SlotRange DEF Calls_, Places
<1>4. does' = [does EXCEPT ![u] = c]
  BY <1>2
<1> HIDE DEF c
<1>5. FitsIn(c, holds[u], linked)
  BY <1>1, <1>3 DEF FitsIn, Ops
<1>6. Quiet(u)
  BY <1>1, <1>3, <1>4, <1>5, StaysQuiet
<1> QED BY <1>6, QuietKeeps

LEMMA FoundOtherStep ==
  ASSUME IInv, NEW u \in InodeUsers, FoundUnlocked(u), Changed(u)
  PROVE  IInv'
<1>1. /\ does[u].at = "found" /\ UNCHANGED <<inode, diskVars, holds>>
      /\ does[u] \in Calls_ /\ FitsIn(does[u], holds[u], linked) /\ does[u].op \in Ops
  BY CallType DEF FoundUnlocked, At_, Calls_
<1> DEFINE c == [does[u] EXCEPT !.at = "scan", !.slot = 0]
<1>2. does' = [does EXCEPT ![u] = c]
  BY DEF FoundUnlocked, GoOn
<1>3. /\ c \in Calls_ /\ c.at = "scan" /\ c.op = does[u].op /\ c.slot = 0
      /\ c.num = does[u].num /\ c.empty = does[u].empty
  BY <1>1, SlotRange DEF Calls_, Places
<1> HIDE DEF c
<1>4. FitsIn(c, holds[u], linked)
  BY <1>1, <1>3 DEF FitsIn, Ops
<1>5. Quiet(u)
  BY <1>1, <1>2, <1>3, <1>4, StaysQuiet
<1> QED BY <1>5, QuietKeeps

(* iput goes to truncate the inode, or to write it.                        *)
LEMMA IputWaitsStep ==
  ASSUME IInv, NEW u \in InodeUsers, Iput(u), ~LetGo(Mine(u))
  PROVE  IInv'
<1>1. /\ does[u].at = "put" /\ UNCHANGED <<inode, diskVars, holds>>
      /\ does[u] \in Calls_ /\ FitsIn(does[u], holds[u], linked) /\ does[u].op \in Ops
  BY CallType DEF Iput, At_, Calls_
<1>2. /\ inode' \in [Slots_ -> Inodes_]
      /\ \A t \in Slots_ : inode'[t].num = inode[t].num /\ inode'[t].count = inode[t].count
      /\ UNCHANGED <<linked, imap, latest, uses, holds>> /\ stored' \in [Numbers -> Int]
  BY <1>1 DEF diskVars, IInv, Types
<1>3. Mine(u).num = holds[u].num
  BY <1>1, SlotRange DEF FitsIn, Ops, Mine, IInv, HeldRight
<1>4. PICK a \in {"truncate", "write"} :
        /\ does' = [does EXCEPT ![u] = [does[u] EXCEPT !.at = a]]
        /\ a = "truncate" => holds[u].num \notin linked
  BY <1>3 DEF Iput, ForBlock, GoOn
<1>5. a \in Places
  BY DEF Places
<1> QED BY <1>1, <1>2, <1>4, <1>5, AtQuiet
-----------------------------------------------------------------------------
(* Steps in which a slot changes hands.                                    *)

LEMMA MoveFits ==
  ASSUME IInv, NEW u \in InodeUsers,
         \A v \in InodeUsers : v # u => does'[v] = does[v] /\ holds'[v] = holds[v],
         FitsIn(does'[u], holds'[u], linked'),
         \A v \in InodeUsers : v # u /\ does[v].op = "iget" => does[v].num \in linked',
         \A v \in InodeUsers : v # u /\ does[v].at = "truncate" => holds[v].num \notin linked'
  PROVE  Fitting'
<1> SUFFICES ASSUME NEW v \in InodeUsers PROVE FitsIn(does'[v], holds'[v], linked')
  BY DEF Fitting
<1>1. CASE v # u
  <2>1. FitsIn(does[v], holds[v], linked)
    BY DEF IInv, Fitting
  <2>2. FitsIn(does[v], holds[v], linked')
    BY <2>1, <1>1, FitsOn
  <2> QED BY <2>2, <1>1
<1> QED BY <1>1

LEMMA MoveCounts ==
  ASSUME CountsExact, NEW u \in InodeUsers,
         \A v \in InodeUsers : v # u => does'[v] = does[v] /\ holds'[v] = holds[v],
         \A s \in Slots_ : inode'[s].count = inode[s].count + Gain(holds[u].slot, holds'[u].slot, s)
                                                            + Gain(does[u].empty, does'[u].empty, s)
  PROVE  CountsExact'
<1> SUFFICES ASSUME NEW s \in Slots_
             PROVE  inode'[s].count = Cardinality(HoldersIn(holds', s)) + Cardinality(EmptiesIn(does', s))
  BY DEF CountsExact
<1>1. inode[s].count = Cardinality(HoldersIn(holds, s)) + Cardinality(EmptiesIn(does, s))
  BY DEF CountsExact
<1>2. /\ Cardinality(HoldersIn(holds, s)) \in Nat /\ Cardinality(EmptiesIn(does, s)) \in Nat
      /\ Cardinality(HoldersIn(holds', s)) = Cardinality(HoldersIn(holds, s)) + Gain(holds[u].slot, holds'[u].slot, s)
      /\ Cardinality(EmptiesIn(does', s)) = Cardinality(EmptiesIn(does, s)) + Gain(does[u].empty, does'[u].empty, s)
  <2> DEFINE i == holds'
             e == does'
  <2>1. (\A v \in InodeUsers : v # u => i[v] = holds[v]) /\ (\A v \in InodeUsers : v # u => e[v] = does[v])
    OBVIOUS
  <2> HIDE DEF i, e
  <2>2. /\ Cardinality(HoldersIn(holds, s)) \in Nat
        /\ Cardinality(HoldersIn(i, s)) = Cardinality(HoldersIn(holds, s)) + Gain(holds[u].slot, i[u].slot, s)
    BY <2>1, HoldersRecounted
  <2>3. /\ Cardinality(EmptiesIn(does, s)) \in Nat
        /\ Cardinality(EmptiesIn(e, s)) = Cardinality(EmptiesIn(does, s)) + Gain(does[u].empty, e[u].empty, s)
    BY <2>1, EmptiesRecounted
  <2> QED BY <2>2, <2>3 DEF i, e
<1>3. Gain(holds[u].slot, holds'[u].slot, s) \in Int /\ Gain(does[u].empty, does'[u].empty, s) \in Int
  BY DEF Gain
<1> QED BY <1>1, <1>2, <1>3

LEMMA BlankType ==
  /\ Blank \in Inodes_ /\ Blank.num = 0 /\ Blank.count = 0 /\ Blank.data = 0
  /\ Blank.lock = FALSE /\ Blank.dirt = FALSE
BY DEF Blank, Inodes_

(* Numbers and holders of the slots that nothing happens to.               *)
LEMMA HeldNumbers ==
  ASSUME IInv, NEW v \in InodeUsers, holds[v].slot # 0
  PROVE  holds[v].slot \in Slots_ /\ inode[holds[v].slot].num = holds[v].num /\ holds[v].num # 0
<1>1. holds[v].num # 0 /\ holds[v].slot \in Slots_
  BY CallType DEF FitsIn
<1> QED BY <1>1 DEF IInv, HeldRight

(* get_empty_inode takes a slot.                                           *)
LEMMA TakeStep ==
  ASSUME IInv, NEW u \in InodeUsers, EmptyFound(u), ~Mine(u).dirt, Mine(u).count = 0
  PROVE  IInv'
<1> DEFINE s == does[u].slot
           to == IF does[u].op = "iget" THEN "scan" ELSE "new"
           c == [does[u] EXCEPT !.at = to, !.slot = 0, !.empty = s]
           r == [Blank EXCEPT !.count = 1]
<1>1. /\ does[u].at = "free" /\ UNCHANGED <<diskVars, holds>>
      /\ does[u] \in Calls_ /\ FitsIn(does[u], holds[u], linked) /\ does[u].op \in Ops
      /\ does[u].empty = 0
  BY CallType DEF EmptyFound, At_, Calls_, FitsIn
<1>2. does' = [does EXCEPT ![u] = c] /\ inode' = [inode EXCEPT ![s] = r]
  BY DEF EmptyFound, GoOn, Cleared
<1>3. s \in Slots_ /\ s # 0 /\ inode[s].count = 0
  BY <1>1, CallType, SlotRange DEF FitsIn, Mine
<1>4. r \in Inodes_ /\ r.num = 0 /\ r.count = 1
  BY BlankType DEF Inodes_
<1>5. /\ c \in Calls_ /\ c.at = to /\ c.op = does[u].op /\ c.slot = 0
      /\ c.num = does[u].num /\ c.empty = s
  BY <1>1, <1>3, SlotRange DEF Calls_, Places
<1>6. FitsIn(c, holds[u], linked)
  <2> HIDE DEF c, s
  <2> QED BY <1>1, <1>3, <1>5 DEF FitsIn, Ops
<1> HIDE DEF c, r, s
<1>7. /\ does' \in [InodeUsers -> Calls_] /\ does'[u] = c
      /\ \A v \in InodeUsers : v # u => does'[v] = does[v]
  BY <1>2, <1>5, Goes DEF IInv
<1>8. /\ inode' \in [Slots_ -> Inodes_] /\ inode'[s] = r
      /\ \A t \in Slots_ : t # s => inode'[t] = inode[t]
  BY <1>2, <1>3, <1>4 DEF IInv, Types
<1>9. /\ holds' = holds /\ linked' = linked /\ imap' = imap /\ uses' = uses
      /\ stored' = stored /\ latest' = latest
  BY <1>1 DEF diskVars
<1>10. \A v \in InodeUsers : holds[v].slot # s /\ does[v].empty # s
  BY <1>3, Nobodys DEF IInv
<1>11. Types'
  BY <1>7, <1>8, <1>9 DEF IInv, Types
<1>12. Fitting'
  <2>1. \A v \in InodeUsers : does[v].at = "truncate" => holds[v].num \notin linked
    BY DEF IInv, Fitting, FitsIn
  <2> QED BY <1>6, <1>7, <1>9, <2>1, NamesHold, MoveFits
<1>13. CountsExact'
  <2>1. \A t \in Slots_ : inode'[t].count = inode[t].count + Gain(holds[u].slot, holds'[u].slot, t)
                                                           + Gain(does[u].empty, does'[u].empty, t)
    <3> SUFFICES ASSUME NEW t \in Slots_
                 PROVE  inode'[t].count = inode[t].count + Gain(holds[u].slot, holds'[u].slot, t)
                                                         + Gain(does[u].empty, does'[u].empty, t)
      OBVIOUS
    <3>1. Gain(holds[u].slot, holds'[u].slot, t) = 0
      BY <1>9 DEF Gain
    <3>2. Gain(does[u].empty, does'[u].empty, t) = IF t = s THEN 1 ELSE 0
      BY <1>1, <1>3, <1>5, <1>7, SlotRange DEF Gain
    <3>3. inode[t].count \in Int
      BY DEF IInv, Types, Inodes_
    <3>4. CASE t = s
      BY <3>1, <3>2, <3>4, <1>3, <1>4, <1>8
    <3>5. CASE t # s
      BY <3>1, <3>2, <3>3, <3>5, <1>8
    <3> QED BY <3>4, <3>5
  <2> QED BY <2>1, <1>7, <1>9, MoveCounts DEF IInv
<1>14. Emptied'
  <2> SUFFICES ASSUME NEW v \in InodeUsers, does'[v].empty # 0
               PROVE  inode'[does'[v].empty].num = 0 /\ inode'[does'[v].empty].count = 1
    BY DEF Emptied
  <2>1. CASE v = u
    BY <2>1, <1>4, <1>5, <1>7, <1>8
  <2>2. CASE v # u
    <3>1. does'[v].empty = does[v].empty /\ does[v].empty # s
      BY <2>2, <1>7, <1>10
    <3>2. does[v].empty \in Slots_
      BY <3>1, CallType
    <3> QED BY <3>1, <3>2, <1>8 DEF IInv, Emptied
  <2> QED BY <2>1, <2>2
<1>15. Alone' /\ Mapped'
  BY <1>4, <1>8, <1>9 DEF IInv, Alone, Mapped
<1>16. HeldRight'
  BY <1>8, <1>9, <1>10, HeldNumbers DEF HeldRight
<1> QED BY <1>9, <1>11, <1>12, <1>13, <1>14, <1>15, <1>16 DEF IInv

(* iget and new_inode give an empty slot its number n, which u holds as h. *)
Named(u, n, c, h) ==
  /\ does[u].empty # 0 /\ holds[u].slot = 0
  /\ does' = [does EXCEPT ![u] = c] /\ c.empty = 0
  /\ holds' = [holds EXCEPT ![u] = h] /\ h.slot = does[u].empty /\ h.num = n
  /\ inode' \in [Slots_ -> Inodes_]
  /\ \A s \in Slots_ : s # does[u].empty => inode'[s] = inode[s]
  /\ inode'[does[u].empty].num = n
  /\ inode'[does[u].empty].count = inode[does[u].empty].count
  /\ \A s \in Slots_ : inode[s].num # n
  /\ imap' = imap \cup {n} /\ linked' = linked \cup {n} /\ uses' = uses
  /\ stored' \in [Numbers -> Int] /\ latest' \in [Numbers -> Int]
  /\ FitsIn(c, h, linked')
LEMMA NamedStep ==
  ASSUME IInv, NEW u \in InodeUsers, NEW n \in Numbers, NEW c \in Calls_, NEW h \in Holds_,
         Named(u, n, c, h)
  PROVE  IInv'
<1> DEFINE e == does[u].empty
<1> USE DEF Named
<1>1. e \in Slots_ /\ e # 0 /\ inode[e].num = 0 /\ inode[e].count = 1 /\ e \in 0..NR_INODE
  BY CallType, SlotRange DEF IInv, Emptied
<1>2. n # 0
  BY InodeAssumption
<1>3. h.slot = e /\ h.num = n
  OBVIOUS
<1>4. /\ holds' = [holds EXCEPT ![u] = h] /\ inode'[e].num = n /\ inode'[e].count = 1
      /\ \A s \in Slots_ : s # e => inode'[s] = inode[s]
      /\ FitsIn(c, h, linked')
  BY <1>1
<1>5. /\ holds' \in [InodeUsers -> Holds_] /\ holds'[u] = h
      /\ \A v \in InodeUsers : v # u => holds'[v] = holds[v]
  BY <1>3, <1>4 DEF IInv, Types
<1>6. /\ does' \in [InodeUsers -> Calls_] /\ does'[u] = c
      /\ \A v \in InodeUsers : v # u => does'[v] = does[v]
  BY Goes DEF IInv
<1>7. \A v \in InodeUsers : holds[v].slot # e /\ (v # u => does[v].empty # e)
  BY <1>1, OnlyEmpties DEF IInv
<1>8. Types'
  BY <1>5, <1>6 DEF IInv, Types
<1>9. Fitting'
  <2>1. \A v \in InodeUsers : does[v].op = "iget" => does[v].num \in linked'
    BY NamesHold
  <2>2. \A v \in InodeUsers : does[v].at = "truncate" => holds[v].num \notin linked'
    <3> SUFFICES ASSUME NEW v \in InodeUsers, does[v].at = "truncate"
                 PROVE  holds[v].num \notin linked /\ holds[v].num # n
      OBVIOUS
    <3>1. holds[v].num \notin linked /\ holds[v].slot # 0
      BY CallType, SlotRange DEF FitsIn, Calls_, Ops
    <3>2. holds[v].slot \in Slots_ /\ inode[holds[v].slot].num = holds[v].num
      BY <3>1, HeldNumbers
    <3> QED BY <3>1, <3>2
  <2> QED BY <1>4, <1>5, <1>6, <2>1, <2>2, MoveFits
<1>10. CountsExact'
  <2>1. \A t \in Slots_ : inode'[t].count = inode[t].count + Gain(holds[u].slot, holds'[u].slot, t)
                                                           + Gain(does[u].empty, does'[u].empty, t)
    <3> SUFFICES ASSUME NEW t \in Slots_
                 PROVE  inode'[t].count = inode[t].count + Gain(holds[u].slot, holds'[u].slot, t)
                                                         + Gain(does[u].empty, does'[u].empty, t)
      OBVIOUS
    <3>1. Gain(holds[u].slot, holds'[u].slot, t) = IF t = e THEN 1 ELSE 0
      BY <1>1, <1>3, <1>5, SlotRange DEF Gain
    <3>2. Gain(does[u].empty, does'[u].empty, t) = IF t = e THEN -1 ELSE 0
      BY <1>1, <1>6, SlotRange DEF Gain
    <3>3. inode[t].count \in Int
      BY DEF IInv, Types, Inodes_
    <3>4. CASE t = e
      BY <3>1, <3>2, <3>4, <1>1, <1>4
    <3>5. CASE t # e
      <4>1. inode'[t].count = inode[t].count
        BY <3>5, <1>4
      <4> QED BY <4>1, <3>1, <3>2, <3>3, <3>5
    <3> QED BY <3>4, <3>5
  <2> QED BY <2>1, <1>5, <1>6, MoveCounts DEF IInv
<1>11. Emptied'
  <2> SUFFICES ASSUME NEW v \in InodeUsers, does'[v].empty # 0
               PROVE  inode'[does'[v].empty].num = 0 /\ inode'[does'[v].empty].count = 1
    BY DEF Emptied
  <2>1. v # u
    BY <1>6
  <2>2. does'[v].empty = does[v].empty /\ does[v].empty # e
    BY <2>1, <1>6, <1>7
  <2>3. does[v].empty \in Slots_
    BY <2>2, CallType
  <2> QED BY <2>2, <2>3, <1>4 DEF IInv, Emptied
<1>12. Alone'
  <2> SUFFICES ASSUME NEW s \in Slots_, NEW r \in Slots_, inode'[s].num = inode'[r].num,
                      inode'[s].num # 0
               PROVE  s = r
    BY DEF Alone
  <2>1. CASE s = e \/ r = e
    BY <2>1, <1>4
  <2>2. CASE s # e /\ r # e
    BY <2>2, <1>4 DEF IInv, Alone
  <2> QED BY <2>1, <2>2
<1>13. HeldRight'
  <2> SUFFICES ASSUME NEW v \in InodeUsers, holds'[v].slot # 0
               PROVE  inode'[holds'[v].slot].num = holds'[v].num
    BY DEF HeldRight
  <2>1. CASE v = u
    BY <2>1, <1>3, <1>4, <1>5
  <2>2. CASE v # u
    <3>1. holds'[v] = holds[v] /\ holds[v].slot # e
      BY <2>2, <1>5, <1>7
    <3> QED BY <3>1, <1>4, HeldNumbers
  <2> QED BY <2>1, <2>2
<1>14. Mapped'
  <2>1. \A s \in Slots_ : inode'[s].num # 0 => inode'[s].num \in imap'
    <3> SUFFICES ASSUME NEW s \in Slots_, inode'[s].num # 0 PROVE inode'[s].num \in imap'
      OBVIOUS
    <3> QED BY <1>4 DEF IInv, Mapped
  <2> QED BY <2>1 DEF IInv, Mapped
<1> QED BY <1>8, <1>9, <1>10, <1>11, <1>12, <1>13, <1>14 DEF IInv
LEMMA ScanNewStep ==
  ASSUME IInv, NEW u \in InodeUsers, Scan(u), Having(does[u].num) = {}
  PROVE  IInv'
<1> DEFINE e == does[u].empty
           n == does[u].num
           c == [does[u] EXCEPT !.at = "read", !.slot = e, !.empty = 0]
<1>1. /\ does[u].at = "scan" /\ UNCHANGED diskVars
      /\ does[u] \in Calls_ /\ FitsIn(does[u], holds[u], linked) /\ does[u].op \in Ops
  BY CallType DEF Scan, At_, Calls_
<1>2. /\ inode' = [inode EXCEPT ![e].num = n]
      /\ holds' = [holds EXCEPT ![u] = [slot |-> e, num |-> n]]
      /\ does' = [does EXCEPT ![u] = c]
  BY DEF Scan, GoOn
<1>3. e \in Slots_ /\ e # 0 /\ inode[e] \in Inodes_ /\ e \in 0..NR_INODE
  BY <1>1, CallType, SlotRange DEF FitsIn
<1>4. does[u].op = "iget" /\ n \in linked /\ n \in Numbers /\ n \in imap /\ holds[u].slot = 0
  BY <1>1 DEF FitsIn, Ops, IInv, Types, Mapped
<1>5. c \in Calls_ /\ c.at = "read" /\ c.op = does[u].op /\ c.slot = e /\ c.num = n /\ c.empty = 0
  BY <1>1, <1>3, SlotRange DEF Calls_, Places
<1>6. /\ imap' = imap \cup {n} /\ linked' = linked \cup {n} /\ uses' = uses
      /\ stored' \in [Numbers -> Int] /\ latest' \in [Numbers -> Int]
  BY <1>1, <1>4 DEF diskVars, IInv, Types
<1> DEFINE h == [slot |-> e, num |-> n]
<1>7. h \in Holds_ /\ h.slot = e /\ h.num = n
  BY <1>3, <1>4 DEF Holds_
<1> HIDE DEF c, n, h
<1>8. FitsIn(c, h, linked')
  <2> HIDE DEF e
  <2>1. n # 0
    BY <1>4, InodeAssumption
  <2> QED BY <2>1, <1>3, <1>4, <1>5, <1>6, <1>7 DEF FitsIn
<1>9. \A s \in Slots_ : inode[s].num # n
  BY DEF Having, n
<1>10. /\ inode' \in [Slots_ -> Inodes_] /\ inode'[e].num = n /\ inode'[e].count = inode[e].count
      /\ \A s \in Slots_ : s # e => inode'[s] = inode[s]
  <2> HIDE DEF e
  <2> QED BY <1>2, <1>3, <1>4 DEF IInv, Types, Inodes_
<1>11. holds' = [holds EXCEPT ![u] = h] /\ does' = [does EXCEPT ![u] = c]
  BY <1>2 DEF h
<1>12. Named(u, n, c, h)
  BY <1>3, <1>4, <1>5, <1>6, <1>7, <1>8, <1>9, <1>10, <1>11 DEF Named
<1> QED BY <1>4, <1>5, <1>7, <1>12, NamedStep

LEMMA NewInodeStep ==
  ASSUME IInv, NEW u \in InodeUsers, NewInode(u), Numbers \ imap # {}
  PROVE  IInv'
<1> DEFINE e == does[u].empty
<1>1. /\ does[u].at = "new" /\ stored' = stored /\ uses' = uses
      /\ does[u] \in Calls_ /\ FitsIn(does[u], holds[u], linked) /\ does[u].op \in Ops
      /\ does' = [does EXCEPT ![u] = AtEase]
  BY CallType DEF NewInode, At_, Calls_, Done
<1>2. PICK n \in Numbers \ imap :
        /\ imap' = imap \cup {n} /\ linked' = linked \cup {n}
        /\ inode' = [inode EXCEPT ![e].num = n, ![e].dirt = TRUE]
        /\ latest' = [latest EXCEPT ![n] = 0]
        /\ holds' = [holds EXCEPT ![u] = [slot |-> e, num |-> n]]
  <2>1. Min(Numbers \ imap) \in Numbers \ imap
    <3>1. Numbers \ imap \subseteq Nat
      BY InodeAssumption
    <3> QED BY <3>1, LeastIsMember
  <2> QED BY <2>1 DEF NewInode
<1>3. e \in Slots_ /\ e # 0 /\ inode[e] \in Inodes_ /\ e \in 0..NR_INODE
  BY <1>1, CallType, SlotRange DEF FitsIn
<1>4. does[u].op = "new" /\ n \in Numbers /\ n # 0 /\ holds[u].slot = 0
  BY <1>1, <1>2, InodeAssumption DEF FitsIn, Ops
<1>5. AtEase \in Calls_ /\ AtEase.empty = 0
  BY AtEaseType
<1> DEFINE h == [slot |-> e, num |-> n]
<1>6. h \in Holds_ /\ h.slot = e /\ h.num = n
  BY <1>3, <1>4 DEF Holds_
<1> HIDE DEF h
<1>7. FitsIn(AtEase, h, linked')
  <2> HIDE DEF e
  <2> QED BY <1>3, <1>4, <1>6, AtEaseType DEF FitsIn
<1>8. \A s \in Slots_ : inode[s].num # n
  BY <1>2, <1>4 DEF IInv, Mapped
<1>9. /\ inode' \in [Slots_ -> Inodes_] /\ inode'[e].num = n /\ inode'[e].count = inode[e].count
      /\ \A s \in Slots_ : s # e => inode'[s] = inode[s]
  <2> HIDE DEF e
  <2> QED BY <1>2, <1>3, <1>4 DEF IInv, Types, Inodes_
<1>10. stored' \in [Numbers -> Int] /\ latest' \in [Numbers -> Int]
  BY <1>1, <1>2 DEF IInv, Types
<1>11. holds' = [holds EXCEPT ![u] = h] /\ does' = [does EXCEPT ![u] = AtEase]
  BY <1>1, <1>2 DEF h
<1>12. Named(u, n, AtEase, h)
  BY <1>1, <1>2, <1>3, <1>4, <1>5, <1>6, <1>7, <1>8, <1>9, <1>10, <1>11 DEF Named
<1> QED BY <1>4, <1>5, <1>6, <1>12, NamedStep

(* A slot is counted down, and its caller has it no more.                  *)
LEMMA DownStep ==
  ASSUME IInv, NEW u \in InodeUsers, NEW s \in Slots_,
         does' = [does EXCEPT ![u] = AtEase], inode' = [inode EXCEPT ![s].count = @ - 1],
         UNCHANGED diskVars,
         \/ holds[u].slot = s /\ does[u].empty = 0 /\ holds' = [holds EXCEPT ![u] = Nothing_held]
         \/ does[u].empty = s /\ holds[u].slot = 0 /\ holds' = holds
  PROVE  IInv'
<1>1. /\ does' \in [InodeUsers -> Calls_] /\ does'[u] = AtEase
      /\ \A v \in InodeUsers : v # u => does'[v] = does[v]
  BY AtEaseType, Goes DEF IInv
<1>2. Nothing_held \in Holds_ /\ Nothing_held.slot = 0 /\ Nothing_held.num = 0
  BY SlotRange DEF Nothing_held, Holds_
<1>3. /\ holds' \in [InodeUsers -> Holds_]
      /\ \A v \in InodeUsers : v # u => holds'[v] = holds[v]
      /\ holds'[u].slot = 0 /\ holds'[u].num = 0
  <2>1. holds[u].slot = 0 => holds[u].num = 0
    BY CallType DEF FitsIn
  <2> QED BY <1>2, <2>1, SlotRange DEF IInv, Types
<1>4. /\ inode' \in [Slots_ -> Inodes_] /\ inode'[s].num = inode[s].num
      /\ inode'[s].count = inode[s].count - 1
      /\ \A t \in Slots_ : t # s => inode'[t] = inode[t]
  BY DEF IInv, Types, Inodes_
<1>5. linked' = linked /\ imap' = imap /\ uses' = uses /\ stored' = stored /\ latest' = latest
  BY DEF diskVars
<1>6. Types'
  BY <1>1, <1>3, <1>4, <1>5 DEF IInv, Types
<1>7. Fitting'
  <2>1. FitsIn(does'[u], holds'[u], linked')
    BY <1>1, <1>3, AtEaseType DEF FitsIn
  <2>2. \A v \in InodeUsers : does[v].at = "truncate" => holds[v].num \notin linked
    BY DEF IInv, Fitting, FitsIn
  <2> QED BY <1>1, <1>3, <1>5, <2>1, <2>2, NamesHold, MoveFits
<1>8. CountsExact'
  <2>1. \A t \in Slots_ : inode'[t].count = inode[t].count + Gain(holds[u].slot, holds'[u].slot, t)
                                                           + Gain(does[u].empty, does'[u].empty, t)
    <3> SUFFICES ASSUME NEW t \in Slots_
                 PROVE  inode'[t].count = inode[t].count + Gain(holds[u].slot, holds'[u].slot, t)
                                                         + Gain(does[u].empty, does'[u].empty, t)
      OBVIOUS
    <3>1. Gain(holds[u].slot, holds'[u].slot, t) + Gain(does[u].empty, does'[u].empty, t)
            = IF t = s THEN -1 ELSE 0
      BY <1>1, <1>3, AtEaseType, SlotRange DEF Gain
    <3>2. inode[t].count \in Int /\ Gain(holds[u].slot, holds'[u].slot, t) \in Int
          /\ Gain(does[u].empty, does'[u].empty, t) \in Int
      BY DEF IInv, Types, Inodes_, Gain
    <3>3. inode'[t].count = inode[t].count + (IF t = s THEN -1 ELSE 0)
      BY <1>4, <3>2
    <3> QED BY <3>1, <3>2, <3>3
  <2> QED BY <2>1, <1>1, <1>3, MoveCounts DEF IInv
<1>9. \A v \in InodeUsers : v # u => does[v].empty # s
  <2> SUFFICES ASSUME NEW v \in InodeUsers, v # u, does[v].empty = s PROVE FALSE
    OBVIOUS
  <2>1. inode[s].num = 0 /\ inode[s].count = 1
    BY SlotRange DEF IInv, Emptied
  <2>2. CASE holds[u].slot = s
    BY <2>1, <2>2, HeldNumbers, SlotRange
  <2>3. CASE does[u].empty = s
    BY <2>1, <2>3, OnlyEmpties DEF IInv
  <2> QED BY <2>2, <2>3
<1>10. Emptied'
  <2> SUFFICES ASSUME NEW v \in InodeUsers, does'[v].empty # 0
               PROVE  inode'[does'[v].empty].num = 0 /\ inode'[does'[v].empty].count = 1
    BY DEF Emptied
  <2>1. v # u
    BY <1>1, AtEaseType
  <2>2. does'[v].empty = does[v].empty /\ does[v].empty # s
    BY <2>1, <1>1, <1>9
  <2>3. does[v].empty \in Slots_
    BY <2>2, CallType
  <2> QED BY <2>2, <2>3, <1>4 DEF IInv, Emptied
<1>11. \A t \in Slots_ : inode'[t].num = inode[t].num
  BY <1>4
<1>12. Alone' /\ Mapped'
  BY <1>5, <1>11 DEF IInv, Alone, Mapped
<1>13. HeldRight'
  <2> SUFFICES ASSUME NEW v \in InodeUsers, holds'[v].slot # 0
               PROVE  inode'[holds'[v].slot].num = holds'[v].num
    BY DEF HeldRight
  <2>1. holds'[v] = holds[v]
    BY <1>3
  <2> QED BY <2>1, <1>11, HeldNumbers
<1> QED BY <1>5, <1>6, <1>7, <1>8, <1>10, <1>12, <1>13 DEF IInv

LEMMA NoInodeStep ==
  ASSUME IInv, NEW u \in InodeUsers, NewInode(u), Numbers \ imap = {}
  PROVE  IInv'
<1>1. does[u].at = "new" /\ UNCHANGED diskVars /\ does' = [does EXCEPT ![u] = AtEase]
      /\ holds' = holds /\ inode' = [inode EXCEPT ![does[u].empty].count = @ - 1]
  BY DEF NewInode, At_, Done, diskVars
<1>2. does[u].empty \in Slots_ /\ holds[u].slot = 0
  <2>1. does[u] \in Calls_ /\ FitsIn(does[u], holds[u], linked) /\ does[u].op \in Ops
    BY CallType DEF Calls_
  <2> QED BY <1>1, <2>1, CallType DEF FitsIn, Ops
<1> QED BY <1>1, <1>2, DownStep

LEMMA LetGoStep ==
  ASSUME IInv, NEW u \in InodeUsers, Iput(u), LetGo(Mine(u))
  PROVE  IInv'
<1>1. /\ does[u].at = "put" /\ UNCHANGED diskVars
      /\ does[u] \in Calls_ /\ FitsIn(does[u], holds[u], linked) /\ does[u].op \in Ops
  BY CallType DEF Iput, At_, Calls_
<1>2. does[u].slot \in Slots_ /\ holds[u].slot = does[u].slot /\ does[u].empty = 0
  BY <1>1, CallType DEF FitsIn, Ops
<1>3. /\ inode' = [inode EXCEPT ![does[u].slot].count = @ - 1]
      /\ holds' = [holds EXCEPT ![u] = Nothing_held] /\ does' = [does EXCEPT ![u] = AtEase]
  <2>1. Mine(u).count = 1 => ~(Mine(u).num \notin linked \/ Mine(u).dirt)
    BY DEF LetGo
  <2> QED BY <2>1 DEF Iput, Done
<1> QED BY <1>1, <1>2, <1>3, DownStep

(* iget has found the inode: its empty slot is given back for it.          *)
LEMMA JoinStep ==
  ASSUME IInv, NEW u \in InodeUsers, FoundUnlocked(u), ~Changed(u)
  PROVE  IInv'
<1> DEFINE s == does[u].slot
           e == does[u].empty
           h == [slot |-> s, num |-> does[u].num]
<1>1. /\ does[u].at = "found" /\ UNCHANGED diskVars
      /\ does[u] \in Calls_ /\ FitsIn(does[u], holds[u], linked) /\ does[u].op \in Ops
  BY CallType DEF FoundUnlocked, At_, Calls_
<1>2. /\ inode' = [inode EXCEPT ![s].count = @ + 1, ![e].count = @ - 1]
      /\ holds' = [holds EXCEPT ![u] = h] /\ does' = [does EXCEPT ![u] = AtEase]
  BY DEF FoundUnlocked, Done
<1>3. /\ s \in Slots_ /\ s # 0 /\ e \in Slots_ /\ e # 0 /\ inode[s] \in Inodes_ /\ inode[e] \in Inodes_
      /\ s \in 0..NR_INODE /\ holds[u].slot = 0 /\ does[u].num \in linked /\ does[u].num \in Numbers
      /\ does[u].num # 0
  <2>1. does[u].op = "iget"
    BY <1>1 DEF FitsIn, Ops
  <2> QED BY <1>1, <2>1, CallType, SlotRange, InodeAssumption DEF FitsIn, Mine, IInv, Types
<1>4. inode[s].num = does[u].num /\ inode[e].num = 0 /\ inode[e].count = 1 /\ s # e
  BY <1>3 DEF Changed, Mine, IInv, Emptied
<1>5. h \in Holds_ /\ h.slot = s /\ h.num = does[u].num
  BY <1>3 DEF Holds_
<1> HIDE DEF h
<1>6. /\ inode' \in [Slots_ -> Inodes_]
      /\ inode'[s].num = inode[s].num /\ inode'[s].count = inode[s].count + 1
      /\ inode'[e].num = inode[e].num /\ inode'[e].count = inode[e].count - 1
      /\ \A t \in Slots_ : t # s /\ t # e => inode'[t] = inode[t]
  <2> HIDE DEF s, e
  <2> DEFINE more == [inode[s] EXCEPT !.count = @ + 1]
             less == [inode[e] EXCEPT !.count = @ - 1]
  <2>1. more \in Inodes_ /\ more.num = inode[s].num /\ more.count = inode[s].count + 1
    BY <1>3 DEF Inodes_
  <2>2. less \in Inodes_ /\ less.num = inode[e].num /\ less.count = inode[e].count - 1
    BY <1>3 DEF Inodes_
  <2>3. inode \in [Slots_ -> Inodes_]
    BY DEF IInv, Types
  <2>4. inode' = [inode EXCEPT ![s] = more, ![e] = less]
    BY <1>2, <1>3, <1>4, <2>3
  <2> HIDE DEF more, less
  <2> QED BY <1>3, <1>4, <2>1, <2>2, <2>3, <2>4
<1>7. /\ does' \in [InodeUsers -> Calls_] /\ does'[u] = AtEase
      /\ \A v \in InodeUsers : v # u => does'[v] = does[v]
  BY <1>2, AtEaseType, Goes DEF IInv
<1>8. /\ holds' \in [InodeUsers -> Holds_] /\ holds'[u] = h
      /\ \A v \in InodeUsers : v # u => holds'[v] = holds[v]
  BY <1>2, <1>5 DEF IInv, Types
<1>9. linked' = linked /\ imap' = imap /\ uses' = uses /\ stored' = stored /\ latest' = latest
  BY <1>1 DEF diskVars
<1>10. Types'
  BY <1>6, <1>7, <1>8, <1>9 DEF IInv, Types
<1>11. \A t \in Slots_ : inode'[t].num = inode[t].num
  BY <1>6
<1>12. \A v \in InodeUsers : v # u => does[v].empty # e /\ does[v].empty # s
  <2> SUFFICES ASSUME NEW v \in InodeUsers, v # u PROVE does[v].empty # e /\ does[v].empty # s
    OBVIOUS
  <2>1. does[v].empty # e
    BY <1>3, <1>4, OnlyEmpties DEF IInv
  <2>2. does[v].empty # s
    BY <1>3, <1>4 DEF IInv, Emptied
  <2> QED BY <2>1, <2>2
<1>13. Fitting'
  <2>1. FitsIn(does'[u], holds'[u], linked')
    BY <1>3, <1>5, <1>7, <1>8, AtEaseType DEF FitsIn
  <2>2. \A v \in InodeUsers : does[v].at = "truncate" => holds[v].num \notin linked
    BY DEF IInv, Fitting, FitsIn
  <2> QED BY <1>7, <1>8, <1>9, <2>1, <2>2, NamesHold, MoveFits
<1>14. CountsExact'
  <2>1. \A t \in Slots_ : inode'[t].count = inode[t].count + Gain(holds[u].slot, holds'[u].slot, t)
                                                           + Gain(does[u].empty, does'[u].empty, t)
    <3> SUFFICES ASSUME NEW t \in Slots_
                 PROVE  inode'[t].count = inode[t].count + Gain(holds[u].slot, holds'[u].slot, t)
                                                         + Gain(does[u].empty, does'[u].empty, t)
      OBVIOUS
    <3>1. Gain(holds[u].slot, holds'[u].slot, t) = IF t = s THEN 1 ELSE 0
      BY <1>3, <1>5, <1>8, SlotRange DEF Gain
    <3>2. Gain(does[u].empty, does'[u].empty, t) = IF t = e THEN -1 ELSE 0
      BY <1>3, <1>7, AtEaseType, SlotRange DEF Gain
    <3>3. inode[t].count \in Int
      BY DEF IInv, Types, Inodes_
    <3> HIDE DEF s, e
    <3>4. CASE t = s
      BY <3>1, <3>2, <3>3, <3>4, <1>4, <1>6
    <3>5. CASE t = e
      BY <3>1, <3>2, <3>3, <3>5, <1>4, <1>6
    <3>6. CASE t # s /\ t # e
      <4>1. inode'[t].count = inode[t].count
        BY <3>6, <1>6
      <4> QED BY <4>1, <3>1, <3>2, <3>3, <3>6
    <3> QED BY <3>4, <3>5, <3>6
  <2> QED BY <2>1, <1>7, <1>8, MoveCounts DEF IInv
<1>15. Emptied'
  <2> SUFFICES ASSUME NEW v \in InodeUsers, does'[v].empty # 0
               PROVE  inode'[does'[v].empty].num = 0 /\ inode'[does'[v].empty].count = 1
    BY DEF Emptied
  <2>1. v # u
    BY <1>7, AtEaseType
  <2>2. does'[v].empty = does[v].empty /\ does[v].empty # e /\ does[v].empty # s
    BY <2>1, <1>7, <1>12
  <2>3. does[v].empty \in Slots_
    BY <2>2, CallType
  <2> QED BY <2>2, <2>3, <1>6 DEF IInv, Emptied
<1>16. Alone' /\ Mapped'
  BY <1>9, <1>11 DEF IInv, Alone, Mapped
<1>17. HeldRight'
  <2> SUFFICES ASSUME NEW v \in InodeUsers, holds'[v].slot # 0
               PROVE  inode'[holds'[v].slot].num = holds'[v].num
    BY DEF HeldRight
  <2>1. CASE v = u
    BY <2>1, <1>3, <1>4, <1>5, <1>8, <1>11
  <2>2. CASE v # u
    <3>1. holds'[v] = holds[v]
      BY <2>2, <1>8
    <3> QED BY <3>1, <1>11, HeldNumbers
  <2> QED BY <2>1, <2>2
<1> QED BY <1>9, <1>10, <1>13, <1>14, <1>15, <1>16, <1>17 DEF IInv

(* free_inode: the number is free, and so is the slot, which only u has.   *)
LEMMA FreeStep ==
  ASSUME IInv, NEW u \in InodeUsers, FreeInode(u)
  PROVE  IInv'
<1> DEFINE s == does[u].slot
           n == Mine(u).num
           r == [Blank EXCEPT !.count = 0]
<1>1. /\ does[u].at = "truncate" /\ Mine(u).count = 1 /\ UNCHANGED <<stored, linked, latest, uses>>
      /\ does[u] \in Calls_ /\ FitsIn(does[u], holds[u], linked) /\ does[u].op \in Ops
      /\ imap' = imap \ {n} /\ inode' = [inode EXCEPT ![s] = r]
      /\ holds' = [holds EXCEPT ![u] = Nothing_held] /\ does' = [does EXCEPT ![u] = AtEase]
  BY CallType DEF FreeInode, At_, Calls_, Cleared, Done
<1>2. /\ s \in Slots_ /\ s # 0 /\ holds[u].slot = s /\ does[u].empty = 0 /\ inode[s].count = 1
      /\ inode[s].num = n /\ holds[u].num = n /\ n # 0 /\ n \notin linked
  <2>1. s \in Slots_ /\ s # 0 /\ holds[u].slot = s /\ does[u].empty = 0 /\ holds[u].num \notin linked
    BY <1>1, CallType, SlotRange DEF FitsIn, Ops
  <2>2. inode[s].num = n /\ inode[s].count = 1
    BY <1>1 DEF Mine
  <2>3. holds[u].num = inode[s].num /\ holds[u].num # 0
    BY <2>1, HeldNumbers
  <2> QED BY <2>1, <2>2, <2>3
<1>3. r \in Inodes_ /\ r.num = 0 /\ r.count = 0
  BY BlankType DEF Inodes_
<1>4. Nothing_held \in Holds_ /\ Nothing_held.slot = 0 /\ Nothing_held.num = 0
  BY SlotRange DEF Nothing_held, Holds_
<1> HIDE DEF s, n, r
<1>5. /\ does' \in [InodeUsers -> Calls_] /\ does'[u] = AtEase
      /\ \A v \in InodeUsers : v # u => does'[v] = does[v]
  BY <1>1, AtEaseType, Goes DEF IInv
<1>6. /\ holds' \in [InodeUsers -> Holds_] /\ holds'[u].slot = 0 /\ holds'[u].num = 0
      /\ \A v \in InodeUsers : v # u => holds'[v] = holds[v]
  BY <1>1, <1>4 DEF IInv, Types
<1>7. /\ inode' \in [Slots_ -> Inodes_] /\ inode'[s].num = 0 /\ inode'[s].count = 0
      /\ \A t \in Slots_ : t # s => inode'[t] = inode[t]
  BY <1>1, <1>2, <1>3 DEF IInv, Types
<1>8. Types'
  BY <1>1, <1>5, <1>6, <1>7 DEF IInv, Types
<1>9. \A v \in InodeUsers : does[v].empty # s /\ (v # u => holds[v].slot # s)
  BY <1>2, OnlyHolders DEF IInv
<1>10. Fitting'
  <2>1. FitsIn(does'[u], holds'[u], linked')
    BY <1>5, <1>6, AtEaseType DEF FitsIn
  <2>2. \A v \in InodeUsers : does[v].at = "truncate" => holds[v].num \notin linked
    BY DEF IInv, Fitting, FitsIn
  <2> QED BY <1>1, <1>5, <1>6, <2>1, <2>2, NamesHold, MoveFits
<1>11. CountsExact'
  <2>1. \A t \in Slots_ : inode'[t].count = inode[t].count + Gain(holds[u].slot, holds'[u].slot, t)
                                                           + Gain(does[u].empty, does'[u].empty, t)
    <3> SUFFICES ASSUME NEW t \in Slots_
                 PROVE  inode'[t].count = inode[t].count + Gain(holds[u].slot, holds'[u].slot, t)
                                                         + Gain(does[u].empty, does'[u].empty, t)
      OBVIOUS
    <3>1. Gain(holds[u].slot, holds'[u].slot, t) = IF t = s THEN -1 ELSE 0
      BY <1>2, <1>6, SlotRange DEF Gain
    <3>2. Gain(does[u].empty, does'[u].empty, t) = 0
      BY <1>2, <1>5, AtEaseType DEF Gain
    <3>3. inode[t].count \in Int
      BY DEF IInv, Types, Inodes_
    <3>4. CASE t = s
      BY <3>1, <3>2, <3>4, <1>2, <1>7
    <3>5. CASE t # s
      <4>1. inode'[t].count = inode[t].count
        BY <3>5, <1>7
      <4> QED BY <4>1, <3>1, <3>2, <3>3, <3>5
    <3> QED BY <3>4, <3>5
  <2> QED BY <2>1, <1>5, <1>6, MoveCounts DEF IInv
<1>12. Emptied'
  <2> SUFFICES ASSUME NEW v \in InodeUsers, does'[v].empty # 0
               PROVE  inode'[does'[v].empty].num = 0 /\ inode'[does'[v].empty].count = 1
    BY DEF Emptied
  <2>1. v # u
    BY <1>5, AtEaseType
  <2>2. does'[v].empty = does[v].empty /\ does[v].empty # s
    BY <2>1, <1>5, <1>9
  <2>3. does[v].empty \in Slots_
    BY <2>2, CallType
  <2> QED BY <2>2, <2>3, <1>7 DEF IInv, Emptied
<1>13. Alone'
  BY <1>7 DEF IInv, Alone
<1>14. HeldRight'
  <2> SUFFICES ASSUME NEW v \in InodeUsers, holds'[v].slot # 0
               PROVE  inode'[holds'[v].slot].num = holds'[v].num
    BY DEF HeldRight
  <2>1. v # u /\ holds'[v] = holds[v] /\ holds[v].slot # s
    BY <1>6, <1>9
  <2> QED BY <2>1, <1>7, HeldNumbers
<1>15. Mapped'
  <2>1. \A t \in Slots_ : inode'[t].num # 0 => inode'[t].num \in imap'
    <3> SUFFICES ASSUME NEW t \in Slots_, inode'[t].num # 0 PROVE inode'[t].num \in imap'
      OBVIOUS
    <3>1. t # s /\ inode'[t] = inode[t] /\ inode[t].num # n
      BY <1>2, <1>7 DEF IInv, Alone
    <3> QED BY <3>1, <1>1 DEF IInv, Mapped
  <2> QED BY <2>1, <1>1, <1>2 DEF IInv, Mapped
<1> QED BY <1>1, <1>8, <1>10, <1>11, <1>12, <1>13, <1>14, <1>15 DEF IInv

-----------------------------------------------------------------------------
LEMMA IInvInit ==
  ASSUME InodesRest, "race" \notin uses
  PROVE  IInv
<1> USE DEF InodesRest
<1>1. Nothing_held \in Holds_ /\ Nothing_held.slot = 0 /\ Nothing_held.num = 0
  BY SlotRange DEF Nothing_held, Holds_
<1>2. /\ inode = [s \in Slots_ |-> Blank] /\ linked \subseteq Numbers /\ imap = linked
      /\ stored = [n \in Numbers |-> 0] /\ latest = stored
      /\ does = [u \in InodeUsers |-> AtEase] /\ holds = [u \in InodeUsers |-> Nothing_held]
  OBVIOUS
<1>3. /\ \A s \in Slots_ : inode[s] = Blank
      /\ \A u \in InodeUsers : does[u] = AtEase /\ holds[u] = Nothing_held
  BY <1>2
<1>4. Types
  BY <1>1, <1>2, AtEaseType, BlankType DEF Types
<1>5. Fitting
  <2>1. FitsIn(AtEase, Nothing_held, linked)
    BY <1>1, AtEaseType DEF FitsIn
  <2> QED BY <1>3, <2>1 DEF Fitting
<1>6. CountsExact
  <2> SUFFICES ASSUME NEW s \in Slots_
               PROVE  inode[s].count = Cardinality(HoldersIn(holds, s)) + Cardinality(EmptiesIn(does, s))
    BY DEF CountsExact
  <2>1. HoldersIn(holds, s) = {} /\ EmptiesIn(does, s) = {}
    BY <1>1, <1>3, AtEaseType, SlotRange DEF HoldersIn, EmptiesIn
  <2>2. inode[s].count = 0
    BY <1>3, BlankType
  <2> QED BY <2>1, <2>2, FS_EmptySet
<1>7. Emptied /\ HeldRight
  BY <1>1, <1>3, AtEaseType DEF Emptied, HeldRight
<1>8. Alone /\ Mapped
  BY <1>2, <1>3, BlankType DEF Alone, Mapped
<1> QED BY <1>4, <1>5, <1>6, <1>7, <1>8 DEF IInv

LEMMA IInvNext ==
  ASSUME IInv, [InodeNext]_inodeVars
  PROVE  IInv'
<1>1. ASSUME NEW u \in InodeUsers, SleepOnInode(u) \/ RunAgain(u)
      PROVE  IInv'
  BY <1>1, SleepStep
<1>2. ASSUME NEW u \in InodeUsers, CallIget(u) \/ CallNewInode(u) \/ CallIput(u) \/ CallSync(u)
      PROVE  IInv'
  BY <1>2, BeginStep
<1>3. ASSUME NEW u \in InodeUsers, ChangeHeld(u) \/ LastUnlink(u)
      PROVE  IInv'
  BY <1>3, HeldStep
<1>4. ASSUME NEW u \in InodeUsers, EmptySearch(u)
      PROVE  IInv'
  BY <1>4, SearchStep
<1>5. ASSUME NEW u \in InodeUsers, EmptyFound(u)
      PROVE  IInv'
  <2>1. CASE Mine(u).dirt \/ Mine(u).count # 0
    BY <1>5, <2>1, FoundInUseStep
  <2>2. CASE ~Mine(u).dirt /\ Mine(u).count = 0
    BY <1>5, <2>2, TakeStep
  <2> QED BY <2>1, <2>2
<1>6. ASSUME NEW u \in InodeUsers, Scan(u)
      PROVE  IInv'
  BY <1>6, ScanFoundStep, ScanNewStep
<1>7. ASSUME NEW u \in InodeUsers, FoundUnlocked(u)
      PROVE  IInv'
  BY <1>7, FoundOtherStep, JoinStep
<1>8. ASSUME NEW u \in InodeUsers, ReadInode(u)
      PROVE  IInv'
  BY <1>8, ReadStep
<1>9. ASSUME NEW u \in InodeUsers, HasRead(u)
      PROVE  IInv'
  BY <1>9, HasReadStep
<1>10. ASSUME NEW u \in InodeUsers, NewInode(u)
       PROVE  IInv'
  BY <1>10, NewInodeStep, NoInodeStep
<1>11. ASSUME NEW u \in InodeUsers, WriteInode_(u)
       PROVE  IInv'
  BY <1>11, WriteStep
<1>12. ASSUME NEW u \in InodeUsers, HasWritten(u)
       PROVE  IInv'
  BY <1>12, HasWrittenStep
<1>13. ASSUME NEW u \in InodeUsers, Iput(u)
       PROVE  IInv'
  BY <1>13, LetGoStep, IputWaitsStep
<1>14. ASSUME NEW u \in InodeUsers, FreeInode(u)
       PROVE  IInv'
  BY <1>14, FreeStep
<1>15. ASSUME NEW u \in InodeUsers, SyncInodes_(u)
       PROVE  IInv'
  BY <1>15, SyncStep
<1>16. CASE UNCHANGED inodeVars
  <2>1. UNCHANGED <<inode, stored, linked, imap, does, holds, latest, uses>>
    BY <1>16 DEF inodeVars
  <2>2. Types' /\ Fitting' /\ Emptied' /\ Alone' /\ HeldRight' /\ Mapped' /\ "race" \notin uses'
    BY <2>1 DEF IInv, Types, Fitting, Emptied, Alone, HeldRight, Mapped
  <2>3. CountsExact'
    BY <2>1 DEF IInv, CountsExact
  <2> QED BY <2>2, <2>3 DEF IInv
<1> QED BY <1>1, <1>2, <1>3, <1>4, <1>5, <1>6, <1>7, <1>8, <1>9, <1>10, <1>11, <1>12, <1>13, <1>14,
           <1>15, <1>16 DEF InodeNext

LEMMA IInvApart == IInv => OneSlotEach
BY DEF IInv, Alone, HeldRight, CountsExact, HoldersIn, EmptiesIn, OneSlotEach

-----------------------------------------------------------------------------
(* The second part.  What a call under way knows of its inode i while r    *)
(* runs: it goes to write or read in the same step in which it saw that    *)
(* the inode is not locked.                                                *)
OrderlyIn(c, i, u, r, us) ==
  /\ c.at \in {"free", "write", "read"} => r = u /\ ~i.lock
  /\ c.at = "free" => i.count = 0
  /\ c.at \in {"write", "writing"} => c.op \in {"iput", "sync"}
  /\ c.at \in {"reading", "writing"} => i.lock
  /\ c.at \in {"read", "reading"} => i.count = 1 /\ ~i.dirt
  /\ c.op = "sync" => "sync" \in us
  /\ c.at = "truncate" => "unlink" \in us
IsBlank(i) == ~i.lock /\ ~i.dirt /\ i.data = 0
Busy(c) == c.at \in {"reading", "writing"}

Order ==
  /\ \A u \in InodeUsers : OrderlyIn(does[u], inode[does[u].slot], u, runs, uses)
  /\ \A s \in Slots_ : inode[s].count = 0 => ~inode[s].lock /\ ~inode[s].dirt
  /\ \A u \in InodeUsers : does[u].empty # 0 => IsBlank(inode[does[u].empty])
  /\ \A u, v \in InodeUsers : Busy(does[u]) /\ Busy(does[v]) /\ does[u].slot = does[v].slot => u = v
  /\ "unlink" \notin uses => linked = imap
  /\ ~("sync" \in uses /\ "unlink" \in uses)

(* InodeChangesKept, slot by slot.                                         *)
Kept ==
  \A n \in linked :
    /\ \A s \in Slots_ : inode[s].num = n /\ ~Reading(n) => inode[s].data = latest[n]
    /\ (\A s \in Slots_ : inode[s].num = n => ~inode[s].dirt) => stored[n] = latest[n]

(* What a step of u leaves in order.                                       *)
Tidy(u) ==
  /\ runs \in {NoInodeUser, u} /\ uses' = uses
  /\ \A v \in InodeUsers : v # u => does'[v] = does[v]
  /\ \A v \in InodeUsers : v # u /\ Busy(does[v]) => inode'[does[v].slot].lock
  /\ \A v \in InodeUsers : v # u /\ does[v].at = "reading" =>
       /\ inode'[does[v].slot].count = inode[does[v].slot].count
       /\ inode'[does[v].slot].dirt = inode[does[v].slot].dirt
  /\ OrderlyIn(does'[u], inode'[does'[u].slot], u, runs', uses)
  /\ \A s \in Slots_ : inode'[s].count = 0 => ~inode'[s].lock /\ ~inode'[s].dirt
  /\ \A v \in InodeUsers : v # u /\ does[v].empty # 0 => IsBlank(inode'[does[v].empty])
  /\ does'[u].empty # 0 => IsBlank(inode'[does'[u].empty])
  /\ Busy(does'[u]) => \A v \in InodeUsers : v # u /\ Busy(does[v]) => does[v].slot # does'[u].slot
  /\ "unlink" \notin uses => linked' = imap'

(* While u runs no other call is in between.                               *)
LEMMA NoneBetween ==
  ASSUME Order, NEW u \in InodeUsers, runs \in {NoInodeUser, u}
  PROVE  \A v \in InodeUsers : v # u => does[v].at \notin {"free", "write", "read"}
BY InodeAssumption DEF Order, OrderlyIn

LEMMA TidyKeeps ==
  ASSUME Order, NEW u \in InodeUsers, Tidy(u)
  PROVE  Order'
<1>1. \A v \in InodeUsers : OrderlyIn(does'[v], inode'[does'[v].slot], v, runs', uses')
  <2> SUFFICES ASSUME NEW v \in InodeUsers
               PROVE  OrderlyIn(does'[v], inode'[does'[v].slot], v, runs', uses')
    OBVIOUS
  <2>1. CASE v = u
    BY <2>1 DEF Tidy
  <2>2. CASE v # u
    <3>1. does'[v] = does[v] /\ uses' = uses
      BY <2>2 DEF Tidy
    <3>2. OrderlyIn(does[v], inode[does[v].slot], v, runs, uses)
      BY DEF Order
    <3>3. does[v].at \notin {"free", "write", "read"}
      BY <2>2, NoneBetween DEF Tidy
    <3>4. does[v].at \in {"reading", "writing"} => inode'[does[v].slot].lock
      BY <2>2 DEF Tidy, Busy
    <3>5. does[v].at = "reading" => inode'[does[v].slot].count = inode[does[v].slot].count
                                    /\ inode'[does[v].slot].dirt = inode[does[v].slot].dirt
      BY <2>2 DEF Tidy
    <3>6. OrderlyIn(does[v], inode'[does[v].slot], v, runs', uses)
      BY <3>2, <3>3, <3>4, <3>5 DEF OrderlyIn
    <3> QED BY <3>1, <3>6
  <2> QED BY <2>1, <2>2
<1>2. \A s \in Slots_ : inode'[s].count = 0 => ~inode'[s].lock /\ ~inode'[s].dirt
  BY DEF Tidy
<1>3. \A v \in InodeUsers : does'[v].empty # 0 => IsBlank(inode'[does'[v].empty])
  BY DEF Tidy, Order
<1>4. \A v, w \in InodeUsers :
        Busy(does'[v]) /\ Busy(does'[w]) /\ does'[v].slot = does'[w].slot => v = w
  <2> SUFFICES ASSUME NEW v \in InodeUsers, NEW w \in InodeUsers, Busy(does'[v]), Busy(does'[w]),
                      does'[v].slot = does'[w].slot, v # w
               PROVE  FALSE
    OBVIOUS
  <2>1. CASE v = u
    BY <2>1 DEF Tidy
  <2>2. CASE w = u
    BY <2>2 DEF Tidy
  <2>3. CASE v # u /\ w # u
    BY <2>3 DEF Tidy, Order
  <2> QED BY <2>1, <2>2, <2>3
<1>5. ("unlink" \notin uses' => linked' = imap') /\ ~("sync" \in uses' /\ "unlink" \in uses')
  BY DEF Tidy, Order
<1> QED BY <1>1, <1>2, <1>3, <1>4, <1>5 DEF Order

(* A slot that is not locked is nobody's who waits for a block.            *)
LEMMA UnlockedFree ==
  ASSUME Order, NEW s, ~inode[s].lock
  PROVE  \A v \in InodeUsers : Busy(does[v]) => does[v].slot # s
BY DEF Order, OrderlyIn, Busy

(* A step of a call that leaves the inodes and the disk alone.             *)
LEMMA OnlyCalls ==
  ASSUME IInv, Order, NEW u \in InodeUsers, runs \in {NoInodeUser, u}, NEW c \in Calls_,
         does' = [does EXCEPT ![u] = c], UNCHANGED <<inode, diskVars>>,
         c.empty = does[u].empty, OrderlyIn(c, inode[c.slot], u, runs', uses),
         Busy(c) => c = does[u]
  PROVE  Order'
<1>1. /\ does'[u] = c
      /\ \A v \in InodeUsers : v # u => does'[v] = does[v]
  BY Goes DEF IInv
<1>2. inode' = inode /\ linked' = linked /\ imap' = imap /\ uses' = uses
  BY DEF diskVars
<1>3. /\ \A v \in InodeUsers : Busy(does[v]) => inode[does[v].slot].lock
      /\ \A s \in Slots_ : inode[s].count = 0 => ~inode[s].lock /\ ~inode[s].dirt
      /\ "unlink" \notin uses => linked = imap
      /\ \A v \in InodeUsers : does[v].empty # 0 => IsBlank(inode[does[v].empty])
  BY DEF Order, OrderlyIn, Busy
<1>4. Busy(c) => \A v \in InodeUsers : v # u /\ Busy(does[v]) => does[v].slot # c.slot
  BY DEF Order
<1>5. Tidy(u)
  BY <1>1, <1>2, <1>3, <1>4 DEF Tidy
<1> QED BY <1>5, TidyKeeps

(* A step that changes the slot s only, which nobody else reads or writes. *)
SlotOnly(u, s, c) ==
  /\ runs \in {NoInodeUser, u} /\ does' = [does EXCEPT ![u] = c] /\ uses' = uses
  /\ \A t \in Slots_ : t # s => inode'[t] = inode[t]
  /\ \A v \in InodeUsers : v # u /\ Busy(does[v]) => does[v].slot # s
  /\ \A v \in InodeUsers : v # u /\ does[v].empty = s => IsBlank(inode'[s])
  /\ OrderlyIn(c, inode'[c.slot], u, runs', uses)
  /\ inode'[s].count = 0 => ~inode'[s].lock /\ ~inode'[s].dirt
  /\ c.empty # 0 => IsBlank(inode'[c.empty])
  /\ Busy(c) => c.slot = s
  /\ "unlink" \notin uses => linked' = imap'
LEMMA OnlySlot ==
  ASSUME IInv, Order, NEW u \in InodeUsers, NEW c \in Calls_, NEW s \in Slots_, SlotOnly(u, s, c)
  PROVE  Order'
<1> USE DEF SlotOnly
<1>1. /\ does'[u] = c
      /\ \A v \in InodeUsers : v # u => does'[v] = does[v]
  BY Goes DEF IInv
<1>2. \A v \in InodeUsers : v # u /\ Busy(does[v]) => inode'[does[v].slot] = inode[does[v].slot]
  <2> SUFFICES ASSUME NEW v \in InodeUsers, v # u, Busy(does[v])
               PROVE  inode'[does[v].slot] = inode[does[v].slot]
    OBVIOUS
  <2>1. does[v].slot \in Slots_ /\ does[v].slot # s
    BY CallType DEF FitsIn, Busy
  <2> QED BY <2>1
<1>3. \A v \in InodeUsers : v # u /\ does[v].empty # 0 => IsBlank(inode'[does[v].empty])
  BY CallType DEF Order
<1>4. /\ \A v \in InodeUsers : Busy(does[v]) => inode[does[v].slot].lock
      /\ \A t \in Slots_ : inode[t].count = 0 => ~inode[t].lock /\ ~inode[t].dirt
  BY DEF Order, OrderlyIn, Busy
<1>5. \A t \in Slots_ : inode'[t].count = 0 => ~inode'[t].lock /\ ~inode'[t].dirt
  BY <1>4
<1>6. \A v \in InodeUsers : does[v].at = "reading" => Busy(does[v])
  BY DEF Busy
<1>7. Tidy(u)
  BY <1>1, <1>2, <1>3, <1>4, <1>5, <1>6 DEF Tidy
<1> QED BY <1>7, TidyKeeps

(* Steps that change nothing of what is kept.                              *)
LEMMA ReadingOn ==
  ASSUME NEW u \in InodeUsers, \A v \in InodeUsers : v # u => does'[v] = does[v],
         \/ does[u].at \notin {"read", "reading"}
         \/ does'[u].at \in {"read", "reading"} /\ does'[u].num = does[u].num
  PROVE  \A n : Reading(n) => Reading(n)'
BY DEF Reading

LEMMA KeptSame ==
  ASSUME Kept, linked' \subseteq linked, stored' = stored, latest' = latest,
         \A s \in Slots_ : inode'[s].num \in linked' =>
                             inode'[s].num = inode[s].num /\ inode'[s].data = inode[s].data,
         \A s \in Slots_ : inode[s].num \in linked' /\ inode[s].dirt =>
                             inode'[s].num = inode[s].num /\ inode'[s].dirt,
         \A n : Reading(n) => Reading(n)'
  PROVE  Kept'
<1> SUFFICES ASSUME NEW n \in linked'
             PROVE  /\ \A s \in Slots_ : inode'[s].num = n /\ ~Reading(n)' => inode'[s].data = latest'[n]
                    /\ (\A s \in Slots_ : inode'[s].num = n => ~inode'[s].dirt) => stored'[n] = latest'[n]
  BY DEF Kept
<1>1. /\ \A s \in Slots_ : inode[s].num = n /\ ~Reading(n) => inode[s].data = latest[n]
      /\ (\A s \in Slots_ : inode[s].num = n => ~inode[s].dirt) => stored[n] = latest[n]
  BY DEF Kept
<1>2. \A s \in Slots_ : inode'[s].num = n /\ ~Reading(n)' => inode'[s].data = latest'[n]
  BY <1>1
<1>3. (\A s \in Slots_ : inode'[s].num = n => ~inode'[s].dirt) => stored'[n] = latest'[n]
  BY <1>1
<1> QED BY <1>2, <1>3

LEMMA KeptCalls ==
  ASSUME Kept, UNCHANGED <<inode, diskVars>>, \A n : Reading(n) => Reading(n)'
  PROVE  Kept'
BY KeptSame DEF diskVars

LEMMA SleepOrder ==
  ASSUME IInv, Order, Kept, NEW u \in InodeUsers, SleepOnInode(u) \/ RunAgain(u)
  PROVE  Order' /\ Kept'
<1>1. UNCHANGED <<inode, diskVars>> /\ does' = does /\ runs \in {NoInodeUser, u}
  BY DEF SleepOnInode, RunAgain, Runs
<1>2. does' = [does EXCEPT ![u] = does[u]] /\ does[u] \in Calls_
  BY <1>1 DEF IInv, Types
<1>3. OrderlyIn(does[u], inode[does[u].slot], u, runs, uses)
  BY DEF Order
<1>4. does[u].at \notin {"free", "write", "read"}
  <2>1. CASE SleepOnInode(u)
    BY <1>3, <2>1 DEF SleepOnInode, Locked, OrderlyIn
  <2>2. CASE RunAgain(u)
    BY <1>3, <2>2, InodeAssumption DEF RunAgain, OrderlyIn
  <2> QED BY <2>1, <2>2
<1>5. OrderlyIn(does[u], inode[does[u].slot], u, runs', uses)
  BY <1>3, <1>4 DEF OrderlyIn
<1>6. Order'
  BY <1>1, <1>2, <1>5, OnlyCalls
<1>7. \A n : Reading(n) => Reading(n)'
  BY <1>1 DEF Reading
<1> QED BY <1>1, <1>6, <1>7, KeptCalls

(* A call begins, ends or goes on, and does not read.                      *)
LEMMA CallsOrder ==
  ASSUME IInv, Order, Kept, NEW u \in InodeUsers, runs \in {NoInodeUser, u}, NEW c \in Calls_,
         does' = [does EXCEPT ![u] = c], UNCHANGED <<inode, diskVars>>,
         c.empty = does[u].empty, OrderlyIn(c, inode[c.slot], u, runs', uses),
         ~Busy(c), does[u].at \notin {"read", "reading"}
  PROVE  Order' /\ Kept'
<1>1. Order'
  BY OnlyCalls
<1>2. \A v \in InodeUsers : v # u => does'[v] = does[v]
  BY Goes DEF IInv
<1>3. \A n : Reading(n) => Reading(n)'
  BY <1>2, ReadingOn
<1> QED BY <1>1, <1>3, KeptCalls

LEMMA BeginOrder ==
  ASSUME IInv, Order, Kept, NEW u \in InodeUsers,
         CallIget(u) \/ CallNewInode(u) \/ CallIput(u) \/ CallSync(u)
  PROVE  Order' /\ Kept'
<1>1. /\ does[u] = AtEase /\ runs \in {NoInodeUser, u} /\ UNCHANGED <<inode, diskVars>>
      /\ does[u].empty = 0 /\ does[u].at = "user"
  BY AtEaseType DEF CallIget, CallNewInode, CallIput, CallSync, Idle_, Begin_
<1>2. PICK c \in Calls_ :
        /\ does' = [does EXCEPT ![u] = c] /\ c.empty = 0
        /\ c.at \in {"empty", "put", "sync"} /\ (c.op = "sync" => "sync" \in uses)
  <2>1. CASE CallIget(u)
    <3>1. PICK n \in linked : does' = [does EXCEPT ![u] = [AtEase EXCEPT !.op = "iget", !.at = "empty", !.num = n]]
      BY <2>1 DEF CallIget, Begin_, GoOn
    <3> DEFINE c == [AtEase EXCEPT !.op = "iget", !.at = "empty", !.num = n]
    <3>2. c \in Calls_ /\ c.op = "iget" /\ c.at = "empty" /\ c.empty = 0
      BY AtEaseType DEF Calls_, Ops, Places, IInv, Types
    <3> QED BY <3>1, <3>2
  <2>2. CASE CallNewInode(u)
    <3> DEFINE c == [AtEase EXCEPT !.op = "new", !.at = "empty"]
    <3>1. does' = [does EXCEPT ![u] = c]
      BY <2>2 DEF CallNewInode, Begin_, GoOn
    <3>2. c \in Calls_ /\ c.op = "new" /\ c.at = "empty" /\ c.empty = 0
      BY AtEaseType DEF Calls_, Ops, Places
    <3> QED BY <3>1, <3>2
  <2>3. CASE CallIput(u)
    <3> DEFINE c == [AtEase EXCEPT !.op = "iput", !.at = "put", !.slot = holds[u].slot]
    <3>1. does' = [does EXCEPT ![u] = c]
      BY <2>3 DEF CallIput, GoOn
    <3>2. holds[u].slot \in 0..NR_INODE
      BY DEF IInv, Types, Holds_
    <3>3. c \in Calls_ /\ c.op = "iput" /\ c.at = "put" /\ c.empty = 0
      BY <3>2, AtEaseType DEF Calls_, Ops, Places
    <3> QED BY <3>1, <3>3
  <2>4. CASE CallSync(u)
    <3> DEFINE c == [AtEase EXCEPT !.op = "sync", !.at = "sync", !.slot = 1]
    <3>1. does' = [does EXCEPT ![u] = c] /\ "sync" \in uses
      BY <2>4 DEF CallSync, Begin_, GoOn
    <3>2. 1 \in 0..NR_INODE
      <4>1. Cardinality(InodeUsers) >= 1 /\ Cardinality(InodeUsers) \in Nat
        BY SomeMember, UsersFinite
      <4> QED BY <4>1, InodeAssumption
    <3>3. c \in Calls_ /\ c.op = "sync" /\ c.at = "sync" /\ c.empty = 0
      BY <3>2, AtEaseType DEF Calls_, Ops, Places
    <3> QED BY <3>1, <3>3
  <2> QED BY <2>1, <2>2, <2>3, <2>4
<1>3. OrderlyIn(c, inode[c.slot], u, runs', uses) /\ ~Busy(c)
  BY <1>2 DEF OrderlyIn, Busy
<1> QED BY <1>1, <1>2, <1>3, CallsOrder

LEMMA SearchOrder ==
  ASSUME IInv, Order, Kept, NEW u \in InodeUsers, EmptySearch(u)
  PROVE  Order' /\ Kept'
<1>1. PICK s \in Slots_ : /\ does' = [does EXCEPT ![u] = [does[u] EXCEPT !.at = "free", !.slot = s]]
                          /\ inode[s].count = 0
  BY DEF EmptySearch, GoOn, Clean, Unused_
<1> DEFINE c == [does[u] EXCEPT !.at = "free", !.slot = s]
<1>2. /\ does[u].at = "empty" /\ UNCHANGED <<inode, diskVars>> /\ runs \in {NoInodeUser, u} /\ runs' = u
      /\ does[u] \in Calls_ /\ FitsIn(does[u], holds[u], linked) /\ does[u].op \in Ops
  BY CallType DEF EmptySearch, At_, Runs, GoOn, Calls_
<1>3. c \in Calls_ /\ c.at = "free" /\ c.op = does[u].op /\ c.slot = s /\ c.empty = does[u].empty
  BY <1>2, SlotRange DEF Calls_, Places
<1>4. does' = [does EXCEPT ![u] = c]
  BY <1>1
<1> HIDE DEF c
<1>5. OrderlyIn(c, inode[c.slot], u, runs', uses) /\ ~Busy(c)
  <2>1. ~inode[s].lock /\ c.op # "sync"
    BY <1>1, <1>2, <1>3 DEF Order, FitsIn, Ops
  <2> QED BY <2>1, <1>1, <1>2, <1>3 DEF OrderlyIn, Busy
<1> QED BY <1>2, <1>3, <1>4, <1>5, CallsOrder

LEMMA ScanFoundOrder ==
  ASSUME IInv, Order, Kept, NEW u \in InodeUsers, NEW c \in Calls_,
         \/ Scan(u) /\ Having(does[u].num) # {} /\ c = [does[u] EXCEPT !.at = "found", !.slot = Min(Having(does[u].num))]
         \/ FoundUnlocked(u) /\ Changed(u) /\ c = [does[u] EXCEPT !.at = "scan", !.slot = 0]
  PROVE  Order' /\ Kept'
<1>1. /\ does[u].at \in {"scan", "found"} /\ UNCHANGED <<inode, diskVars>> /\ runs \in {NoInodeUser, u}
      /\ does[u] \in Calls_ /\ FitsIn(does[u], holds[u], linked) /\ does[u].op \in Ops
      /\ does' = [does EXCEPT ![u] = c]
  BY CallType DEF Scan, FoundUnlocked, At_, Runs, GoOn, Calls_
<1>2. c.at \in {"scan", "found"} /\ c.op = does[u].op /\ c.empty = does[u].empty
  BY <1>1 DEF Calls_
<1>3. OrderlyIn(c, inode[c.slot], u, runs', uses) /\ ~Busy(c)
  <2>1. c.op # "sync"
    BY <1>1, <1>2 DEF FitsIn
  <2> QED BY <2>1, <1>2 DEF OrderlyIn, Busy
<1>4. does[u].at \notin {"read", "reading"}
  BY <1>1
<1> QED BY <1>1, <1>2, <1>3, <1>4, CallsOrder

LEMMA SyncOrder ==
  ASSUME IInv, Order, Kept, NEW u \in InodeUsers, SyncInodes_(u)
  PROVE  Order' /\ Kept'
<1>1. /\ UNCHANGED <<inode, diskVars>> /\ does[u].at \in {"sync", "next"} /\ runs \in {NoInodeUser, u}
      /\ does[u] \in Calls_ /\ FitsIn(does[u], holds[u], linked) /\ does[u].op \in Ops
  BY CallType DEF SyncInodes_, At_, Runs, Calls_
<1>2. does[u].op = "sync" /\ "sync" \in uses /\ does[u].empty = 0
  BY <1>1 DEF FitsIn, Ops, Order, OrderlyIn
<1>3. CASE does[u].at = "sync"
  <2>1. PICK a \in {"write", "next"} :
          does' = [does EXCEPT ![u] = [does[u] EXCEPT !.at = a]] /\ runs' = u /\ ~inode[does[u].slot].lock
    BY <1>3 DEF SyncInodes_, At_, GoOn, Locked
  <2> DEFINE c == [does[u] EXCEPT !.at = a]
  <2>2. c \in Calls_ /\ c.at = a /\ c.op = does[u].op /\ c.slot = does[u].slot /\ c.empty = does[u].empty
    BY <1>1 DEF Calls_, Places
  <2>3. does' = [does EXCEPT ![u] = c]
    BY <2>1
  <2> HIDE DEF c
  <2>4. OrderlyIn(c, inode[c.slot], u, runs', uses) /\ ~Busy(c)
    BY <1>2, <2>1, <2>2 DEF OrderlyIn, Busy
  <2> QED BY <1>1, <1>3, <2>2, <2>3, <2>4, CallsOrder
<1>4. CASE does[u].at = "next" /\ does[u].slot = NR_INODE
  <2>1. does' = [does EXCEPT ![u] = AtEase]
    BY <1>4 DEF SyncInodes_, At_, Done
  <2>2. OrderlyIn(AtEase, inode[AtEase.slot], u, runs', uses) /\ ~Busy(AtEase)
    BY AtEaseType DEF OrderlyIn, Busy
  <2> QED BY <1>1, <1>2, <1>4, <2>1, <2>2, AtEaseType, CallsOrder
<1>5. CASE does[u].at = "next" /\ does[u].slot # NR_INODE
  <2> DEFINE c == [does[u] EXCEPT !.at = "sync", !.slot = @ + 1]
  <2>1. does' = [does EXCEPT ![u] = c]
    BY <1>5 DEF SyncInodes_, At_, GoOn
  <2>2. does[u].slot + 1 \in 0..NR_INODE
    <3>1. does[u].slot \in 0..NR_INODE
      BY <1>1 DEF Calls_
    <3> QED BY <3>1, <1>5, InodeAssumption
  <2>3. c \in Calls_ /\ c.at = "sync" /\ c.op = does[u].op /\ c.empty = does[u].empty
    BY <1>1, <2>2 DEF Calls_, Places
  <2> HIDE DEF c
  <2>4. OrderlyIn(c, inode[c.slot], u, runs', uses) /\ ~Busy(c)
    BY <1>2, <2>3 DEF OrderlyIn, Busy
  <2> QED BY <1>1, <1>5, <2>1, <2>3, <2>4, CallsOrder
<1> QED BY <1>1, <1>3, <1>4, <1>5

LEMMA IputWaitsOrder ==
  ASSUME IInv, Order, Kept, NEW u \in InodeUsers, Iput(u), ~LetGo(Mine(u))
  PROVE  Order' /\ Kept'
<1>1. /\ does[u].at = "put" /\ UNCHANGED <<inode, diskVars>> /\ runs \in {NoInodeUser, u}
      /\ does[u] \in Calls_ /\ FitsIn(does[u], holds[u], linked) /\ does[u].op \in Ops
      /\ ~inode[does[u].slot].lock
  BY CallType DEF Iput, At_, Runs, Calls_, Locked
<1>2. does[u].slot \in Slots_ /\ does[u].op = "iput" /\ does[u].empty = 0
      /\ inode[does[u].slot].num # 0
  <2>1. does[u].slot \in Slots_ /\ does[u].op = "iput" /\ does[u].empty = 0 /\ holds[u].slot = does[u].slot
    BY <1>1, CallType DEF FitsIn, Ops
  <2>2. holds[u].slot # 0
    BY <2>1, SlotRange
  <2> QED BY <2>1, <2>2, HeldNumbers
<1>3. PICK a \in {"truncate", "write"} :
        /\ does' = [does EXCEPT ![u] = [does[u] EXCEPT !.at = a]]
        /\ a = "truncate" => inode[does[u].slot].num \notin linked
        /\ a = "write" => runs' = u
  BY DEF Iput, ForBlock, GoOn, Mine
<1>4. a = "truncate" => "unlink" \in uses
  BY <1>2, <1>3 DEF Order, IInv, Mapped
<1> DEFINE c == [does[u] EXCEPT !.at = a]
<1>5. c \in Calls_ /\ c.at = a /\ c.op = does[u].op /\ c.slot = does[u].slot /\ c.empty = does[u].empty
  BY <1>1 DEF Calls_, Places
<1>6. does' = [does EXCEPT ![u] = c]
  BY <1>3
<1> HIDE DEF c
<1>7. OrderlyIn(c, inode[c.slot], u, runs', uses) /\ ~Busy(c)
  BY <1>1, <1>2, <1>3, <1>4, <1>5 DEF OrderlyIn, Busy
<1>8. does[u].at \notin {"read", "reading"}
  BY <1>1
<1> QED BY <1>1, <1>5, <1>6, <1>7, <1>8, CallsOrder

(* The steps that change a slot.                                           *)
LEMMA LetGoOrder ==
  ASSUME IInv, Order, Kept, NEW u \in InodeUsers, Iput(u), LetGo(Mine(u))
  PROVE  Order' /\ Kept'
<1> DEFINE s == does[u].slot
<1>1. /\ does[u].at = "put" /\ UNCHANGED diskVars /\ runs \in {NoInodeUser, u}
      /\ does[u] \in Calls_ /\ FitsIn(does[u], holds[u], linked) /\ does[u].op \in Ops
      /\ ~inode[s].lock
  BY CallType DEF Iput, At_, Runs, Calls_, Locked
<1>2. s \in Slots_ /\ holds[u].slot = s /\ inode[s] \in Inodes_ /\ inode[s].num # 0
  <2>1. s \in Slots_ /\ holds[u].slot = s /\ inode[s] \in Inodes_
    BY <1>1, CallType DEF FitsIn, Ops, Mine
  <2> QED BY <2>1, HeldNumbers, SlotRange
<1>3. inode' = [inode EXCEPT ![s].count = @ - 1] /\ does' = [does EXCEPT ![u] = AtEase]
      /\ (inode[s].count = 1 => ~inode[s].dirt)
  <2>1. Mine(u).count = 1 => ~(Mine(u).num \notin linked \/ Mine(u).dirt)
    BY DEF LetGo
  <2> QED BY <2>1 DEF Iput, Done, Mine
<1> HIDE DEF s
<1>4. /\ inode'[s].count = inode[s].count - 1 /\ inode'[s].num = inode[s].num
      /\ inode'[s].data = inode[s].data /\ inode'[s].dirt = inode[s].dirt /\ inode'[s].lock = inode[s].lock
      /\ \A t \in Slots_ : t # s => inode'[t] = inode[t]
  BY <1>2, <1>3 DEF IInv, Types, Inodes_
<1>5. linked' = linked /\ imap' = imap /\ uses' = uses /\ stored' = stored /\ latest' = latest
  BY <1>1 DEF diskVars
<1>6. /\ AtEase \in Calls_ /\ AtEase.empty = 0 /\ ~Busy(AtEase)
      /\ OrderlyIn(AtEase, inode'[AtEase.slot], u, runs', uses)
  BY AtEaseType DEF OrderlyIn, Busy
<1>7. \A v \in InodeUsers : Busy(does[v]) => does[v].slot # s
  BY <1>1, UnlockedFree
<1>8. \A v \in InodeUsers : does[v].empty # s
  BY <1>2, SlotRange DEF IInv, Emptied
<1>9. inode'[s].count = 0 => ~inode'[s].lock /\ ~inode'[s].dirt
  BY <1>1, <1>2, <1>3, <1>4 DEF Inodes_
<1>10. "unlink" \notin uses => linked' = imap'
  BY <1>5 DEF Order
<1>11. Order'
  <2>1. SlotOnly(u, s, AtEase)
    BY <1>1, <1>2, <1>3, <1>4, <1>5, <1>6, <1>7, <1>8, <1>9, <1>10 DEF SlotOnly
  <2> QED BY <1>2, <1>6, <2>1, OnlySlot
<1>12. \A n : Reading(n) => Reading(n)'
  BY <1>1, <1>3, <1>6, Goes, ReadingOn DEF IInv
<1>13. \A t \in Slots_ : /\ inode'[t].num = inode[t].num /\ inode'[t].data = inode[t].data
                        /\ inode'[t].dirt = inode[t].dirt
  BY <1>4
<1> QED BY <1>5, <1>11, <1>12, <1>13, KeptSame

LEMMA TakeOrder ==
  ASSUME IInv, Order, Kept, NEW u \in InodeUsers, EmptyFound(u)
  PROVE  Order' /\ Kept'
<1> DEFINE s == does[u].slot
           to == IF does[u].op = "iget" THEN "scan" ELSE "new"
           c == [does[u] EXCEPT !.at = to, !.slot = 0, !.empty = s]
           r == [Blank EXCEPT !.count = 1]
<1>1. /\ does[u].at = "free" /\ UNCHANGED diskVars /\ runs \in {NoInodeUser, u}
      /\ does[u] \in Calls_ /\ FitsIn(does[u], holds[u], linked) /\ does[u].op \in Ops
      /\ ~inode[s].lock
  BY CallType DEF EmptyFound, At_, Runs, Calls_, Locked
<1>2. s \in Slots_ /\ s # 0 /\ inode[s].count = 0 /\ ~inode[s].dirt
  <2>1. s \in Slots_ /\ s # 0
    BY <1>1, CallType, SlotRange DEF FitsIn
  <2>2. inode[s].count = 0
    BY <1>1 DEF Order, OrderlyIn
  <2> QED BY <2>1, <2>2 DEF Order
<1>3. does' = [does EXCEPT ![u] = c] /\ inode' = [inode EXCEPT ![s] = r]
  BY <1>2 DEF EmptyFound, GoOn, Cleared, Mine
<1>4. r \in Inodes_ /\ r.num = 0 /\ r.count = 1 /\ IsBlank(r)
  BY BlankType DEF Inodes_, IsBlank
<1>5. /\ c \in Calls_ /\ c.at = to /\ c.op = does[u].op /\ c.slot = 0 /\ c.empty = s
  BY <1>1, <1>2, SlotRange DEF Calls_, Places
<1>6. \A v \in InodeUsers : holds[v].slot # s /\ does[v].empty # s
  BY <1>2, Nobodys DEF IInv
<1>7. \A v \in InodeUsers : Busy(does[v]) => does[v].slot # s
  BY <1>1, UnlockedFree
<1> HIDE DEF s, c, r
<1>8. /\ inode'[s] = r /\ \A t \in Slots_ : t # s => inode'[t] = inode[t]
  BY <1>2, <1>3, <1>4 DEF IInv, Types
<1>9. linked' = linked /\ imap' = imap /\ uses' = uses /\ stored' = stored /\ latest' = latest
  BY <1>1 DEF diskVars
<1>10. OrderlyIn(c, inode'[c.slot], u, runs', uses) /\ ~Busy(c)
  <2>1. c.op # "sync"
    BY <1>1, <1>5 DEF FitsIn
  <2> QED BY <2>1, <1>5 DEF OrderlyIn, Busy
<1>11. inode'[s].count # 0 /\ IsBlank(inode'[c.empty]) /\ ("unlink" \notin uses => linked' = imap')
  BY <1>4, <1>5, <1>8, <1>9 DEF Order
<1>12. Order'
  <2>1. SlotOnly(u, s, c)
    BY <1>1, <1>2, <1>3, <1>5, <1>6, <1>7, <1>8, <1>9, <1>10, <1>11 DEF SlotOnly
  <2> QED BY <1>2, <1>5, <2>1, OnlySlot
<1>13. \A n : Reading(n) => Reading(n)'
  BY <1>1, <1>3, <1>5, Goes, ReadingOn DEF IInv
<1>14. /\ \A t \in Slots_ : inode'[t].num \in linked' => inode'[t] = inode[t]
       /\ \A t \in Slots_ : inode[t].dirt => inode'[t] = inode[t]
  <2>1. 0 \notin linked'
    BY <1>9, InodeAssumption DEF IInv, Types
  <2> QED BY <2>1, <1>2, <1>4, <1>8
<1> QED BY <1>9, <1>12, <1>13, <1>14, KeptSame

LEMMA NoInodeOrder ==
  ASSUME IInv, Order, Kept, NEW u \in InodeUsers, NewInode(u), Numbers \ imap = {}
  PROVE  Order' /\ Kept'
<1> DEFINE s == does[u].empty
<1>1. /\ does[u].at = "new" /\ UNCHANGED diskVars /\ runs \in {NoInodeUser, u}
      /\ does[u] \in Calls_ /\ FitsIn(does[u], holds[u], linked) /\ does[u].op \in Ops
      /\ inode' = [inode EXCEPT ![s].count = @ - 1] /\ does' = [does EXCEPT ![u] = AtEase]
  BY CallType DEF NewInode, At_, Runs, Calls_, Done, diskVars
<1>2. s \in Slots_ /\ inode[s] \in Inodes_ /\ inode[s].count = 1 /\ IsBlank(inode[s])
  BY <1>1, CallType DEF FitsIn, Ops, IInv, Emptied, Order
<1>3. \A v \in InodeUsers : v # u => does[v].empty # s
  BY <1>2, OnlyEmpties DEF IInv
<1> HIDE DEF s
<1>4. /\ inode'[s].count = 0 /\ inode'[s].num = inode[s].num
      /\ inode'[s].data = inode[s].data /\ inode'[s].dirt = inode[s].dirt /\ inode'[s].lock = inode[s].lock
      /\ \A t \in Slots_ : t # s => inode'[t] = inode[t]
  BY <1>1, <1>2 DEF IInv, Types, Inodes_
<1>5. linked' = linked /\ imap' = imap /\ uses' = uses /\ stored' = stored /\ latest' = latest
  BY <1>1 DEF diskVars
<1>6. /\ AtEase \in Calls_ /\ AtEase.empty = 0 /\ ~Busy(AtEase)
      /\ OrderlyIn(AtEase, inode'[AtEase.slot], u, runs', uses)
  BY AtEaseType DEF OrderlyIn, Busy
<1>7. \A v \in InodeUsers : Busy(does[v]) => does[v].slot # s
  BY <1>2, UnlockedFree DEF IsBlank
<1>8. inode'[s].count = 0 => ~inode'[s].lock /\ ~inode'[s].dirt
  BY <1>2, <1>4 DEF IsBlank
<1>9. "unlink" \notin uses => linked' = imap'
  BY <1>5 DEF Order
<1>10. Order'
  <2>1. SlotOnly(u, s, AtEase)
    BY <1>1, <1>2, <1>3, <1>4, <1>5, <1>6, <1>7, <1>8, <1>9 DEF SlotOnly
  <2> QED BY <1>2, <1>6, <2>1, OnlySlot
<1>11. \A n : Reading(n) => Reading(n)'
  BY <1>1, <1>6, Goes, ReadingOn DEF IInv
<1>12. \A t \in Slots_ : /\ inode'[t].num = inode[t].num /\ inode'[t].data = inode[t].data
                        /\ inode'[t].dirt = inode[t].dirt
  BY <1>4
<1> QED BY <1>5, <1>10, <1>11, <1>12, KeptSame

LEMMA CountIsNat ==
  ASSUME IInv, NEW s \in Slots_
  PROVE  inode[s].count \in Nat
<1> DEFINE H == HoldersIn(holds, s)
           D == EmptiesIn(does, s)
<1>1. H \in SUBSET InodeUsers /\ D \in SUBSET InodeUsers /\ inode[s].count = Cardinality(H) + Cardinality(D)
  BY DEF IInv, CountsExact, HoldersIn, EmptiesIn
<1> HIDE DEF H, D
<1>2. Cardinality(H) \in Nat /\ Cardinality(D) \in Nat
  BY <1>1, UsersFinite
<1> QED BY <1>1, <1>2

LEMMA JoinOrder ==
  ASSUME IInv, Order, Kept, NEW u \in InodeUsers, FoundUnlocked(u), ~Changed(u)
  PROVE  Order' /\ Kept'
<1> DEFINE s == does[u].slot
           e == does[u].empty
<1>1. /\ does[u].at = "found" /\ UNCHANGED diskVars /\ runs \in {NoInodeUser, u}
      /\ does[u] \in Calls_ /\ FitsIn(does[u], holds[u], linked) /\ does[u].op \in Ops
      /\ ~inode[s].lock
      /\ inode' = [inode EXCEPT ![s].count = @ + 1, ![e].count = @ - 1]
      /\ does' = [does EXCEPT ![u] = AtEase]
  BY CallType DEF FoundUnlocked, At_, Runs, Calls_, Locked, Done
<1>2. /\ s \in Slots_ /\ e \in Slots_ /\ inode[s] \in Inodes_ /\ inode[e] \in Inodes_
      /\ inode[s].num = does[u].num /\ does[u].num # 0 /\ inode[e].num = 0 /\ inode[e].count = 1
      /\ IsBlank(inode[e])
  <2>1. s \in Slots_ /\ e \in Slots_ /\ e # 0 /\ does[u].op = "iget"
    BY <1>1, CallType DEF FitsIn, Ops
  <2>2. does[u].num # 0
    BY <1>1, <2>1, InodeAssumption DEF FitsIn, IInv, Types
  <2>3. inode[s].num = does[u].num
    BY DEF Changed, Mine
  <2> QED BY <2>1, <2>2, <2>3 DEF IInv, Types, Emptied, Order
<1>3. \A v \in InodeUsers : v # u => does[v].empty # e /\ does[v].empty # s
  <2> SUFFICES ASSUME NEW v \in InodeUsers, v # u PROVE does[v].empty # e /\ does[v].empty # s
    OBVIOUS
  <2>1. does[v].empty # e
    BY <1>2, OnlyEmpties DEF IInv
  <2>2. does[v].empty # s
    BY <1>2, SlotRange DEF IInv, Emptied
  <2> QED BY <2>1, <2>2
<1>4. inode[s].count \in Nat /\ s # e
  BY <1>2, CountIsNat
<1>5. \A v \in InodeUsers : Busy(does[v]) => does[v].slot # s /\ does[v].slot # e
  <2>1. ~inode[e].lock
    BY <1>2 DEF IsBlank
  <2> QED BY <1>1, <2>1, UnlockedFree
<1> HIDE DEF s, e
<1>6. /\ inode'[s].count = inode[s].count + 1 /\ inode'[e].count = 0
      /\ \A t \in Slots_ : t # s /\ t # e => inode'[t] = inode[t]
      /\ \A t \in Slots_ : /\ inode'[t].num = inode[t].num /\ inode'[t].data = inode[t].data
                           /\ inode'[t].dirt = inode[t].dirt /\ inode'[t].lock = inode[t].lock
  BY <1>1, <1>2, <1>4 DEF IInv, Types, Inodes_
<1>7. linked' = linked /\ imap' = imap /\ uses' = uses /\ stored' = stored /\ latest' = latest
  BY <1>1 DEF diskVars
<1>8. /\ does'[u] = AtEase /\ \A v \in InodeUsers : v # u => does'[v] = does[v]
  BY <1>1, AtEaseType, Goes DEF IInv
<1>9. /\ AtEase.empty = 0 /\ ~Busy(AtEase)
      /\ OrderlyIn(AtEase, inode'[AtEase.slot], u, runs', uses)
  BY AtEaseType DEF OrderlyIn, Busy
<1>10. \A v \in InodeUsers : v # u /\ Busy(does[v]) => /\ inode'[does[v].slot] = inode[does[v].slot]
                                                       /\ inode[does[v].slot].lock
  <2> SUFFICES ASSUME NEW v \in InodeUsers, v # u, Busy(does[v])
               PROVE  inode'[does[v].slot] = inode[does[v].slot] /\ inode[does[v].slot].lock
    OBVIOUS
  <2>1. does[v].slot \in Slots_ /\ does[v].slot # s /\ does[v].slot # e
    BY <1>5, CallType DEF FitsIn, Busy
  <2> QED BY <2>1, <1>6 DEF Order, OrderlyIn, Busy
<1>11. \A v \in InodeUsers : v # u /\ does[v].empty # 0 => IsBlank(inode'[does[v].empty])
  <2> SUFFICES ASSUME NEW v \in InodeUsers, v # u, does[v].empty # 0 PROVE IsBlank(inode'[does[v].empty])
    OBVIOUS
  <2>1. does[v].empty \in Slots_ /\ inode'[does[v].empty] = inode[does[v].empty]
    BY <1>3, <1>6, CallType
  <2> QED BY <2>1 DEF Order
<1>12. \A t \in Slots_ : inode'[t].count = 0 => ~inode'[t].lock /\ ~inode'[t].dirt
  <2> SUFFICES ASSUME NEW t \in Slots_, inode'[t].count = 0 PROVE ~inode'[t].lock /\ ~inode'[t].dirt
    OBVIOUS
  <2>1. CASE t = e
    BY <2>1, <1>2, <1>6 DEF IsBlank
  <2>2. CASE t # e
    <3>1. t # s
      BY <1>4, <1>6
    <3> QED BY <3>1, <2>2, <1>6 DEF Order
  <2> QED BY <2>1, <2>2
<1>13. "unlink" \notin uses => linked' = imap'
  BY <1>7 DEF Order
<1>14. \A v \in InodeUsers : does[v].at = "reading" => Busy(does[v])
  BY DEF Busy
<1>15. Tidy(u)
  BY <1>1, <1>7, <1>8, <1>9, <1>10, <1>11, <1>12, <1>13, <1>14 DEF Tidy
<1>16. Order'
  BY <1>15, TidyKeeps
<1>17. \A n : Reading(n) => Reading(n)'
  BY <1>1, <1>8, ReadingOn
<1> QED BY <1>6, <1>7, <1>16, <1>17, KeptSame

LEMMA FreeOrder ==
  ASSUME IInv, Order, Kept, NEW u \in InodeUsers, FreeInode(u)
  PROVE  Order' /\ Kept'
<1> DEFINE s == does[u].slot
           r == [Blank EXCEPT !.count = 0]
<1>1. /\ does[u].at = "truncate" /\ inode[s].count = 1 /\ runs \in {NoInodeUser, u}
      /\ UNCHANGED <<stored, linked, latest, uses>>
      /\ does[u] \in Calls_ /\ FitsIn(does[u], holds[u], linked) /\ does[u].op \in Ops
      /\ inode' = [inode EXCEPT ![s] = r] /\ does' = [does EXCEPT ![u] = AtEase]
  BY CallType DEF FreeInode, At_, Runs, Calls_, Cleared, Done, Mine
<1>2. s \in Slots_ /\ holds[u].slot = s /\ holds[u].num = inode[s].num /\ inode[s].num \notin linked
  <2>1. s \in Slots_ /\ s # 0 /\ holds[u].slot = s /\ holds[u].num \notin linked
    BY <1>1, CallType, SlotRange DEF FitsIn, Ops
  <2> QED BY <2>1, HeldNumbers
<1>3. r \in Inodes_ /\ r.num = 0 /\ r.count = 0 /\ ~r.lock /\ ~r.dirt
  BY BlankType DEF Inodes_
<1>4. "unlink" \in uses /\ "sync" \notin uses
  BY <1>1 DEF Order, OrderlyIn
<1>5. \A v \in InodeUsers : does[v].empty # s /\ (v # u => holds[v].slot # s)
  BY <1>1, <1>2, OnlyHolders DEF IInv
<1>6. \A v \in InodeUsers : v # u /\ Busy(does[v]) => does[v].slot # s
  <2> SUFFICES ASSUME NEW v \in InodeUsers, v # u, Busy(does[v]) PROVE does[v].slot # s
    OBVIOUS
  <2>1. FitsIn(does[v], holds[v], linked) /\ OrderlyIn(does[v], inode[does[v].slot], v, runs, uses)
        /\ does[v].op \in Ops
    BY CallType DEF Order, Calls_
  <2>2. holds[v].slot = does[v].slot
    BY <1>4, <2>1 DEF FitsIn, OrderlyIn, Busy, Ops
  <2> QED BY <2>2, <1>5
<1> HIDE DEF s, r
<1>7. inode'[s] = r /\ \A t \in Slots_ : t # s => inode'[t] = inode[t]
  BY <1>1, <1>2, <1>3 DEF IInv, Types
<1>8. /\ AtEase \in Calls_ /\ AtEase.empty = 0 /\ ~Busy(AtEase)
      /\ OrderlyIn(AtEase, inode'[AtEase.slot], u, runs', uses)
  BY AtEaseType DEF OrderlyIn, Busy
<1>9. inode'[s].count = 0 => ~inode'[s].lock /\ ~inode'[s].dirt
  BY <1>3, <1>7
<1>10. Order'
  <2>1. SlotOnly(u, s, AtEase)
    BY <1>1, <1>2, <1>4, <1>5, <1>6, <1>7, <1>8, <1>9 DEF SlotOnly
  <2> QED BY <1>2, <1>8, <2>1, OnlySlot
<1>11. \A n : Reading(n) => Reading(n)'
  BY <1>1, <1>8, Goes, ReadingOn DEF IInv
<1>12. /\ \A t \in Slots_ : inode'[t].num \in linked' => inode'[t] = inode[t]
       /\ \A t \in Slots_ : inode[t].num \in linked' => inode'[t] = inode[t]
  <2>1. 0 \notin linked'
    BY <1>1, InodeAssumption DEF IInv, Types
  <2> QED BY <2>1, <1>1, <1>2, <1>3, <1>7
<1> QED BY <1>1, <1>10, <1>11, <1>12, KeptSame

(* iget and new_inode name an empty slot e: what that means for the rest.  *)
LEMMA NamedOrder ==
  ASSUME IInv, Order, NEW u \in InodeUsers, NEW c \in Calls_, runs \in {NoInodeUser, u},
         does[u].empty # 0, does' = [does EXCEPT ![u] = c], c.empty = 0, ~Busy(c), uses' = uses,
         \A t \in Slots_ : t # does[u].empty => inode'[t] = inode[t],
         inode'[does[u].empty].count = inode[does[u].empty].count,
         OrderlyIn(c, inode'[c.slot], u, runs', uses),
         "unlink" \notin uses => linked' = imap'
  PROVE  Order'
<1> DEFINE e == does[u].empty
<1>1. e \in Slots_ /\ inode[e].count = 1 /\ IsBlank(inode[e])
  BY CallType DEF IInv, Emptied, Order
<1>2. \A v \in InodeUsers : v # u => does[v].empty # e
  BY <1>1, OnlyEmpties DEF IInv
<1>3. \A v \in InodeUsers : Busy(does[v]) => does[v].slot # e
  BY <1>1, UnlockedFree DEF IsBlank
<1>4. inode'[e].count # 0 /\ \A t \in Slots_ : t # e => inode'[t] = inode[t]
  BY <1>1
<1> HIDE DEF e
<1>5. SlotOnly(u, e, c)
  BY <1>1, <1>2, <1>3, <1>4 DEF SlotOnly
<1> QED BY <1>1, <1>5, OnlySlot

LEMMA ScanNewOrder ==
  ASSUME IInv, Order, Kept, NEW u \in InodeUsers, Scan(u), Having(does[u].num) = {}
  PROVE  Order' /\ Kept'
<1> DEFINE e == does[u].empty
           n == does[u].num
           c == [does[u] EXCEPT !.at = "read", !.slot = e, !.empty = 0]
<1>1. /\ does[u].at = "scan" /\ UNCHANGED diskVars /\ runs \in {NoInodeUser, u} /\ runs' = u
      /\ does[u] \in Calls_ /\ FitsIn(does[u], holds[u], linked) /\ does[u].op \in Ops
      /\ inode' = [inode EXCEPT ![e].num = n] /\ does' = [does EXCEPT ![u] = c]
  BY CallType DEF Scan, At_, Runs, Calls_, GoOn
<1>2. /\ e \in Slots_ /\ e # 0 /\ inode[e] \in Inodes_ /\ inode[e].num = 0 /\ inode[e].count = 1
      /\ IsBlank(inode[e]) /\ does[u].op = "iget" /\ n \in linked
  <2>1. e \in Slots_ /\ e # 0 /\ does[u].op = "iget" /\ n \in linked
    BY <1>1, CallType, SlotRange DEF FitsIn, Ops
  <2> QED BY <2>1 DEF IInv, Types, Emptied, Order
<1>3. c \in Calls_ /\ c.at = "read" /\ c.op = "iget" /\ c.slot = e /\ c.num = n /\ c.empty = 0
  BY <1>1, <1>2, SlotRange DEF Calls_, Places
<1>4. \A s \in Slots_ : inode[s].num # n
  BY DEF Having
<1> HIDE DEF e, n, c
<1>5. /\ inode'[e].num = n /\ inode'[e].count = 1 /\ inode'[e].data = inode[e].data
      /\ inode'[e].dirt = inode[e].dirt /\ inode'[e].lock = inode[e].lock
      /\ \A t \in Slots_ : t # e => inode'[t] = inode[t]
  BY <1>1, <1>2 DEF IInv, Types, Inodes_
<1>6. linked' = linked /\ imap' = imap /\ uses' = uses /\ stored' = stored /\ latest' = latest
  BY <1>1 DEF diskVars
<1>7. OrderlyIn(c, inode'[c.slot], u, runs', uses) /\ ~Busy(c)
  BY <1>1, <1>2, <1>3, <1>5 DEF OrderlyIn, Busy, IsBlank
<1>8. Order'
  <2>1. "unlink" \notin uses => linked' = imap'
    BY <1>6 DEF Order
  <2>2. /\ does[u].empty # 0 /\ inode'[does[u].empty].count = inode[does[u].empty].count
        /\ \A t \in Slots_ : t # does[u].empty => inode'[t] = inode[t]
    BY <1>2, <1>5 DEF e
  <2> QED BY <1>1, <1>3, <1>6, <1>7, <2>1, <2>2, NamedOrder
<1>9. does'[u] = c /\ \A v \in InodeUsers : v # u => does'[v] = does[v]
  BY <1>1, <1>3, Goes DEF IInv
<1>10. \A m : Reading(m) => Reading(m)'
  BY <1>1, <1>9, ReadingOn
<1>11. \A m : m = n => Reading(m)'
  BY <1>3, <1>9 DEF Reading
<1>12. Kept'
  <2> SUFFICES ASSUME NEW m \in linked
               PROVE  /\ \A s \in Slots_ : inode'[s].num = m /\ ~Reading(m)' => inode'[s].data = latest[m]
                      /\ (\A s \in Slots_ : inode'[s].num = m => ~inode'[s].dirt) => stored[m] = latest[m]
    BY <1>6 DEF Kept
  <2>1. /\ \A s \in Slots_ : inode[s].num = m /\ ~Reading(m) => inode[s].data = latest[m]
        /\ (\A s \in Slots_ : inode[s].num = m => ~inode[s].dirt) => stored[m] = latest[m]
    BY DEF Kept
  <2>2. CASE m = n
    <3>1. stored[m] = latest[m]
      BY <2>1, <2>2, <1>4
    <3> QED BY <3>1, <2>2, <1>11
  <2>3. CASE m # n
    <3>1. \A s \in Slots_ : inode'[s].num = m => s # e
      BY <2>3, <1>5
    <3>2. \A s \in Slots_ : inode[s].num = m => s # e
      <4>1. m # 0
        BY InodeAssumption DEF IInv, Types
      <4> QED BY <4>1, <1>2
    <3>3. \A s \in Slots_ : inode'[s].num = m /\ ~Reading(m)' => inode'[s].data = latest[m]
      BY <2>1, <3>1, <1>5, <1>10
    <3>4. (\A s \in Slots_ : inode'[s].num = m => ~inode'[s].dirt) => stored[m] = latest[m]
      BY <2>1, <3>2, <1>5
    <3> QED BY <3>3, <3>4
  <2> QED BY <2>2, <2>3
<1> QED BY <1>8, <1>12

LEMMA NewInodeOrder ==
  ASSUME IInv, Order, Kept, NEW u \in InodeUsers, NewInode(u), Numbers \ imap # {}
  PROVE  Order' /\ Kept'
<1> DEFINE e == does[u].empty
<1>1. /\ does[u].at = "new" /\ stored' = stored /\ uses' = uses /\ runs \in {NoInodeUser, u}
      /\ does[u] \in Calls_ /\ FitsIn(does[u], holds[u], linked) /\ does[u].op \in Ops
      /\ does' = [does EXCEPT ![u] = AtEase]
  BY CallType DEF NewInode, At_, Runs, Calls_, Done
<1>2. PICK n \in Numbers \ imap :
        /\ imap' = imap \cup {n} /\ linked' = linked \cup {n}
        /\ inode' = [inode EXCEPT ![e].num = n, ![e].dirt = TRUE]
        /\ latest' = [latest EXCEPT ![n] = 0]
  <2>1. Min(Numbers \ imap) \in Numbers \ imap
    <3>1. Numbers \ imap \subseteq Nat
      BY InodeAssumption
    <3> QED BY <3>1, LeastIsMember
  <2> QED BY <2>1 DEF NewInode
<1>3. /\ e \in Slots_ /\ e # 0 /\ inode[e] \in Inodes_ /\ inode[e].num = 0 /\ inode[e].count = 1
      /\ IsBlank(inode[e])
  <2>1. e \in Slots_ /\ e # 0
    BY <1>1, CallType, SlotRange DEF FitsIn, Ops
  <2> QED BY <2>1 DEF IInv, Types, Emptied, Order
<1>4. \A s \in Slots_ : inode[s].num # n
  <2>1. n # 0
    BY <1>2, InodeAssumption
  <2> QED BY <1>2, <2>1 DEF IInv, Mapped
<1> HIDE DEF e
<1>5. /\ inode'[e].num = n /\ inode'[e].count = 1 /\ inode'[e].data = 0 /\ inode'[e].dirt
      /\ \A t \in Slots_ : t # e => inode'[t] = inode[t]
  BY <1>2, <1>3 DEF IInv, Types, Inodes_, IsBlank
<1>6. /\ AtEase \in Calls_ /\ AtEase.empty = 0 /\ ~Busy(AtEase)
      /\ OrderlyIn(AtEase, inode'[AtEase.slot], u, runs', uses)
  BY AtEaseType DEF OrderlyIn, Busy
<1>7. Order'
  <2>1. "unlink" \notin uses => linked' = imap'
    BY <1>2 DEF Order
  <2>2. /\ does[u].empty # 0 /\ inode'[does[u].empty].count = inode[does[u].empty].count
        /\ \A t \in Slots_ : t # does[u].empty => inode'[t] = inode[t]
    BY <1>3, <1>5 DEF e
  <2> QED BY <1>1, <1>6, <2>1, <2>2, NamedOrder
<1>8. \A m : Reading(m) => Reading(m)'
  BY <1>1, <1>6, Goes, ReadingOn DEF IInv
<1>9. latest'[n] = 0 /\ \A m \in Numbers : m # n => latest'[m] = latest[m]
  BY <1>2 DEF IInv, Types
<1>10. Kept'
  <2> SUFFICES ASSUME NEW m \in linked'
               PROVE  /\ \A s \in Slots_ : inode'[s].num = m /\ ~Reading(m)' => inode'[s].data = latest'[m]
                      /\ (\A s \in Slots_ : inode'[s].num = m => ~inode'[s].dirt) => stored'[m] = latest'[m]
    BY DEF Kept
  <2>1. CASE m = n
    <3>1. \A s \in Slots_ : inode'[s].num = n => s = e
      BY <1>4, <1>5
    <3> QED BY <3>1, <2>1, <1>3, <1>5, <1>9
  <2>2. CASE m # n
    <3>1. m \in linked /\ m \in Numbers /\ m # 0 /\ latest'[m] = latest[m]
      BY <2>2, <1>2, <1>9, InodeAssumption DEF IInv, Types
    <3>2. /\ \A s \in Slots_ : inode[s].num = m /\ ~Reading(m) => inode[s].data = latest[m]
          /\ (\A s \in Slots_ : inode[s].num = m => ~inode[s].dirt) => stored[m] = latest[m]
      BY <3>1 DEF Kept
    <3>3. \A s \in Slots_ : inode'[s].num = m => s # e
      BY <2>2, <1>5
    <3>4. \A s \in Slots_ : inode[s].num = m => s # e
      BY <3>1, <1>3
    <3>5. \A s \in Slots_ : inode'[s].num = m /\ ~Reading(m)' => inode'[s].data = latest'[m]
      BY <3>1, <3>2, <3>3, <1>5, <1>8
    <3>6. (\A s \in Slots_ : inode'[s].num = m => ~inode'[s].dirt) => stored'[m] = latest'[m]
      BY <3>1, <3>2, <3>4, <1>1, <1>5
    <3> QED BY <3>5, <3>6
  <2> QED BY <2>1, <2>2
<1> QED BY <1>7, <1>10

(* read_inode and write_inode.                                             *)
LEMMA ReadOrder ==
  ASSUME IInv, Order, Kept, NEW u \in InodeUsers, ReadInode(u)
  PROVE  Order' /\ Kept'
<1> DEFINE s == does[u].slot
           c == [does[u] EXCEPT !.at = "reading"]
<1>1. /\ does[u].at = "read" /\ UNCHANGED diskVars /\ runs \in {NoInodeUser, u} /\ ~inode[s].lock
      /\ inode' = [inode EXCEPT ![s].lock = TRUE] /\ does' = [does EXCEPT ![u] = c]
      /\ does[u] \in Calls_ /\ FitsIn(does[u], holds[u], linked) /\ does[u].op \in Ops
  BY CallType DEF ReadInode, At_, Runs, ForBlock, Locked, LockIt, Calls_
<1>2. s \in Slots_ /\ inode[s] \in Inodes_ /\ holds[u].slot = s /\ does[u].op = "iget" /\ does[u].empty = 0
      /\ inode[s].num # 0
  <2>1. s \in Slots_ /\ inode[s] \in Inodes_ /\ holds[u].slot = s /\ does[u].op = "iget" /\ does[u].empty = 0
    BY <1>1, CallType DEF FitsIn, Ops, Mine
  <2> QED BY <2>1, HeldNumbers, SlotRange
<1>3. inode[s].count = 1 /\ ~inode[s].dirt
  BY <1>1 DEF Order, OrderlyIn
<1>4. c \in Calls_ /\ c.at = "reading" /\ c.op = "iget" /\ c.slot = s /\ c.empty = 0 /\ c.num = does[u].num
  BY <1>1, <1>2 DEF Calls_, Places
<1> HIDE DEF s, c
<1>5. /\ inode'[s].num = inode[s].num /\ inode'[s].data = inode[s].data /\ inode'[s].lock
      /\ inode'[s].dirt = inode[s].dirt /\ inode'[s].count = inode[s].count
      /\ \A t \in Slots_ : t # s => inode'[t] = inode[t]
  BY <1>1, <1>2 DEF IInv, Types, Inodes_
<1>6. linked' = linked /\ imap' = imap /\ uses' = uses /\ stored' = stored /\ latest' = latest
  BY <1>1 DEF diskVars
<1>7. OrderlyIn(c, inode'[c.slot], u, runs', uses)
  BY <1>3, <1>4, <1>5 DEF OrderlyIn
<1>8. \A v \in InodeUsers : Busy(does[v]) => does[v].slot # s
  BY <1>1, UnlockedFree
<1>9. \A v \in InodeUsers : does[v].empty # s
  BY <1>2, SlotRange DEF IInv, Emptied
<1>10. inode'[s].count # 0 /\ ("unlink" \notin uses => linked' = imap')
  BY <1>3, <1>5, <1>6 DEF Order
<1>11. Order'
  <2>1. SlotOnly(u, s, c)
    BY <1>1, <1>2, <1>4, <1>5, <1>6, <1>7, <1>8, <1>9, <1>10 DEF SlotOnly
  <2> QED BY <1>2, <1>4, <2>1, OnlySlot
<1>12. does'[u] = c /\ \A v \in InodeUsers : v # u => does'[v] = does[v]
  BY <1>1, <1>4, Goes DEF IInv
<1>13. \A n : Reading(n) => Reading(n)'
  BY <1>4, <1>12, ReadingOn
<1>14. \A t \in Slots_ : /\ inode'[t].num = inode[t].num /\ inode'[t].data = inode[t].data
                        /\ inode'[t].dirt = inode[t].dirt
  BY <1>5
<1> QED BY <1>6, <1>11, <1>13, <1>14, KeptSame

LEMMA HasReadOrder ==
  ASSUME IInv, Order, Kept, NEW u \in InodeUsers, HasRead(u)
  PROVE  Order' /\ Kept'
<1> DEFINE s == does[u].slot
           n == does[u].num
           r == [[Mine(u) EXCEPT !.data = stored[Mine(u).num]] EXCEPT !.lock = FALSE]
<1>1. /\ does[u].at = "reading" /\ UNCHANGED diskVars /\ runs \in {NoInodeUser, u}
      /\ does[u] \in Calls_ /\ FitsIn(does[u], holds[u], linked) /\ does[u].op \in Ops
      /\ inode' = [inode EXCEPT ![s] = r] /\ does' = [does EXCEPT ![u] = AtEase]
  BY CallType DEF HasRead, At_, Runs, Unlocked, Done, Calls_
<1>2. /\ s \in Slots_ /\ inode[s] \in Inodes_ /\ does[u].op = "iget" /\ does[u].empty = 0
      /\ inode[s].num = n /\ n # 0 /\ n \in linked
  <2>1. s \in Slots_ /\ inode[s] \in Inodes_ /\ holds[u].slot = s /\ holds[u].num = n /\ does[u].op = "iget"
        /\ does[u].empty = 0 /\ n \in linked
    BY <1>1, CallType DEF FitsIn, Ops, Mine
  <2> QED BY <2>1, HeldNumbers, SlotRange
<1>3. inode[s].count = 1 /\ ~inode[s].dirt /\ Busy(does[u])
  BY <1>1 DEF Order, OrderlyIn, Busy
<1>4. /\ r.num = n /\ r.count = 1 /\ r.data = stored[n] /\ ~r.dirt /\ ~r.lock
  BY <1>2, <1>3 DEF Inodes_, Mine
<1>5. \A t \in Slots_ : inode[t].num = n => t = s
  BY <1>2 DEF IInv, Alone
<1>6. stored[n] = latest[n]
  BY <1>2, <1>3, <1>5 DEF Kept
<1>7. \A v \in InodeUsers : v # u /\ Busy(does[v]) => does[v].slot # s
  BY <1>3 DEF Order
<1> HIDE DEF s, n, r
<1>8. inode'[s] = r /\ \A t \in Slots_ : t # s => inode'[t] = inode[t]
  BY <1>1, <1>2 DEF IInv, Types
<1>9. linked' = linked /\ imap' = imap /\ uses' = uses /\ stored' = stored /\ latest' = latest
  BY <1>1 DEF diskVars
<1>10. /\ AtEase \in Calls_ /\ AtEase.empty = 0 /\ ~Busy(AtEase)
       /\ OrderlyIn(AtEase, inode'[AtEase.slot], u, runs', uses)
  BY AtEaseType DEF OrderlyIn, Busy
<1>11. \A v \in InodeUsers : does[v].empty # s
  BY <1>2, SlotRange DEF IInv, Emptied
<1>12. inode'[s].count # 0 /\ ("unlink" \notin uses => linked' = imap')
  BY <1>4, <1>8, <1>9 DEF Order
<1>13. Order'
  <2>1. SlotOnly(u, s, AtEase)
    BY <1>1, <1>2, <1>7, <1>8, <1>9, <1>10, <1>11, <1>12 DEF SlotOnly
  <2> QED BY <1>2, <1>10, <2>1, OnlySlot
<1>14. \A m : m # n => (Reading(m) => Reading(m)')
  <2>1. \A v \in InodeUsers : v # u => does'[v] = does[v]
    BY <1>1, <1>10, Goes DEF IInv
  <2> QED BY <2>1 DEF Reading, n
<1>15. Kept'
  <2> SUFFICES ASSUME NEW m \in linked
               PROVE  /\ \A t \in Slots_ : inode'[t].num = m /\ ~Reading(m)' => inode'[t].data = latest[m]
                      /\ (\A t \in Slots_ : inode'[t].num = m => ~inode'[t].dirt) => stored[m] = latest[m]
    BY <1>9 DEF Kept
  <2>1. CASE m = n
    <3>1. \A t \in Slots_ : inode'[t].num = n => t = s
      BY <1>5, <1>8
    <3> QED BY <3>1, <2>1, <1>4, <1>6, <1>8
  <2>2. CASE m # n
    <3>1. /\ \A t \in Slots_ : inode[t].num = m /\ ~Reading(m) => inode[t].data = latest[m]
          /\ (\A t \in Slots_ : inode[t].num = m => ~inode[t].dirt) => stored[m] = latest[m]
      BY DEF Kept
    <3>2. \A t \in Slots_ : inode'[t].num = m \/ inode[t].num = m => inode'[t] = inode[t]
      BY <2>2, <1>2, <1>4, <1>8
    <3>3. Reading(m) => Reading(m)'
      BY <2>2, <1>14
    <3>4. \A t \in Slots_ : inode'[t].num = m /\ ~Reading(m)' => inode'[t].data = latest[m]
      BY <3>1, <3>2, <3>3
    <3>5. (\A t \in Slots_ : inode'[t].num = m => ~inode'[t].dirt) => stored[m] = latest[m]
      BY <3>1, <3>2
    <3> QED BY <3>4, <3>5
  <2> QED BY <2>1, <2>2
<1> QED BY <1>13, <1>15

(* Where write_inode goes on from: it is called from iput and sync_inodes. *)
LEMMA AfterOrder ==
  ASSUME Order, NEW u \in InodeUsers, does[u] \in Calls_, does[u].at \in {"write", "writing"}
  PROVE  /\ After(does[u]) \in Calls_ /\ After(does[u]).slot = does[u].slot
         /\ After(does[u]).empty = does[u].empty /\ ~Busy(After(does[u]))
         /\ \A i, r : OrderlyIn(After(does[u]), i, u, r, uses)
<1> DEFINE c == After(does[u])
<1>1. does[u].op \in {"iput", "sync"} /\ (does[u].op = "sync" => "sync" \in uses)
  BY DEF Order, OrderlyIn
<1>2. c = [does[u] EXCEPT !.at = AfterPlace(does[u].op)] /\ AfterPlace(does[u].op) \in Places
  BY AfterIs
<1>3. c \in Calls_ /\ c.at = AfterPlace(does[u].op) /\ c.op = does[u].op /\ c.slot = does[u].slot
      /\ c.empty = does[u].empty
  BY <1>2, CallAt
<1>4. c.at \in {"next", "put"}
  BY <1>1, <1>3 DEF AfterPlace
<1> HIDE DEF c
<1>5. ~Busy(c) /\ \A i, r : OrderlyIn(c, i, u, r, uses)
  BY <1>1, <1>3, <1>4 DEF OrderlyIn, Busy
<1> QED BY <1>3, <1>5 DEF c

LEMMA WriteOrder ==
  ASSUME IInv, Order, Kept, NEW u \in InodeUsers, WriteInode_(u)
  PROVE  Order' /\ Kept'
<1> DEFINE s == does[u].slot
<1>1. /\ does[u].at = "write" /\ UNCHANGED diskVars /\ runs \in {NoInodeUser, u} /\ ~inode[s].lock
      /\ does[u] \in Calls_ /\ FitsIn(does[u], holds[u], linked) /\ does[u].op \in Ops
  BY CallType DEF WriteInode_, At_, Runs, Locked, Calls_
<1>2. s \in Slots_ /\ inode[s] \in Inodes_ /\ does[u].empty = 0
  BY <1>1, CallType DEF FitsIn, Mine
<1>3. linked' = linked /\ imap' = imap /\ uses' = uses /\ stored' = stored /\ latest' = latest
  BY <1>1 DEF diskVars
<1>4. \A v \in InodeUsers : Busy(does[v]) => does[v].slot # s
  BY <1>1, UnlockedFree
<1>5. "unlink" \notin uses => linked' = imap'
  BY <1>3 DEF Order
<1>6. CASE Mine(u).dirt /\ Mine(u).num # 0
  <2> DEFINE c == [does[u] EXCEPT !.at = "writing"]
  <2>1. inode' = [inode EXCEPT ![s].lock = TRUE] /\ does' = [does EXCEPT ![u] = c]
        /\ inode[s].dirt /\ inode[s].num # 0
    BY <1>6 DEF WriteInode_, LockIt, ForBlock, Mine
  <2>2. c \in Calls_ /\ c.at = "writing" /\ c.op = does[u].op /\ c.slot = s /\ c.empty = 0 /\ c.num = does[u].num
    BY <1>1, <1>2 DEF Calls_, Places
  <2> HIDE DEF s, c
  <2>3. /\ inode'[s].num = inode[s].num /\ inode'[s].data = inode[s].data /\ inode'[s].lock
        /\ inode'[s].dirt = inode[s].dirt /\ inode'[s].count = inode[s].count
        /\ \A t \in Slots_ : t # s => inode'[t] = inode[t]
    BY <2>1, <1>2 DEF IInv, Types, Inodes_
  <2>4. OrderlyIn(c, inode'[c.slot], u, runs', uses)
    <3>1. c.op \in {"iput", "sync"} /\ (c.op = "sync" => "sync" \in uses)
      BY <2>2, <1>1 DEF Order, OrderlyIn
    <3> QED BY <3>1, <2>2, <2>3 DEF OrderlyIn
  <2>5. inode'[s].count # 0
    BY <2>1, <2>3, <1>2 DEF Order
  <2>6. \A v \in InodeUsers : does[v].empty # s
    BY <2>1, <1>2, SlotRange DEF IInv, Emptied
  <2>7. Order'
    <3>1. SlotOnly(u, s, c)
      BY <1>1, <1>2, <1>3, <1>4, <1>5, <2>1, <2>2, <2>3, <2>4, <2>5, <2>6 DEF SlotOnly
    <3> QED BY <1>2, <2>2, <3>1, OnlySlot
  <2>8. \A n : Reading(n) => Reading(n)'
    BY <1>1, <2>1, <2>2, Goes, ReadingOn DEF IInv
  <2>9. \A t \in Slots_ : /\ inode'[t].num = inode[t].num /\ inode'[t].data = inode[t].data
                          /\ inode'[t].dirt = inode[t].dirt
    BY <2>3
  <2> QED BY <1>3, <2>7, <2>8, <2>9, KeptSame
<1>7. CASE ~(Mine(u).dirt /\ Mine(u).num # 0)
  <2> DEFINE c == After(does[u])
             r == [inode[s] EXCEPT !.lock = FALSE]
  <2>1. inode' = [inode EXCEPT ![s] = r] /\ does' = [does EXCEPT ![u] = c]
    BY <1>7 DEF WriteInode_, Unlocked, GoOn, Mine
  <2>2. /\ r.num = inode[s].num /\ r.data = inode[s].data /\ ~r.lock
        /\ r.dirt = inode[s].dirt /\ r.count = inode[s].count
    BY <1>2 DEF Inodes_
  <2>3. c \in Calls_ /\ c.empty = 0 /\ ~Busy(c) /\ OrderlyIn(c, inode'[c.slot], u, runs', uses)
    BY <1>1, <1>2, AfterOrder
  <2> HIDE DEF s, c, r
  <2>4. inode'[s] = r /\ \A t \in Slots_ : t # s => inode'[t] = inode[t]
    BY <2>1, <1>2 DEF IInv, Types
  <2>5. inode'[s].count = 0 => ~inode'[s].lock /\ ~inode'[s].dirt
    BY <2>2, <2>4, <1>2 DEF Order
  <2>6. \A v \in InodeUsers : does[v].empty = s => IsBlank(inode'[s])
    <3>1. \A v \in InodeUsers : does[v].empty = s => IsBlank(inode[s])
      BY <1>2, SlotRange DEF Order
    <3> QED BY <3>1, <2>2, <2>4 DEF IsBlank
  <2>7. Order'
    <3>1. SlotOnly(u, s, c)
      BY <1>1, <1>2, <1>3, <1>4, <1>5, <2>1, <2>3, <2>4, <2>5, <2>6 DEF SlotOnly
    <3> QED BY <1>2, <2>3, <3>1, OnlySlot
  <2>8. \A n : Reading(n) => Reading(n)'
    BY <1>1, <2>1, <2>3, Goes, ReadingOn DEF IInv
  <2>9. \A t \in Slots_ : /\ inode'[t].num = inode[t].num /\ inode'[t].data = inode[t].data
                          /\ inode'[t].dirt = inode[t].dirt
    BY <2>2, <2>4
  <2> QED BY <1>3, <2>7, <2>8, <2>9, KeptSame
<1> QED BY <1>6, <1>7

LEMMA HasWrittenOrder ==
  ASSUME IInv, Order, Kept, NEW u \in InodeUsers, HasWritten(u)
  PROVE  Order' /\ Kept'
<1> DEFINE s == does[u].slot
           n == inode[s].num
           c == After(does[u])
           r == [[inode[s] EXCEPT !.dirt = FALSE] EXCEPT !.lock = FALSE]
<1>1. /\ does[u].at = "writing" /\ UNCHANGED <<linked, imap, latest, uses>> /\ runs \in {NoInodeUser, u}
      /\ does[u] \in Calls_ /\ FitsIn(does[u], holds[u], linked) /\ does[u].op \in Ops
      /\ inode' = [inode EXCEPT ![s] = r] /\ does' = [does EXCEPT ![u] = c]
      /\ stored' = [stored EXCEPT ![n] = inode[s].data]
  BY CallType DEF HasWritten, At_, Runs, Unlocked, GoOn, Calls_, Mine
<1>2. s \in Slots_ /\ inode[s] \in Inodes_ /\ does[u].empty = 0 /\ inode[s].lock /\ Busy(does[u])
  BY <1>1, CallType DEF FitsIn, Mine, Order, OrderlyIn, Busy
<1>3. /\ r.num = n /\ r.data = inode[s].data /\ ~r.lock /\ ~r.dirt /\ r.count = inode[s].count
  BY <1>2 DEF Inodes_
<1>4. c \in Calls_ /\ c.empty = 0 /\ ~Busy(c) /\ OrderlyIn(c, inode'[c.slot], u, runs', uses)
  BY <1>1, <1>2, AfterOrder
<1>5. \A v \in InodeUsers : v # u /\ Busy(does[v]) => does[v].slot # s
  BY <1>2 DEF Order
<1>6. n # 0 => ~Reading(n)
  <2> SUFFICES ASSUME n # 0, NEW v \in InodeUsers, does[v].at \in {"read", "reading"}, does[v].num = n
               PROVE  FALSE
    BY DEF Reading
  <2>1. v # u
    BY <1>1
  <2>2. does[v].at = "reading" /\ Busy(does[v])
    BY <2>1, <1>1, NoneBetween DEF Busy
  <2>3. holds[v].slot = does[v].slot /\ holds[v].num = n /\ does[v].slot \in Slots_
    <3>1. FitsIn(does[v], holds[v], linked) /\ does[v].op \in Ops
      BY CallType DEF Calls_
    <3> QED BY <2>2, <3>1, CallType DEF FitsIn, Ops
  <2>4. inode[does[v].slot].num = n
    BY <2>3, HeldNumbers, SlotRange
  <2>5. does[v].slot = s
    BY <2>3, <2>4, <1>2 DEF IInv, Alone
  <2> QED BY <2>1, <2>2, <2>5, <1>5
<1> HIDE DEF s, c, r
<1>7. inode'[s] = r /\ \A t \in Slots_ : t # s => inode'[t] = inode[t]
  BY <1>1, <1>2 DEF IInv, Types
<1>8. Order'
  <2>1. inode'[s].count = 0 => ~inode'[s].lock /\ ~inode'[s].dirt
    BY <1>3, <1>7
  <2>2. \A v \in InodeUsers : does[v].empty # s
    BY <1>2, SlotRange DEF Order, IsBlank
  <2>3. "unlink" \notin uses => linked' = imap'
    BY <1>1 DEF Order
  <2>4. SlotOnly(u, s, c)
    BY <1>1, <1>2, <1>4, <1>5, <1>7, <2>1, <2>2, <2>3 DEF SlotOnly
  <2> QED BY <1>2, <1>4, <2>4, OnlySlot
<1>9. \A m : Reading(m) => Reading(m)'
  BY <1>1, <1>4, Goes, ReadingOn DEF IInv
<1>10. Kept'
  <2> SUFFICES ASSUME NEW m \in linked
               PROVE  /\ \A t \in Slots_ : inode'[t].num = m /\ ~Reading(m)' => inode'[t].data = latest[m]
                      /\ (\A t \in Slots_ : inode'[t].num = m => ~inode'[t].dirt) => stored'[m] = latest[m]
    BY <1>1 DEF Kept
  <2>1. m \in Numbers /\ m # 0
    BY InodeAssumption DEF IInv, Types
  <2>2. /\ \A t \in Slots_ : inode[t].num = m /\ ~Reading(m) => inode[t].data = latest[m]
        /\ (\A t \in Slots_ : inode[t].num = m => ~inode[t].dirt) => stored[m] = latest[m]
    BY DEF Kept
  <2>3. \A t \in Slots_ : inode'[t].num = inode[t].num /\ inode'[t].data = inode[t].data
    BY <1>3, <1>7
  <2>4. \A t \in Slots_ : inode'[t].num = m /\ ~Reading(m)' => inode'[t].data = latest[m]
    BY <2>2, <2>3, <1>9
  <2>5. CASE m = n
    <3>1. stored'[m] = inode[s].data
      BY <2>1, <2>5, <1>1 DEF IInv, Types
    <3>2. inode[s].data = latest[m]
      BY <2>1, <2>2, <2>5, <1>2, <1>6
    <3> QED BY <2>4, <3>1, <3>2
  <2>6. CASE m # n
    <3>1. stored'[m] = stored[m]
      BY <2>1, <2>6, <1>1 DEF IInv, Types
    <3>2. \A t \in Slots_ : inode[t].num = m => inode'[t] = inode[t]
      BY <2>6, <1>7
    <3> QED BY <2>2, <2>3, <2>4, <3>1, <3>2
  <2> QED BY <2>5, <2>6
<1> QED BY <1>8, <1>10

(* What a user does to the inode that he holds, which may be written.      *)
LEMMA HeldOrder ==
  ASSUME IInv, Order, Kept, NEW u \in InodeUsers, ChangeHeld(u) \/ LastUnlink(u)
  PROVE  Order' /\ Kept'
<1> DEFINE s == holds[u].slot
           n == holds[u].num
<1>1. /\ does' = does /\ does[u] = AtEase /\ runs \in {NoInodeUser, u} /\ runs' = runs
      /\ imap' = imap /\ uses' = uses /\ stored' = stored /\ n \in linked
  BY DEF ChangeHeld, LastUnlink, Idle_
<1>2. /\ n \in Numbers /\ n # 0 /\ s \in Slots_ /\ inode[s] \in Inodes_ /\ inode[s].num = n
  <2>1. n \in Numbers /\ n # 0
    BY <1>1, InodeAssumption DEF IInv, Types
  <2>2. s # 0
    BY <2>1, CallType DEF FitsIn
  <2> QED BY <2>1, <2>2, HeldNumbers, CallType
<1>3. inode[s].data \in Int
  BY <1>2 DEF Inodes_
<1>4. \A t \in Slots_ : inode[t].num = n => t = s
  BY <1>2 DEF IInv, Alone
<1>5. inode[s].count # 0
  BY <1>2, Nobodys DEF IInv
<1>6. \A v \in InodeUsers : v # u /\ does[v].at = "reading" => does[v].slot # s /\ does[v].slot \in Slots_
  <2> SUFFICES ASSUME NEW v \in InodeUsers, v # u, does[v].at = "reading"
               PROVE  does[v].slot # s /\ does[v].slot \in Slots_
    OBVIOUS
  <2>1. holds[v].slot = does[v].slot /\ does[v].slot \in Slots_
    <3>1. FitsIn(does[v], holds[v], linked) /\ does[v].op \in Ops
      BY CallType DEF Calls_
    <3> QED BY <3>1, CallType DEF FitsIn, Ops
  <2>2. inode[does[v].slot].count = 1
    BY DEF Order, OrderlyIn
  <2> QED BY <2>1, <2>2, OnlyHolders DEF IInv
<1> HIDE DEF s, n
<1>7. /\ inode'[s].num = n /\ inode'[s].count = inode[s].count /\ inode'[s].lock = inode[s].lock
      /\ inode'[s].dirt /\ \A t \in Slots_ : t # s => inode'[t] = inode[t]
  <2>1. CASE ChangeHeld(u)
    <3>1. inode' = [inode EXCEPT ![s].dirt = TRUE, ![s].data = 1 - @]
      BY <2>1 DEF ChangeHeld, s
    <3> QED BY <3>1, <1>2 DEF IInv, Types, Inodes_
  <2>2. CASE LastUnlink(u)
    <3>1. inode' = [inode EXCEPT ![s].dirt = TRUE]
      BY <2>2 DEF LastUnlink, s
    <3> QED BY <3>1, <1>2 DEF IInv, Types, Inodes_
  <2> QED BY <2>1, <2>2
<1>8. Order'
  <2>1. does'[u].empty = 0 /\ ~Busy(does'[u]) /\ OrderlyIn(does'[u], inode'[does'[u].slot], u, runs', uses)
    BY <1>1, AtEaseType DEF OrderlyIn, Busy
  <2>2. "unlink" \notin uses => linked' = imap'
    BY <1>1 DEF Order, ChangeHeld, LastUnlink
  <2>3. \A t \in Slots_ : inode'[t].count = 0 => ~inode'[t].lock /\ ~inode'[t].dirt
    BY <1>5, <1>7 DEF Order
  <2>4. \A v \in InodeUsers : v # u /\ does[v].empty # 0 => IsBlank(inode'[does[v].empty])
    <3> SUFFICES ASSUME NEW v \in InodeUsers, does[v].empty # 0 PROVE IsBlank(inode'[does[v].empty])
      OBVIOUS
    <3>1. does[v].empty \in Slots_ /\ does[v].empty # s
      BY <1>2, CallType DEF IInv, Emptied
    <3>2. IsBlank(inode[does[v].empty])
      BY DEF Order
    <3> QED BY <3>1, <3>2, <1>7
  <2>5. \A v \in InodeUsers : v # u /\ Busy(does[v]) => inode'[does[v].slot].lock
    <3> SUFFICES ASSUME NEW v \in InodeUsers, Busy(does[v]) PROVE inode'[does[v].slot].lock
      OBVIOUS
    <3>1. does[v].slot \in Slots_ /\ inode[does[v].slot].lock
      BY CallType DEF FitsIn, Busy, Order, OrderlyIn
    <3> QED BY <3>1, <1>7
  <2>6. \A v \in InodeUsers : v # u /\ does[v].at = "reading" => inode'[does[v].slot] = inode[does[v].slot]
    BY <1>6, <1>7
  <2>7. \A v \in InodeUsers : v # u => does'[v] = does[v]
    BY <1>1
  <2>8. Tidy(u)
    BY <1>1, <2>1, <2>2, <2>3, <2>4, <2>5, <2>6, <2>7 DEF Tidy
  <2> QED BY <2>8, TidyKeeps
<1>9. \A m : Reading(m)' <=> Reading(m)
  BY <1>1 DEF Reading
<1>10. CASE ChangeHeld(u)
  <2>1. /\ linked' = linked /\ latest' = [latest EXCEPT ![n] = 1 - inode[s].data]
        /\ inode' = [inode EXCEPT ![s].dirt = TRUE, ![s].data = 1 - @]
    BY <1>10 DEF ChangeHeld, s, n
  <2>2. inode'[s].data = 1 - inode[s].data
    BY <2>1, <1>2 DEF IInv, Types, Inodes_
  <2>3. latest'[n] = 1 - inode[s].data /\ \A m \in Numbers : m # n => latest'[m] = latest[m]
    BY <2>1, <1>2 DEF IInv, Types
  <2>4. Kept'
    <3> SUFFICES ASSUME NEW m \in linked
                 PROVE  /\ \A t \in Slots_ : inode'[t].num = m /\ ~Reading(m)' => inode'[t].data = latest'[m]
                        /\ (\A t \in Slots_ : inode'[t].num = m => ~inode'[t].dirt) => stored'[m] = latest'[m]
      BY <2>1 DEF Kept
    <3>1. CASE m = n
      <4>1. \A t \in Slots_ : inode'[t].num = n => t = s
        BY <1>4, <1>7
      <4> QED BY <4>1, <3>1, <2>2, <2>3, <1>2, <1>7
    <3>2. CASE m # n
      <4>1. /\ \A t \in Slots_ : inode[t].num = m /\ ~Reading(m) => inode[t].data = latest[m]
            /\ (\A t \in Slots_ : inode[t].num = m => ~inode[t].dirt) => stored[m] = latest[m]
        BY DEF Kept
      <4>2. \A t \in Slots_ : inode'[t].num = m \/ inode[t].num = m => inode'[t] = inode[t]
        BY <3>2, <1>2, <1>7
      <4>3. m \in Numbers
        BY DEF IInv, Types
      <4>4. latest'[m] = latest[m] /\ stored'[m] = stored[m]
        BY <4>3, <3>2, <2>3, <1>1
      <4>5. \A t \in Slots_ : inode'[t].num = m /\ ~Reading(m)' => inode'[t].data = latest'[m]
        BY <4>1, <4>2, <4>4, <1>9
      <4>6. (\A t \in Slots_ : inode'[t].num = m => ~inode'[t].dirt) => stored'[m] = latest'[m]
        BY <4>1, <4>2, <4>4
      <4> QED BY <4>5, <4>6
    <3> QED BY <3>1, <3>2
  <2> QED BY <1>8, <2>4
<1>11. CASE LastUnlink(u)
  <2>1. linked' = linked \ {n} /\ latest' = latest /\ inode' = [inode EXCEPT ![s].dirt = TRUE]
    BY <1>11 DEF LastUnlink, s, n
  <2>2. /\ \A t \in Slots_ : inode'[t].num = inode[t].num /\ inode'[t].data = inode[t].data
        /\ \A t \in Slots_ : inode[t].dirt => inode'[t].dirt
    BY <2>1, <1>2 DEF IInv, Types, Inodes_
  <2> QED BY <1>1, <1>8, <1>9, <2>1, <2>2, KeptSame
<1> QED BY <1>10, <1>11

-----------------------------------------------------------------------------
LEMMA OrderInit ==
  ASSUME IInv, InodesRest, ~("sync" \in uses /\ "unlink" \in uses)
  PROVE  Order /\ Kept
<1>1. /\ \A s \in Slots_ : inode[s] = Blank
      /\ \A u \in InodeUsers : does[u] = AtEase
      /\ imap = linked /\ linked \subseteq Numbers /\ latest = stored
  BY DEF InodesRest
<1>2. \A i, u : OrderlyIn(AtEase, i, u, runs, uses) /\ ~Busy(AtEase)
  BY AtEaseType DEF OrderlyIn, Busy
<1>3. Order
  BY <1>1, <1>2, AtEaseType, BlankType DEF Order
<1>4. Kept
  <2> SUFFICES ASSUME NEW n \in linked
               PROVE  /\ \A s \in Slots_ : inode[s].num # n
                      /\ stored[n] = latest[n]
    BY DEF Kept
  <2>1. n # 0
    BY <1>1, InodeAssumption
  <2> QED BY <2>1, <1>1, BlankType
<1> QED BY <1>3, <1>4

LEMMA OrderNext ==
  ASSUME IInv, Order, Kept, [InodeNext]_inodeVars
  PROVE  Order' /\ Kept'
<1>1. ASSUME NEW u \in InodeUsers, SleepOnInode(u) \/ RunAgain(u)
      PROVE  Order' /\ Kept'
  BY <1>1, SleepOrder
<1>2. ASSUME NEW u \in InodeUsers, CallIget(u) \/ CallNewInode(u) \/ CallIput(u) \/ CallSync(u)
      PROVE  Order' /\ Kept'
  BY <1>2, BeginOrder
<1>3. ASSUME NEW u \in InodeUsers, ChangeHeld(u) \/ LastUnlink(u)
      PROVE  Order' /\ Kept'
  BY <1>3, HeldOrder
<1>4. ASSUME NEW u \in InodeUsers, EmptySearch(u)
      PROVE  Order' /\ Kept'
  BY <1>4, SearchOrder
<1>5. ASSUME NEW u \in InodeUsers, EmptyFound(u)
      PROVE  Order' /\ Kept'
  BY <1>5, TakeOrder
<1>6. ASSUME NEW u \in InodeUsers, Scan(u)
      PROVE  Order' /\ Kept'
  <2>1. CASE Having(does[u].num) # {}
    <3> DEFINE s == Min(Having(does[u].num))
               c == [does[u] EXCEPT !.at = "found", !.slot = s]
    <3>1. s \in Slots_
      <4>1. Having(does[u].num) \subseteq Nat /\ Having(does[u].num) \subseteq Slots_
        BY InodeAssumption DEF Having, Slots_
      <4>2. s \in Having(does[u].num)
        BY <4>1, <2>1, LeastIsMember
      <4> QED BY <4>1, <4>2
    <3> HIDE DEF s
    <3>2. c \in Calls_
      BY <3>1, CallType, SlotRange DEF Calls_, Places
    <3>3. c = [does[u] EXCEPT !.at = "found", !.slot = Min(Having(does[u].num))]
      BY DEF s
    <3> HIDE DEF c
    <3> QED BY <1>6, <2>1, <3>2, <3>3, ScanFoundOrder
  <2>2. CASE Having(does[u].num) = {}
    BY <1>6, <2>2, ScanNewOrder
  <2> QED BY <2>1, <2>2
<1>7. ASSUME NEW u \in InodeUsers, FoundUnlocked(u)
      PROVE  Order' /\ Kept'
  <2>1. CASE Changed(u)
    <3> DEFINE c == [does[u] EXCEPT !.at = "scan", !.slot = 0]
    <3>1. c \in Calls_
      BY CallType, SlotRange DEF Calls_, Places
    <3>2. c = [does[u] EXCEPT !.at = "scan", !.slot = 0]
      OBVIOUS
    <3> HIDE DEF c
    <3> QED BY <1>7, <2>1, <3>1, <3>2, ScanFoundOrder
  <2>2. CASE ~Changed(u)
    BY <1>7, <2>2, JoinOrder
  <2> QED BY <2>1, <2>2
<1>8. ASSUME NEW u \in InodeUsers, ReadInode(u)
      PROVE  Order' /\ Kept'
  BY <1>8, ReadOrder
<1>9. ASSUME NEW u \in InodeUsers, HasRead(u)
      PROVE  Order' /\ Kept'
  BY <1>9, HasReadOrder
<1>10. ASSUME NEW u \in InodeUsers, NewInode(u)
       PROVE  Order' /\ Kept'
  BY <1>10, NewInodeOrder, NoInodeOrder
<1>11. ASSUME NEW u \in InodeUsers, WriteInode_(u)
       PROVE  Order' /\ Kept'
  BY <1>11, WriteOrder
<1>12. ASSUME NEW u \in InodeUsers, HasWritten(u)
       PROVE  Order' /\ Kept'
  BY <1>12, HasWrittenOrder
<1>13. ASSUME NEW u \in InodeUsers, Iput(u)
       PROVE  Order' /\ Kept'
  BY <1>13, LetGoOrder, IputWaitsOrder
<1>14. ASSUME NEW u \in InodeUsers, FreeInode(u)
       PROVE  Order' /\ Kept'
  BY <1>14, FreeOrder
<1>15. ASSUME NEW u \in InodeUsers, SyncInodes_(u)
       PROVE  Order' /\ Kept'
  BY <1>15, SyncOrder
<1>16. CASE UNCHANGED inodeVars
  <2>1. UNCHANGED <<inode, stored, linked, imap, does, runs, latest, uses>>
    BY <1>16 DEF inodeVars
  <2>2. \A n : Reading(n)' <=> Reading(n)
    BY <2>1 DEF Reading
  <2>3. Kept'
    BY <2>1, <2>2 DEF Kept
  <2> QED BY <2>1, <2>3 DEF Order
<1> QED BY <1>1, <1>2, <1>3, <1>4, <1>5, <1>6, <1>7, <1>8, <1>9, <1>10, <1>11, <1>12, <1>13, <1>14,
           <1>15, <1>16 DEF InodeNext

LEMMA KeptChanges == Kept => InodeChangesKept
<1> SUFFICES ASSUME Kept, NEW n \in linked
             PROVE  LET dirty == {s \in Having(n) : inode[s].dirt} IN
                    /\ \A s \in Having(n) : ~Reading(n) => inode[s].data = latest[n]
                    /\ dirty = {} => stored[n] = latest[n]
  BY DEF InodeChangesKept
<1>1. \A s \in Having(n) : ~Reading(n) => inode[s].data = latest[n]
  BY DEF Kept, Having
<1>2. ASSUME {s \in Having(n) : inode[s].dirt} = {} PROVE stored[n] = latest[n]
  <2>1. \A s \in Slots_ : inode[s].num = n => ~inode[s].dirt
    BY <1>2 DEF Having
  <2> QED BY <2>1 DEF Kept
<1> QED BY <1>1, <1>2

(* What is in the inodes: where, besides, not both sync and the last       *)
(* unlink are among the calls (sync_inodes looks at the inodes without     *)
(* counting itself, and free_inode clears the one that it writes), what    *)
(* was changed last in an inode with a name is in memory, or on the device *)
(* if the inode is clean or not in memory.                                 *)
THEOREM InodeChangesKeptAlways ==
  (\A o \in OtherCalls : "race" \notin o /\ ~({"sync", "unlink"} \subseteq o))
    => (InodeSpec => []InodeChangesKept)
<1> SUFFICES ASSUME \A o \in OtherCalls : "race" \notin o /\ ~({"sync", "unlink"} \subseteq o)
             PROVE  InodeSpec => []InodeChangesKept
  OBVIOUS
<1>1. InodesRest => IInv /\ Order /\ Kept
  <2> SUFFICES ASSUME InodesRest PROVE IInv /\ Order /\ Kept
    OBVIOUS
  <2>1. "race" \notin uses /\ ~("sync" \in uses /\ "unlink" \in uses)
    BY DEF InodesRest
  <2> QED BY <2>1, IInvInit, OrderInit
<1>2. (IInv /\ Order /\ Kept) /\ [InodeNext]_inodeVars => (IInv /\ Order /\ Kept)'
  BY IInvNext, OrderNext
<1> QED BY <1>1, <1>2, KeptChanges, PTL DEF InodeSpec

-----------------------------------------------------------------------------
(* free_inode's panic: a user comes to an inode by its number, which had   *)
(* a name when he asked for it; what is truncated has none.                *)
Solo == \A u, v \in InodeUsers : does[u].at = "truncate" /\ u # v => holds[v].slot # does[u].slot

Alike(u) ==
  /\ \A v \in InodeUsers : v # u => does'[v] = does[v] /\ holds'[v] = holds[v]
  /\ holds'[u] = holds[u] \/ holds'[u].slot = 0 \/ holds'[u].num \in linked'
  /\ does'[u].at = "truncate" =>
       does'[u] = does[u] \/ \A v \in InodeUsers : v # u => holds[v].slot # does'[u].slot

LEMMA AlikeKeeps ==
  ASSUME IInv, IInv', Solo, NEW u \in InodeUsers, Alike(u)
  PROVE  Solo'
<1> SUFFICES ASSUME NEW a \in InodeUsers, NEW b \in InodeUsers, does'[a].at = "truncate", a # b,
                    holds'[b].slot = does'[a].slot
             PROVE  FALSE
  BY DEF Solo
<1> USE DEF Alike
<1>1. CASE a = u
  BY <1>1 DEF Solo
<1>2. CASE a # u /\ b # u
  BY <1>2 DEF Solo
<1>3. CASE a # u /\ b = u
  <2>1. does'[a] = does[a] /\ holds'[a] = holds[a]
    BY <1>3
  <2>2. does'[a] \in Calls_ /\ does'[a].op \in Ops /\ FitsIn(does'[a], holds'[a], linked')
    BY DEF IInv, Types, Fitting, Calls_
  <2>3. holds'[a].slot = does'[a].slot /\ does'[a].slot # 0 /\ holds'[a].num \notin linked'
    BY <2>2 DEF FitsIn, Ops
  <2>4. holds'[u].num = holds'[a].num
    <3>1. /\ holds'[a].slot # 0 => inode'[holds'[a].slot].num = holds'[a].num
          /\ holds'[b].slot # 0 => inode'[holds'[b].slot].num = holds'[b].num
      BY DEF IInv, HeldRight
    <3> QED BY <3>1, <2>3, <1>3
  <2>5. holds'[u] = holds[u]
    BY <2>3, <2>4, <1>3
  <2> QED BY <2>1, <2>5, <1>3 DEF Solo
<1> QED BY <1>1, <1>2, <1>3

(* A call that goes on elsewhere, with what its user has.                  *)
LEMMA AlikeCall ==
  ASSUME IInv, NEW u \in InodeUsers, NEW c, does' = [does EXCEPT ![u] = c], c.at # "truncate",
         \/ holds' = holds
         \/ \E h : holds' = [holds EXCEPT ![u] = h] /\ (h.slot = 0 \/ h.num \in linked')
  PROVE  Alike(u)
<1>1. does \in [InodeUsers -> Calls_] /\ holds \in [InodeUsers -> Holds_]
  BY DEF IInv, Types
<1> QED BY <1>1 DEF Alike

LEMMA AlikeStep ==
  ASSUME IInv, Solo, NEW u \in InodeUsers,
         \/ SleepOnInode(u) \/ RunAgain(u)
         \/ CallIget(u) \/ CallNewInode(u) \/ CallIput(u) \/ CallSync(u) \/ ChangeHeld(u) \/ LastUnlink(u)
         \/ EmptySearch(u) \/ EmptyFound(u) \/ Scan(u) \/ FoundUnlocked(u) \/ ReadInode(u) \/ HasRead(u)
         \/ NewInode(u) \/ WriteInode_(u) \/ HasWritten(u) \/ Iput(u) \/ FreeInode(u) \/ SyncInodes_(u)
  PROVE  Alike(u)
<1>1. does[u] \in Calls_ /\ FitsIn(does[u], holds[u], linked) /\ does[u].op \in Ops
  BY CallType DEF Calls_
<1>2. AtEase.at # "truncate" /\ Nothing_held.slot = 0
  BY AtEaseType DEF Nothing_held
<1>3. CASE SleepOnInode(u) \/ RunAgain(u) \/ ChangeHeld(u) \/ LastUnlink(u)
  BY <1>3 DEF SleepOnInode, RunAgain, ChangeHeld, LastUnlink, Alike
<1>4. CASE CallIget(u) \/ CallNewInode(u) \/ CallIput(u) \/ CallSync(u)
  <2>1. PICK c : does' = [does EXCEPT ![u] = c] /\ c.at # "truncate"
    <3>1. CASE CallIget(u)
      <4>1. PICK n \in linked : does' = [does EXCEPT ![u] = [AtEase EXCEPT !.op = "iget", !.at = "empty", !.num = n]]
        BY <3>1 DEF CallIget, Begin_, GoOn
      <4>2. [AtEase EXCEPT !.op = "iget", !.at = "empty", !.num = n].at # "truncate"
        BY AtEaseType DEF Calls_
      <4> QED BY <4>1, <4>2
    <3>2. CASE CallNewInode(u)
      <4>1. does' = [does EXCEPT ![u] = [AtEase EXCEPT !.op = "new", !.at = "empty"]]
        BY <3>2 DEF CallNewInode, Begin_, GoOn
      <4>2. [AtEase EXCEPT !.op = "new", !.at = "empty"].at # "truncate"
        BY AtEaseType DEF Calls_
      <4> QED BY <4>1, <4>2
    <3>3. CASE CallIput(u)
      <4>1. does' = [does EXCEPT ![u] = [AtEase EXCEPT !.op = "iput", !.at = "put", !.slot = holds[u].slot]]
        BY <3>3 DEF CallIput, GoOn
      <4>2. [AtEase EXCEPT !.op = "iput", !.at = "put", !.slot = holds[u].slot].at # "truncate"
        BY AtEaseType DEF Calls_
      <4> QED BY <4>1, <4>2
    <3>4. CASE CallSync(u)
      <4>1. does' = [does EXCEPT ![u] = [AtEase EXCEPT !.op = "sync", !.at = "sync", !.slot = 1]]
        BY <3>4 DEF CallSync, Begin_, GoOn
      <4>2. [AtEase EXCEPT !.op = "sync", !.at = "sync", !.slot = 1].at # "truncate"
        BY AtEaseType DEF Calls_
      <4> QED BY <4>1, <4>2
    <3> QED BY <1>4, <3>1, <3>2, <3>3, <3>4
  <2>2. holds' = holds
    BY <1>4 DEF CallIget, CallNewInode, CallIput, CallSync, Begin_
  <2> QED BY <2>1, <2>2, AlikeCall
<1>5. CASE EmptySearch(u)
  <2>1. PICK s : does' = [does EXCEPT ![u] = [does[u] EXCEPT !.at = "free", !.slot = s]]
    BY <1>5 DEF EmptySearch, GoOn
  <2>2. [does[u] EXCEPT !.at = "free", !.slot = s].at # "truncate" /\ holds' = holds
    BY <1>1, <1>5 DEF Calls_, EmptySearch
  <2> QED BY <2>1, <2>2, AlikeCall
<1>6. CASE EmptyFound(u)
  <2> DEFINE to == IF does[u].op = "iget" THEN "scan" ELSE "new"
  <2>1. /\ holds' = holds
        /\ \/ does' = [does EXCEPT ![u] = [does[u] EXCEPT !.at = "write"]]
           \/ does' = [does EXCEPT ![u] = [does[u] EXCEPT !.at = "empty", !.slot = 0]]
           \/ does' = [does EXCEPT ![u] = [does[u] EXCEPT !.at = to, !.slot = 0, !.empty = does[u].slot]]
    BY <1>6 DEF EmptyFound, GoOn
  <2>2. /\ [does[u] EXCEPT !.at = "write"].at # "truncate"
        /\ [does[u] EXCEPT !.at = "empty", !.slot = 0].at # "truncate"
        /\ [does[u] EXCEPT !.at = to, !.slot = 0, !.empty = does[u].slot].at # "truncate"
    BY <1>1 DEF Calls_
  <2> QED BY <2>1, <2>2, AlikeCall
<1>7. CASE Scan(u)
  <2>1. CASE Having(does[u].num) # {}
    <3>1. PICK s : does' = [does EXCEPT ![u] = [does[u] EXCEPT !.at = "found", !.slot = s]]
      BY <1>7, <2>1 DEF Scan, GoOn
    <3>2. [does[u] EXCEPT !.at = "found", !.slot = s].at # "truncate" /\ holds' = holds
      BY <1>1, <1>7, <2>1 DEF Calls_, Scan
    <3> QED BY <3>1, <3>2, AlikeCall
  <2>2. CASE Having(does[u].num) = {}
    <3> DEFINE h == [slot |-> does[u].empty, num |-> does[u].num]
               c == [does[u] EXCEPT !.at = "read", !.slot = does[u].empty, !.empty = 0]
    <3>1. does' = [does EXCEPT ![u] = c] /\ holds' = [holds EXCEPT ![u] = h] /\ linked' = linked
      BY <1>7, <2>2 DEF Scan, GoOn, diskVars
    <3>2. c.at # "truncate" /\ h.num \in linked'
      BY <1>1, <1>7, <3>1 DEF Calls_, FitsIn, Ops, Scan, At_
    <3> QED BY <3>1, <3>2, AlikeCall
  <2> QED BY <2>1, <2>2
<1>8. CASE FoundUnlocked(u)
  <2>1. CASE Changed(u)
    <3>1. does' = [does EXCEPT ![u] = [does[u] EXCEPT !.at = "scan", !.slot = 0]] /\ holds' = holds
      BY <1>8, <2>1 DEF FoundUnlocked, GoOn
    <3>2. [does[u] EXCEPT !.at = "scan", !.slot = 0].at # "truncate"
      BY <1>1 DEF Calls_
    <3> QED BY <3>1, <3>2, AlikeCall
  <2>2. CASE ~Changed(u)
    <3> DEFINE h == [slot |-> does[u].slot, num |-> does[u].num]
    <3>1. does' = [does EXCEPT ![u] = AtEase] /\ holds' = [holds EXCEPT ![u] = h] /\ linked' = linked
      BY <1>8, <2>2 DEF FoundUnlocked, Done, diskVars
    <3>2. h.num \in linked'
      BY <1>1, <1>8, <3>1 DEF FitsIn, Ops, FoundUnlocked, At_
    <3> QED BY <1>2, <3>1, <3>2, AlikeCall
  <2> QED BY <2>1, <2>2
<1>9. CASE ReadInode(u)
  <2>1. does' = [does EXCEPT ![u] = [does[u] EXCEPT !.at = "reading"]] /\ holds' = holds
    BY <1>9 DEF ReadInode, ForBlock
  <2>2. [does[u] EXCEPT !.at = "reading"].at # "truncate"
    BY <1>1 DEF Calls_
  <2> QED BY <2>1, <2>2, AlikeCall
<1>10. CASE HasRead(u)
  <2>1. does' = [does EXCEPT ![u] = AtEase] /\ holds' = holds
    BY <1>10 DEF HasRead, Done
  <2> QED BY <1>2, <2>1, AlikeCall
<1>11. CASE NewInode(u)
  <2>1. does' = [does EXCEPT ![u] = AtEase]
    BY <1>11 DEF NewInode, Done
  <2>2. CASE Numbers \ imap = {}
    <3>1. holds' = holds
      BY <1>11, <2>2 DEF NewInode
    <3> QED BY <1>2, <2>1, <3>1, AlikeCall
  <2>3. CASE Numbers \ imap # {}
    <3> DEFINE n == Min(Numbers \ imap)
               h == [slot |-> does[u].empty, num |-> n]
    <3>1. holds' = [holds EXCEPT ![u] = h] /\ linked' = linked \cup {n}
      BY <1>11, <2>3 DEF NewInode
    <3> HIDE DEF n
    <3>2. h.num \in linked'
      BY <3>1
    <3> QED BY <1>2, <2>1, <3>1, <3>2, AlikeCall
  <2> QED BY <2>2, <2>3
<1>12. CASE WriteInode_(u) \/ HasWritten(u)
  <2>1. PICK a : does' = [does EXCEPT ![u] = [does[u] EXCEPT !.at = a]] /\ a # "truncate"
    <3>1. \/ does' = [does EXCEPT ![u] = [does[u] EXCEPT !.at = "writing"]]
          \/ does' = [does EXCEPT ![u] = After(does[u])]
      BY <1>12 DEF WriteInode_, HasWritten, ForBlock, GoOn
    <3>2. After(does[u]) = [does[u] EXCEPT !.at = AfterPlace(does[u].op)]
          /\ AfterPlace(does[u].op) # "truncate"
      BY <1>1 DEF After, AfterPlace
    <3> QED BY <3>1, <3>2
  <2>2. [does[u] EXCEPT !.at = a].at = a /\ holds' = holds
    BY <1>1, <1>12 DEF Calls_, WriteInode_, HasWritten
  <2> QED BY <2>1, <2>2, AlikeCall
<1>13. CASE Iput(u) /\ LetGo(Mine(u))
  <2>1. does' = [does EXCEPT ![u] = AtEase] /\ holds' = [holds EXCEPT ![u] = Nothing_held]
    <3>1. Mine(u).count = 1 => ~(Mine(u).num \notin linked \/ Mine(u).dirt)
      BY <1>13 DEF LetGo
    <3> QED BY <1>13, <3>1 DEF Iput, Done
  <2> QED BY <1>2, <2>1, AlikeCall
<1>14. CASE Iput(u) /\ ~LetGo(Mine(u))
  <2>1. PICK a : does' = [does EXCEPT ![u] = [does[u] EXCEPT !.at = a]] /\ holds' = holds
                 /\ Mine(u).count = 1 /\ does[u].at = "put"
    BY <1>14 DEF Iput, ForBlock, GoOn, At_
  <2>2. does'[u].slot = does[u].slot /\ \A v \in InodeUsers : v # u => does'[v] = does[v]
    BY <1>1, <2>1 DEF IInv, Types, Calls_
  <2>3. does[u].slot \in Slots_ /\ holds[u].slot = does[u].slot
    BY <1>1, <2>1, CallType DEF FitsIn, Ops
  <2>4. \A v \in InodeUsers : v # u => holds[v].slot # does[u].slot
    BY <2>1, <2>3, OnlyHolders DEF IInv, Mine
  <2> QED BY <2>1, <2>2, <2>4 DEF Alike
<1>15. CASE FreeInode(u)
  <2>1. does' = [does EXCEPT ![u] = AtEase] /\ holds' = [holds EXCEPT ![u] = Nothing_held]
    BY <1>15 DEF FreeInode, Done
  <2> QED BY <1>2, <2>1, AlikeCall
<1>16. CASE SyncInodes_(u)
  <2>1. /\ holds' = holds
        /\ \/ does' = [does EXCEPT ![u] = AtEase]
           \/ does' = [does EXCEPT ![u] = [does[u] EXCEPT !.at = "write"]]
           \/ does' = [does EXCEPT ![u] = [does[u] EXCEPT !.at = "next"]]
           \/ does' = [does EXCEPT ![u] = [does[u] EXCEPT !.at = "sync", !.slot = @ + 1]]
    BY <1>16 DEF SyncInodes_, GoOn, Done
  <2>2. /\ [does[u] EXCEPT !.at = "write"].at # "truncate"
        /\ [does[u] EXCEPT !.at = "next"].at # "truncate"
        /\ [does[u] EXCEPT !.at = "sync", !.slot = @ + 1].at # "truncate"
    BY <1>1 DEF Calls_
  <2> QED BY <1>2, <2>1, <2>2, AlikeCall
<1> QED BY <1>3, <1>4, <1>5, <1>6, <1>7, <1>8, <1>9, <1>10, <1>11, <1>12, <1>13, <1>14, <1>15, <1>16

LEMMA SoloAlone ==
  ASSUME IInv, Solo
  PROVE  FreedAlone
<1> SUFFICES ASSUME NEW u \in InodeUsers, does[u].at = "truncate" PROVE inode[does[u].slot].count = 1
  BY DEF FreedAlone, Mine
<1> DEFINE s == does[u].slot
<1>1. s \in Slots_ /\ holds[u].slot = s /\ inode[s].num # 0
  <2>1. does[u].op \in Ops /\ FitsIn(does[u], holds[u], linked)
    BY CallType DEF Calls_
  <2>2. s \in Slots_ /\ holds[u].slot = s
    BY <2>1, CallType DEF FitsIn, Ops
  <2> QED BY <2>2, HeldNumbers, SlotRange
<1>2. HoldersIn(holds, s) = {u}
  BY <1>1 DEF HoldersIn, Solo
<1>3. EmptiesIn(does, s) = {}
  BY <1>1, SlotRange DEF EmptiesIn, IInv, Emptied
<1> HIDE DEF s
<1>4. Cardinality({u}) = 1 /\ Cardinality({}) = 0
  BY FS_Singleton, FS_EmptySet
<1>5. inode[s].count = 1
  BY <1>1, <1>2, <1>3, <1>4 DEF IInv, CountsExact
<1> QED BY <1>5 DEF s

(* The inode cache: where nobody unlinks the last name of an inode between *)
(* another user's search for the number and his iget (fs/namei.c), no      *)
(* inode is ever in memory twice, a slot keeps its number while a user has *)
(* it, i_count is the number of its users over every sleep of iget,        *)
(* get_empty_inode and iput, and free_inode finds one user however long    *)
(* truncate sleeps: its panic (fs/bitmap.c:191) is not reached.            *)
THEOREM InodesApartAlways ==
  (\A o \in OtherCalls : "race" \notin o) => (InodeSpec => []InodesApart)
<1> SUFFICES ASSUME \A o \in OtherCalls : "race" \notin o PROVE InodeSpec => []InodesApart
  OBVIOUS
<1>1. InodesRest => IInv /\ Solo
  <2> SUFFICES ASSUME InodesRest PROVE IInv /\ Solo
    OBVIOUS
  <2>1. "race" \notin uses /\ \A u \in InodeUsers : does[u] = AtEase
    BY DEF InodesRest
  <2> QED BY <2>1, IInvInit, AtEaseType DEF Solo
<1>2. (IInv /\ Solo) /\ [InodeNext]_inodeVars => (IInv /\ Solo)'
  <2> SUFFICES ASSUME IInv, Solo, [InodeNext]_inodeVars PROVE IInv' /\ Solo'
    OBVIOUS
  <2>1. IInv'
    BY IInvNext
  <2>2. CASE InodeNext
    <3>1. PICK u \in InodeUsers : Alike(u)
      BY <2>2, AlikeStep DEF InodeNext
    <3> QED BY <2>1, <3>1, AlikeKeeps
  <2>3. CASE UNCHANGED inodeVars
    <3>1. does' = does /\ holds' = holds
      BY <2>3 DEF inodeVars
    <3>2. Solo'
      BY <3>1 DEF Solo
    <3> QED BY <2>1, <3>2
  <2> QED BY <2>1, <2>2, <2>3
<1>3. IInv /\ Solo => InodesApart
  BY IInvApart, SoloAlone DEF InodesApart
<1> QED BY <1>1, <1>2, <1>3, PTL DEF InodeSpec

-----------------------------------------------------------------------------
(* The label of a zone is the place it was taken for: a file, and the way  *)
(* there.  A zone keeps it as long as it is marked, whatever becomes of    *)
(* the cell that referred to it.                                           *)
Labels == [file : Owners \cup {0}, cells : Seq(Nat) \ {<<>>}]
Prefix(b, k) == [i \in 1..k |-> PathTo(b)[i]]
Label(f, b, k) == [file |-> f, cells |-> Prefix(b, k)]
Down(l, w) == [file |-> l.file, cells |-> Append(l.cells, w)]
FirstOf(f, s) == [file |-> f, cells |-> <<s>>]

Blocks_ == 0..(DIRECT + PER + PER * PER - 1)
Frames == [zone : Zones, word : 0..PER, busy : BOOLEAN]
Tasks_ == [op : {"none", "read", "write", "truncate"},
           at : {"user", "map", "new", "leave", "get", "copy",
                 "cells", "indirect", "hash", "free", "gone"},
           file : Owners \cup {0}, block : Nat, path : Seq(Nat),
           bh : Zones \cup {0}, zone : Zones \cup {0},
           slot : 0..(DIRECT + 2), stack : Seq(Frames), busy : BOOLEAN]
BlockTypes ==
  /\ i_zone \in [Owners -> [ZoneSlots -> Zones \cup {0}]]
  /\ words \in [Zones -> [Words -> Zones \cup {0}]]
  /\ content \in [Zones -> {<<>>} \cup (Owners \X Blocks_)]
  /\ zmap \subseteq Zones /\ b_count \in [Zones -> Int]
  /\ work \in [Workers -> Tasks_] /\ turn \in Workers \cup {NoWorker}
  /\ pressing \in BlockCases

(* What the fields of a call are at each of its places.                    *)
Passed(c) == Len(PathTo(c.block)) - Len(c.path)
Maps(c) ==
  /\ c.op \in {"read", "write"} /\ c.at \in {"map", "new", "leave", "get", "copy"}
  /\ c.file \in Owners /\ c.block \in Blocks_
  /\ Len(c.path) \in 1..Len(PathTo(c.block))
  /\ \A i \in 1..Len(c.path) : c.path[i] = PathTo(c.block)[Passed(c) + i]
  /\ c.stack = <<>>
  /\ c.at = "new" => c.op = "write"
  /\ c.at = "copy" => Len(c.path) = 1
  /\ c.zone = 0 <=> c.at = "map"
  /\ IF c.at \in {"get", "copy"} THEN c.bh = 0 ELSE c.bh = 0 <=> Passed(c) = 0
Levels(c) == IF c.slot = Single THEN 1 ELSE IF c.slot = Double THEN 2 ELSE 0
Cuts(c) ==
  /\ c.op = "truncate" /\ c.at \in {"cells", "indirect", "hash", "free", "gone"}
  /\ c.file \in Owners /\ c.bh = 0
  /\ Len(c.stack) <= Levels(c)
  /\ Len(c.stack) = 2 => c.stack[2].word < PER
  /\ c.zone = 0 <=> c.at = "cells"
  /\ c.at # "cells" => ~AtEnd(c)
  /\ c.at = "indirect" => Len(c.stack) < Levels(c)
Fits(c) == c = Rest \/ Maps(c) \/ Cuts(c)

(* The zones whose buffers a call counts, and those in use that no call is *)
(* still to clear.                                                         *)
Stacked(c) == {c.stack[i].zone : i \in 1..Len(c.stack)}
Counting(c) == (({c.bh} \cup Stacked(c)) \cup (IF c.at \in {"copy", "free"} THEN {c.zone} ELSE {})) \ {0}
Settled(M, K) == {z \in M : \A t \in Workers : K[t].at = "new" => K[t].zone # z}

(* A zone is referred to at the place of its label, and once.              *)
Tree(I, W, S, L) ==
  /\ \A f \in Owners, s \in ZoneSlots : I[f][s] # 0 => I[f][s] \in S /\ L[I[f][s]] = FirstOf(f, s)
  /\ \A y \in S, w \in Words : W[y][w] # 0 => W[y][w] \in S /\ L[W[y][w]] = Down(L[y], w)
  /\ \A y, x \in S, w, v \in Words : W[y][w] = W[x][v] /\ W[y][w] # 0 => y = x /\ w = v

(* What a call has in hand: zones with the labels of its way, and, for a   *)
(* truncation, zones that are still where it found them.                   *)
Finds(c, S, L) ==
  c.op \in {"read", "write"} =>
    /\ c.bh # 0 => c.bh \in S /\ L[c.bh] = Label(c.file, c.block, Passed(c))
    /\ c.at # "map" => L[c.zone] = Label(c.file, c.block, Passed(c) + 1)
    /\ c.at \in {"leave", "get", "copy"} => c.zone \in S
InPlace(c, I, W) ==
  c.op = "truncate" =>
    /\ c.stack # <<>> => c.stack[Len(c.stack)].zone = I[c.file][c.slot]
    /\ Len(c.stack) = 2 => c.stack[1].zone = W[c.stack[2].zone][c.stack[2].word]
    /\ c.at # "cells" => c.zone = IF c.stack = <<>> THEN I[c.file][c.slot]
                                  ELSE W[c.stack[1].zone][c.stack[1].word]
NewOnes(K, M) ==
  \A t \in Workers : K[t].at = "new" =>
    K[t].zone \in M /\ \A u \in Workers : u # t /\ K[u].at = "new" => K[u].zone # K[t].zone
Contents(C, S, L) ==
  \A z \in S : C[z] # <<>> => C[z][1] = L[z].file /\ PathTo(C[z][2]) = L[z].cells
Marked(I, W, M, C, K, L) ==
  /\ Tree(I, W, Settled(M, K), L)
  /\ \A t \in Workers : Finds(K[t], Settled(M, K), L) /\ InPlace(K[t], I, W)
  /\ NewOnes(K, M) /\ Contents(C, Settled(M, K), L)

(* Counts are exact; truncation of a file keeps others out of it, unless   *)
(* they share it; who keeps running runs; a zone about to be freed has no  *)
(* user; and a cell that a new zone is for is still empty.                 *)
CountsIn(B, K) == \A z \in Zones : B[z] = Cardinality({t \in Workers : z \in Counting(K[t])})
Apart_(K, p) == ~p.shared =>
  \A t, u \in Workers : t # u /\ K[t].op = "truncate" /\ K[u].op # "none" => K[t].file # K[u].file
InTurn(K, T, p) ==
  /\ \A t \in Workers : K[t].at \in {"hash", "gone"} => T = t
  /\ ~p.pressed => \A t \in Workers : K[t].at \in {"new", "leave", "get", "indirect"} => T = t
Unfilled(K, p, I, W) ==
  ~p.pressed => \A t \in Workers : K[t].at = "new" =>
    0 = IF K[t].bh = 0 THEN I[K[t].file][K[t].path[1]] ELSE W[K[t].bh][K[t].path[1]]
Freed(B, K) == \A t \in Workers : K[t].at = "gone" => B[K[t].zone] = 0

BlocksInv ==
  /\ BlockTypes /\ \A t \in Workers : Fits(work[t])
  /\ Apart_(work, pressing) /\ InTurn(work, turn, pressing)
  /\ CountsIn(b_count, work) /\ Freed(b_count, work) /\ Unfilled(work, pressing, i_zone, words)
  /\ \E L \in [Zones -> Labels] : Marked(i_zone, words, zmap, content, work, L)

-----------------------------------------------------------------------------
(* Ways.                                                                   *)
LEMMA DivMod ==
  ASSUME NEW d \in Int, d >= 0, NEW n \in Int, n > 0, NEW q, q = d \div n, NEW m, m = d % n,
         NEW s, s = n * n, d < s
  PROVE  /\ q \in Int /\ q >= 0 /\ q < n /\ m \in Int /\ m >= 0 /\ m < n
         /\ d = n * q + m
<1>1. q \in Int /\ m \in Int /\ m >= 0 /\ m < n /\ d = n * q + m
  BY SMTT(20)
<1>2. ASSUME q <= -1 PROVE FALSE
  <2>1. n * q <= - n
    BY <1>1, <1>2
  <2> QED BY <1>1, <2>1
<1>3. ASSUME q >= n PROVE FALSE
  <2>1. n * q >= n * n
    BY <1>1, <1>3
  <2> QED BY <1>1, <1>3, <2>1
<1> QED BY <1>1, <1>2, <1>3

(* Far is the block in the part of the file under the last zone.           *)
Far(b) == b - DIRECT - PER
LEMMA WayIs ==
  ASSUME NEW b \in Blocks_
  PROVE  \/ b < DIRECT /\ PathTo(b) = <<b>>
         \/ b >= DIRECT /\ b < DIRECT + PER /\ PathTo(b) = <<DIRECT, b - DIRECT>>
         \/ b >= DIRECT + PER /\ PathTo(b) = <<DIRECT + 1, Far(b) \div PER, Far(b) % PER>>
<1>1. b \in Int /\ b >= 0 /\ DIRECT \in Int /\ PER \in Int /\ DIRECT > 0 /\ PER > 0
  BY FileBlocksAssumption DEF Blocks_
<1>2. CASE b < DIRECT
  BY <1>1, <1>2 DEF PathTo
<1>3. CASE b >= DIRECT /\ b < DIRECT + PER
  <2>1. ~(b < DIRECT) /\ b - DIRECT < PER
    BY <1>1, <1>3
  <2> QED BY <1>3, <2>1 DEF PathTo, Single
<1>4. CASE b >= DIRECT + PER
  <2>1. ~(b < DIRECT) /\ ~(b - DIRECT < PER)
    BY <1>1, <1>4
  <2> QED BY <1>4, <2>1 DEF PathTo, Double, Far
<1> QED BY <1>1, <1>2, <1>3, <1>4

LEMMA FarIs ==
  ASSUME NEW b \in Blocks_, b >= DIRECT + PER
  PROVE  /\ Far(b) \div PER \in Words /\ Far(b) % PER \in Words
         /\ b = DIRECT + PER + PER * (Far(b) \div PER) + (Far(b) % PER)
<1> DEFINE s == PER * PER
           q == Far(b) \div PER
           m == Far(b) % PER
<1>1. s \in Int /\ b \in Int /\ DIRECT \in Int /\ PER \in Int /\ PER > 0 /\ b <= DIRECT + PER + s - 1
  BY FileBlocksAssumption DEF Blocks_
<1> HIDE DEF s
<1>2. Far(b) \in Int /\ Far(b) >= 0 /\ Far(b) < s /\ b = DIRECT + PER + Far(b)
  BY <1>1 DEF Far
<1>3. s = PER * PER
  BY DEF s
<1> HIDE DEF q, m
<1>4. /\ q \in Int /\ q >= 0 /\ m \in Int /\ m >= 0 /\ m < PER
      /\ Far(b) = PER * q + m /\ q < PER
  <2>1. PER \in Int /\ PER > 0
    BY <1>1
  <2>2. q = Far(b) \div PER /\ m = Far(b) % PER
    BY DEF q, m
  <2> QED BY <1>2, <1>3, <2>1, <2>2, DivMod
<1>5. q \in Words /\ m \in Words
  BY <1>1, <1>4 DEF Words
<1>6. b = DIRECT + PER + PER * q + m
  BY <1>1, <1>2, <1>4
<1>7. q = Far(b) \div PER /\ m = Far(b) % PER
  BY DEF q, m
<1> QED BY <1>5, <1>6, <1>7

(* Different blocks have different ways.                                   *)
LEMMA OneBlock ==
  ASSUME NEW a \in Blocks_, NEW b \in Blocks_, PathTo(a) = PathTo(b)
  PROVE  a = b
<1>1. a \in Int /\ b \in Int /\ DIRECT \in Int
  BY FileBlocksAssumption DEF Blocks_
<1> DEFINE p == PathTo(a)
           q == PathTo(b)
           x == Far(b) \div PER
           y == Far(b) % PER
           u == Far(a) \div PER
           v == Far(a) % PER
<1>2. p = <<a>> \/ p = <<DIRECT, a - DIRECT>> \/ (a >= DIRECT + PER /\ p = <<DIRECT + 1, u, v>>)
  BY WayIs
<1>3. q = <<b>> \/ q = <<DIRECT, b - DIRECT>> \/ (b >= DIRECT + PER /\ q = <<DIRECT + 1, x, y>>)
  BY WayIs
<1>4. p = q
  OBVIOUS
<1>5. a >= DIRECT + PER => a = DIRECT + PER + PER * u + v
  BY FarIs
<1>6. b >= DIRECT + PER => b = DIRECT + PER + PER * x + y
  BY FarIs
<1> HIDE DEF p, q, x, y, u, v
<1>7. CASE p = <<a>>
  BY <1>3, <1>4, <1>7
<1>8. CASE p = <<DIRECT, a - DIRECT>>
  <2>1. a - DIRECT = b - DIRECT
    BY <1>3, <1>4, <1>8
  <2> QED BY <2>1, <1>1
<1>9. CASE a >= DIRECT + PER /\ p = <<DIRECT + 1, u, v>>
  <2>1. u = x /\ v = y /\ b >= DIRECT + PER
    BY <1>3, <1>4, <1>9
  <2> QED BY <2>1, <1>5, <1>6, <1>9
<1> QED BY <1>2, <1>7, <1>8, <1>9

(* The way to a block is a zone of the inode and up to two words.          *)
LEMMA Ways ==
  ASSUME NEW b \in Blocks_
  PROVE  /\ b \in Nat /\ PathTo(b) \in Seq(Nat) /\ Len(PathTo(b)) \in 1..3
         /\ PathTo(b)[1] \in ZoneSlots
         /\ \A i \in 2..Len(PathTo(b)) : PathTo(b)[i] \in Words
<1>1. b \in Int /\ b >= 0 /\ DIRECT \in Nat /\ PER \in Nat /\ DIRECT # 0 /\ PER # 0
  BY FileBlocksAssumption DEF Blocks_
<1>2. CASE b < DIRECT /\ PathTo(b) = <<b>>
  BY <1>1, <1>2 DEF ZoneSlots
<1>3. CASE b >= DIRECT /\ b < DIRECT + PER /\ PathTo(b) = <<DIRECT, b - DIRECT>>
  <2>1. DIRECT \in ZoneSlots /\ b - DIRECT \in Words /\ Words \subseteq Nat /\ ZoneSlots \subseteq Nat
    BY <1>1, <1>3 DEF ZoneSlots, Words
  <2> QED BY <1>1, <1>3, <2>1
<1>4. CASE b >= DIRECT + PER /\ PathTo(b) = <<DIRECT + 1, Far(b) \div PER, Far(b) % PER>>
  <2>1. /\ DIRECT + 1 \in ZoneSlots /\ Words \subseteq Nat /\ ZoneSlots \subseteq Nat
        /\ Far(b) \div PER \in Words /\ Far(b) % PER \in Words
    BY <1>1, <1>4, FarIs DEF ZoneSlots, Words
  <2> DEFINE q == Far(b) \div PER
             m == Far(b) % PER
  <2>2. PathTo(b) = <<DIRECT + 1, q, m>> /\ q \in Words /\ m \in Words
    BY <1>4, <2>1
  <2> HIDE DEF q, m
  <2> QED BY <1>1, <2>1, <2>2
<1> QED BY <1>2, <1>3, <1>4, WayIs

(* A label one step further on.                                            *)
LEMMA Labelling ==
  ASSUME NEW f \in Owners, NEW b \in Blocks_
  PROVE  /\ \A k \in 1..Len(PathTo(b)) : Label(f, b, k) \in Labels
         /\ Label(f, b, 1) = FirstOf(f, PathTo(b)[1])
         /\ Label(f, b, Len(PathTo(b))).cells = PathTo(b)
         /\ \A k \in 1..2 : k < Len(PathTo(b)) =>
              Label(f, b, k + 1) = Down(Label(f, b, k), PathTo(b)[k + 1])
<1> DEFINE p == PathTo(b)
<1>1. p \in Seq(Nat) /\ Len(p) \in 1..3 /\ \A i \in 1..Len(p) : p[i] \in Nat
  BY Ways
<1> HIDE DEF p
<1>2. ASSUME NEW k \in 1..Len(p)
      PROVE  /\ [i \in 1..k |-> p[i]] \in Seq(Nat) /\ Len([i \in 1..k |-> p[i]]) = k
             /\ [i \in 1..k |-> p[i]] # <<>>
  BY <1>1, <1>2
<1>3. [i \in 1..1 |-> p[i]] = <<p[1]>>
  BY <1>1
<1>4. [i \in 1..Len(p) |-> p[i]] = p
  BY <1>1
<1>5. ASSUME NEW k \in 1..2, k < Len(p)
      PROVE  [i \in 1..(k + 1) |-> p[i]] = Append([i \in 1..k |-> p[i]], p[k + 1])
  BY <1>1, <1>2, <1>5
<1> QED BY <1>1, <1>2, <1>3, <1>4, <1>5 DEF p, Label, Labels, Prefix, Down, FirstOf

-----------------------------------------------------------------------------
(* What a call has in hand.                                                *)
Typed(I, W, M, L) ==
  /\ I \in [Owners -> [ZoneSlots -> Zones \cup {0}]]
  /\ W \in [Zones -> [Words -> Zones \cup {0}]]
  /\ M \subseteq Zones /\ L \in [Zones -> Labels]

LEMMA ZonesNotZero == 0 \notin Zones
  BY FileBlocksAssumption

(* Labels along the tree: of one file, one cell longer each level.         *)
LEMMA Depths ==
  ASSUME NEW I, NEW W, NEW S, NEW L, Typed(I, W, S, L), Tree(I, W, S, L)
  PROVE  /\ \A f \in Owners, s \in ZoneSlots : I[f][s] # 0 =>
              /\ I[f][s] \in S /\ L[I[f][s]].file = f /\ Len(L[I[f][s]].cells) = 1
         /\ \A y \in S, w \in Words : W[y][w] # 0 =>
              /\ W[y][w] \in S /\ L[W[y][w]].file = L[y].file
              /\ Len(L[W[y][w]].cells) = Len(L[y].cells) + 1
         /\ \A y \in S : Len(L[y].cells) \in Nat \ {0} /\ L[y].cells \in Seq(Nat)
<1>1. ASSUME NEW f \in Owners, NEW s \in ZoneSlots, I[f][s] # 0
      PROVE  I[f][s] \in S /\ L[I[f][s]].file = f /\ Len(L[I[f][s]].cells) = 1
  <2>1. I[f][s] \in S /\ L[I[f][s]] = FirstOf(f, s)
    BY <1>1 DEF Tree
  <2> QED BY <2>1 DEF FirstOf
<1>2. ASSUME NEW y \in S PROVE Len(L[y].cells) \in Nat \ {0} /\ L[y].cells \in Seq(Nat)
  <2>1. L[y] \in Labels
    BY DEF Typed
  <2>2. L[y].cells \in Seq(Nat) /\ L[y].cells # <<>>
    BY <2>1 DEF Labels
  <2> QED BY <2>2
<1>3. ASSUME NEW y \in S, NEW w \in Words, W[y][w] # 0
      PROVE  /\ W[y][w] \in S /\ L[W[y][w]].file = L[y].file
             /\ Len(L[W[y][w]].cells) = Len(L[y].cells) + 1
  <2>1. W[y][w] \in S /\ L[W[y][w]] = Down(L[y], w)
    BY <1>3 DEF Tree
  <2>2. L[y].cells \in Seq(Nat)
    BY <1>2
  <2> QED BY <2>1, <2>2 DEF Down
<1> QED BY <1>1, <1>2, <1>3

(* Ranges of what a truncation has.                                        *)
LEMMA CutsFits ==
  ASSUME NEW c \in Tasks_, Cuts(c)
  PROVE  /\ Len(c.stack) \in 0..2 /\ \A i \in 1..Len(c.stack) : c.stack[i] \in Frames /\ c.stack[i].zone \in Zones
         /\ c.stack = <<>> <=> Len(c.stack) = 0
         /\ c.stack # <<>> => c.slot \in ZoneSlots /\ c.slot \in {Single, Double}
         /\ c.at # "cells" => c.slot \in ZoneSlots /\ c.zone \in Zones
         /\ c.at # "cells" /\ c.stack # <<>> => c.stack[1].word \in Words
         /\ Len(c.stack) = 2 => c.stack[2].word \in Words
<1>1. c.stack \in Seq(Frames) /\ c.slot \in 0..(DIRECT + 2) /\ DIRECT \in Nat /\ PER \in Nat
  BY FileBlocksAssumption DEF Tasks_
<1>2. Len(c.stack) \in Nat /\ Len(c.stack) <= Levels(c) /\ Levels(c) \in 0..2
  BY <1>1 DEF Cuts, Levels
<1>3. Len(c.stack) \in 0..2 /\ (c.stack = <<>> <=> Len(c.stack) = 0)
  <2>1. Len(c.stack) \in 0..2
    <3> DEFINE n == Len(c.stack)
               m == Levels(c)
    <3>1. n \in Nat /\ n <= m /\ m \in 0..2
      BY <1>2
    <3> HIDE DEF n, m
    <3>2. n \in 0..2
      BY <3>1
    <3> QED BY <3>2 DEF n
  <2>2. c.stack = <<>> <=> Len(c.stack) = 0
    BY <1>1
  <2> QED BY <2>1, <2>2
<1>4. ASSUME NEW i \in 1..Len(c.stack) PROVE c.stack[i] \in Frames /\ c.stack[i].zone \in Zones /\ c.stack[i].word \in 0..PER
  <2>1. c.stack[i] \in Frames
    BY <1>1
  <2> QED BY <2>1 DEF Frames
<1>5. c.stack # <<>> => c.slot \in ZoneSlots /\ c.slot \in {Single, Double}
  BY <1>1, <1>2, <1>3 DEF Levels, ZoneSlots, Single, Double
<1>6. ASSUME c.at # "cells" PROVE c.zone \in Zones /\ c.slot \in ZoneSlots /\ (c.stack # <<>> => c.stack[1].word \in Words)
  <2>1. ~AtEnd(c) /\ c.zone # 0 /\ c.zone \in Zones \cup {0}
    BY <1>6 DEF Cuts, Tasks_
  <2>2. CASE c.stack = <<>>
    BY <2>1, <2>2, <1>1 DEF AtEnd, ZoneSlots, Double
  <2>3. CASE c.stack # <<>>
    <3>1. c.stack[1].word # PER
      BY <2>1, <2>3, <1>1 DEF AtEnd, Top_
    <3> QED BY <3>1, <2>1, <2>3, <1>1, <1>3, <1>4, <1>5 DEF Words
  <2> QED BY <2>2, <2>3
<1>7. Len(c.stack) = 2 => c.stack[2].word \in Words
  BY <1>1, <1>4 DEF Cuts, Words
<1> QED BY <1>3, <1>4, <1>5, <1>6, <1>7

(* The zones a truncation has in hand are zones of its file, each a level  *)
(* below the last: they are different ones.                                *)
LEMMA CutHas ==
  ASSUME NEW I, NEW W, NEW S, NEW L, Typed(I, W, S, L), Tree(I, W, S, L),
         NEW c \in Tasks_, Cuts(c), InPlace(c, I, W)
  PROVE  /\ \A i \in 1..Len(c.stack) :
              /\ c.stack[i].zone \in S /\ L[c.stack[i].zone].file = c.file
              /\ Len(L[c.stack[i].zone].cells) = Len(c.stack) + 1 - i
         /\ c.at # "cells" =>
              /\ c.zone \in S /\ L[c.zone].file = c.file /\ Len(L[c.zone].cells) = Len(c.stack) + 1
         /\ c.at # "cells" => c.zone \notin Stacked(c)
         /\ Len(c.stack) = 2 => c.stack[1].zone # c.stack[2].zone
<1> USE ZonesNotZero
<1>1. /\ Len(c.stack) \in 0..2 /\ c.file \in Owners
      /\ \A i \in 1..Len(c.stack) : c.stack[i].zone \in Zones
      /\ c.stack = <<>> <=> Len(c.stack) = 0
      /\ c.stack # <<>> => c.slot \in ZoneSlots
      /\ c.at # "cells" => c.slot \in ZoneSlots /\ c.zone \in Zones
      /\ c.at # "cells" /\ c.stack # <<>> => c.stack[1].word \in Words
      /\ Len(c.stack) = 2 => c.stack[2].word \in Words
  BY CutsFits DEF Cuts
<1>2. c.op = "truncate"
  BY DEF Cuts
<1>3. /\ \A f \in Owners, s \in ZoneSlots : I[f][s] # 0 =>
              /\ I[f][s] \in S /\ L[I[f][s]].file = f /\ Len(L[I[f][s]].cells) = 1
      /\ \A y \in S, w \in Words : W[y][w] # 0 =>
              /\ W[y][w] \in S /\ L[W[y][w]].file = L[y].file
              /\ Len(L[W[y][w]].cells) = Len(L[y].cells) + 1
  BY Depths
<1> DEFINE n == Len(c.stack)
<1>4. n > 0 => c.stack[n].zone \in S /\ L[c.stack[n].zone].file = c.file /\ Len(L[c.stack[n].zone].cells) = 1
  BY <1>1, <1>2, <1>3 DEF InPlace
<1>5. n = 2 => c.stack[1].zone \in S /\ L[c.stack[1].zone].file = c.file /\ Len(L[c.stack[1].zone].cells) = 2
  <2>1. SUFFICES ASSUME n = 2
                 PROVE  /\ c.stack[1].zone \in S /\ L[c.stack[1].zone].file = c.file
                        /\ Len(L[c.stack[1].zone].cells) = 2
    OBVIOUS
  <2>2. c.stack[1].zone = W[c.stack[2].zone][c.stack[2].word]
    BY <2>1, <1>2 DEF InPlace
  <2>3. c.stack[2].zone \in S /\ L[c.stack[2].zone].file = c.file /\ Len(L[c.stack[2].zone].cells) = 1
    BY <2>1, <1>4
  <2>4. c.stack[1].zone # 0 /\ c.stack[2].word \in Words
    BY <2>1, <1>1
  <2> DEFINE x == c.stack[1].zone
             y == c.stack[2].zone
             w == c.stack[2].word
  <2>5. x = W[y][w] /\ y \in S /\ L[y].file = c.file /\ Len(L[y].cells) = 1 /\ x # 0 /\ w \in Words
    BY <2>2, <2>3, <2>4
  <2> HIDE DEF n, x, y, w
  <2>6. x \in S /\ L[x].file = c.file /\ Len(L[x].cells) = 2
    <3>1. x \in S /\ L[x].file = L[y].file /\ Len(L[x].cells) = Len(L[y].cells) + 1
      BY <2>5, <1>3
    <3> QED BY <2>5, <3>1
  <2> QED BY <2>6 DEF x
<1>6. \A i \in 1..n : /\ c.stack[i].zone \in S /\ L[c.stack[i].zone].file = c.file
                      /\ Len(L[c.stack[i].zone].cells) = n + 1 - i
  <2> DEFINE Has(i, k) == /\ c.stack[i].zone \in S /\ L[c.stack[i].zone].file = c.file
                          /\ Len(L[c.stack[i].zone].cells) = k
  <2>1. n \in 0..2 /\ (n > 0 => Has(n, 1)) /\ (n = 2 => Has(1, 2))
    BY <1>1, <1>4, <1>5
  <2> HIDE DEF n, Has
  <2>2. \A i \in 1..n : Has(i, n + 1 - i)
    <3>1. CASE n = 2
      <4>1. Has(2, 1) /\ Has(1, 2) /\ \A i \in 1..n : (i = 1 /\ n + 1 - i = 2) \/ (i = 2 /\ n + 1 - i = 1)
        BY <2>1, <3>1
      <4> QED BY <4>1
    <3>2. CASE n = 1
      <4>1. Has(1, 1) /\ \A i \in 1..n : i = 1 /\ n + 1 - i = 1
        BY <2>1, <3>2
      <4> QED BY <4>1
    <3>3. CASE n = 0
      BY <3>3
    <3> QED BY <2>1, <3>1, <3>2, <3>3
  <2> QED BY <2>2 DEF Has
<1>7. c.at # "cells" => c.zone \in S /\ L[c.zone].file = c.file /\ Len(L[c.zone].cells) = n + 1
  <2>1. SUFFICES ASSUME c.at # "cells"
                 PROVE  c.zone \in S /\ L[c.zone].file = c.file /\ Len(L[c.zone].cells) = n + 1
    OBVIOUS
  <2>2. CASE c.stack = <<>>
    BY <2>1, <2>2, <1>1, <1>2, <1>3 DEF InPlace
  <2>3. CASE c.stack # <<>>
    <3>1. c.zone = W[c.stack[1].zone][c.stack[1].word] /\ c.zone # 0 /\ c.stack[1].word \in Words
      BY <2>1, <2>3, <1>1, <1>2 DEF InPlace
    <3>2. /\ c.stack[1].zone \in S /\ L[c.stack[1].zone].file = c.file
          /\ Len(L[c.stack[1].zone].cells) = n
      <4>1. n \in 1..2
        BY <2>3, <1>1
      <4> HIDE DEF n
      <4> QED BY <4>1, <1>6
    <3> DEFINE x == c.zone
               y == c.stack[1].zone
               w == c.stack[1].word
    <3>3. x = W[y][w] /\ y \in S /\ L[y].file = c.file /\ Len(L[y].cells) = n /\ x # 0 /\ w \in Words
      BY <3>1, <3>2
    <3> HIDE DEF n, x, y, w
    <3>4. x \in S /\ L[x].file = c.file /\ Len(L[x].cells) = n + 1
      BY <3>3, <1>3
    <3> QED BY <3>4 DEF x
  <2> QED BY <2>2, <2>3
<1>8. c.at # "cells" => c.zone \notin Stacked(c)
  <2>1. SUFFICES ASSUME c.at # "cells", NEW i \in 1..n, c.zone = c.stack[i].zone PROVE FALSE
    BY DEF Stacked
  <2>2. Len(L[c.zone].cells) = n + 1 /\ Len(L[c.stack[i].zone].cells) = n + 1 - i
    BY <2>1, <1>6, <1>7
  <2> QED BY <2>1, <2>2, <1>1
<1>9. n = 2 => c.stack[1].zone # c.stack[2].zone
  BY <1>4, <1>5
<1> QED BY <1>6, <1>7, <1>8, <1>9

(* A step that leaves the zones alone.                                     *)
LEMMA MarksQuiet ==
  ASSUME NEW I, NEW W, NEW M, NEW C, NEW K \in [Workers -> Tasks_], NEW L, Marked(I, W, M, C, K, L),
         NEW t \in Workers, NEW d \in Tasks_, K[t].at # "new", d.at # "new",
         Finds(d, Settled(M, K), L), InPlace(d, I, W)
  PROVE  Marked(I, W, M, C, [K EXCEPT ![t] = d], L)
<1> DEFINE N == [K EXCEPT ![t] = d]
<1>1. \A u \in Workers : N[u] = IF u = t THEN d ELSE K[u]
  OBVIOUS
<1> HIDE DEF N
<1>2. Settled(M, N) = Settled(M, K)
  BY <1>1 DEF Settled
<1>3. \A u \in Workers : Finds(N[u], Settled(M, N), L) /\ InPlace(N[u], I, W)
  BY <1>1, <1>2 DEF Marked
<1>4. NewOnes(N, M)
  BY <1>1 DEF NewOnes, Marked
<1> QED BY <1>2, <1>3, <1>4 DEF Marked, N

(* A zone is marked: it gets its label.                                    *)
LEMMA MarksNew ==
  ASSUME NEW I, NEW W, NEW M, NEW C, NEW K \in [Workers -> Tasks_], NEW L, Typed(I, W, M, L),
         Marked(I, W, M, C, K, L),
         \A u \in Workers : Fits(K[u]),
         NEW t \in Workers, NEW d \in Tasks_, K[t].at = "map", d = [K[t] EXCEPT !.at = "new", !.zone = d.zone],
         d.zone \in Zones \ M, K[t].op \in {"read", "write"},
         Label(d.file, d.block, Passed(d) + 1) \in Labels
  PROVE  LET P == [L EXCEPT ![d.zone] = Label(d.file, d.block, Passed(d) + 1)]
         IN  /\ P \in [Zones -> Labels]
             /\ Marked(I, W, M \cup {d.zone}, C, [K EXCEPT ![t] = d], P)
<1> USE ZonesNotZero
<1> DEFINE N == [K EXCEPT ![t] = d]
           z == d.zone
           X == M \cup {z}
           P == [L EXCEPT ![z] = Label(d.file, d.block, Passed(d) + 1)]
           S == Settled(M, K)
<1>1. \A u \in Workers : N[u] = IF u = t THEN d ELSE K[u]
  OBVIOUS
<1>2. P \in [Zones -> Labels] /\ P[z] = Label(d.file, d.block, Passed(d) + 1) /\ \A x \in Zones : x # z => P[x] = L[x]
  BY DEF Typed
<1>3. /\ d.at = "new" /\ z \in Zones /\ z \notin M /\ d.op \in {"read", "write"}
      /\ d.file = K[t].file /\ d.block = K[t].block /\ d.path = K[t].path /\ d.bh = K[t].bh /\ d.op = K[t].op
  BY DEF Tasks_
<1> HIDE DEF N, P
<1>4. S \subseteq M /\ M \subseteq Zones /\ z \notin S /\ Settled(X, N) = S
  <2>1. S \subseteq M /\ M \subseteq Zones
    BY DEF Settled, Typed
  <2>2. Settled(X, N) = S
    BY <1>1, <1>3 DEF Settled
  <2> QED BY <2>1, <2>2, <1>3
<1>5. Tree(I, W, S, P)
  BY <1>2, <1>4 DEF Marked, Tree
<1>6. ASSUME NEW u \in Workers PROVE Finds(N[u], S, P) /\ InPlace(N[u], I, W)
  <2>1. Finds(K[u], S, L) /\ InPlace(K[u], I, W)
    BY DEF Marked
  <2>2. CASE u = t
    <3>1. Passed(d) = Passed(K[t]) /\ N[u] = d
      BY <1>1, <1>3, <2>2 DEF Passed
    <3>2. d.bh # 0 => d.bh \in S /\ P[d.bh] = Label(d.file, d.block, Passed(d))
      BY <1>2, <1>3, <1>4, <2>1, <2>2, <3>1 DEF Finds
    <3>3. InPlace(d, I, W)
      BY <1>3 DEF InPlace
    <3> QED BY <3>1, <3>2, <3>3, <1>2, <1>3 DEF Finds
  <2>3. CASE u # t
    <3>1. N[u] = K[u]
      BY <1>1, <2>3
    <3>2. ASSUME K[u].op \in {"read", "write"} PROVE Finds(K[u], S, P)
      <4>1. Maps(K[u])
        BY <3>2 DEF Fits, Rest, Cuts
      <4>2. K[u].at # "map" => K[u].zone \in M
        <5>1. K[u].at = "new" => K[u].zone \in M
          BY DEF Marked, NewOnes
        <5>2. K[u].at \in {"map", "new", "leave", "get", "copy"}
          BY <4>1 DEF Maps
        <5> QED BY <5>1, <5>2, <2>1, <3>2, <1>4 DEF Finds
      <4> QED BY <4>2, <2>1, <3>2, <1>2, <1>3, <1>4 DEF Finds
    <3>3. Finds(K[u], S, P)
      BY <3>2 DEF Finds
    <3> QED BY <3>1, <3>3, <2>1
  <2> QED BY <2>2, <2>3
<1>7. NewOnes(N, X)
  BY <1>1, <1>3 DEF NewOnes, Marked
<1>8. Contents(C, S, P)
  BY <1>2, <1>4 DEF Contents, Marked
<1>9. Marked(I, W, X, C, N, P)
  BY <1>4, <1>5, <1>6, <1>7, <1>8 DEF Marked
<1> QED BY <1>2, <1>9 DEF N, P

(* A truncation is where it was as long as the cells that led it to what   *)
(* it has in hand are as they were.                                        *)
Hand(c) == Stacked(c) \cup (IF c.at = "cells" THEN {} ELSE {c.zone})

(* What a truncation has in hand stays in place if no cell of it changes.  *)
LEMMA PlaceStays ==
  ASSUME NEW c \in Tasks_, Cuts(c), NEW I, NEW W, NEW J, NEW V, InPlace(c, I, W),
         \A s \in ZoneSlots : I[c.file][s] \in Hand(c) => J[c.file][s] = I[c.file][s],
         \A y \in Stacked(c), w \in Words : W[y][w] \in Hand(c) => V[y][w] = W[y][w]
  PROVE  InPlace(c, J, V)
<1>1. /\ Len(c.stack) \in 0..2
      /\ c.stack = <<>> <=> Len(c.stack) = 0
      /\ c.stack # <<>> => c.slot \in ZoneSlots
      /\ c.at # "cells" => c.slot \in ZoneSlots
      /\ c.at # "cells" /\ c.stack # <<>> => c.stack[1].word \in Words
      /\ Len(c.stack) = 2 => c.stack[2].word \in Words
  BY CutsFits
<1>2. \A i \in 1..Len(c.stack) : c.stack[i].zone \in Stacked(c) /\ c.stack[i].zone \in Hand(c)
  BY DEF Stacked, Hand
<1>3. c.at # "cells" => c.zone \in Hand(c)
  BY DEF Hand
<1>4. c.op = "truncate"
  BY DEF Cuts
<1>5. c.stack # <<>> => c.stack[Len(c.stack)].zone = J[c.file][c.slot]
  <2> DEFINE n == Len(c.stack)
             x == c.stack[n].zone
  <2>1. SUFFICES ASSUME c.stack # <<>> PROVE x = J[c.file][c.slot]
    OBVIOUS
  <2>2. n \in 1..n
    BY <1>1, <2>1
  <2>3. x \in Hand(c)
    BY <2>2, <1>2
  <2>4. I[c.file][c.slot] = x
    BY <2>1, <1>4 DEF InPlace
  <2> HIDE DEF x
  <2> QED BY <2>1, <2>3, <2>4, <1>1
<1>6. Len(c.stack) = 2 => c.stack[1].zone = V[c.stack[2].zone][c.stack[2].word]
  <2> DEFINE x == c.stack[1].zone
             y == c.stack[2].zone
             w == c.stack[2].word
  <2>1. SUFFICES ASSUME Len(c.stack) = 2 PROVE x = V[y][w]
    OBVIOUS
  <2>2. x \in Hand(c) /\ y \in Stacked(c) /\ w \in Words
    BY <2>1, <1>1, <1>2
  <2>3. W[y][w] = x
    BY <2>1, <1>4 DEF InPlace
  <2> HIDE DEF x, y, w
  <2> QED BY <2>2, <2>3
<1>7. c.at # "cells" => c.zone = IF c.stack = <<>> THEN J[c.file][c.slot] ELSE V[c.stack[1].zone][c.stack[1].word]
  <2> DEFINE x == c.zone
             y == c.stack[1].zone
             w == c.stack[1].word
  <2>1. SUFFICES ASSUME c.at # "cells" PROVE x = IF c.stack = <<>> THEN J[c.file][c.slot] ELSE V[y][w]
    OBVIOUS
  <2>2. CASE c.stack = <<>>
    <3>1. I[c.file][c.slot] = x
      BY <2>1, <2>2, <1>4 DEF InPlace
    <3> HIDE DEF x
    <3>2. x \in Hand(c)
      BY <2>1, <1>3 DEF x
    <3> QED BY <2>1, <2>2, <3>1, <3>2, <1>1
  <2>3. CASE c.stack # <<>>
    <3>1. W[y][w] = x /\ x \in Hand(c) /\ y \in Stacked(c) /\ w \in Words
      <4>1. 1 \in 1..Len(c.stack)
        BY <2>3, <1>1
      <4> QED BY <4>1, <2>1, <2>3, <1>1, <1>2, <1>3, <1>4 DEF InPlace
    <3> HIDE DEF x, y, w
    <3> QED BY <2>3, <3>1
  <2> QED BY <2>2, <2>3
<1> QED BY <1>5, <1>6, <1>7 DEF InPlace

(* What is left of the way, and the label of the cell that is next.        *)
LEMMA MapsFits ==
  ASSUME NEW c \in Tasks_, Maps(c)
  PROVE  LET k == Passed(c)  b == c.block  p == c.path[1] IN
         /\ k \in 0..2 /\ k < Len(PathTo(b)) /\ Len(c.path) = Len(PathTo(b)) - k
         /\ p = PathTo(b)[k + 1] /\ p = Head(c.path)
         /\ IF k = 0 THEN p \in ZoneSlots ELSE p \in Words
         /\ Label(c.file, b, k + 1) \in Labels
         /\ Label(c.file, b, k + 1) = IF k = 0 THEN FirstOf(c.file, p) ELSE Down(Label(c.file, b, k), p)
<1> DEFINE k == Passed(c)
           b == c.block
           m == Len(PathTo(b))
           n == Len(c.path)
           p == c.path[1]
<1>1. b \in Blocks_ /\ c.file \in Owners /\ c.path \in Seq(Nat)
  BY DEF Maps, Tasks_
<1>2. m \in 1..3 /\ n \in 1..m /\ k = m - n
  BY <1>1, Ways DEF Maps, Passed
<1>3. p = PathTo(b)[k + 1] /\ p = Head(c.path)
  <2>1. 1 \in 1..n
    BY <1>2
  <2>2. \A i \in 1..Len(c.path) : c.path[i] = PathTo(c.block)[Passed(c) + i]
    BY DEF Maps
  <2>3. p = PathTo(b)[k + 1]
    BY <2>1, <2>2
  <2>4. p = Head(c.path)
    BY <1>1, <1>2
  <2> QED BY <2>3, <2>4
<1>4. k \in 0..2 /\ k < m /\ n = m - k /\ (k # 0 => k + 1 \in 2..m) /\ k + 1 \in 1..m
  <2> HIDE DEF m, n, k
  <2> QED BY <1>2
<1>5. IF k = 0 THEN p \in ZoneSlots ELSE p \in Words
  <2>1. CASE k = 0
    <3>1. p = PathTo(b)[1]
      <4>1. p = PathTo(b)[k + 1]
        BY <1>3
      <4> HIDE DEF k, p, b
      <4>2. k + 1 = 1
        BY <2>1
      <4> QED BY <4>1, <4>2
    <3> QED BY <3>1, <2>1, <1>1, Ways
  <2>2. CASE k # 0
    BY <2>2, <1>1, <1>3, <1>4, Ways
  <2> QED BY <2>1, <2>2
<1>6. Label(c.file, b, k + 1) \in Labels
  BY <1>1, <1>4, Labelling
<1>7. Label(c.file, b, k + 1) = IF k = 0 THEN FirstOf(c.file, p) ELSE Down(Label(c.file, b, k), p)
  <2>1. CASE k = 0
    <3>1. p = PathTo(b)[1] /\ k + 1 = 1
      <4>1. p = PathTo(b)[k + 1]
        BY <1>3
      <4> HIDE DEF k, p, b
      <4>2. k + 1 = 1
        BY <2>1
      <4> QED BY <4>1, <4>2
    <3> QED BY <3>1, <2>1, <1>1, Labelling
  <2>2. CASE k # 0
    <3>1. k \in 1..2
      BY <2>2, <1>4
    <3> QED BY <2>2, <3>1, <1>1, <1>3, <1>4, Labelling
  <2> QED BY <2>1, <2>2
<1> QED BY <1>3, <1>4, <1>5, <1>6, <1>7

(* A new zone is cleared and entered, at the place of its label.           *)
EntersCell(c, I, W, J, V) ==
  IF c.bh = 0 THEN /\ J = [I EXCEPT ![c.file][c.path[1]] = c.zone]
                   /\ V = [W EXCEPT ![c.zone] = ClearBlock]
  ELSE J = I /\ V = [W EXCEPT ![c.zone] = ClearBlock, ![c.bh][c.path[1]] = c.zone]
NotCutThere(t, K, I, W) ==
  \/ \A u \in Workers : u # t /\ K[u].op = "truncate" => K[u].file # K[t].file
  \/ 0 = IF K[t].bh = 0 THEN I[K[t].file][K[t].path[1]] ELSE W[K[t].bh][K[t].path[1]]

(* A new zone is entered in its cell: it settles.                          *)
LEMMA MarksEnter ==
  ASSUME NEW I, NEW W, NEW M, NEW C, NEW K \in [Workers -> Tasks_], NEW L, Typed(I, W, M, L),
         Marked(I, W, M, C, K, L), \A u \in Workers : Fits(K[u]),
         C \in [Zones -> {<<>>} \cup (Owners \X Blocks_)],
         NEW t \in Workers, K[t].at = "new", NEW d, d = [K[t] EXCEPT !.at = "leave"],
         NEW J, NEW V, EntersCell(K[t], I, W, J, V), NotCutThere(t, K, I, W)
  PROVE  Marked(J, V, M, [C EXCEPT ![K[t].zone] = <<>>], [K EXCEPT ![t] = d], L)
<1> USE ZonesNotZero
<1> DEFINE N == [K EXCEPT ![t] = d]
           c == K[t]
           z == c.zone
           y0 == c.bh
           g == c.file
           p == c.path[1]
           S == Settled(M, K)
           R == S \cup {z}
           D == [C EXCEPT ![z] = <<>>]
<1>1. \A u \in Workers : N[u] = IF u = t THEN d ELSE K[u]
  OBVIOUS
<1>2. Maps(c) /\ c \in Tasks_
  <2>1. Fits(c)
    OBVIOUS
  <2> QED BY <2>1 DEF Fits, Rest, Cuts
<1>3. /\ g \in Owners /\ z \in Zones /\ y0 \in Zones \cup {0} /\ c.op = "write" /\ c.block \in Blocks_
      /\ d.at = "leave" /\ d.bh = y0 /\ d.zone = z /\ d.op = c.op /\ d.file = g /\ d.block = c.block
      /\ d.path = c.path
  BY <1>2 DEF Maps, Tasks_
<1> DEFINE k == Passed(c)
           b == c.block
<1>4. (y0 = 0 <=> k = 0) /\ Passed(d) = k
  BY <1>2, <1>3 DEF Maps, Passed
<1>5. Label(g, b, k + 1) = IF k = 0 THEN FirstOf(g, p) ELSE Down(Label(g, b, k), p)
  BY <1>2, MapsFits
<1>6. /\ Tree(I, W, S, L) /\ NewOnes(K, M) /\ Contents(C, S, L)
      /\ \A u \in Workers : Finds(K[u], S, L) /\ InPlace(K[u], I, W)
  BY DEF Marked
<1>7. S \subseteq M /\ M \subseteq Zones /\ z \notin S /\ z \in M /\ R \subseteq Zones
  <2>1. S \subseteq M /\ z \notin S
    BY DEF Settled
  <2>2. M \subseteq Zones
    BY DEF Typed
  <2> QED BY <2>1, <2>2, <1>3, <1>6 DEF NewOnes
<1>8. Settled(M, N) = R
  <2>1. \A u \in Workers : u # t /\ K[u].at = "new" => K[u].zone # z
    BY <1>6 DEF NewOnes
  <2>2. \A x \in M : x \in R <=> \A u \in Workers : N[u].at = "new" => N[u].zone # x
    BY <2>1, <1>1, <1>3 DEF Settled
  <2>3. R \subseteq M
    BY <1>7
  <2> QED BY <2>2, <2>3 DEF Settled
<1>9. /\ y0 # 0 => y0 \in S /\ L[y0] = Label(g, b, k)
      /\ L[z] = Label(g, b, k + 1)
  BY <1>3, <1>6 DEF Finds
<1>10. L[z] = IF y0 = 0 THEN FirstOf(g, p) ELSE Down(L[y0], p)
  BY <1>4, <1>5, <1>9
<1>11. /\ \A f \in Owners, s \in ZoneSlots :
            J[f][s] = IF y0 = 0 /\ f = g /\ s = p THEN z ELSE I[f][s]
       /\ \A y \in Zones, w \in Words :
            V[y][w] = IF y = z THEN 0 ELSE IF y0 # 0 /\ y = y0 /\ w = p THEN z ELSE W[y][w]
  <2>1. I \in [Owners -> [ZoneSlots -> Zones \cup {0}]] /\ W \in [Zones -> [Words -> Zones \cup {0}]]
    BY DEF Typed
  <2>2. CASE y0 = 0
    <3>1. J = [I EXCEPT ![g][p] = z] /\ V = [W EXCEPT ![z] = ClearBlock]
      BY <2>2 DEF EntersCell
    <3> HIDE DEF z, g, y0, p
    <3> QED BY <2>1, <2>2, <3>1 DEF ClearBlock
  <2>3. CASE y0 # 0
    <3>1. J = I /\ V = [W EXCEPT ![z] = ClearBlock, ![y0][p] = z] /\ y0 # z /\ y0 \in Zones /\ z \in Zones
      BY <2>3, <1>3, <1>7, <1>9 DEF EntersCell
    <3> HIDE DEF z, g, y0, p
    <3> QED BY <2>1, <2>3, <3>1 DEF ClearBlock
  <2> QED BY <2>2, <2>3
<1>13. D \in [Zones -> {<<>>} \cup (Owners \X Blocks_)] /\ D[z] = <<>> /\ \A x \in Zones : x # z => D[x] = C[x]
  BY <1>3
<1> HIDE DEF N, D, k
<1>14. Tree(J, V, R, L)
  <2> HIDE DEF z, y0, g, p, R, S, b, c
  <2>1. ASSUME NEW f \in Owners, NEW s \in ZoneSlots, J[f][s] # 0
        PROVE  J[f][s] \in R /\ L[J[f][s]] = FirstOf(f, s)
    BY <2>1, <1>6, <1>10, <1>11 DEF Tree, R
  <2>2. ASSUME NEW y \in R, NEW w \in Words, V[y][w] # 0
        PROVE  V[y][w] \in R /\ L[V[y][w]] = Down(L[y], w)
    BY <2>2, <1>6, <1>7, <1>10, <1>11 DEF Tree, R
  <2>3. ASSUME NEW y \in R, NEW x \in R, NEW w \in Words, NEW v \in Words, V[y][w] = V[x][v], V[y][w] # 0
        PROVE  y = x /\ w = v
    <3>1. y \in S /\ x \in S /\ y # z /\ x # z /\ y \in Zones /\ x \in Zones
      BY <2>3, <1>7, <1>11 DEF R
    <3>2. CASE V[y][w] = z
      <4>1. y0 # 0 /\ y = y0 /\ w = p
        <5>1. SUFFICES ASSUME ~(y0 # 0 /\ y = y0 /\ w = p) PROVE FALSE
          OBVIOUS
        <5>2. W[y][w] = z
          BY <3>1, <3>2, <5>1, <1>11
        <5> QED BY <5>2, <3>1, <1>3, <1>6, <1>7 DEF Tree
      <4>2. y0 # 0 /\ x = y0 /\ v = p
        <5>1. SUFFICES ASSUME ~(y0 # 0 /\ x = y0 /\ v = p) PROVE FALSE
          OBVIOUS
        <5>2. W[x][v] = z
          BY <3>1, <3>2, <5>1, <1>11, <2>3
        <5> QED BY <5>2, <3>1, <1>3, <1>6, <1>7 DEF Tree
      <4> QED BY <4>1, <4>2
    <3>3. CASE V[y][w] # z
      <4>1. V[y][w] = W[y][w] /\ V[x][v] = W[x][v]
        BY <2>3, <3>1, <3>3, <1>11
      <4>2. W[y][w] = W[x][v] /\ W[y][w] # 0
        BY <4>1, <2>3
      <4>3. \A y1, x1 \in S, w1, v1 \in Words : W[y1][w1] = W[x1][v1] /\ W[y1][w1] # 0 => y1 = x1 /\ w1 = v1
        BY <1>6 DEF Tree
      <4> QED BY <4>2, <4>3, <3>1
    <3> QED BY <3>2, <3>3
  <2> QED BY <2>1, <2>2, <2>3 DEF Tree
<1>15. ASSUME NEW u \in Workers PROVE Finds(N[u], R, L) /\ InPlace(N[u], J, V)
  <2>1. CASE u = t
    <3>1. N[u] = d
      BY <1>1, <2>1
    <3>2. Finds(d, R, L)
      BY <1>3, <1>4, <1>9 DEF Finds
    <3>3. InPlace(d, J, V)
      BY <1>3 DEF InPlace
    <3> QED BY <3>1, <3>2, <3>3
  <2>2. CASE u # t
    <3>1. N[u] = K[u] /\ K[u] \in Tasks_ /\ Fits(K[u])
      BY <1>1, <2>2
    <3>2. Finds(K[u], R, L)
      BY <1>6 DEF Finds
    <3>3. CASE K[u].op = "truncate"
      <4> DEFINE e == K[u]
      <4>1. Cuts(e) /\ InPlace(e, I, W)
        BY <3>1, <3>3, <1>6 DEF Fits, Rest, Maps
      <4>2. /\ \A i \in 1..Len(e.stack) : e.stack[i].zone \in S /\ L[e.stack[i].zone].file = e.file
            /\ e.at # "cells" => e.zone \in S
        <5>1. Typed(I, W, S, L)
          BY <1>7 DEF Typed
        <5> QED BY <5>1, <4>1, <3>1, <1>6, CutHas
      <4>3. e.file \in Owners
        BY <4>1 DEF Cuts
      <4> HIDE DEF e
      <4>4. \A y \in Stacked(e) : y \in S /\ L[y].file = e.file
        BY <4>2 DEF Stacked
      <4>5. Hand(e) \subseteq S
        BY <4>2, <4>4 DEF Hand
      <4>6. e.file # g \/ 0 = IF y0 = 0 THEN I[g][p] ELSE W[y0][p]
        BY <2>2, <3>3 DEF e, NotCutThere
      <4>7. y0 # 0 => L[y0].file = g
        BY <1>9 DEF Label
      <4> HIDE DEF z, y0, g, p, R, S, b, c
      <4>8. ASSUME NEW s \in ZoneSlots, I[e.file][s] \in Hand(e) PROVE J[e.file][s] = I[e.file][s]
        BY <4>8, <4>3, <4>5, <4>6, <1>7, <1>11
      <4>9. ASSUME NEW y \in Stacked(e), NEW w \in Words, W[y][w] \in Hand(e) PROVE V[y][w] = W[y][w]
        <5>1. y \in S /\ y \in Zones /\ y # z /\ W[y][w] # 0
          BY <4>4, <4>5, <4>9, <1>7
        <5>2. y0 # 0 /\ y = y0 => w # p
          BY <5>1, <4>4, <4>6, <4>7
        <5> QED BY <5>1, <5>2, <1>11
      <4>10. InPlace(e, J, V)
        <5>1. e \in Tasks_
          BY <3>1 DEF e
        <5> QED BY <5>1, <4>1, <4>8, <4>9, PlaceStays
      <4> QED BY <4>10, <3>1, <3>2 DEF e
    <3>4. CASE K[u].op # "truncate"
      BY <3>1, <3>2, <3>4 DEF InPlace
    <3> QED BY <3>3, <3>4
  <2> QED BY <2>1, <2>2
<1>16. NewOnes(N, M)
  <2>1. \A u \in Workers : N[u].at = "new" => u # t /\ N[u] = K[u]
    BY <1>1, <1>3
  <2>2. \A u \in Workers : K[u].at = "new" =>
          K[u].zone \in M /\ \A v \in Workers : v # u /\ K[v].at = "new" => K[v].zone # K[u].zone
    BY <1>6 DEF NewOnes
  <2> QED BY <2>1, <2>2 DEF NewOnes
<1>17. Contents(D, R, L)
  BY <1>6, <1>7, <1>13 DEF Contents
<1> QED BY <1>8, <1>14, <1>15, <1>16, <1>17 DEF Marked, N, D

(* A zone that nobody else has in hand is cut off where the truncation     *)
(* found it, and given back: nothing refers to it any more.                *)
MarksClearFree(u, z, S, K) ==
  /\ K[u].op \in {"read", "write"} =>
       K[u].bh # z /\ (K[u].at \in {"leave", "get", "copy"} => K[u].zone # z)
  /\ K[u].op = "truncate" => z \notin Hand(K[u])

(* A zone is referred to from one word.                                    *)
LEMMA Once ==
  ASSUME NEW I, NEW W, NEW S, NEW L, Tree(I, W, S, L), NEW z, z # 0,
         NEW y \in S, NEW w \in Words, W[y][w] = z, NEW x \in S, NEW v \in Words, W[x][v] = z
  PROVE  y = x /\ w = v
  BY DEF Tree

Clears(c, d, I, W, J, V) ==
  /\ d.op = "truncate" /\ d.at = "cells" /\ d.file = c.file
  /\ Len(d.stack) = Len(c.stack)
  /\ \A i \in 1..Len(d.stack) : d.stack[i].zone = c.stack[i].zone
  /\ Len(d.stack) = 2 => d.stack[2].word = c.stack[2].word
  /\ d.stack # <<>> => d.slot = c.slot
  /\ IF c.stack = <<>> THEN J = [I EXCEPT ![c.file][c.slot] = 0] /\ V = W
     ELSE J = I /\ V = [W EXCEPT ![c.stack[1].zone][c.stack[1].word] = 0]

(* A zone is cleared from its cell and from the bit map.                   *)
LEMMA MarksClear ==
  ASSUME NEW I, NEW W, NEW M, NEW C, NEW K \in [Workers -> Tasks_], NEW L, Typed(I, W, M, L),
         Marked(I, W, M, C, K, L), \A u \in Workers : Fits(K[u]),
         NEW t \in Workers, K[t].at = "gone", Cuts(K[t]),
         \A u \in Workers \ {t} : MarksClearFree(u, K[t].zone, Settled(M, K), K),
         NEW d \in Tasks_, NEW J, NEW V, Clears(K[t], d, I, W, J, V)
  PROVE  Marked(J, V, M \ {K[t].zone}, C, [K EXCEPT ![t] = d], L)
<1>0. /\ d.op = "truncate" /\ d.at = "cells" /\ d.file = K[t].file
      /\ Len(d.stack) = Len(K[t].stack)
      /\ \A i \in 1..Len(d.stack) : d.stack[i].zone = K[t].stack[i].zone
      /\ Len(d.stack) = 2 => d.stack[2].word = K[t].stack[2].word
      /\ d.stack # <<>> => d.slot = K[t].slot
      /\ IF K[t].stack = <<>> THEN J = [I EXCEPT ![K[t].file][K[t].slot] = 0] /\ V = W
         ELSE J = I /\ V = [W EXCEPT ![K[t].stack[1].zone][K[t].stack[1].word] = 0]
  BY DEF Clears
<1> USE ZonesNotZero
<1> DEFINE N == [K EXCEPT ![t] = d]
           c == K[t]
           z == c.zone
           g == c.file
           s0 == c.slot
           flat == c.stack = <<>>
           y0 == c.stack[1].zone
           w0 == c.stack[1].word
           S == Settled(M, K)
           X == M \ {z}
           R == S \ {z}
<1>1. \A u \in Workers : N[u] = IF u = t THEN d ELSE K[u]
  OBVIOUS
<1>2. /\ Tree(I, W, S, L) /\ NewOnes(K, M) /\ Contents(C, S, L)
      /\ \A u \in Workers : Finds(K[u], S, L) /\ InPlace(K[u], I, W)
  BY DEF Marked
<1>3. S \subseteq M /\ M \subseteq Zones /\ Typed(I, W, S, L)
  <2>1. S \subseteq M
    BY DEF Settled
  <2>2. M \subseteq Zones
    BY DEF Typed
  <2> QED BY <2>1, <2>2 DEF Typed
<1>4. /\ \A i \in 1..Len(c.stack) : c.stack[i].zone \in S /\ c.stack[i].zone # z
      /\ z \in S /\ L[z].file = g
      /\ Len(c.stack) = 2 => y0 # c.stack[2].zone
  <2>1. c \in Tasks_ /\ c.at # "cells" /\ InPlace(c, I, W)
    BY <1>2
  <2>2. /\ \A i \in 1..Len(c.stack) : c.stack[i].zone \in S
        /\ z \in S /\ L[z].file = g
        /\ z \notin Stacked(c)
        /\ Len(c.stack) = 2 => y0 # c.stack[2].zone
    BY <2>1, <1>2, <1>3, CutHas
  <2> QED BY <2>2 DEF Stacked
<1>5. /\ g \in Owners /\ Len(c.stack) \in 0..2 /\ (flat <=> Len(c.stack) = 0)
      /\ s0 \in ZoneSlots /\ z \in Zones
      /\ ~flat => w0 \in Words /\ y0 \in Zones /\ y0 \in S
      /\ Len(c.stack) = 2 => c.stack[2].word \in Words
  <2>1. c \in Tasks_ /\ c.at # "cells"
    OBVIOUS
  <2>2. g \in Owners
    BY DEF Cuts
  <2>3. /\ Len(c.stack) \in 0..2 /\ (flat <=> Len(c.stack) = 0)
        /\ s0 \in ZoneSlots /\ z \in Zones /\ (~flat => w0 \in Words)
        /\ \A i \in 1..Len(c.stack) : c.stack[i].zone \in Zones
        /\ Len(c.stack) = 2 => c.stack[2].word \in Words
    BY <2>1, CutsFits
  <2>4. ~flat => 1 \in 1..Len(c.stack)
    BY <2>3
  <2> QED BY <2>2, <2>3, <2>4, <1>4
<1>6. z = IF flat THEN I[g][s0] ELSE W[y0][w0]
  <2>1. InPlace(c, I, W) /\ c.at # "cells" /\ c.op = "truncate"
    BY <1>2 DEF Cuts
  <2> QED BY <2>1 DEF InPlace
<1>7. /\ \A f \in Owners, s \in ZoneSlots : J[f][s] = IF flat /\ f = g /\ s = s0 THEN 0 ELSE I[f][s]
      /\ \A y \in Zones, w \in Words : V[y][w] = IF ~flat /\ y = y0 /\ w = w0 THEN 0 ELSE W[y][w]
  <2>1. I \in [Owners -> [ZoneSlots -> Zones \cup {0}]] /\ W \in [Zones -> [Words -> Zones \cup {0}]]
    BY DEF Typed
  <2>2. IF flat THEN J = [I EXCEPT ![g][s0] = 0] /\ V = W ELSE J = I /\ V = [W EXCEPT ![y0][w0] = 0]
    BY <1>0
  <2> HIDE DEF flat, g, s0, y0, w0
  <2> QED BY <2>1, <2>2, <1>5
<1>8. Settled(X, N) = R
  <2>1. d.at # "new" /\ K[t].at # "new"
    BY <1>0
  <2> QED BY <2>1, <1>1 DEF Settled
<1> HIDE DEF N
<1>9. ASSUME NEW f \in Owners, NEW s \in ZoneSlots, J[f][s] # 0
      PROVE  J[f][s] \in R /\ L[J[f][s]] = FirstOf(f, s)
  <2>1. I[f][s] = J[f][s] /\ I[f][s] # 0
    BY <1>7, <1>9
  <2>2. I[f][s] \in S /\ L[I[f][s]] = FirstOf(f, s)
    BY <2>1, <1>2 DEF Tree
  <2>3. I[f][s] # z
    <3>1. SUFFICES ASSUME I[f][s] = z PROVE FALSE
      OBVIOUS
    <3>2. CASE flat
      <4>1. L[z] = FirstOf(g, s0) /\ L[z] = FirstOf(f, s)
        <5>1. I[g][s0] = z /\ z # 0
          BY <3>2, <1>5, <1>6
        <5> HIDE DEF z, g, s0
        <5> QED BY <5>1, <3>1, <2>2, <1>2, <1>5 DEF Tree
      <4>2. f = g /\ s = s0
        <5> HIDE DEF z, g, s0
        <5>1. FirstOf(f, s).file = FirstOf(g, s0).file /\ FirstOf(f, s).cells[1] = FirstOf(g, s0).cells[1]
          BY <4>1
        <5> QED BY <5>1 DEF FirstOf
      <4> QED BY <4>2, <3>2, <1>7, <1>9
    <3>3. CASE ~flat
      <4> HIDE DEF z, y0, w0, S, flat
      <4>1. W[y0][w0] # 0 /\ y0 \in S /\ w0 \in Words
        BY <3>3, <1>5, <1>6
      <4>2. Len(L[z].cells) = 1 /\ Len(L[W[y0][w0]].cells) = Len(L[y0].cells) + 1
        BY <4>1, <3>1, <2>1, <1>2, <1>3, Depths
      <4>3. Len(L[y0].cells) \in Nat \ {0} /\ W[y0][w0] = z
        BY <3>3, <4>1, <1>2, <1>3, <1>6, Depths
      <4> DEFINE m == Len(L[y0].cells)
      <4>4. m \in Nat \ {0} /\ m + 1 = 1
        BY <4>2, <4>3
      <4> HIDE DEF m
      <4> QED BY <4>4
    <3> QED BY <3>2, <3>3
  <2> QED BY <2>1, <2>2, <2>3
<1>10. ASSUME NEW y \in R, NEW w \in Words, V[y][w] # 0
       PROVE  V[y][w] \in R /\ L[V[y][w]] = Down(L[y], w) /\ V[y][w] = W[y][w]
  <2>1. y \in Zones /\ y \in S
    BY <1>3
  <2>2. W[y][w] = V[y][w] /\ W[y][w] # 0
    BY <2>1, <1>7, <1>10
  <2>3. W[y][w] \in S /\ L[W[y][w]] = Down(L[y], w)
    BY <2>1, <2>2, <1>2 DEF Tree
  <2>4. W[y][w] # z
    <3>1. SUFFICES ASSUME W[y][w] = z PROVE FALSE
      OBVIOUS
    <3>2. CASE flat
      <4> HIDE DEF z, g, s0, S, flat
      <4>1. I[g][s0] # 0 /\ g \in Owners /\ s0 \in ZoneSlots /\ I[g][s0] = z
        BY <3>2, <1>5, <1>6
      <4>2. Len(L[I[g][s0]].cells) = 1
        BY <4>1, <1>2, <1>3, Depths
      <4>3. Len(L[W[y][w]].cells) = Len(L[y].cells) + 1 /\ Len(L[y].cells) \in Nat \ {0}
        <5>1. y \in S /\ W[y][w] # 0 /\ Tree(I, W, S, L) /\ Typed(I, W, S, L)
          BY <2>1, <2>2, <1>2, <1>3
        <5> QED BY <5>1, Depths
      <4> DEFINE m == Len(L[y].cells)
      <4>4. m \in Nat \ {0} /\ m + 1 = 1
        BY <4>1, <4>2, <4>3, <3>1
      <4> HIDE DEF m
      <4> QED BY <4>4
    <3>3. CASE ~flat
      <4> HIDE DEF z, y0, w0, S, flat
      <4>1. W[y][w] = W[y0][w0] /\ y0 \in S /\ w0 \in Words
        BY <3>1, <3>3, <1>5, <1>6
      <4>2. y = y0 /\ w = w0
        <5>1. W[y][w] = z /\ W[y0][w0] = z /\ z # 0 /\ y0 \in S /\ w0 \in Words
          BY <3>1, <3>3, <1>5, <1>6, <2>2
        <5>2. y \in S /\ Tree(I, W, S, L)
          BY <2>1, <1>2
        <5> QED BY <5>1, <5>2, Once
      <4> QED BY <4>2, <2>1, <3>3, <1>7, <1>10
    <3> QED BY <3>2, <3>3
  <2> QED BY <2>2, <2>3, <2>4
<1>11. Tree(J, V, R, L)
  <2>1. ASSUME NEW y \in R, NEW x \in R, NEW w \in Words, NEW v \in Words, V[y][w] = V[x][v], V[y][w] # 0
        PROVE  y = x /\ w = v
    <3>1. V[x][v] # 0
      BY <2>1
    <3>2. W[y][w] = W[x][v] /\ W[y][w] # 0
      BY <2>1, <3>1, <1>10
    <3>3. y \in S /\ x \in S
      OBVIOUS
    <3> HIDE DEF S
    <3> QED BY <3>2, <3>3, <1>2 DEF Tree
  <2> HIDE DEF R
  <2> QED BY <2>1, <1>9, <1>10 DEF Tree
<1>12. ASSUME NEW u \in Workers PROVE Finds(N[u], R, L) /\ InPlace(N[u], J, V)
  <2>1. CASE u = t
    <3>1. N[u] = d
      BY <1>1, <2>1
    <3>2. Finds(d, R, L)
      BY <1>0 DEF Finds
    <3>3. d.stack # <<>> => d.stack[Len(d.stack)].zone = J[d.file][d.slot]
      <4> DEFINE n == Len(c.stack)
      <4>1. SUFFICES ASSUME d.stack # <<>> PROVE c.stack[n].zone = J[g][s0] /\ n \in 1..n
        BY <1>0
      <4>2. n \in 1..n /\ ~flat
        <5>1. d.stack \in Seq(Frames)
          BY DEF Tasks_
        <5>2. n # 0
          BY <4>1, <5>1, <1>0
        <5> QED BY <5>2, <1>5
      <4>3. InPlace(c, I, W) /\ c.op = "truncate"
        BY <1>2 DEF Cuts
      <4>4. c.stack[n].zone = I[g][s0]
        BY <4>2, <4>3 DEF InPlace
      <4>5. J[g][s0] = I[g][s0]
        <5> HIDE DEF g, s0, flat
        <5> QED BY <4>2, <1>5, <1>7
      <4> QED BY <4>2, <4>4, <4>5
    <3>4. Len(d.stack) = 2 => d.stack[1].zone = V[d.stack[2].zone][d.stack[2].word]
      <4> DEFINE y2 == c.stack[2].zone
                 w2 == c.stack[2].word
      <4>1. SUFFICES ASSUME Len(d.stack) = 2 PROVE y0 = V[y2][w2]
        <5>1. ASSUME Len(d.stack) = 2
              PROVE  d.stack[1].zone = y0 /\ d.stack[2].zone = y2 /\ d.stack[2].word = w2
          BY <5>1, <1>0
        <5> HIDE DEF y0, y2, w2
        <5> QED BY <5>1
      <4>2. InPlace(c, I, W) /\ c.op = "truncate" /\ Len(c.stack) = 2
        BY <4>1, <1>0, <1>2 DEF Cuts
      <4>3. W[y2][w2] = y0 /\ y2 # y0 /\ w2 \in Words /\ y2 \in Zones
        BY <4>2, <1>3, <1>4, <1>5 DEF InPlace
      <4> HIDE DEF y2, w2, y0, w0, flat
      <4> QED BY <4>3, <1>7
    <3> QED BY <1>0, <3>1, <3>2, <3>3, <3>4 DEF InPlace
  <2>2. CASE u # t
    <3> DEFINE e == K[u]
    <3>1. N[u] = e /\ e \in Tasks_ /\ Fits(e) /\ MarksClearFree(u, z, S, K)
      BY <1>1, <2>2
    <3>2. Finds(e, R, L)
      BY <3>1, <1>2 DEF Finds, MarksClearFree
    <3>3. CASE e.op = "truncate"
      <4>1. Cuts(e) /\ InPlace(e, I, W) /\ z \notin Hand(e)
        BY <3>1, <3>3, <1>2 DEF Fits, Rest, Maps, MarksClearFree
      <4>2. \A i \in 1..Len(e.stack) : e.stack[i].zone \in Zones
        BY <3>1, <4>1, CutsFits
      <4>3. e.file \in Owners /\ Stacked(e) \subseteq Zones
        BY <4>1, <4>2 DEF Cuts, Stacked
      <4> HIDE DEF e
      <4>4. ASSUME NEW s \in ZoneSlots, I[e.file][s] \in Hand(e) PROVE J[e.file][s] = I[e.file][s]
        <5> HIDE DEF g, s0, z, flat, y0, w0
        <5>1. I[e.file][s] # z
          BY <4>1, <4>4
        <5> QED BY <5>1, <4>3, <1>6, <1>7
      <4>5. ASSUME NEW y \in Stacked(e), NEW w \in Words, W[y][w] \in Hand(e) PROVE V[y][w] = W[y][w]
        <5> HIDE DEF g, s0, z, flat, y0, w0
        <5>1. W[y][w] # z
          BY <4>1, <4>5
        <5> QED BY <5>1, <4>3, <1>6, <1>7
      <4>6. InPlace(e, J, V)
        BY <3>1, <4>1, <4>4, <4>5, PlaceStays
      <4> QED BY <4>6, <3>1, <3>2
    <3>4. CASE e.op # "truncate"
      BY <3>1, <3>2, <3>4 DEF InPlace
    <3> QED BY <3>3, <3>4
  <2> QED BY <2>1, <2>2
<1>13. NewOnes(N, X)
  <2>1. \A u \in Workers : N[u].at = "new" => u # t /\ N[u] = K[u]
    BY <1>0, <1>1
  <2>2. \A u \in Workers : K[u].at = "new" => K[u].zone # z
    BY <1>4 DEF Settled
  <2>3. \A u \in Workers : K[u].at = "new" =>
          K[u].zone \in M /\ \A v \in Workers : v # u /\ K[v].at = "new" => K[v].zone # K[u].zone
    BY <1>2 DEF NewOnes
  <2> QED BY <2>1, <2>2, <2>3 DEF NewOnes
<1>14. Contents(C, R, L)
  BY <1>2 DEF Contents
<1> QED BY <1>8, <1>11, <1>12, <1>13, <1>14 DEF Marked, N

(* The labels tell the places of a zone and of its content.                *)
LEMMA LabelsApart ==
  ASSUME BlockTypes, NEW L \in [Zones -> Labels], Marked(i_zone, words, zmap, content, work, L)
  PROVE  BlocksApart
<1> USE ZonesNotZero
<1> DEFINE S == Settled(zmap, work)
<1>1. Tree(i_zone, words, S, L) /\ Contents(content, S, L)
  BY DEF Marked
<1>2. S \subseteq zmap /\ zmap \subseteq Zones /\ Typed(i_zone, words, S, L)
  BY DEF Settled, BlockTypes, Typed
<1> HIDE DEF S
<1>3. Single \in ZoneSlots /\ Double \in ZoneSlots /\ DIRECT \in Nat
  BY FileBlocksAssumption DEF Single, Double, ZoneSlots
<1>4. /\ \A f \in Owners, s \in ZoneSlots : i_zone[f][s] # 0 => i_zone[f][s] \in S /\ L[i_zone[f][s]] = FirstOf(f, s)
      /\ \A y \in S, w \in Words : words[y][w] # 0 => words[y][w] \in S /\ L[words[y][w]] = Down(L[y], w)
  BY <1>1 DEF Tree
<1>5. ASSUME NEW x \in S \cup {0}, NEW r \in ZonesIn(x)
      PROVE  r[1] \in S /\ r[2] \in Words /\ words[r[1]][r[2]] \in S /\ r = <<r[1], r[2]>>
  BY <1>4 DEF ZonesIn
<1>6. \A r \in FromInodes : r[1] \in Owners /\ r[2] \in ZoneSlots /\ i_zone[r[1]][r[2]] # 0 /\ r = <<r[1], r[2]>>
  BY DEF FromInodes
<1>7. \A f \in Owners, s \in ZoneSlots : i_zone[f][s] \in S \cup {0}
  BY <1>4
<1> DEFINE Refs == FromSingles \cup FromDoubles \cup FromThirds
<1>8. \A r \in Refs : r[1] \in S /\ r[2] \in Words /\ words[r[1]][r[2]] \in S /\ r = <<r[1], r[2]>>
  <2>1. \A r \in FromSingles \cup FromDoubles : r[1] \in S /\ r[2] \in Words /\ words[r[1]][r[2]] \in S /\ r = <<r[1], r[2]>>
    BY <1>3, <1>5, <1>7 DEF FromSingles, FromDoubles
  <2>2. \A r \in FromThirds : r[1] \in S /\ r[2] \in Words /\ words[r[1]][r[2]] \in S /\ r = <<r[1], r[2]>>
    <3>1. SUFFICES ASSUME NEW q \in FromDoubles, NEW r \in ZonesIn(words[q[1]][q[2]])
                   PROVE  r[1] \in S /\ r[2] \in Words /\ words[r[1]][r[2]] \in S /\ r = <<r[1], r[2]>>
      BY DEF FromThirds
    <3>2. words[q[1]][q[2]] \in S
      BY <2>1
    <3> QED BY <3>1, <3>2, <1>5
  <2> QED BY <2>1, <2>2
<1> HIDE DEF Refs
<1>9. ASSUME NEW z \in Zones
      PROVE  Refers(z) <= 1 /\ (Refers(z) = 1 => z \in zmap)
  <2> DEFINE A == {r \in FromInodes : i_zone[r[1]][r[2]] = z}
             B == {r \in Refs : words[r[1]][r[2]] = z}
  <2>1. Refers(z) = Cardinality(A) + Cardinality(B)
    BY DEF Refers, Refs
  <2>2. \A q, r \in A : q = r
    <3>1. SUFFICES ASSUME NEW q \in A, NEW r \in A PROVE q = r
      OBVIOUS
    <3>2. L[z] = FirstOf(q[1], q[2]) /\ L[z] = FirstOf(r[1], r[2])
      <4>1. z # 0
        OBVIOUS
      <4> QED BY <4>1, <1>4, <1>6
    <3>3. FirstOf(q[1], q[2]).file = FirstOf(r[1], r[2]).file /\ FirstOf(q[1], q[2]).cells[1] = FirstOf(r[1], r[2]).cells[1]
      BY <3>2
    <3>4. q[1] = r[1] /\ q[2] = r[2]
      BY <3>3 DEF FirstOf
    <3> QED BY <3>4, <1>6
  <2>3. \A q, r \in B : q = r
    <3>1. SUFFICES ASSUME NEW q \in B, NEW r \in B PROVE q = r
      OBVIOUS
    <3>2. /\ q[1] \in S /\ q[2] \in Words /\ r[1] \in S /\ r[2] \in Words
          /\ words[q[1]][q[2]] = words[r[1]][r[2]] /\ words[q[1]][q[2]] # 0
      BY <1>8
    <3>3. q[1] = r[1] /\ q[2] = r[2]
      BY <3>2, <1>1 DEF Tree
    <3> QED BY <3>3, <1>8
  <2>4. A = {} \/ B = {}
    <3>1. SUFFICES ASSUME NEW q \in A, NEW r \in B PROVE FALSE
      OBVIOUS
    <3>2. Len(L[i_zone[q[1]][q[2]]].cells) = 1
      BY <1>1, <1>2, <1>6, Depths
    <3>3. Len(L[words[r[1]][r[2]]].cells) = Len(L[r[1]].cells) + 1 /\ Len(L[r[1]].cells) \in Nat \ {0}
      <4>1. r[1] \in S /\ r[2] \in Words /\ words[r[1]][r[2]] # 0
        BY <1>8
      <4> QED BY <4>1, <1>1, <1>2, Depths
    <3> DEFINE m == Len(L[r[1]].cells)
    <3>4. m \in Nat \ {0} /\ m + 1 = 1
      BY <3>1, <3>2, <3>3
    <3> HIDE DEF m
    <3> QED BY <3>4
  <2>5. A \cup B # {} => z \in zmap
    BY <1>2, <1>4, <1>6, <1>8
  <2> HIDE DEF A, B
  <2>6. ASSUME NEW T, \A q, r \in T : q = r PROVE Cardinality(T) = IF T = {} THEN 0 ELSE 1
    <3>1. CASE T = {}
      BY <3>1, FS_EmptySet
    <3>2. CASE T # {}
      <4>1. PICK r \in T : TRUE
        BY <3>2
      <4>2. T = {r}
        BY <2>6, <4>1
      <4> QED BY <4>2, <3>2, FS_Singleton
    <3> QED BY <3>1, <3>2
  <2>7. Cardinality(A) = IF A = {} THEN 0 ELSE 1
    BY <2>2, <2>6
  <2>8. Cardinality(B) = IF B = {} THEN 0 ELSE 1
    BY <2>3, <2>6
  <2> QED BY <2>1, <2>4, <2>5, <2>7, <2>8
<1>10. ASSUME NEW f \in Owners, NEW b \in pressing.blocks, ZoneOf(f, b) # 0
       PROVE  content[ZoneOf(f, b)] \in {None_written, <<f, b>>}
  <2> DEFINE z == ZoneOf(f, b)
             p == PathTo(b)
             x == i_zone[f][p[1]]
             y == words[x][p[2]]
  <2>1. b \in Blocks_
    BY FileBlocksAssumption DEF BlockTypes, Blocks_
  <2>2. /\ p \in Seq(Nat) /\ Len(p) \in 1..3 /\ p[1] \in ZoneSlots
        /\ \A i \in 2..Len(p) : p[i] \in Words
    BY <2>1, Ways
  <2>3. /\ Label(f, b, 1) = FirstOf(f, p[1]) /\ Label(f, b, Len(p)).cells = p
        /\ \A k \in 1..2 : k < Len(p) => Label(f, b, k + 1) = Down(Label(f, b, k), p[k + 1])
    BY <2>1, Labelling
  <2>4. z \in S /\ L[z] = Label(f, b, Len(p))
    <3>1. CASE Len(p) = 1
      <4>1. z = x
        BY <3>1 DEF ZoneOf
      <4>2. z \in S /\ L[z] = Label(f, b, Len(p))
        BY <4>1, <2>2, <2>3, <3>1, <1>4, <1>10
      <4> QED BY <4>2
    <3>2. CASE Len(p) = 2
      <4>1. z = IF x = 0 THEN 0 ELSE y
        BY <3>2 DEF ZoneOf, WordIn
      <4>2. x # 0 /\ z = y /\ y # 0
        BY <4>1, <1>10
      <4>3. x \in S /\ L[x] = Label(f, b, 1)
        BY <4>2, <2>2, <2>3, <1>4
      <4>4. y \in S /\ L[y] = Label(f, b, 2)
        BY <4>2, <4>3, <2>2, <2>3, <3>2, <1>4
      <4> QED BY <4>2, <4>4, <3>2
    <3>3. CASE Len(p) = 3
      <4> DEFINE v == words[y][p[3]]
      <4>1. z = IF x = 0 THEN 0 ELSE IF y = 0 THEN 0 ELSE v
        BY <3>3 DEF ZoneOf, WordIn
      <4>2. x # 0 /\ y # 0 /\ z = v /\ v # 0
        BY <4>1, <1>10
      <4>3. x \in S /\ L[x] = Label(f, b, 1)
        BY <4>2, <2>2, <2>3, <1>4
      <4>4. y \in S /\ L[y] = Label(f, b, 2)
        BY <4>2, <4>3, <2>2, <2>3, <3>3, <1>4
      <4>5. v \in S /\ L[v] = Label(f, b, 3)
        <5>1. p[3] \in Words /\ Label(f, b, 3) = Down(Label(f, b, 2), p[3])
          BY <2>2, <2>3, <3>3
        <5>2. v \in S /\ L[v] = Down(L[y], p[3])
          BY <5>1, <4>2, <4>4, <1>4
        <5> QED BY <5>1, <5>2, <4>4
      <4> QED BY <4>2, <4>5, <3>3
    <3> QED BY <2>2, <3>1, <3>2, <3>3
  <2>8. z \in Zones
    BY <2>4, <1>2
  <2> HIDE DEF z
  <2>9. content[z] \in {<<>>} \cup (Owners \X Blocks_)
    BY <2>8 DEF BlockTypes
  <2>10. content[z] # <<>> => content[z][1] = f /\ PathTo(content[z][2]) = p
    <3>1. L[z].file = f /\ L[z].cells = p
      BY <2>3, <2>4 DEF Label
    <3> QED BY <3>1, <2>4, <1>1 DEF Contents
  <2>11. content[z] # <<>> => content[z] = <<f, b>>
    <3>1. SUFFICES ASSUME content[z] # <<>> PROVE content[z] = <<f, b>>
      OBVIOUS
    <3>2. PICK a \in Blocks_ : content[z][2] = a /\ content[z] = <<content[z][1], a>>
      BY <3>1, <2>9
    <3>3. a = b
      BY <3>1, <3>2, <2>1, <2>10, OneBlock
    <3> QED BY <3>1, <3>2, <3>3, <2>10
  <2> QED BY <2>11 DEF None_written, z
<1> QED BY <1>9, <1>10 DEF BlocksApart

-----------------------------------------------------------------------------
(* The counts of buffers.                                                  *)
LEMMA Countings ==
  ASSUME NEW B \in [Zones -> Int], NEW K \in [Workers -> Tasks_], CountsIn(B, K),
         NEW t \in Workers, NEW d \in Tasks_
  PROVE  /\ \A z \in Zones : B[z] >= 0 /\ (B[z] = 0 => \A u \in Workers : z \notin Counting(K[u]))
         /\ Counting(d) = Counting(K[t]) => CountsIn(B, [K EXCEPT ![t] = d])
         /\ \A z \in Zones : z \notin Counting(K[t]) /\ Counting(d) = Counting(K[t]) \cup {z}
              => CountsIn([B EXCEPT ![z] = @ + 1], [K EXCEPT ![t] = d])
         /\ \A z \in Zones : z \in Counting(K[t]) /\ Counting(d) = Counting(K[t]) \ {z}
              => CountsIn([B EXCEPT ![z] = @ - 1], [K EXCEPT ![t] = d])
<1> DEFINE N == [K EXCEPT ![t] = d]
           Of(Q, z) == {u \in Workers : z \in Counting(Q[u])}
<1>1. \A u \in Workers : N[u] = IF u = t THEN d ELSE K[u]
  OBVIOUS
<1> HIDE DEF N
<1>2. \A Q, z : IsFiniteSet(Of(Q, z))
  <2>1. IsFiniteSet(Workers)
    BY FileBlocksAssumption
  <2>2. \A Q, z : Of(Q, z) \subseteq Workers
    OBVIOUS
  <2> QED BY <2>1, <2>2, FS_Subset
<1>3. \A z \in Zones : B[z] = Cardinality(Of(K, z))
  BY DEF CountsIn
<1>4. ASSUME NEW z \in Zones PROVE B[z] >= 0 /\ (B[z] = 0 => \A u \in Workers : z \notin Counting(K[u]))
  <2>1. Cardinality(Of(K, z)) \in Nat /\ (Cardinality(Of(K, z)) = 0 => Of(K, z) = {})
    BY <1>2, FS_CardinalityType, FS_EmptySet
  <2>2. Of(K, z) = {} => \A u \in Workers : z \notin Counting(K[u])
    OBVIOUS
  <2> HIDE DEF Of
  <2> QED BY <2>1, <2>2, <1>3
<1>5. ASSUME NEW z \in Zones, z \in Counting(d) <=> z \in Counting(K[t]) PROVE Of(N, z) = Of(K, z)
  BY <1>1, <1>5
<1>6. ASSUME NEW z \in Zones, z \notin Counting(K[t]), z \in Counting(d)
      PROVE  Cardinality(Of(N, z)) = B[z] + 1
  <2>1. Of(N, z) = Of(K, z) \cup {t} /\ t \notin Of(K, z)
    BY <1>1, <1>6
  <2> HIDE DEF Of
  <2> QED BY <2>1, <1>2, <1>3, FS_AddElement
<1>7. ASSUME NEW z \in Zones, z \in Counting(K[t]), z \notin Counting(d)
      PROVE  Cardinality(Of(N, z)) = B[z] - 1
  <2>1. Of(N, z) = Of(K, z) \ {t} /\ t \in Of(K, z)
    BY <1>1, <1>7
  <2> HIDE DEF Of
  <2> QED BY <2>1, <1>2, <1>3, FS_RemoveElement
<1> HIDE DEF Of
<1>8. ASSUME Counting(d) = Counting(K[t]) PROVE CountsIn(B, N)
  <2>1. \A z \in Zones : Of(N, z) = Of(K, z)
    BY <1>5, <1>8
  <2>2. \A z \in Zones : B[z] = Cardinality(Of(N, z))
    BY <2>1, <1>3
  <2> QED BY <2>2 DEF CountsIn, Of
<1>9. ASSUME NEW z \in Zones, z \notin Counting(K[t]), Counting(d) = Counting(K[t]) \cup {z}
      PROVE  CountsIn([B EXCEPT ![z] = @ + 1], N)
  <2>1. Cardinality(Of(N, z)) = B[z] + 1
    BY <1>6, <1>9
  <2>2. \A x \in Zones : x # z => Of(N, x) = Of(K, x)
    BY <1>5, <1>9
  <2>3. \A x \in Zones : [B EXCEPT ![z] = @ + 1][x] = Cardinality(Of(N, x))
    BY <2>1, <2>2, <1>3
  <2> QED BY <2>3 DEF CountsIn, Of
<1>10. ASSUME NEW z \in Zones, z \in Counting(K[t]), Counting(d) = Counting(K[t]) \ {z}
       PROVE  CountsIn([B EXCEPT ![z] = @ - 1], N)
  <2>1. Cardinality(Of(N, z)) = B[z] - 1
    BY <1>7, <1>10
  <2>2. \A x \in Zones : x # z => Of(N, x) = Of(K, x)
    BY <1>5, <1>10
  <2>3. \A x \in Zones : [B EXCEPT ![z] = @ - 1][x] = Cardinality(Of(N, x))
    BY <2>1, <2>2, <1>3
  <2> QED BY <2>3 DEF CountsIn, Of
<1> QED BY <1>4, <1>8, <1>9, <1>10 DEF N

LEMMA CountingIs ==
  ASSUME NEW c
  PROVE  /\ c.stack = <<>> => Stacked(c) = {}
         /\ Counting(c) = (({c.bh} \cup Stacked(c)) \cup (IF c.at \in {"copy", "free"} THEN {c.zone} ELSE {})) \ {0}
<1>1. ASSUME c.stack = <<>> PROVE Stacked(c) = {}
  <2>1. Len(c.stack) = 0
    BY <1>1
  <2> QED BY <2>1 DEF Stacked
<1> QED BY <1>1 DEF Counting

(* Who does not run is at none of the places where a call keeps running.   *)
LEMMA OthersStand ==
  ASSUME InTurn(work, turn, pressing), NEW t \in Workers, turn \in {NoWorker, t},
         NEW u \in Workers, u # t
  PROVE  /\ work[u].at \notin {"hash", "gone"}
         /\ ~pressing.pressed => work[u].at \notin {"new", "leave", "get", "indirect"}
<1>1. turn # u
  BY FileBlocksAssumption
<1> QED BY <1>1 DEF InTurn

(* A step that neither marks, enters nor frees a zone.                     *)
KeepsApart(t, d) ==
  \/ d.op = "none"
  \/ d.op = work[t].op /\ d.file = work[t].file
  \/ pressing.shared
  \/ \A u \in Workers \ {t} : work[u].op # "none" /\ "truncate" \in {d.op, work[u].op} => work[u].file # d.file

LEMMA ApartKept ==
  ASSUME work \in [Workers -> Tasks_], Apart_(work, pressing), NEW t \in Workers, NEW d, KeepsApart(t, d)
  PROVE  Apart_([work EXCEPT ![t] = d], pressing)
<1> DEFINE N == [work EXCEPT ![t] = d]
<1>1. \A u \in Workers : N[u] = IF u = t THEN d ELSE work[u]
  OBVIOUS
<1> HIDE DEF N
<1>2. ASSUME ~pressing.shared, NEW u \in Workers, NEW v \in Workers, u # v, N[u].op = "truncate", N[v].op # "none"
      PROVE  N[u].file # N[v].file
  <2>1. \A x, y \in Workers : x # y /\ work[x].op = "truncate" /\ work[y].op # "none" => work[x].file # work[y].file
    BY <1>2 DEF Apart_
  <2>2. CASE u = t
    <3>1. N[u] = d /\ N[v] = work[v] /\ v # t
      BY <1>1, <1>2, <2>2
    <3> QED BY <3>1, <2>1, <2>2, <1>2 DEF KeepsApart
  <2>3. CASE v = t
    <3>1. N[v] = d /\ N[u] = work[u] /\ u # t
      BY <1>1, <1>2, <2>3
    <3> QED BY <3>1, <2>1, <2>3, <1>2 DEF KeepsApart
  <2>4. CASE u # t /\ v # t
    BY <1>1, <1>2, <2>1, <2>4
  <2> QED BY <2>2, <2>3, <2>4
<1> QED BY <1>2 DEF Apart_, N

(* What such a step has to show.                                           *)
LEMMA QuietStep ==
  ASSUME BlocksInv, NEW t \in Workers, NEW d \in Tasks_, turn \in {NoWorker, t},
         UNCHANGED <<i_zone, words, zmap, pressing>>,
         work' = [work EXCEPT ![t] = d], turn' \in {NoWorker, t},
         work[t].at # "new", d.at # "new", Fits(d), KeepsApart(t, d),
         \A L \in [Zones -> Labels] : Marked(i_zone, words, zmap, content, work, L) =>
            /\ Finds(d, Settled(zmap, work), L) /\ InPlace(d, i_zone, words)
            /\ Contents(content', Settled(zmap, work), L),
         content' \in [Zones -> {<<>>} \cup (Owners \X Blocks_)],
         d.at \in {"hash", "gone"} => turn' = t,
         ~pressing.pressed /\ d.at \in {"leave", "get", "indirect"} => turn' = t,
         b_count' \in [Zones -> Int], CountsIn(b_count', work'),
         d.at = "gone" => b_count'[d.zone] = 0
  PROVE  BlocksInv'
<1>1. work \in [Workers -> Tasks_] /\ BlockTypes
  BY DEF BlocksInv, BlockTypes
<1>2. \A u \in Workers : work'[u] = IF u = t THEN d ELSE work[u]
  BY <1>1
<1>3. BlockTypes'
  BY <1>1 DEF BlockTypes
<1>4. \A u \in Workers : Fits(work'[u])
  BY <1>2 DEF BlocksInv
<1>5. Apart_(work', pressing')
  BY <1>1, ApartKept DEF BlocksInv
<1>6. \A u \in Workers \ {t} : /\ work[u].at \notin {"hash", "gone"}
                               /\ ~pressing.pressed => work[u].at \notin {"new", "leave", "get", "indirect"}
  BY OthersStand DEF BlocksInv
<1>7. InTurn(work', turn', pressing')
  BY <1>2, <1>6 DEF InTurn
<1>8. Freed(b_count', work')
  BY <1>2, <1>6 DEF Freed
<1>9. Unfilled(work', pressing', i_zone', words')
  BY <1>2, <1>6 DEF Unfilled
<1>10. \E L \in [Zones -> Labels] : Marked(i_zone', words', zmap', content', work', L)
  <2>1. PICK L \in [Zones -> Labels] : Marked(i_zone, words, zmap, content, work, L)
    BY DEF BlocksInv
  <2>2. /\ Finds(d, Settled(zmap, work), L) /\ InPlace(d, i_zone, words)
        /\ Contents(content', Settled(zmap, work), L)
    BY <2>1
  <2>3. Marked(i_zone, words, zmap, content', work, L)
    BY <2>1, <2>2 DEF Marked
  <2>4. Marked(i_zone, words, zmap, content', [work EXCEPT ![t] = d], L)
    BY <2>2, <2>3, <1>1, MarksQuiet
  <2> QED BY <2>4
<1> QED BY <1>3, <1>4, <1>5, <1>7, <1>8, <1>9, <1>10 DEF BlocksInv

-----------------------------------------------------------------------------
(* The start.                                                              *)
LEMMA BlocksInit ==
  ASSUME BlocksRest PROVE BlocksInv
<1> USE FileBlocksAssumption
<1>1. Rest \in Tasks_ /\ Fits(Rest) /\ Rest.op = "none" /\ Rest.at = "user"
  BY DEF Rest, Tasks_, Fits
<1>2. \A t \in Workers : work[t] = Rest
  BY DEF BlocksRest
<1>3. BlockTypes
  BY <1>1 DEF BlockTypes, BlocksRest, ZoneSlots, Words, ClearBlock, None_written
<1>4. Apart_(work, pressing) /\ InTurn(work, turn, pressing) /\ Freed(b_count, work)
      /\ Unfilled(work, pressing, i_zone, words)
  BY <1>1, <1>2 DEF Apart_, InTurn, Freed, Unfilled
<1>5. CountsIn(b_count, work)
  <2>1. Counting(Rest) = {}
    BY CountingIs DEF Rest
  <2>2. \A z : {t \in Workers : z \in Counting(work[t])} = {}
    BY <2>1, <1>2
  <2>3. \A z \in Zones : b_count[z] = 0
    BY DEF BlocksRest
  <2> QED BY <2>2, <2>3, FS_EmptySet DEF CountsIn
<1>6. \E L \in [Zones -> Labels] : Marked(i_zone, words, zmap, content, work, L)
  <2>1. \A f \in Owners, s \in ZoneSlots : i_zone[f][s] = 0
    BY DEF BlocksRest
  <2>2. Settled(zmap, work) = {}
    BY DEF Settled, BlocksRest
  <2>3. \A L : Marked(i_zone, words, zmap, content, work, L)
    BY <1>1, <1>2, <2>1, <2>2 DEF Marked, Tree, Finds, InPlace, NewOnes, Contents
  <2>4. FirstOf(0, 0) \in Labels
    BY DEF FirstOf, Labels
  <2>5. [z \in Zones |-> FirstOf(0, 0)] \in [Zones -> Labels]
    BY <2>4
  <2> QED BY <2>3, <2>5
<1> QED BY <1>1, <1>2, <1>3, <1>4, <1>5, <1>6 DEF BlocksInv

-----------------------------------------------------------------------------
(* Reading and writing.                                                    *)
LEMMA AtPlace ==
  ASSUME BlocksInv, NEW t \in Workers
  PROVE  /\ work \in [Workers -> Tasks_] /\ work[t] \in Tasks_ /\ Fits(work[t])
         /\ work[t].at \in {"map", "new", "leave", "get", "copy"} => Maps(work[t])
         /\ work[t].at \in {"cells", "indirect", "hash", "free", "gone"} => Cuts(work[t])
         /\ b_count \in [Zones -> Int] /\ CountsIn(b_count, work)
         /\ content \in [Zones -> {<<>>} \cup (Owners \X Blocks_)]
         /\ pressing \in BlockCases
         /\ Rest \in Tasks_ /\ Fits(Rest) /\ Rest.op = "none" /\ Rest.at = "user" /\ Counting(Rest) = {}
<1>1. BlockTypes /\ Fits(work[t]) /\ CountsIn(b_count, work)
  BY DEF BlocksInv
<1>2. work \in [Workers -> Tasks_]
  BY <1>1 DEF BlockTypes
<1>3. /\ work[t].at \in {"map", "new", "leave", "get", "copy"} => Maps(work[t])
      /\ work[t].at \in {"cells", "indirect", "hash", "free", "gone"} => Cuts(work[t])
  BY <1>1 DEF Fits, Rest, Maps, Cuts
<1>4. Rest \in Tasks_ /\ Fits(Rest) /\ Rest.op = "none" /\ Rest.at = "user"
  BY FileBlocksAssumption DEF Rest, Tasks_, Fits
<1>5. Counting(Rest) = {}
  BY CountingIs DEF Rest
<1> QED BY <1>1, <1>2, <1>3, <1>4, <1>5 DEF BlockTypes

LEMMA RestFits ==
  ASSUME NEW S, NEW L, NEW I, NEW W PROVE Finds(Rest, S, L) /\ InPlace(Rest, I, W)
  BY DEF Rest, Finds, InPlace

LEMMA StartsKeeps ==
  ASSUME BlocksInv, NEW t \in Workers, Starts(t) PROVE BlocksInv'
<1>1. turn = NoWorker /\ work[t] = Rest /\ UNCHANGED <<i_zone, words, content, zmap, b_count, pressing>>
  BY DEF Starts
<1>2. /\ work \in [Workers -> Tasks_] /\ b_count \in [Zones -> Int] /\ CountsIn(b_count, work)
      /\ content \in [Zones -> {<<>>} \cup (Owners \X Blocks_)] /\ pressing \in BlockCases
      /\ Rest \in Tasks_ /\ Rest.op = "none" /\ Rest.at = "user" /\ Counting(Rest) = {}
  BY AtPlace
<1>3. ASSUME NEW f \in Owners, NEW d \in Tasks_, work' = [work EXCEPT ![t] = d], turn' \in {t},
             Fits(d), KeepsApart(t, d), d.bh = 0, d.stack = <<>>, d.at \in {"map", "cells"}
      PROVE  BlocksInv'
  <2>1. Counting(d) = {}
    BY <1>3, CountingIs
  <2>2. CountsIn(b_count', work')
    BY <1>1, <1>2, <1>3, <2>1, Countings
  <2>3. \A S, L, I, W : Finds(d, S, L) /\ InPlace(d, I, W)
    <3>1. d = Rest \/ Maps(d) \/ Cuts(d)
      BY <1>3 DEF Fits
    <3>2. d.op = "none" \/ (d.op \in {"read", "write"} /\ d.at = "map") \/ (d.op = "truncate" /\ d.at = "cells")
      <4>1. CASE d = Rest
        BY <4>1, <1>2
      <4>2. CASE Maps(d)
        BY <4>2, <1>3 DEF Maps
      <4>3. CASE Cuts(d)
        BY <4>3, <1>3 DEF Cuts
      <4> QED BY <3>1, <4>1, <4>2, <4>3
    <3>3. Len(d.stack) # 2
      BY <1>3
    <3> QED BY <1>3, <3>2, <3>3 DEF Finds, InPlace
  <2>4. \A L : Marked(i_zone, words, zmap, content, work, L) => Contents(content', Settled(zmap, work), L)
    BY <1>1 DEF Marked
  <2> QED BY <1>1, <1>2, <1>3, <2>2, <2>3, <2>4, QuietStep
<1>4. PICK f \in Owners :
       \/ \E op \in {"read", "write"}, b \in pressing.blocks :
            /\ pressing.shared \/ ~Truncates(f)
            /\ Turn(t, [Rest EXCEPT !.op = op, !.at = "map", !.file = f, !.block = b, !.path = PathTo(b)], {t})
       \/ /\ pressing.shared \/ ~AtWork(f)
          /\ Turn(t, [Rest EXCEPT !.op = "truncate", !.at = "cells", !.file = f], {t})
  BY DEF Starts
<1>5. ASSUME NEW op \in {"read", "write"}, NEW b \in pressing.blocks, pressing.shared \/ ~Truncates(f),
             Turn(t, [Rest EXCEPT !.op = op, !.at = "map", !.file = f, !.block = b, !.path = PathTo(b)], {t})
      PROVE  BlocksInv'
  <2> DEFINE d == [Rest EXCEPT !.op = op, !.at = "map", !.file = f, !.block = b, !.path = PathTo(b)]
  <2>1. b \in Blocks_
    BY <1>2, FileBlocksAssumption DEF Blocks_
  <2>2. b \in Nat /\ PathTo(b) \in Seq(Nat) /\ Len(PathTo(b)) \in 1..3
    BY <2>1, Ways
  <2>3. d \in Tasks_
    BY <1>2, <2>2 DEF Tasks_
  <2>4. /\ d.op = op /\ d.at = "map" /\ d.file = f /\ d.block = b /\ d.path = PathTo(b)
        /\ d.bh = 0 /\ d.stack = <<>> /\ d.zone = 0
    BY DEF Rest
  <2>5. work' = [work EXCEPT ![t] = d] /\ turn' \in {t}
    BY <1>5 DEF Turn
  <2> HIDE DEF d
  <2>6. Passed(d) = 0
    BY <2>2, <2>4 DEF Passed
  <2>7. Maps(d)
    <3>1. Len(d.path) \in 1..Len(PathTo(d.block))
      <4> DEFINE n == Len(PathTo(b))
      <4>1. n \in 1..3 /\ Len(d.path) = n /\ Len(PathTo(d.block)) = n
        BY <2>2, <2>4
      <4> HIDE DEF n
      <4> QED BY <4>1
    <3>2. \A i \in 1..Len(d.path) : d.path[i] = PathTo(d.block)[Passed(d) + i]
      BY <2>4, <2>6
    <3> QED BY <3>1, <3>2, <2>1, <2>4, <2>6 DEF Maps
  <2>8. KeepsApart(t, d)
    BY <1>5, <2>4 DEF KeepsApart, Truncates
  <2> QED BY <1>3, <2>3, <2>4, <2>5, <2>7, <2>8 DEF Fits
<1>6. ASSUME pressing.shared \/ ~AtWork(f),
             Turn(t, [Rest EXCEPT !.op = "truncate", !.at = "cells", !.file = f], {t})
      PROVE  BlocksInv'
  <2> DEFINE d == [Rest EXCEPT !.op = "truncate", !.at = "cells", !.file = f]
  <2>1. d \in Tasks_
    BY <1>2 DEF Tasks_
  <2>2. /\ d.op = "truncate" /\ d.at = "cells" /\ d.file = f
        /\ d.bh = 0 /\ d.stack = <<>> /\ d.zone = 0
    BY DEF Rest
  <2>3. work' = [work EXCEPT ![t] = d] /\ turn' \in {t}
    BY <1>6 DEF Turn
  <2> HIDE DEF d
  <2>4. Cuts(d)
    <3>1. Len(d.stack) = 0 /\ Levels(d) \in 0..2
      BY <2>2 DEF Levels
    <3> QED BY <3>1, <2>2 DEF Cuts
  <2>5. KeepsApart(t, d)
    BY <1>6, <2>2 DEF KeepsApart, AtWork
  <2> QED BY <1>3, <2>1, <2>2, <2>3, <2>4, <2>5 DEF Fits
<1> QED BY <1>4, <1>5, <1>6

(* What is in the cell that is looked at is in use, at its place.          *)
LEMMA CellFound ==
  ASSUME BlockTypes, NEW c \in Tasks_, Maps(c), c.at \in {"map", "new"},
         NEW L \in [Zones -> Labels], NEW S, S \subseteq Zones, Tree(i_zone, words, S, L), Finds(c, S, L)
  PROVE  /\ Cell(c) \in Zones \cup {0}
         /\ Cell(c) # 0 => Cell(c) \in S /\ L[Cell(c)] = Label(c.file, c.block, Passed(c) + 1)
<1> DEFINE k == Passed(c)
           b == c.block
           p == c.path[1]
           y == c.bh
           g == c.file
<1>1. /\ p = Head(c.path)
      /\ IF k = 0 THEN p \in ZoneSlots ELSE p \in Words
      /\ Label(c.file, b, k + 1) = IF k = 0 THEN FirstOf(c.file, p) ELSE Down(Label(c.file, b, k), p)
  BY MapsFits
<1>2. (y = 0 <=> k = 0) /\ g \in Owners
  BY DEF Maps
<1>3. y # 0 => y \in S /\ L[y] = Label(g, b, k)
  BY DEF Finds, Maps
<1>4. /\ i_zone \in [Owners -> [ZoneSlots -> Zones \cup {0}]]
      /\ words \in [Zones -> [Words -> Zones \cup {0}]]
  BY DEF BlockTypes
<1>5. Cell(c) = IF y = 0 THEN i_zone[g][p] ELSE words[y][p]
  BY <1>1 DEF Cell
<1> HIDE DEF k, b, p, y, g
<1>6. CASE y = 0
  <2>1. Cell(c) = i_zone[g][p] /\ p \in ZoneSlots
    BY <1>1, <1>2, <1>5, <1>6
  <2>2. Cell(c) # 0 => Cell(c) \in S /\ L[Cell(c)] = FirstOf(g, p)
    BY <2>1, <1>2 DEF Tree
  <2>3. Cell(c) \in Zones \cup {0}
    BY <2>1, <1>2, <1>4
  <2> QED BY <2>2, <2>3, <1>1, <1>2, <1>6 DEF g, b, k
<1>7. CASE y # 0
  <2>1. Cell(c) = words[y][p] /\ p \in Words /\ y \in S /\ L[y] = Label(g, b, k)
    BY <1>1, <1>2, <1>3, <1>5, <1>7
  <2>2. Cell(c) # 0 => Cell(c) \in S /\ L[Cell(c)] = Down(L[y], p)
    BY <2>1 DEF Tree
  <2>3. Cell(c) \in Zones \cup {0}
    BY <2>1, <1>4
  <2> QED BY <2>1, <2>2, <2>3, <1>1, <1>2, <1>7 DEF g, b, k
<1> QED BY <1>6, <1>7

LEMMA MapKeeps ==
  ASSUME BlocksInv, NEW t \in Workers, Map(t) PROVE BlocksInv'
<1> DEFINE c == work[t]
           d == [c EXCEPT !.at = "leave", !.zone = Cell(c)]
<1>1. /\ turn \in {NoWorker, t} /\ c.at = "map" /\ Cell(c) # 0
      /\ work' = [work EXCEPT ![t] = d] /\ turn' \in OnlyPressed(t)
      /\ UNCHANGED <<i_zone, words, content, zmap, b_count, pressing>>
  BY DEF Map, Has_turn, Turn
<1>2. /\ work \in [Workers -> Tasks_] /\ c \in Tasks_ /\ Maps(c)
      /\ b_count \in [Zones -> Int] /\ CountsIn(b_count, work)
      /\ content \in [Zones -> {<<>>} \cup (Owners \X Blocks_)]
  BY <1>1, AtPlace
<1>3. BlockTypes /\ zmap \subseteq Zones
  BY DEF BlocksInv, BlockTypes
<1>4. ASSUME NEW L \in [Zones -> Labels], Marked(i_zone, words, zmap, content, work, L)
      PROVE  /\ Cell(c) \in Settled(zmap, work) /\ Cell(c) \in Zones
             /\ L[Cell(c)] = Label(c.file, c.block, Passed(c) + 1)
             /\ Finds(c, Settled(zmap, work), L)
             /\ Contents(content', Settled(zmap, work), L)
  <2>1. /\ Tree(i_zone, words, Settled(zmap, work), L) /\ Finds(c, Settled(zmap, work), L)
        /\ Contents(content', Settled(zmap, work), L)
    BY <1>1, <1>4 DEF Marked
  <2>2. Settled(zmap, work) \subseteq Zones
    BY <1>3 DEF Settled
  <2> QED BY <2>1, <2>2, <1>1, <1>2, <1>3, CellFound
<1>5. Cell(c) \in Zones
  <2>1. PICK L \in [Zones -> Labels] : Marked(i_zone, words, zmap, content, work, L)
    BY DEF BlocksInv
  <2> QED BY <2>1, <1>4
<1>6. d \in Tasks_
  BY <1>2, <1>5 DEF Tasks_
<1>7. /\ d.at = "leave" /\ d.zone = Cell(c) /\ d.op = c.op /\ d.file = c.file /\ d.block = c.block
      /\ d.path = c.path /\ d.bh = c.bh /\ d.stack = c.stack
  BY <1>2 DEF Tasks_
<1>8. c.op \in {"read", "write"} /\ c.stack = <<>>
  BY <1>2 DEF Maps
<1> HIDE DEF d
<1>9. Passed(d) = Passed(c)
  BY <1>7 DEF Passed
<1>10. Maps(d)
  BY <1>1, <1>2, <1>7, <1>9 DEF Maps
<1>11. Counting(d) = Counting(c)
  <2>1. Stacked(c) = {} /\ Stacked(d) = {}
    BY <1>7, <1>8, CountingIs
  <2>2. c.at \notin {"copy", "free"} /\ d.at \notin {"copy", "free"} /\ d.bh = c.bh
    BY <1>1, <1>7
  <2> QED BY <2>1, <2>2 DEF Counting
<1>12. CountsIn(b_count', work')
  BY <1>1, <1>2, <1>6, <1>11, Countings
<1>13. ASSUME NEW L \in [Zones -> Labels], Marked(i_zone, words, zmap, content, work, L)
       PROVE  Finds(d, Settled(zmap, work), L) /\ InPlace(d, i_zone, words)
  BY <1>4, <1>7, <1>8, <1>9, <1>13 DEF Finds, InPlace
<1>14. ~pressing.pressed => turn' = t
  BY <1>1 DEF OnlyPressed
<1>15. turn' \in {NoWorker, t}
  BY <1>1 DEF OnlyPressed
<1>16. KeepsApart(t, d) /\ Fits(d)
  BY <1>7, <1>10 DEF KeepsApart, Fits
<1> QED BY <1>1, <1>2, <1>4, <1>6, <1>7, <1>12, <1>13, <1>14, <1>15, <1>16, QuietStep

LEMMA HoleKeeps ==
  ASSUME BlocksInv, NEW t \in Workers, Hole(t) PROVE BlocksInv'
<1> DEFINE c == work[t]
<1>1. /\ turn \in {NoWorker, t} /\ c.at = "map" /\ brelse_(c.bh)
      /\ work' = [work EXCEPT ![t] = Rest] /\ turn' = NoWorker
      /\ UNCHANGED <<i_zone, words, content, zmap, pressing>>
  BY DEF Hole, Has_turn, Turn, Ends_work
<1>2. /\ work \in [Workers -> Tasks_] /\ c \in Tasks_ /\ Maps(c)
      /\ b_count \in [Zones -> Int] /\ CountsIn(b_count, work)
      /\ content \in [Zones -> {<<>>} \cup (Owners \X Blocks_)]
      /\ Rest \in Tasks_ /\ Fits(Rest) /\ Rest.op = "none" /\ Rest.at = "user" /\ Counting(Rest) = {}
  BY <1>1, AtPlace
<1>3. c.stack = <<>> /\ c.bh \in Zones \cup {0}
  BY <1>2 DEF Maps, Tasks_
<1>4. Counting(c) = IF c.bh = 0 THEN {} ELSE {c.bh}
  BY <1>1, <1>3, CountingIs
<1>5. b_count' \in [Zones -> Int] /\ CountsIn(b_count', work')
  <2>1. CASE c.bh = 0
    <3>1. b_count' = b_count
      BY <1>1, <2>1 DEF brelse_
    <3> QED BY <3>1, <2>1, <1>1, <1>2, <1>4, Countings
  <2>2. CASE c.bh # 0
    <3>1. b_count' = [b_count EXCEPT ![c.bh] = @ - 1] /\ c.bh \in Zones
      BY <1>1, <1>3, <2>2 DEF brelse_
    <3>2. c.bh \in Counting(c) /\ Counting(Rest) = Counting(c) \ {c.bh}
      BY <1>2, <1>4, <2>2
    <3>3. CountsIn([b_count EXCEPT ![c.bh] = @ - 1], [work EXCEPT ![t] = Rest])
      BY <3>1, <3>2, <1>2, Countings
    <3> QED BY <3>1, <3>3, <1>1, <1>2
  <2> QED BY <2>1, <2>2
<1>6. KeepsApart(t, Rest)
  BY <1>2 DEF KeepsApart
<1>7. \A L \in [Zones -> Labels] : Marked(i_zone, words, zmap, content, work, L) =>
        /\ Finds(Rest, Settled(zmap, work), L) /\ InPlace(Rest, i_zone, words)
        /\ Contents(content', Settled(zmap, work), L)
  BY <1>1, RestFits DEF Marked
<1> QED BY <1>1, <1>2, <1>5, <1>6, <1>7, QuietStep

LEMMA LeaveKeeps ==
  ASSUME BlocksInv, NEW t \in Workers, Leave_indirect(t) PROVE BlocksInv'
<1> DEFINE c == work[t]
           d == [c EXCEPT !.at = "get", !.bh = 0]
<1>1. /\ turn \in {NoWorker, t} /\ c.at = "leave" /\ brelse_(c.bh)
      /\ work' = [work EXCEPT ![t] = d] /\ turn' \in OnlyPressed(t)
      /\ UNCHANGED <<i_zone, words, content, zmap, pressing>>
  BY DEF Leave_indirect, Has_turn, Turn
<1>2. /\ work \in [Workers -> Tasks_] /\ c \in Tasks_ /\ Maps(c)
      /\ b_count \in [Zones -> Int] /\ CountsIn(b_count, work)
      /\ content \in [Zones -> {<<>>} \cup (Owners \X Blocks_)]
  BY <1>1, AtPlace
<1>3. c.stack = <<>> /\ c.bh \in Zones \cup {0} /\ c.op \in {"read", "write"}
  BY <1>2 DEF Maps, Tasks_
<1>4. Counting(c) = IF c.bh = 0 THEN {} ELSE {c.bh}
  BY <1>1, <1>3, CountingIs
<1>5. d \in Tasks_
  BY <1>2 DEF Tasks_
<1>6. /\ d.at = "get" /\ d.zone = c.zone /\ d.op = c.op /\ d.file = c.file /\ d.block = c.block
      /\ d.path = c.path /\ d.bh = 0 /\ d.stack = c.stack
  BY <1>2 DEF Tasks_
<1> HIDE DEF d
<1>7. Passed(d) = Passed(c)
  BY <1>6 DEF Passed
<1>8. Maps(d)
  BY <1>1, <1>2, <1>6, <1>7 DEF Maps
<1>9. Counting(d) = {}
  BY <1>3, <1>6, CountingIs
<1>10. b_count' \in [Zones -> Int] /\ CountsIn(b_count', work')
  <2>1. CASE c.bh = 0
    <3>1. b_count' = b_count
      BY <1>1, <2>1 DEF brelse_
    <3> QED BY <3>1, <2>1, <1>1, <1>2, <1>4, <1>5, <1>9, Countings
  <2>2. CASE c.bh # 0
    <3>1. b_count' = [b_count EXCEPT ![c.bh] = @ - 1] /\ c.bh \in Zones
      BY <1>1, <1>3, <2>2 DEF brelse_
    <3>2. c.bh \in Counting(c) /\ Counting(d) = Counting(c) \ {c.bh}
      BY <1>4, <1>9, <2>2
    <3>3. CountsIn([b_count EXCEPT ![c.bh] = @ - 1], [work EXCEPT ![t] = d])
      BY <3>1, <3>2, <1>2, <1>5, Countings
    <3> QED BY <3>1, <3>3, <1>1, <1>2
  <2> QED BY <2>1, <2>2
<1>11. ASSUME NEW L \in [Zones -> Labels], Marked(i_zone, words, zmap, content, work, L)
       PROVE  /\ Finds(d, Settled(zmap, work), L) /\ InPlace(d, i_zone, words)
              /\ Contents(content', Settled(zmap, work), L)
  <2>1. Finds(c, Settled(zmap, work), L) /\ Contents(content', Settled(zmap, work), L)
    BY <1>1, <1>11 DEF Marked
  <2> QED BY <2>1, <1>1, <1>3, <1>6, <1>7 DEF Finds, InPlace
<1>12. (~pressing.pressed => turn' = t) /\ turn' \in {NoWorker, t}
  BY <1>1 DEF OnlyPressed
<1>13. KeepsApart(t, d) /\ Fits(d)
  BY <1>6, <1>8 DEF KeepsApart, Fits
<1> QED BY <1>1, <1>2, <1>5, <1>6, <1>10, <1>11, <1>12, <1>13, QuietStep

LEMMA GetKeeps ==
  ASSUME BlocksInv, NEW t \in Workers, GetZone(t) PROVE BlocksInv'
<1> DEFINE c == work[t]
           z == c.zone
           d == IF Len(c.path) = 1 THEN [c EXCEPT !.at = "copy"]
                ELSE [c EXCEPT !.at = "map", !.bh = c.zone, !.zone = 0, !.path = Tail(@)]
<1>1. /\ turn \in {NoWorker, t} /\ c.at = "get" /\ b_count' = [b_count EXCEPT ![z] = @ + 1]
      /\ work' = [work EXCEPT ![t] = d] /\ turn' \in {t, NoWorker}
      /\ UNCHANGED <<i_zone, words, content, zmap, pressing>>
  BY DEF GetZone, Has_turn, Turn, Counted, Either
<1>2. /\ work \in [Workers -> Tasks_] /\ c \in Tasks_ /\ Maps(c)
      /\ b_count \in [Zones -> Int] /\ CountsIn(b_count, work)
      /\ content \in [Zones -> {<<>>} \cup (Owners \X Blocks_)]
  BY <1>1, AtPlace
<1>3. c.stack = <<>> /\ c.bh = 0 /\ c.op \in {"read", "write"} /\ z \in Zones /\ z # 0 /\ c.path \in Seq(Nat)
  BY <1>1, <1>2, ZonesNotZero DEF Maps, Tasks_
<1>4. Counting(c) = {}
  BY <1>1, <1>3, CountingIs
<1>5. /\ Passed(c) \in 0..2 /\ Passed(c) < Len(PathTo(c.block)) /\ Len(c.path) = Len(PathTo(c.block)) - Passed(c)
      /\ Len(c.path) \in 1..Len(PathTo(c.block)) /\ c.block \in Blocks_
      /\ \A i \in 1..Len(c.path) : c.path[i] = PathTo(c.block)[Passed(c) + i]
  BY <1>2, MapsFits DEF Maps
<1>6. Len(PathTo(c.block)) \in 1..3
  BY <1>5, Ways
<1>7. /\ d \in Tasks_ /\ Maps(d) /\ d.op = c.op /\ d.file = c.file /\ d.block = c.block /\ d.stack = <<>>
      /\ Counting(d) = {z} /\ d.at \in {"copy", "map"}
      /\ \A S, L : Finds(c, S, L) => Finds(d, S, L)
  <2>1. CASE Len(c.path) = 1
    <3>1. d = [c EXCEPT !.at = "copy"]
      BY <2>1
    <3>2. /\ d.at = "copy" /\ d.zone = z /\ d.op = c.op /\ d.file = c.file /\ d.block = c.block
          /\ d.path = c.path /\ d.bh = c.bh /\ d.stack = c.stack /\ d \in Tasks_
      BY <3>1, <1>2 DEF Tasks_
    <3> HIDE DEF d
    <3>3. Passed(d) = Passed(c)
      BY <3>2 DEF Passed
    <3>4. Maps(d)
      BY <1>2, <1>3, <3>2, <3>3, <2>1 DEF Maps
    <3>5. Counting(d) = {z}
      BY <3>2, <1>3, CountingIs
    <3> QED BY <3>2, <3>3, <3>4, <3>5, <1>1, <1>3 DEF Finds
  <2>2. CASE Len(c.path) # 1
    <3> DEFINE n == Len(c.path)
               m == Len(PathTo(c.block))
    <3>1. d = [c EXCEPT !.at = "map", !.bh = z, !.zone = 0, !.path = Tail(@)]
      BY <2>2
    <3>2. n > 1 /\ n - 1 \in 1..m /\ n \in Nat
      <4>1. n \in 1..m /\ n # 1 /\ m \in 1..3
        BY <2>2, <1>5, <1>6
      <4> HIDE DEF n, m
      <4> QED BY <4>1
    <3>3. /\ Tail(c.path) \in Seq(Nat) /\ Len(Tail(c.path)) = n - 1
          /\ \A i \in 1..(n - 1) : Tail(c.path)[i] = c.path[i + 1]
      BY <3>2, <1>3
    <3>4. /\ d.at = "map" /\ d.zone = 0 /\ d.op = c.op /\ d.file = c.file /\ d.block = c.block
          /\ d.path = Tail(c.path) /\ d.bh = z /\ d.stack = c.stack /\ d \in Tasks_
      BY <3>1, <3>3, <1>2 DEF Tasks_
    <3> HIDE DEF d
    <3>5. Passed(d) = Passed(c) + 1 /\ Len(d.path) = n - 1
      <4>1. Len(d.path) = n - 1
        BY <3>3, <3>4
      <4>2. Passed(d) = m - (n - 1) /\ Passed(c) = m - n
        BY <4>1, <3>4 DEF Passed
      <4>3. n \in Int /\ m \in Int
        BY <3>2, <1>6
      <4> HIDE DEF n, m
      <4> QED BY <4>1, <4>2, <4>3
    <3>6. \A i \in 1..(n - 1) : d.path[i] = PathTo(d.block)[Passed(d) + i]
      <4>1. SUFFICES ASSUME NEW i \in 1..(n - 1) PROVE d.path[i] = PathTo(d.block)[Passed(d) + i]
        OBVIOUS
      <4>2. i + 1 \in 1..n /\ Passed(c) + (i + 1) = (Passed(c) + 1) + i
        <5> DEFINE k == Passed(c)
        <5>1. k \in 0..2 /\ n \in Nat
          BY <3>2, <1>5
        <5> HIDE DEF n, k
        <5>2. i \in Int /\ i >= 1 /\ i <= n - 1
          BY <5>1
        <5>3. i + 1 \in 1..n
          BY <5>1, <5>2
        <5>4. k + (i + 1) = (k + 1) + i
          BY <5>1, <5>2
        <5> QED BY <5>3, <5>4 DEF k, n
      <4>3. c.path[i + 1] = PathTo(c.block)[Passed(c) + (i + 1)]
        BY <4>2, <1>5
      <4> QED BY <4>2, <4>3, <3>3, <3>4, <3>5
    <3>7. Maps(d)
      <4>1. Passed(d) # 0
        BY <3>5, <1>5
      <4> QED BY <4>1, <3>2, <3>4, <3>5, <3>6, <1>2, <1>3 DEF Maps
    <3>8. Counting(d) = {z}
      BY <3>4, <1>3, CountingIs
    <3> QED BY <3>4, <3>5, <3>7, <3>8, <1>1, <1>3 DEF Finds
  <2> QED BY <2>1, <2>2
<1> HIDE DEF d
<1>8. b_count' \in [Zones -> Int] /\ CountsIn(b_count', work')
  <2>1. z \notin Counting(c) /\ Counting(d) = Counting(c) \cup {z}
    BY <1>4, <1>7
  <2>2. CountsIn([b_count EXCEPT ![z] = @ + 1], [work EXCEPT ![t] = d])
    BY <2>1, <1>2, <1>3, <1>7, Countings
  <2>3. b_count' = [b_count EXCEPT ![z] = @ + 1] /\ work' = [work EXCEPT ![t] = d]
    BY <1>1
  <2> HIDE DEF z
  <2>4. b_count' \in [Zones -> Int]
    BY <2>3, <1>2, <1>3
  <2>5. CountsIn(b_count', work')
    BY <2>2, <2>3
  <2> QED BY <2>4, <2>5
<1>9. ASSUME NEW L \in [Zones -> Labels], Marked(i_zone, words, zmap, content, work, L)
       PROVE  /\ Finds(d, Settled(zmap, work), L) /\ InPlace(d, i_zone, words)
              /\ Contents(content', Settled(zmap, work), L)
  <2>1. Finds(c, Settled(zmap, work), L) /\ Contents(content', Settled(zmap, work), L)
    BY <1>1, <1>9 DEF Marked
  <2> QED BY <2>1, <1>3, <1>7 DEF InPlace
<1>10. KeepsApart(t, d) /\ Fits(d)
  BY <1>7 DEF KeepsApart, Fits
<1> QED BY <1>1, <1>2, <1>7, <1>8, <1>9, <1>10, QuietStep

LEMMA CopyKeeps ==
  ASSUME BlocksInv, NEW t \in Workers, CopyBlock(t) PROVE BlocksInv'
<1> DEFINE c == work[t]
           z == c.zone
<1>1. /\ turn \in {NoWorker, t} /\ c.at = "copy" /\ brelse_(z)
      /\ content' = IF c.op = "read" THEN content ELSE [content EXCEPT ![z] = <<c.file, c.block>>]
      /\ work' = [work EXCEPT ![t] = Rest] /\ turn' = NoWorker
      /\ UNCHANGED <<i_zone, words, zmap, pressing>>
  BY DEF CopyBlock, Has_turn, Turn, Ends_work
<1>2. /\ work \in [Workers -> Tasks_] /\ c \in Tasks_ /\ Maps(c)
      /\ b_count \in [Zones -> Int] /\ CountsIn(b_count, work)
      /\ content \in [Zones -> {<<>>} \cup (Owners \X Blocks_)]
      /\ Rest \in Tasks_ /\ Fits(Rest) /\ Rest.op = "none" /\ Rest.at = "user" /\ Counting(Rest) = {}
  BY <1>1, AtPlace
<1>3. /\ c.stack = <<>> /\ c.bh = 0 /\ c.op \in {"read", "write"} /\ z \in Zones /\ z # 0
      /\ c.file \in Owners /\ c.block \in Blocks_ /\ Len(c.path) = 1
  BY <1>1, <1>2, ZonesNotZero DEF Maps, Tasks_
<1>4. Counting(c) = {z}
  BY <1>1, <1>3, CountingIs
<1>5. b_count' \in [Zones -> Int] /\ CountsIn(b_count', work')
  <2>1. b_count' = [b_count EXCEPT ![z] = @ - 1]
    BY <1>1, <1>3 DEF brelse_
  <2>2. z \in Counting(c) /\ Counting(Rest) = Counting(c) \ {z}
    BY <1>2, <1>4
  <2>3. CountsIn([b_count EXCEPT ![z] = @ - 1], [work EXCEPT ![t] = Rest])
    BY <2>2, <1>2, <1>3, Countings
  <2>4. work' = [work EXCEPT ![t] = Rest]
    BY <1>1
  <2> HIDE DEF z
  <2>5. b_count' \in [Zones -> Int]
    BY <2>1, <1>2, <1>3
  <2>6. CountsIn(b_count', work')
    BY <2>1, <2>3, <2>4
  <2> QED BY <2>5, <2>6
<1>6. KeepsApart(t, Rest)
  BY <1>2 DEF KeepsApart
<1>7. content' \in [Zones -> {<<>>} \cup (Owners \X Blocks_)]
  BY <1>1, <1>2, <1>3
<1>8. ASSUME NEW L \in [Zones -> Labels], Marked(i_zone, words, zmap, content, work, L)
      PROVE  Contents(content', Settled(zmap, work), L)
  <2>1. Finds(c, Settled(zmap, work), L) /\ Contents(content, Settled(zmap, work), L)
    BY <1>8 DEF Marked
  <2>2. L[z] = Label(c.file, c.block, Len(PathTo(c.block)))
    <3>1. Passed(c) + 1 = Len(PathTo(c.block))
      <4> DEFINE m == Len(PathTo(c.block))
                 k == Passed(c)
      <4>1. m \in 1..3 /\ k \in 0..2 /\ 1 = m - k
        BY <1>2, <1>3, MapsFits, Ways
      <4> HIDE DEF m, k
      <4>2. k + 1 = m
        BY <4>1
      <4> QED BY <4>2 DEF k, m
    <3>2. L[z] = Label(c.file, c.block, Passed(c) + 1)
      BY <2>1, <1>1, <1>3 DEF Finds
    <3> QED BY <3>1, <3>2
  <2>3. L[z].file = c.file /\ L[z].cells = PathTo(c.block)
    <3>1. Label(c.file, c.block, Len(PathTo(c.block))).cells = PathTo(c.block)
      BY <1>3, Labelling
    <3> QED BY <3>1, <2>2 DEF Label
  <2>4. CASE c.op = "read"
    BY <2>1, <2>4, <1>1
  <2>5. CASE c.op # "read"
    <3>1. content'[z] = <<c.file, c.block>> /\ \A x \in Zones : x # z => content'[x] = content[x]
      BY <2>5, <1>1, <1>2, <1>3
    <3>2. Settled(zmap, work) \subseteq Zones
      BY DEF Settled, BlocksInv, BlockTypes
    <3> QED BY <3>1, <3>2, <2>1, <2>3 DEF Contents
  <2> QED BY <2>4, <2>5
<1>9. \A L \in [Zones -> Labels] : Marked(i_zone, words, zmap, content, work, L) =>
        /\ Finds(Rest, Settled(zmap, work), L) /\ InPlace(Rest, i_zone, words)
        /\ Contents(content', Settled(zmap, work), L)
  BY <1>8, RestFits
<1> QED BY <1>1, <1>2, <1>5, <1>6, <1>7, <1>9, QuietStep

LEMMA NewKeeps ==
  ASSUME BlocksInv, NEW t \in Workers, NewZone(t) PROVE BlocksInv'
<1> DEFINE c == work[t]
           z == Min(Zones \ zmap)
           d == [c EXCEPT !.at = "new", !.zone = z]
<1>1. /\ turn \in {NoWorker, t} /\ c.at = "map" /\ Cell(c) = 0 /\ c.op = "write" /\ zmap # Zones
      /\ zmap' = zmap \cup {z}
      /\ work' = [work EXCEPT ![t] = d] /\ turn' \in OnlyPressed(t)
      /\ UNCHANGED <<i_zone, words, content, b_count, pressing>>
  BY DEF NewZone, Has_turn, Turn
<1>2. /\ work \in [Workers -> Tasks_] /\ c \in Tasks_ /\ Maps(c)
      /\ b_count \in [Zones -> Int] /\ CountsIn(b_count, work)
  BY <1>1, AtPlace
<1>3. BlockTypes /\ zmap \subseteq Zones /\ \A u \in Workers : Fits(work[u])
  BY DEF BlocksInv, BlockTypes
<1>4. z \in Zones \ zmap /\ z # 0
  <2>1. Zones \ zmap \subseteq Nat /\ Zones \ zmap # {}
    BY <1>1, <1>3, FileBlocksAssumption
  <2> QED BY <2>1, LeastIsMember, ZonesNotZero
<1> HIDE DEF z
<1>5. d \in Tasks_
  BY <1>2, <1>4 DEF Tasks_
<1>6. /\ d.at = "new" /\ d.zone = z /\ d.op = c.op /\ d.file = c.file /\ d.block = c.block
      /\ d.path = c.path /\ d.bh = c.bh /\ d.stack = c.stack /\ d = [c EXCEPT !.at = "new", !.zone = d.zone]
  BY <1>2 DEF Tasks_
<1> HIDE DEF d
<1>7. Passed(d) = Passed(c)
  BY <1>6 DEF Passed
<1>8. Maps(d)
  BY <1>1, <1>2, <1>4, <1>6, <1>7 DEF Maps
<1>9. \A u \in Workers : work'[u] = IF u = t THEN d ELSE work[u]
  BY <1>1, <1>2
<1>10. BlockTypes'
  <2>1. work' \in [Workers -> Tasks_] /\ zmap' \subseteq Zones /\ turn' \in Workers \cup {NoWorker}
    BY <1>1, <1>2, <1>3, <1>4, <1>5 DEF OnlyPressed
  <2> QED BY <2>1, <1>1, <1>3 DEF BlockTypes
<1>11. \A u \in Workers : Fits(work'[u])
  BY <1>3, <1>8, <1>9 DEF Fits
<1>12. Apart_(work', pressing')
  <2>1. KeepsApart(t, d)
    BY <1>6 DEF KeepsApart
  <2> QED BY <2>1, <1>1, <1>2, ApartKept DEF BlocksInv
<1>13. \A u \in Workers \ {t} : /\ work[u].at \notin {"hash", "gone"}
                                /\ ~pressing.pressed => work[u].at \notin {"new", "leave", "get", "indirect"}
  BY <1>1, OthersStand DEF BlocksInv
<1>14. InTurn(work', turn', pressing')
  BY <1>1, <1>6, <1>9, <1>13 DEF InTurn, OnlyPressed
<1>15. CountsIn(b_count', work')
  <2>1. Counting(d) = Counting(c)
    <3>1. c.at \notin {"copy", "free"} /\ d.at \notin {"copy", "free"} /\ Stacked(d) = Stacked(c)
      BY <1>1, <1>6 DEF Stacked
    <3> QED BY <3>1, <1>6 DEF Counting
  <2> QED BY <2>1, <1>1, <1>2, <1>5, Countings
<1>16. Freed(b_count', work')
  BY <1>6, <1>9, <1>13 DEF Freed
<1>17. Unfilled(work', pressing', i_zone', words')
  <2>1. 0 = IF d.bh = 0 THEN i_zone[d.file][d.path[1]] ELSE words[d.bh][d.path[1]]
    BY <1>1, <1>2, <1>6, MapsFits DEF Cell
  <2> QED BY <2>1, <1>1, <1>9, <1>13 DEF Unfilled
<1>18. \E L \in [Zones -> Labels] : Marked(i_zone', words', zmap', content', work', L)
  <2>1. PICK L \in [Zones -> Labels] : Marked(i_zone, words, zmap, content, work, L)
    BY DEF BlocksInv
  <2>2. Typed(i_zone, words, zmap, L)
    BY <1>3 DEF Typed, BlockTypes
  <2>3. Label(d.file, d.block, Passed(d) + 1) \in Labels
    BY <1>5, <1>8, MapsFits
  <2> DEFINE P == [L EXCEPT ![d.zone] = Label(d.file, d.block, Passed(d) + 1)]
  <2>4. P \in [Zones -> Labels] /\ Marked(i_zone, words, zmap \cup {d.zone}, content, [work EXCEPT ![t] = d], P)
    BY <2>1, <2>2, <2>3, <1>1, <1>2, <1>3, <1>4, <1>5, <1>6, MarksNew
  <2> HIDE DEF P
  <2> QED BY <2>4, <1>1, <1>6
<1> QED BY <1>10, <1>11, <1>12, <1>14, <1>15, <1>16, <1>17, <1>18 DEF BlocksInv

LEMMA EnterKeeps ==
  ASSUME BlocksInv, NEW t \in Workers, Enter_new(t), ~(pressing.pressed /\ pressing.shared)
  PROVE  BlocksInv'
<1> DEFINE c == work[t]
           z == c.zone
           p == c.path[1]
           d == [c EXCEPT !.at = "leave"]
<1>1. /\ turn \in {NoWorker, t} /\ c.at = "new" /\ Entered(c, z)
      /\ content' = [content EXCEPT ![z] = <<>>]
      /\ work' = [work EXCEPT ![t] = d] /\ turn' \in OnlyPressed(t)
      /\ UNCHANGED <<zmap, b_count, pressing>>
  BY DEF Enter_new, Has_turn, Turn, None_written
<1>2. /\ work \in [Workers -> Tasks_] /\ c \in Tasks_ /\ Maps(c)
      /\ b_count \in [Zones -> Int] /\ CountsIn(b_count, work)
      /\ content \in [Zones -> {<<>>} \cup (Owners \X Blocks_)]
  BY <1>1, AtPlace
<1>3. BlockTypes /\ zmap \subseteq Zones /\ \A u \in Workers : Fits(work[u])
  BY DEF BlocksInv, BlockTypes
<1>4. c.op = "write" /\ z \in Zones /\ z # 0 /\ c.file \in Owners /\ c.bh \in Zones \cup {0} /\ (c.bh = 0 <=> Passed(c) = 0)
  BY <1>1, <1>2, ZonesNotZero DEF Maps, Tasks_
<1>5. p = Head(c.path) /\ IF c.bh = 0 THEN p \in ZoneSlots ELSE p \in Words
  BY <1>2, <1>4, MapsFits
<1>6. d \in Tasks_
  BY <1>2 DEF Tasks_
<1>7. /\ d.at = "leave" /\ d.zone = z /\ d.op = c.op /\ d.file = c.file /\ d.block = c.block
      /\ d.path = c.path /\ d.bh = c.bh /\ d.stack = c.stack
  BY <1>2 DEF Tasks_
<1>8. d = [c EXCEPT !.at = "leave"]
  OBVIOUS
<1> HIDE DEF d
<1>9. Passed(d) = Passed(c)
  BY <1>7 DEF Passed
<1>10. Maps(d)
  BY <1>1, <1>2, <1>7, <1>9 DEF Maps
<1>11. \A u \in Workers : work'[u] = IF u = t THEN d ELSE work[u]
  BY <1>1, <1>2
<1>12. EntersCell(c, i_zone, words, i_zone', words')
  BY <1>1, <1>5 DEF Entered, EntersCell
<1>13. BlockTypes'
  <2>1. i_zone \in [Owners -> [ZoneSlots -> Zones \cup {0}]] /\ words \in [Zones -> [Words -> Zones \cup {0}]]
    BY <1>3 DEF BlockTypes
  <2>2. ClearBlock \in [Words -> Zones \cup {0}]
    BY DEF ClearBlock
  <2>3. i_zone' \in [Owners -> [ZoneSlots -> Zones \cup {0}]] /\ words' \in [Zones -> [Words -> Zones \cup {0}]]
    <3>1. CASE c.bh = 0
      <4>1. i_zone' = [i_zone EXCEPT ![c.file][p] = z] /\ words' = [words EXCEPT ![z] = ClearBlock]
        BY <3>1, <1>12 DEF EntersCell
      <4> HIDE DEF z, p, c
      <4> QED BY <4>1, <2>1, <2>2, <1>4
    <3>2. CASE c.bh # 0
      <4>1. i_zone' = i_zone /\ words' = [words EXCEPT ![z] = ClearBlock, ![c.bh][p] = z] /\ c.bh \in Zones
        BY <3>2, <1>4, <1>12 DEF EntersCell
      <4> DEFINE V == [words EXCEPT ![z] = ClearBlock]
      <4>2. V \in [Zones -> [Words -> Zones \cup {0}]] /\ words' = [V EXCEPT ![c.bh][p] = z]
        BY <4>1, <2>1, <2>2, <1>4
      <4>3. i_zone' = i_zone /\ c.bh \in Zones /\ z \in Zones
        BY <4>1, <1>4
      <4> DEFINE y == c.bh
      <4>4. words' = [V EXCEPT ![y][p] = z] /\ y \in Zones
        BY <4>2, <4>3
      <4> HIDE DEF z, p, c, V, y
      <4>5. [V EXCEPT ![y][p] = z] \in [Zones -> [Words -> Zones \cup {0}]]
        BY <4>2, <4>3, <4>4
      <4> QED BY <4>3, <4>4, <4>5, <2>1
    <3> QED BY <3>1, <3>2
  <2>4. content' \in [Zones -> {<<>>} \cup (Owners \X Blocks_)]
    BY <1>1, <1>2, <1>4
  <2>5. work' \in [Workers -> Tasks_] /\ turn' \in Workers \cup {NoWorker}
    BY <1>1, <1>2, <1>3, <1>6 DEF OnlyPressed
  <2> QED BY <2>3, <2>4, <2>5, <1>1, <1>3 DEF BlockTypes
<1>14. \A u \in Workers : Fits(work'[u])
  BY <1>3, <1>10, <1>11 DEF Fits
<1>15. Apart_(work', pressing')
  <2>1. KeepsApart(t, d)
    BY <1>7 DEF KeepsApart
  <2> QED BY <2>1, <1>1, <1>2, ApartKept DEF BlocksInv
<1>16. \A u \in Workers \ {t} : /\ work[u].at \notin {"hash", "gone"}
                                /\ ~pressing.pressed => work[u].at \notin {"new", "leave", "get", "indirect"}
  BY <1>1, OthersStand DEF BlocksInv
<1>17. InTurn(work', turn', pressing')
  BY <1>1, <1>7, <1>11, <1>16 DEF InTurn, OnlyPressed
<1>18. CountsIn(b_count', work')
  <2>1. Counting(d) = Counting(c)
    <3>1. c.at \notin {"copy", "free"} /\ d.at \notin {"copy", "free"} /\ Stacked(d) = Stacked(c)
      BY <1>1, <1>7 DEF Stacked
    <3> QED BY <3>1, <1>7 DEF Counting
  <2> QED BY <2>1, <1>1, <1>2, <1>6, Countings
<1>19. Freed(b_count', work') /\ Unfilled(work', pressing', i_zone', words')
  BY <1>1, <1>7, <1>11, <1>16 DEF Freed, Unfilled
<1>20. NotCutThere(t, work, i_zone, words)
  <2>1. CASE pressing.pressed
    <3>1. ~pressing.shared
      BY <2>1
    <3>2. \A u, v \in Workers : u # v /\ work[u].op = "truncate" /\ work[v].op # "none" => work[u].file # work[v].file
      BY <3>1 DEF BlocksInv, Apart_
    <3> QED BY <3>2, <1>4 DEF NotCutThere
  <2>2. CASE ~pressing.pressed
    BY <2>2, <1>1 DEF BlocksInv, Unfilled, NotCutThere
  <2> QED BY <2>1, <2>2
<1>21. \E L \in [Zones -> Labels] : Marked(i_zone', words', zmap', content', work', L)
  <2>1. PICK L \in [Zones -> Labels] : Marked(i_zone, words, zmap, content, work, L)
    BY DEF BlocksInv
  <2>2. Typed(i_zone, words, zmap, L)
    BY <1>3 DEF Typed, BlockTypes
  <2>3. Marked(i_zone', words', zmap, [content EXCEPT ![z] = <<>>], [work EXCEPT ![t] = d], L)
    BY <2>1, <2>2, <1>1, <1>2, <1>3, <1>8, <1>12, <1>20, MarksEnter
  <2> QED BY <2>3, <1>1
<1> QED BY <1>13, <1>14, <1>15, <1>17, <1>18, <1>19, <1>21 DEF BlocksInv

-----------------------------------------------------------------------------
(* Truncation.  Moving on, or noting that a block was busy, changes        *)
(* nothing of what a call has in hand.                                     *)
MayAdvance(c) == IF c.stack = <<>> THEN c.slot <= Double ELSE c.stack[1].word < PER
Same(e, c) ==
  /\ e \in Tasks_ /\ e.op = c.op /\ e.at = c.at /\ e.file = c.file /\ e.bh = c.bh /\ e.zone = c.zone
  /\ Len(e.stack) = Len(c.stack)
  /\ \A i \in 1..Len(c.stack) : e.stack[i].zone = c.stack[i].zone
  /\ \A i \in 2..Len(c.stack) : e.stack[i].word = c.stack[i].word
  /\ c.stack # <<>> => e.slot = c.slot

LEMMA AdvancedIs ==
  ASSUME NEW c \in Tasks_, MayAdvance(c) PROVE Same(Advanced(c), c)
<1> DEFINE e == Advanced(c)
<1>1. c.stack \in Seq(Frames) /\ c.slot \in 0..(DIRECT + 2) /\ DIRECT \in Nat /\ PER \in Nat
  BY FileBlocksAssumption DEF Tasks_
<1>2. CASE c.stack = <<>>
  <2>1. e = [c EXCEPT !.slot = @ + 1]
    BY <1>2 DEF Advanced
  <2>2. c.slot + 1 \in 0..(DIRECT + 2)
    BY <1>1, <1>2 DEF MayAdvance, Double
  <2>3. /\ e \in Tasks_ /\ e.op = c.op /\ e.at = c.at /\ e.file = c.file /\ e.bh = c.bh /\ e.zone = c.zone
        /\ e.stack = c.stack
    BY <2>1, <2>2 DEF Tasks_
  <2> QED BY <2>3, <1>2 DEF Same
<1>3. CASE c.stack # <<>>
  <2> DEFINE n == Len(c.stack)
             b == [c.stack[1] EXCEPT !.word = @ + 1]
             s == [c.stack EXCEPT ![1] = b]
  <2>1. e = [c EXCEPT !.stack[1].word = @ + 1]
    BY <1>3 DEF Advanced
  <2>2. 1 \in 1..n /\ c.stack[1] \in Frames /\ c.stack[1].word < PER
    BY <1>1, <1>3 DEF MayAdvance
  <2>3. b \in Frames /\ b.zone = c.stack[1].zone
    <3> DEFINE h == c.stack[1]
               w == h.word
    <3>1. h \in Frames /\ w \in 0..PER /\ w < PER
      BY <2>2 DEF Frames
    <3>2. w + 1 \in 0..PER
      <4> HIDE DEF w
      <4> QED BY <3>1, <1>1
    <3>3. b = [h EXCEPT !.word = w + 1]
      OBVIOUS
    <3> DEFINE k == w + 1
    <3> HIDE DEF h, b, k
    <3>4. k \in 0..PER /\ b = [h EXCEPT !.word = k]
      BY <3>2, <3>3 DEF k
    <3>5. b \in Frames /\ b.zone = h.zone
      BY <3>1, <3>4 DEF Frames
    <3> QED BY <3>5 DEF h
  <2>4. e = [c EXCEPT !.stack = s]
    BY <2>1
  <2> HIDE DEF b
  <2>5. /\ s \in Seq(Frames) /\ Len(s) = n /\ s[1] = b
        /\ \A i \in 2..n : s[i] = c.stack[i]
    BY <2>2, <2>3, <1>1
  <2> HIDE DEF s
  <2>6. /\ e \in Tasks_ /\ e.op = c.op /\ e.at = c.at /\ e.file = c.file /\ e.bh = c.bh /\ e.zone = c.zone
        /\ e.stack = s /\ e.slot = c.slot
    BY <2>4, <2>5 DEF Tasks_
  <2>7. \A i \in 1..n : s[i].zone = c.stack[i].zone
    <3>1. \A i \in 1..n : i = 1 \/ i \in 2..n
      <4>1. n \in Nat
        BY <1>1
      <4> HIDE DEF n
      <4> QED BY <4>1
    <3> QED BY <3>1, <2>3, <2>5
  <2> QED BY <2>5, <2>6, <2>7 DEF Same
<1> QED BY <1>2, <1>3

LEMMA NotFreedIs ==
  ASSUME NEW c \in Tasks_ PROVE Same(NotFreed(c), c) /\ (MayAdvance(c) => MayAdvance(NotFreed(c)))
<1> DEFINE e == NotFreed(c)
<1>1. c.stack \in Seq(Frames)
  BY DEF Tasks_
<1>2. CASE c.stack = <<>>
  <2>1. e = [c EXCEPT !.busy = TRUE]
    BY <1>2 DEF NotFreed
  <2>2. /\ e \in Tasks_ /\ e.op = c.op /\ e.at = c.at /\ e.file = c.file /\ e.bh = c.bh /\ e.zone = c.zone
        /\ e.stack = c.stack /\ e.slot = c.slot
    BY <2>1 DEF Tasks_
  <2> HIDE DEF e
  <2> QED BY <2>2, <1>2 DEF Same, MayAdvance, e
<1>3. CASE c.stack # <<>>
  <2> DEFINE n == Len(c.stack)
             b == [c.stack[1] EXCEPT !.busy = TRUE]
             s == [c.stack EXCEPT ![1] = b]
  <2>1. e = [c EXCEPT !.stack[1].busy = TRUE]
    BY <1>3 DEF NotFreed
  <2>2. 1 \in 1..n /\ c.stack[1] \in Frames
    BY <1>1, <1>3
  <2>3. b \in Frames /\ b.zone = c.stack[1].zone /\ b.word = c.stack[1].word
    BY <2>2 DEF Frames
  <2>4. e = [c EXCEPT !.stack = s]
    BY <2>1
  <2> HIDE DEF b
  <2>5. /\ s \in Seq(Frames) /\ Len(s) = n /\ s[1] = b /\ s # <<>>
        /\ \A i \in 2..n : s[i] = c.stack[i]
    BY <2>2, <2>3, <1>1
  <2> HIDE DEF s
  <2>6. /\ e \in Tasks_ /\ e.op = c.op /\ e.at = c.at /\ e.file = c.file /\ e.bh = c.bh /\ e.zone = c.zone
        /\ e.stack = s /\ e.slot = c.slot
    BY <2>4, <2>5 DEF Tasks_
  <2>7. \A i \in 1..n : s[i].zone = c.stack[i].zone
    <3>1. \A i \in 1..n : i = 1 \/ i \in 2..n
      <4>1. n \in Nat
        BY <1>1
      <4> HIDE DEF n
      <4> QED BY <4>1
    <3> QED BY <3>1, <2>3, <2>5
  <2>8. Same(e, c)
    BY <2>5, <2>6, <2>7 DEF Same
  <2>9. MayAdvance(c) => MayAdvance(e)
    BY <2>3, <2>5, <2>6, <1>3 DEF MayAdvance
  <2> QED BY <2>8, <2>9
<1> QED BY <1>2, <1>3

LEMMA SameSame ==
  ASSUME NEW e, NEW c, NEW b, c \in Tasks_, b \in Tasks_, Same(e, c), Same(c, b)
  PROVE  Same(e, b)
<1>1. c.stack = <<>> <=> Len(c.stack) = 0
  BY DEF Tasks_
<1>2. b.stack = <<>> <=> Len(b.stack) = 0
  BY DEF Tasks_
<1> QED BY <1>1, <1>2 DEF Same

(* So it keeps what a truncation is and has in hand.                       *)
LEMMA SameCuts ==
  ASSUME NEW c \in Tasks_, Cuts(c), c.at = "cells", NEW e, Same(e, c)
  PROVE  /\ Cuts(e) /\ Counting(e) = Counting(c)
         /\ \A I, W : InPlace(c, I, W) => InPlace(e, I, W)
<1>1. e \in Tasks_ /\ Len(e.stack) = Len(c.stack) /\ e.op = c.op /\ e.file = c.file /\ e.at = "cells" /\ e.bh = c.bh
      /\ e.zone = c.zone
  BY DEF Same
<1>2. Len(c.stack) \in 0..2 /\ (c.stack = <<>> <=> Len(c.stack) = 0)
  BY CutsFits
<1>3. (e.stack = <<>> <=> Len(e.stack) = 0)
  BY <1>1 DEF Tasks_
<1>4. Cuts(e)
  <2>1. Len(e.stack) <= Levels(e)
    <3>1. CASE c.stack = <<>>
      <4>1. Len(e.stack) = 0 /\ Levels(e) \in 0..2
        BY <3>1, <1>1, <1>2 DEF Levels
      <4> QED BY <4>1
    <3>2. CASE c.stack # <<>>
      BY <3>2, <1>1 DEF Cuts, Levels, Same
    <3> QED BY <3>1, <3>2
  <2>2. Len(e.stack) = 2 => e.stack[2].word < PER
    BY <1>1 DEF Cuts, Same
  <2> QED BY <2>1, <2>2, <1>1 DEF Cuts
<1>5. Stacked(e) = Stacked(c)
  BY <1>1 DEF Stacked, Same
<1>6. Counting(e) = Counting(c)
  BY <1>1, <1>5 DEF Counting
<1>7. ASSUME NEW I, NEW W, InPlace(c, I, W) PROVE InPlace(e, I, W)
  <2> DEFINE n == Len(c.stack)
  <2>1. e.stack # <<>> => e.stack[Len(e.stack)].zone = I[e.file][e.slot]
    <3>1. SUFFICES ASSUME e.stack # <<>> PROVE e.stack[n].zone = I[c.file][e.slot]
      BY <1>1
    <3>2. n \in 1..n /\ c.stack # <<>>
      BY <3>1, <1>1, <1>2, <1>3
    <3>3. e.stack[n].zone = c.stack[n].zone /\ e.slot = c.slot
      BY <3>2 DEF Same
    <3>4. c.stack[n].zone = I[c.file][c.slot]
      BY <3>2, <1>7 DEF InPlace, Cuts
    <3> QED BY <3>3, <3>4
  <2>2. Len(e.stack) = 2 => e.stack[1].zone = W[e.stack[2].zone][e.stack[2].word]
    <3>1. SUFFICES ASSUME n = 2 PROVE e.stack[1].zone = W[e.stack[2].zone][e.stack[2].word]
      BY <1>1
    <3>2. e.stack[1].zone = c.stack[1].zone /\ e.stack[2].zone = c.stack[2].zone /\ e.stack[2].word = c.stack[2].word
      BY <3>1 DEF Same
    <3>3. c.stack[1].zone = W[c.stack[2].zone][c.stack[2].word]
      BY <3>1, <1>7 DEF InPlace, Cuts
    <3> QED BY <3>2, <3>3
  <2> QED BY <2>1, <2>2, <1>1 DEF InPlace
<1> QED BY <1>4, <1>6, <1>7

(* What a truncation finds in a cell.                                      *)
LEMMA CutCell ==
  ASSUME BlockTypes, NEW c \in Tasks_, Cuts(c), ~AtEnd(c)
  PROVE  /\ CellOf(c) \in Zones \cup {0} /\ MayAdvance(c)
         /\ CellOf(c) = IF c.stack = <<>> THEN i_zone[c.file][c.slot]
                        ELSE words[c.stack[1].zone][c.stack[1].word]
<1>1. c.stack \in Seq(Frames) /\ c.slot \in 0..(DIRECT + 2) /\ DIRECT \in Nat /\ PER \in Nat /\ c.file \in Owners
  BY FileBlocksAssumption DEF Tasks_, Cuts
<1>2. i_zone \in [Owners -> [ZoneSlots -> Zones \cup {0}]] /\ words \in [Zones -> [Words -> Zones \cup {0}]]
  BY DEF BlockTypes
<1>3. CASE c.stack = <<>>
  <2>1. c.slot \in ZoneSlots /\ c.slot <= Double /\ CellOf(c) = i_zone[c.file][c.slot]
    BY <1>1, <1>3 DEF AtEnd, ZoneSlots, Double, CellOf
  <2> QED BY <2>1, <1>1, <1>2, <1>3 DEF MayAdvance
<1>4. CASE c.stack # <<>>
  <2> DEFINE y == c.stack[1].zone
             w == c.stack[1].word
  <2>1. c.stack[1] \in Frames /\ Head(c.stack) = c.stack[1]
    BY <1>1, <1>4
  <2>2. y \in Zones /\ w \in 0..PER /\ w # PER /\ CellOf(c) = words[y][w]
    BY <2>1, <1>4 DEF Frames, AtEnd, CellOf, Top_
  <2>3. w \in Words /\ w < PER
    <3> HIDE DEF w
    <3> QED BY <2>2, <1>1 DEF Words
  <2>4. MayAdvance(c)
    BY <2>3, <1>4 DEF MayAdvance
  <2>5. words[y][w] \in Zones \cup {0}
    <3> HIDE DEF y, w
    <3> QED BY <2>2, <2>3, <1>2
  <2> QED BY <2>2, <2>4, <2>5, <1>4
<1> QED BY <1>3, <1>4

(* A step that changes only what a truncation does and counts.             *)
LEMMA CutStep ==
  ASSUME BlocksInv, NEW t \in Workers, NEW d \in Tasks_, turn \in {NoWorker, t}, work[t].op = "truncate",
         UNCHANGED <<i_zone, words, content, zmap, pressing>>,
         work' = [work EXCEPT ![t] = d], turn' \in {NoWorker, t}, Cuts(d), d.file = work[t].file,
         \A L \in [Zones -> Labels] : Marked(i_zone, words, zmap, content, work, L) => InPlace(d, i_zone, words),
         d.at \in {"hash", "gone"} => turn' = t,
         ~pressing.pressed /\ d.at = "indirect" => turn' = t,
         b_count' \in [Zones -> Int], CountsIn(b_count', work'),
         d.at = "gone" => b_count'[d.zone] = 0
  PROVE  BlocksInv'
<1>1. d.op = "truncate" /\ d.at \in {"cells", "indirect", "hash", "free", "gone"}
  BY DEF Cuts
<1>2. Fits(work[t]) /\ content \in [Zones -> {<<>>} \cup (Owners \X Blocks_)]
  BY AtPlace
<1>3. work[t].at # "new"
  BY <1>2 DEF Fits, Maps, Cuts, Rest
<1>4. KeepsApart(t, d) /\ Fits(d)
  BY <1>1 DEF KeepsApart, Fits
<1>5. \A L \in [Zones -> Labels] : Marked(i_zone, words, zmap, content, work, L) =>
        /\ Finds(d, Settled(zmap, work), L) /\ InPlace(d, i_zone, words)
        /\ Contents(content', Settled(zmap, work), L)
  BY <1>1 DEF Finds, Marked
<1>6. content' \in [Zones -> {<<>>} \cup (Owners \X Blocks_)]
  BY <1>2
<1> QED BY <1>1, <1>3, <1>4, <1>5, <1>6, QuietStep

(* What is known of a truncation, and of what it has in hand.              *)
LEMMA CutIs ==
  ASSUME BlocksInv, NEW t \in Workers, work[t].at \in {"cells", "indirect", "hash", "free", "gone"}
  PROVE  LET c == work[t] IN
         /\ work \in [Workers -> Tasks_] /\ c \in Tasks_ /\ Cuts(c) /\ c.op = "truncate" /\ BlockTypes
         /\ b_count \in [Zones -> Int] /\ CountsIn(b_count, work)
         /\ InPlace(c, i_zone, words)
         /\ c.at # "cells" => c.zone \in Zones /\ c.zone \notin Stacked(c)
         /\ Len(c.stack) = 2 => c.stack[1].zone # c.stack[2].zone
<1> DEFINE c == work[t]
<1>1. /\ work \in [Workers -> Tasks_] /\ c \in Tasks_ /\ Cuts(c)
      /\ b_count \in [Zones -> Int] /\ CountsIn(b_count, work)
  BY AtPlace
<1>2. BlockTypes /\ c.op = "truncate"
  BY <1>1 DEF BlocksInv, Cuts
<1>3. PICK L \in [Zones -> Labels] : Marked(i_zone, words, zmap, content, work, L)
  BY DEF BlocksInv
<1>4. Tree(i_zone, words, Settled(zmap, work), L) /\ InPlace(c, i_zone, words)
  BY <1>3 DEF Marked
<1>5. Typed(i_zone, words, Settled(zmap, work), L)
  BY <1>2, <1>3 DEF Typed, BlockTypes, Settled
<1>6. /\ c.at # "cells" => c.zone \notin Stacked(c)
      /\ Len(c.stack) = 2 => c.stack[1].zone # c.stack[2].zone
  BY <1>1, <1>4, <1>5, CutHas
<1>7. c.at # "cells" => c.zone \in Zones
  BY <1>1, CutsFits
<1> QED BY <1>1, <1>2, <1>4, <1>6, <1>7

(* A step of a truncation counts, releases or leaves its buffers.          *)
LEMMA CutCounts ==
  ASSUME BlocksInv, NEW t \in Workers, NEW d \in Tasks_, work' = [work EXCEPT ![t] = d]
  PROVE  /\ b_count' = b_count /\ Counting(d) = Counting(work[t])
              => b_count' \in [Zones -> Int] /\ CountsIn(b_count', work')
         /\ \A z \in Zones : /\ z \notin Counting(work[t]) /\ Counting(d) = Counting(work[t]) \cup {z}
                             /\ Counted(z)
              => b_count' \in [Zones -> Int] /\ CountsIn(b_count', work')
         /\ \A z \in Zones : /\ z \in Counting(work[t]) /\ Counting(d) = Counting(work[t]) \ {z}
                             /\ brelse_(z)
              => b_count' \in [Zones -> Int] /\ CountsIn(b_count', work')
<1>1. work \in [Workers -> Tasks_] /\ b_count \in [Zones -> Int] /\ CountsIn(b_count, work)
  BY AtPlace
<1>2. ASSUME b_count' = b_count, Counting(d) = Counting(work[t])
      PROVE  b_count' \in [Zones -> Int] /\ CountsIn(b_count', work')
  BY <1>1, <1>2, Countings
<1>3. ASSUME NEW z \in Zones, z \notin Counting(work[t]), Counting(d) = Counting(work[t]) \cup {z}, Counted(z)
      PROVE  b_count' \in [Zones -> Int] /\ CountsIn(b_count', work')
  <2>1. b_count' = [b_count EXCEPT ![z] = @ + 1]
    BY <1>3 DEF Counted
  <2>2. CountsIn([b_count EXCEPT ![z] = @ + 1], [work EXCEPT ![t] = d])
    BY <1>1, <1>3, Countings
  <2>3. b_count' \in [Zones -> Int]
    BY <2>1, <1>1
  <2> QED BY <2>1, <2>2, <2>3
<1>4. ASSUME NEW z \in Zones, z \in Counting(work[t]), Counting(d) = Counting(work[t]) \ {z}, brelse_(z)
      PROVE  b_count' \in [Zones -> Int] /\ CountsIn(b_count', work')
  <2>1. b_count' = [b_count EXCEPT ![z] = @ - 1]
    BY <1>4, ZonesNotZero DEF brelse_
  <2>2. CountsIn([b_count EXCEPT ![z] = @ - 1], [work EXCEPT ![t] = d])
    BY <1>1, <1>4, Countings
  <2>3. b_count' \in [Zones -> Int]
    BY <2>1, <1>1
  <2> QED BY <2>1, <2>2, <2>3
<1> QED BY <1>2, <1>3, <1>4

FoundAt(c, I, W) == IF c.stack = <<>> THEN I[c.file][c.slot] ELSE W[c.stack[1].zone][c.stack[1].word]

(* The truncation c goes to the place a with the zone z.                   *)
GoesTo(c, a, z, d) ==
  /\ c \in Tasks_ /\ Cuts(c) /\ a \in {"cells", "indirect", "hash", "free", "gone"} /\ z \in Zones \cup {0}
  /\ z = 0 <=> a = "cells"
  /\ a # "cells" => ~AtEnd(c)
  /\ a = "indirect" => Len(c.stack) < Levels(c)
  /\ d = [c EXCEPT !.at = a, !.zone = z]

(* A truncation whose place in the stack stays, and what it then counts.   *)
LEMMA CutAt ==
  ASSUME NEW c, NEW a, NEW z, NEW d, GoesTo(c, a, z, d)
  PROVE  /\ d \in Tasks_ /\ Cuts(d) /\ d.at = a /\ d.zone = z /\ d.file = c.file /\ d.op = c.op
         /\ d.stack = c.stack /\ d.slot = c.slot /\ d.bh = c.bh
         /\ Counting(c) = Stacked(c) \cup (IF c.at = "free" THEN {c.zone} ELSE {})
         /\ Counting(d) = Stacked(c) \cup (IF a = "free" THEN {z} ELSE {})
         /\ MayAdvance(d) <=> MayAdvance(c)
         /\ \A I, W : /\ InPlace(c, I, W)
                      /\ a # "cells" => z = FoundAt(c, I, W)
              => InPlace(d, I, W)
<1>1. /\ d \in Tasks_ /\ d.at = a /\ d.zone = z /\ d.file = c.file /\ d.op = c.op
      /\ d.stack = c.stack /\ d.slot = c.slot /\ d.bh = c.bh
  BY DEF Tasks_, GoesTo
<1>2. Cuts(d)
  <2>1. Levels(d) = Levels(c) /\ (AtEnd(d) <=> AtEnd(c))
    BY <1>1 DEF Levels, AtEnd, Top_
  <2> QED BY <2>1, <1>1 DEF Cuts, GoesTo
<1>3. Stacked(d) = Stacked(c) /\ Stacked(c) \subseteq Zones
  <2>1. \A i \in 1..Len(c.stack) : c.stack[i].zone \in Zones
    BY CutsFits DEF GoesTo
  <2> QED BY <2>1, <1>1 DEF Stacked
<1>4. c.bh = 0 /\ c.at # "copy" /\ (c.at = "free" => c.zone # 0) /\ (a = "free" => z # 0)
  BY DEF Cuts, GoesTo
<1>5. Counting(c) = Stacked(c) \cup (IF c.at = "free" THEN {c.zone} ELSE {})
  <2>1. c.bh = 0 /\ 0 \notin Stacked(c) /\ c.at # "copy" /\ (c.at = "free" => c.zone # 0)
    BY <1>3, <1>4, ZonesNotZero
  <2> QED BY <2>1 DEF Counting
<1>6. Counting(d) = Stacked(c) \cup (IF a = "free" THEN {z} ELSE {})
  <2>1. /\ d.bh = 0 /\ 0 \notin Stacked(c) /\ a # "copy" /\ (a = "free" => z # 0)
        /\ d.at = a /\ d.zone = z /\ Stacked(d) = Stacked(c)
    BY <1>1, <1>3, <1>4, ZonesNotZero DEF GoesTo
  <2> QED BY <2>1 DEF Counting
<1>7. MayAdvance(d) <=> MayAdvance(c)
  BY <1>1 DEF MayAdvance
<1>8. ASSUME NEW I, NEW W, InPlace(c, I, W),
             a # "cells" => z = FoundAt(c, I, W)
      PROVE  InPlace(d, I, W)
  BY <1>1, <1>8 DEF InPlace, FoundAt
<1> QED BY <1>1, <1>2, <1>5, <1>6, <1>7, <1>8

LEMMA NextCellKeeps ==
  ASSUME BlocksInv, NEW t \in Workers, NextCell(t) PROVE BlocksInv'
<1> DEFINE c == work[t]
           z == CellOf(c)
<1>1. turn \in {NoWorker, t} /\ c.at = "cells" /\ ~AtEnd(c) /\ b_count' = b_count
  BY DEF NextCell, Has_turn
<1>2. /\ work \in [Workers -> Tasks_] /\ c \in Tasks_ /\ Cuts(c) /\ c.op = "truncate" /\ BlockTypes
      /\ InPlace(c, i_zone, words)
  BY <1>1, CutIs
<1>3. /\ z \in Zones \cup {0} /\ MayAdvance(c)
      /\ z = FoundAt(c, i_zone, words)
  BY <1>1, <1>2, CutCell DEF FoundAt
<1>4. CASE z = 0 /\ Goes_through(t, Advanced(c), {t})
  <2> DEFINE d == Advanced(c)
  <2>1. Same(d, c)
    BY <1>2, <1>3, AdvancedIs
  <2>2. d \in Tasks_ /\ d.file = c.file /\ d.at = "cells"
    BY <2>1, <1>1 DEF Same
  <2>3. Cuts(d) /\ Counting(d) = Counting(c) /\ InPlace(d, i_zone, words)
    BY <2>1, <1>1, <1>2, SameCuts
  <2>4. work' = [work EXCEPT ![t] = d] /\ turn' = t /\ UNCHANGED <<i_zone, words, content, zmap, pressing>>
    BY <1>4 DEF Goes_through, Turn
  <2> HIDE DEF d
  <2>5. b_count' \in [Zones -> Int] /\ CountsIn(b_count', work')
    BY <2>2, <2>3, <2>4, <1>1, CutCounts
  <2> QED BY <2>2, <2>3, <2>4, <2>5, <1>1, <1>2, CutStep
<1>5. ASSUME NEW a \in {"hash", "indirect"}, z # 0, a = "indirect" => Len(c.stack) < Levels(c),
             NEW whose, Goes_through(t, [c EXCEPT !.at = a, !.zone = z], whose),
             whose \subseteq {NoWorker, t}, a = "hash" => whose = {t},
             ~pressing.pressed => whose = {t}
      PROVE  BlocksInv'
  <2> DEFINE d == [c EXCEPT !.at = a, !.zone = z]
  <2>1. /\ d \in Tasks_ /\ Cuts(d) /\ d.at = a /\ d.file = c.file
        /\ Counting(c) = Stacked(c) \cup (IF c.at = "free" THEN {c.zone} ELSE {})
        /\ Counting(d) = Stacked(c) \cup (IF a = "free" THEN {z} ELSE {})
        /\ InPlace(d, i_zone, words)
    <3>1. GoesTo(c, a, z, d)
      BY <1>1, <1>2, <1>3, <1>5 DEF GoesTo
    <3> HIDE DEF z, c, d
    <3> QED BY <3>1, <1>2, <1>3, CutAt
  <2>2. work' = [work EXCEPT ![t] = d] /\ turn' \in whose /\ UNCHANGED <<i_zone, words, content, zmap, pressing>>
    BY <1>5 DEF Goes_through, Turn
  <2> HIDE DEF d
  <2>3. b_count' \in [Zones -> Int] /\ CountsIn(b_count', work')
    BY <2>1, <2>2, <1>1, <1>5, CutCounts
  <2>4. turn' \in {NoWorker, t} /\ (a = "hash" => turn' = t) /\ (~pressing.pressed => turn' = t)
    BY <2>2, <1>5
  <2> QED BY <2>1, <2>2, <2>3, <2>4, <1>1, <1>2, <1>5, CutStep
<1>6. \/ z = 0 /\ Goes_through(t, Advanced(c), {t})
      \/ /\ z # 0 /\ Depth(c) = 0
         /\ Goes_through(t, [c EXCEPT !.at = "hash", !.zone = z], {t})
      \/ /\ z # 0 /\ Depth(c) > 0
         /\ Goes_through(t, [c EXCEPT !.at = "indirect", !.zone = z], OnlyPressed(t))
  BY DEF NextCell
<1> HIDE DEF z
<1>7. CASE z # 0 /\ Goes_through(t, [c EXCEPT !.at = "hash", !.zone = z], {t})
  BY <1>5, <1>7
<1>8. CASE z # 0 /\ Depth(c) > 0 /\ Goes_through(t, [c EXCEPT !.at = "indirect", !.zone = z], OnlyPressed(t))
  <2>1. Len(c.stack) < Levels(c)
    <3> DEFINE n == Len(c.stack)
               m == Levels(c)
    <3>1. n \in 0..2 /\ m \in Int /\ m - n > 0
      <4>1. n \in 0..2
        BY <1>2, CutsFits
      <4>2. m \in Int
        BY DEF Levels
      <4>3. m - n > 0
        BY <1>8 DEF Depth, Levels
      <4> QED BY <4>1, <4>2, <4>3
    <3> HIDE DEF n, m
    <3>2. n < m
      BY <3>1
    <3> QED BY <3>2 DEF n, m
  <2>2. OnlyPressed(t) \subseteq {NoWorker, t} /\ (~pressing.pressed => OnlyPressed(t) = {t})
    BY DEF OnlyPressed
  <2> QED BY <2>1, <2>2, <1>5, <1>8
<1> QED BY <1>4, <1>6, <1>7, <1>8 DEF z

(* To the next cell, whether the block was freed or not.                   *)
LEMMA MovesOn ==
  ASSUME NEW c \in Tasks_, Cuts(c), c.at = "cells", MayAdvance(c), NEW d \in {Advanced(c), Advanced(NotFreed(c))}
  PROVE  /\ d \in Tasks_ /\ Cuts(d) /\ d.at = "cells" /\ d.file = c.file /\ Counting(d) = Counting(c)
         /\ \A I, W : InPlace(c, I, W) => InPlace(d, I, W)
<1>1. Same(d, c)
  <2>1. CASE d = Advanced(c)
    BY <2>1, AdvancedIs
  <2>2. CASE d = Advanced(NotFreed(c))
    <3>1. Same(NotFreed(c), c) /\ MayAdvance(NotFreed(c)) /\ NotFreed(c) \in Tasks_
      BY NotFreedIs DEF Same
    <3>2. Same(Advanced(NotFreed(c)), NotFreed(c))
      BY <3>1, AdvancedIs
    <3> QED BY <2>2, <3>1, <3>2, SameSame
  <2> QED BY <2>1, <2>2
<1>2. d \in Tasks_ /\ d.at = "cells" /\ d.file = c.file
  BY <1>1 DEF Same
<1> QED BY <1>1, <1>2, SameCuts

(* An indirect block that is read comes on the stack.                      *)
Pushes(c, b, d) ==
  /\ c \in Tasks_ /\ Cuts(c) /\ c.at = "indirect" /\ c.zone \notin Stacked(c)
  /\ b = [zone |-> c.zone, word |-> 0, busy |-> FALSE]
  /\ d = [c EXCEPT !.at = "cells", !.zone = 0, !.stack = <<b>> \o @]

LEMMA Pushed ==
  ASSUME NEW c, NEW b, NEW d, Pushes(c, b, d)
  PROVE  /\ d \in Tasks_ /\ Cuts(d) /\ d.at = "cells" /\ d.file = c.file
         /\ c.zone \in Zones /\ c.zone \notin Counting(c) /\ Counting(d) = Counting(c) \cup {c.zone}
         /\ \A I, W : InPlace(c, I, W) => InPlace(d, I, W)
<1>0. /\ c \in Tasks_ /\ Cuts(c) /\ c.at = "indirect" /\ c.zone \notin Stacked(c)
      /\ b = [zone |-> c.zone, word |-> 0, busy |-> FALSE]
      /\ d = [c EXCEPT !.at = "cells", !.zone = 0, !.stack = <<b>> \o @]
  BY DEF Pushes
<1> DEFINE n == Len(c.stack)
           s == <<b>> \o c.stack
<1>1. /\ c.stack \in Seq(Frames) /\ PER \in Nat \ {0} /\ c.zone \in Zones /\ c.bh = 0
      /\ n < Levels(c) /\ Levels(c) \in 0..2 /\ n \in 0..2 /\ (c.stack = <<>> <=> n = 0)
      /\ (c.stack # <<>> => c.stack[1].word \in Words)
  <2>1. c.at # "cells"
    BY <1>0
  <2>2. c.zone \in Zones /\ n \in 0..2 /\ (c.stack = <<>> <=> n = 0) /\ (c.stack # <<>> => c.stack[1].word \in Words)
    BY <2>1, <1>0, CutsFits
  <2>3. n < Levels(c) /\ c.bh = 0
    BY <1>0 DEF Cuts
  <2>4. Levels(c) \in 0..2
    BY DEF Levels
  <2> QED BY <2>2, <2>3, <2>4, <1>0, FileBlocksAssumption DEF Tasks_
<1>2. n \in {0, 1} /\ n + 1 <= Levels(c)
  <2> DEFINE m == Levels(c)
  <2>1. n < m /\ m \in 0..2 /\ n \in 0..2
    BY <1>1
  <2> HIDE DEF n, m
  <2>2. n \in {0, 1} /\ n + 1 <= m
    BY <2>1
  <2> QED BY <2>2 DEF m
<1>3. b \in Frames /\ b.zone = c.zone
  BY <1>0, <1>1 DEF Frames
<1>4. s \in Seq(Frames) /\ Len(s) = n + 1 /\ s[1] = b /\ (n = 1 => s[2] = c.stack[1])
  <2>1. s \in Seq(Frames) /\ Len(s) = n + 1 /\ s[1] = b
    BY <1>1, <1>3
  <2>2. n = 1 => s[2] = c.stack[1]
    BY <1>1, <1>3
  <2> QED BY <2>1, <2>2
<1>5. d = [c EXCEPT !.at = "cells", !.zone = 0, !.stack = s]
  BY <1>0
<1> HIDE DEF s
<1>6. /\ d \in Tasks_ /\ d.at = "cells" /\ d.zone = 0 /\ d.op = c.op /\ d.file = c.file /\ d.bh = c.bh
      /\ d.slot = c.slot /\ d.stack = s
  BY <1>0, <1>4, <1>5 DEF Tasks_
<1>7. Cuts(d)
  <2>1. Levels(d) = Levels(c) /\ Len(d.stack) = n + 1
    BY <1>4, <1>6 DEF Levels
  <2>2. Len(d.stack) <= Levels(d)
    BY <2>1, <1>2
  <2>3. Len(d.stack) = 2 => d.stack[2].word < PER
    <3>1. SUFFICES ASSUME Len(d.stack) = 2 PROVE d.stack[2].word < PER
      OBVIOUS
    <3>2. n = 1
      <4> HIDE DEF n
      <4> QED BY <3>1, <2>1, <1>2
    <3>3. c.stack[1].word \in Words /\ d.stack[2] = c.stack[1]
      BY <3>2, <1>1, <1>4, <1>6
    <3> DEFINE w == c.stack[1].word
    <3>4. w < PER
      <4>1. w \in Words
        BY <3>3
      <4> HIDE DEF w
      <4> QED BY <4>1, <1>1 DEF Words
    <3>5. d.stack[2].word = w
      BY <3>3
    <3> QED BY <3>4, <3>5
  <2>4. c.op = "truncate" /\ c.file \in Owners /\ c.bh = 0
    BY <1>0 DEF Cuts
  <2> QED BY <2>2, <2>3, <2>4, <1>6 DEF Cuts
<1>8. Counting(c) = Stacked(c)
  <2>1. 0 \notin Stacked(c) /\ c.bh = 0
    <3>1. \A i \in 1..Len(c.stack) : c.stack[i].zone \in Zones
      BY <1>0, CutsFits
    <3> QED BY <3>1, <1>1, ZonesNotZero DEF Stacked
  <2> QED BY <2>1, <1>0 DEF Counting
<1>9. Stacked(d) = Stacked(c) \cup {c.zone}
  <2>1. CASE n = 0
    <3>1. Stacked(d) = {s[i].zone : i \in 1..1} /\ Stacked(c) = {}
      <4>1. Len(d.stack) = 1 /\ d.stack = s /\ c.stack = <<>>
        BY <2>1, <1>1, <1>4, <1>6
      <4> QED BY <4>1, CountingIs DEF Stacked
    <3>2. Stacked(d) = {c.zone}
      BY <3>1, <1>3, <1>4
    <3> QED BY <3>1, <3>2
  <2>2. CASE n = 1
    <3>1. Stacked(d) = {s[i].zone : i \in 1..2} /\ Stacked(c) = {c.stack[i].zone : i \in 1..1}
      <4>1. Len(d.stack) = 2 /\ d.stack = s /\ Len(c.stack) = 1
        BY <2>2, <1>4, <1>6
      <4> QED BY <4>1 DEF Stacked
    <3>2. Stacked(d) = {c.zone, c.stack[1].zone} /\ Stacked(c) = {c.stack[1].zone}
      BY <3>1, <2>2, <1>3, <1>4
    <3> QED BY <3>2
  <2> QED BY <2>1, <2>2, <1>2
<1>10. Counting(d) = Counting(c) \cup {c.zone}
  <2>1. 0 \notin Stacked(d) /\ d.bh = 0
    <3>1. 0 \notin Counting(c) /\ c.zone # 0
      BY <1>1, ZonesNotZero DEF Counting
    <3> QED BY <3>1, <1>1, <1>6, <1>8, <1>9
  <2>2. Counting(d) = Stacked(d)
    BY <2>1, <1>6 DEF Counting
  <2> QED BY <2>2, <1>8, <1>9
<1>11. ASSUME NEW I, NEW W, InPlace(c, I, W) PROVE InPlace(d, I, W)
  <2> DEFINE x == I[c.file][c.slot]
             v == W[c.stack[1].zone][c.stack[1].word]
             q == c.stack[1].zone
  <2>1. c.op = "truncate"
    BY <1>0 DEF Cuts
  <2>2. (n = 0 => c.zone = x) /\ (n = 1 => c.zone = v /\ q = x)
    <3>1. (n = 0 => c.zone = x) /\ (n = 1 => c.zone = v)
      <4>1. c.zone = IF c.stack = <<>> THEN x ELSE v
        BY <2>1, <1>0, <1>11 DEF InPlace
      <4>2. (c.stack = <<>> => c.zone = x) /\ (c.stack # <<>> => c.zone = v)
        BY <4>1
      <4> HIDE DEF x, v, n
      <4>3. (n = 0 => c.stack = <<>>) /\ (n = 1 => c.stack # <<>>)
        BY <1>1
      <4> QED BY <4>2, <4>3
    <3>2. n = 1 => q = x
      BY <2>1, <1>1, <1>11 DEF InPlace
    <3> QED BY <3>1, <3>2
  <2>3. s[n + 1].zone = x /\ (n = 1 => s[1].zone = v /\ s[2].zone = q /\ s[2].word = c.stack[1].word)
    <3>1. CASE n = 0
      <4>1. s[n + 1].zone = c.zone
        BY <3>1, <1>3, <1>4
      <4> HIDE DEF x, v
      <4> QED BY <4>1, <3>1, <2>2
    <3>2. CASE n = 1
      <4>1. s[n + 1].zone = q /\ s[1].zone = c.zone /\ s[2].zone = q /\ s[2].word = c.stack[1].word
        BY <3>2, <1>3, <1>4
      <4> HIDE DEF x, v, q
      <4> QED BY <4>1, <3>2, <2>2
    <3> QED BY <3>1, <3>2, <1>2
  <2>4. d.stack[Len(d.stack)].zone = x /\ x = I[d.file][d.slot]
    BY <2>3, <1>4, <1>6
  <2>5. Len(d.stack) = 2 => d.stack[1].zone = W[d.stack[2].zone][d.stack[2].word]
    <3>1. Len(d.stack) = 2 => n = 1
      <4>1. Len(d.stack) = n + 1
        BY <1>4, <1>6
      <4> HIDE DEF n
      <4> QED BY <4>1, <1>2
    <3>2. n = 1 => d.stack[1].zone = v /\ d.stack[2].zone = q /\ d.stack[2].word = c.stack[1].word
      <4> HIDE DEF v, q
      <4> QED BY <2>3, <1>6
    <3>3. n = 1 => d.stack[1].zone = W[d.stack[2].zone][d.stack[2].word]
      <4>1. v = W[q][c.stack[1].word]
        OBVIOUS
      <4> HIDE DEF v, q
      <4> QED BY <4>1, <3>2
    <3> QED BY <3>1, <3>3
  <2> QED BY <2>4, <2>5, <1>6 DEF InPlace
<1> QED BY <1>0, <1>1, <1>6, <1>7, <1>8, <1>10, <1>11

LEMMA ReadIndirectKeeps ==
  ASSUME BlocksInv, NEW t \in Workers, ReadIndirect(t) PROVE BlocksInv'
<1> DEFINE c == work[t]
           b == [zone |-> c.zone, word |-> 0, busy |-> FALSE]
           d == [c EXCEPT !.at = "cells", !.zone = 0, !.stack = <<b>> \o @]
<1>1. /\ turn \in {NoWorker, t} /\ c.at = "indirect" /\ Counted(c.zone)
      /\ work' = [work EXCEPT ![t] = d] /\ turn' \in {t, NoWorker}
      /\ UNCHANGED <<i_zone, words, content, zmap, pressing>>
  BY DEF ReadIndirect, Has_turn, Goes_through, Turn, Either
<1>2. /\ c \in Tasks_ /\ Cuts(c) /\ c.op = "truncate" /\ InPlace(c, i_zone, words) /\ c.zone \notin Stacked(c)
  BY <1>1, CutIs
<1> HIDE DEF d
<1>3. /\ d \in Tasks_ /\ Cuts(d) /\ d.at = "cells" /\ d.file = c.file
      /\ c.zone \in Zones /\ c.zone \notin Counting(c) /\ Counting(d) = Counting(c) \cup {c.zone}
      /\ InPlace(d, i_zone, words)
  <2>1. Pushes(c, b, d)
    BY <1>1, <1>2 DEF d, Pushes
  <2> HIDE DEF c
  <2> QED BY <2>1, <1>2, Pushed
<1>4. b_count' \in [Zones -> Int] /\ CountsIn(b_count', work')
  BY <1>1, <1>3, CutCounts
<1> QED BY <1>1, <1>2, <1>3, <1>4, CutStep

(* An indirect block whose words are gone through comes off the stack.     *)
Pops(c, up, x) ==
  /\ c \in Tasks_ /\ Cuts(c) /\ c.at = "cells" /\ c.stack # <<>> /\ x = c.stack[1].zone
  /\ Len(c.stack) = 2 => c.stack[1].zone # c.stack[2].zone
  /\ up = [c EXCEPT !.stack = Tail(@)]

LEMMA Popped ==
  ASSUME NEW c, NEW up, NEW x, Pops(c, up, x)
  PROVE  /\ up \in Tasks_ /\ Cuts(up) /\ up.at = "cells" /\ up.file = c.file /\ ~AtEnd(up) /\ MayAdvance(up)
         /\ x \in Zones /\ x \in Counting(c) /\ Counting(up) = Counting(c) \ {x}
         /\ \A I, W : InPlace(c, I, W) => InPlace(up, I, W) /\ x = FoundAt(up, I, W)
<1>0. /\ c \in Tasks_ /\ Cuts(c) /\ c.at = "cells" /\ c.stack # <<>> /\ x = c.stack[1].zone
      /\ Len(c.stack) = 2 => c.stack[1].zone # c.stack[2].zone
      /\ up = [c EXCEPT !.stack = Tail(@)]
  BY DEF Pops
<1> DEFINE n == Len(c.stack)
           s == Tail(c.stack)
<1>1. /\ c.stack \in Seq(Frames) /\ PER \in Nat \ {0} /\ c.bh = 0 /\ c.op = "truncate" /\ c.file \in Owners
      /\ c.zone = 0 /\ n \in {1, 2} /\ c.slot \in {Single, Double} /\ n <= Levels(c)
      /\ \A i \in 1..n : c.stack[i].zone \in Zones
      /\ n = 2 => c.stack[2].word \in Words
  <2>1. n \in 0..2 /\ (c.stack = <<>> <=> n = 0) /\ c.slot \in {Single, Double}
        /\ (\A i \in 1..n : c.stack[i].zone \in Zones) /\ (n = 2 => c.stack[2].word \in Words)
    BY <1>0, CutsFits
  <2>2. n \in {1, 2}
    <3>1. n # 0 /\ n \in 0..2
      BY <2>1, <1>0
    <3> HIDE DEF n
    <3> QED BY <3>1
  <2>3. c.bh = 0 /\ c.op = "truncate" /\ c.file \in Owners /\ c.zone = 0 /\ n <= Levels(c)
    BY <1>0 DEF Cuts
  <2>4. c.stack \in Seq(Frames) /\ PER \in Nat \ {0}
    BY <1>0, FileBlocksAssumption DEF Tasks_
  <2> QED BY <2>1, <2>2, <2>3, <2>4
<1>2. s \in Seq(Frames) /\ Len(s) = n - 1 /\ (n = 2 => s[1] = c.stack[2]) /\ (n = 1 => s = <<>>)
  <2>1. s \in Seq(Frames) /\ Len(s) = n - 1
    BY <1>0, <1>1
  <2>2. n = 2 => s[1] = c.stack[2]
    BY <1>0, <1>1
  <2>3. n = 1 => s = <<>>
    <3>1. n = 1 => Len(s) = 0
      BY <2>1
    <3> HIDE DEF s, n
    <3> QED BY <3>1, <2>1
  <2> QED BY <2>1, <2>2, <2>3
<1>3. up = [c EXCEPT !.stack = s]
  BY <1>0
<1> HIDE DEF s
<1>4. /\ up \in Tasks_ /\ up.at = "cells" /\ up.zone = 0 /\ up.op = c.op /\ up.file = c.file /\ up.bh = 0
      /\ up.slot = c.slot /\ up.stack = s
  BY <1>0, <1>1, <1>2, <1>3 DEF Tasks_
<1>5. (n = 1 => up.stack = <<>> /\ Len(up.stack) = 0) /\ (n = 2 => Len(up.stack) = 1 /\ up.stack # <<>>)
  <2>1. n = 1 => up.stack = <<>> /\ Len(up.stack) = 0
    BY <1>2, <1>4
  <2>2. n = 2 => Len(up.stack) = 1
    BY <1>2, <1>4
  <2>3. up.stack = <<>> => Len(up.stack) = 0
    OBVIOUS
  <2> HIDE DEF n
  <2> QED BY <2>1, <2>2, <2>3
<1>6. Cuts(up)
  <2>1. Levels(up) = Levels(c) /\ Len(up.stack) = n - 1 /\ Levels(c) \in 0..2
    BY <1>2, <1>4 DEF Levels
  <2>2. Len(up.stack) <= Levels(up) /\ Len(up.stack) # 2
    <3> DEFINE m == Levels(c)
    <3>1. n \in {1, 2} /\ m \in 0..2 /\ n <= m
      BY <2>1, <1>1
    <3> HIDE DEF n, m
    <3>2. n - 1 <= m /\ n - 1 # 2
      BY <3>1
    <3> QED BY <3>2, <2>1 DEF m
  <2> QED BY <2>2, <1>1, <1>4 DEF Cuts
<1>7. ~AtEnd(up) /\ MayAdvance(up)
  <2>1. CASE n = 1
    <3>1. up.stack = <<>> /\ up.slot \in {Single, Double}
      BY <2>1, <1>1, <1>4, <1>5
    <3> QED BY <3>1, FileBlocksAssumption DEF AtEnd, MayAdvance, Single, Double
  <2>2. CASE n = 2
    <3> DEFINE w == c.stack[2].word
    <3>1. up.stack # <<>> /\ up.stack[1].word = w /\ Head(up.stack).word = w /\ w \in Words
      <4>1. up.stack = s /\ s # <<>> /\ s[1] = c.stack[2] /\ w \in Words
        BY <2>2, <1>1, <1>2, <1>4, <1>5
      <4>2. Head(s) = s[1]
        BY <4>1, <1>2
      <4> QED BY <4>1, <4>2
    <3> HIDE DEF w
    <3>2. w < PER /\ w # PER
      BY <3>1, <1>1 DEF Words
    <3> QED BY <3>1, <3>2 DEF AtEnd, MayAdvance, Top_
  <2> QED BY <2>1, <2>2, <1>1
<1>8. x \in Stacked(c) /\ Stacked(up) = Stacked(c) \ {x} /\ Stacked(c) \subseteq Zones
  <2>1. CASE n = 1
    <3>1. Stacked(c) = {c.stack[i].zone : i \in 1..1} /\ Stacked(up) = {}
      <4>1. Len(c.stack) = 1 /\ up.stack = <<>>
        BY <2>1, <1>5
      <4> QED BY <4>1, CountingIs DEF Stacked
    <3>2. Stacked(c) = {x} /\ x \in Zones
      BY <3>1, <1>0, <1>1, <2>1
    <3> QED BY <3>1, <3>2
  <2>2. CASE n = 2
    <3>1. Stacked(c) = {c.stack[i].zone : i \in 1..2} /\ Stacked(up) = {s[i].zone : i \in 1..1}
      <4>1. Len(c.stack) = 2 /\ up.stack = s /\ Len(up.stack) = 1
        BY <2>2, <1>4, <1>5
      <4> QED BY <4>1 DEF Stacked
    <3> DEFINE y == c.stack[2].zone
    <3>2. Stacked(c) = {x, y} /\ x # y /\ x \in Zones /\ y \in Zones
      <4>1. c.stack[1].zone \in Zones /\ y \in Zones
        BY <2>2, <1>1
      <4> QED BY <4>1, <3>1, <1>0, <2>2
    <3>3. Stacked(up) = {y}
      BY <3>1, <2>2, <1>2
    <3> HIDE DEF y
    <3> QED BY <3>2, <3>3
  <2> QED BY <2>1, <2>2, <1>1
<1>9. x \in Zones /\ x \in Counting(c) /\ Counting(up) = Counting(c) \ {x}
  <2>1. Counting(c) = Stacked(c)
    <3>1. 0 \notin Stacked(c)
      BY <1>8, ZonesNotZero
    <3> QED BY <3>1, <1>0, <1>1 DEF Counting
  <2>2. Counting(up) = Stacked(up)
    <3>1. 0 \notin Stacked(up)
      BY <1>8, ZonesNotZero
    <3> QED BY <3>1, <1>4 DEF Counting
  <2> QED BY <2>1, <2>2, <1>8
<1>10. ASSUME NEW I, NEW W, InPlace(c, I, W) PROVE InPlace(up, I, W) /\ x = FoundAt(up, I, W)
  <2> DEFINE g == I[c.file][c.slot]
             y == c.stack[2].zone
             w == c.stack[2].word
             v == W[y][w]
  <2>1. (n = 1 => x = g) /\ (n = 2 => y = g /\ x = v)
    <3>1. c.stack[n].zone = g
      BY <1>0, <1>1, <1>10 DEF InPlace
    <3>2. n = 2 => c.stack[1].zone = v
      BY <1>0, <1>1, <1>10 DEF InPlace
    <3>3. x = c.stack[1].zone
      BY <1>0
    <3>4. CASE n = 1
      <4>1. c.stack[n].zone = x
        BY <3>3, <3>4
      <4> HIDE DEF g
      <4> QED BY <4>1, <3>1, <3>4
    <3>5. CASE n = 2
      <4>1. c.stack[n].zone = y
        BY <3>5
      <4> HIDE DEF g, v, y
      <4> QED BY <4>1, <3>1, <3>2, <3>3, <3>5
    <3> QED BY <3>4, <3>5, <1>1
  <2>2. CASE n = 1
    <3>1. up.stack = <<>> /\ Len(up.stack) # 2 /\ g = I[up.file][up.slot] /\ up.at = "cells"
      BY <2>2, <1>4, <1>5
    <3>2. InPlace(up, I, W)
      BY <3>1 DEF InPlace
    <3>3. FoundAt(up, I, W) = g
      BY <3>1 DEF FoundAt
    <3> HIDE DEF g
    <3> QED BY <3>2, <3>3, <2>1, <2>2
  <2>3. CASE n = 2
    <3>1. up.stack # <<>> /\ Len(up.stack) = 1 /\ g = I[up.file][up.slot] /\ up.at = "cells"
          /\ up.stack[1].zone = y /\ up.stack[1].word = w
      BY <2>3, <1>2, <1>4, <1>5
    <3>2. InPlace(up, I, W)
      <4>1. up.stack[Len(up.stack)].zone = I[up.file][up.slot]
        <5>1. up.stack[Len(up.stack)].zone = y
          BY <3>1
        <5>2. y = g
          BY <2>1, <2>3
        <5> HIDE DEF y, g
        <5> QED BY <5>1, <5>2, <3>1
      <4> QED BY <4>1, <3>1 DEF InPlace
    <3>3. FoundAt(up, I, W) = v
      <4> HIDE DEF y, w
      <4> QED BY <3>1 DEF FoundAt
    <3> HIDE DEF v
    <3> QED BY <3>2, <3>3, <2>1, <2>3
  <2> QED BY <2>2, <2>3, <1>1
<1> QED BY <1>4, <1>6, <1>7, <1>9, <1>10

LEMMA IndirectDoneKeeps ==
  ASSUME BlocksInv, NEW t \in Workers, IndirectDone(t) PROVE BlocksInv'
<1> DEFINE c == work[t]
           x == c.stack[1].zone
           up == [c EXCEPT !.stack = Tail(@)]
           d == IF Top_(c).busy THEN Advanced(NotFreed(up)) ELSE [up EXCEPT !.at = "hash", !.zone = x]
<1>1. /\ turn \in {NoWorker, t} /\ c.at = "cells" /\ c.stack # <<>>
      /\ brelse_(Top_(c).zone)
      /\ Goes_through(t, IF Top_(c).busy THEN Advanced(NotFreed(up))
                         ELSE [up EXCEPT !.at = "hash", !.zone = Top_(c).zone], {t})
  BY DEF IndirectDone, Has_turn
<1>2. /\ c \in Tasks_ /\ Cuts(c) /\ c.op = "truncate" /\ InPlace(c, i_zone, words)
      /\ Len(c.stack) = 2 => c.stack[1].zone # c.stack[2].zone
  BY <1>1, CutIs
<1>3. Pops(c, up, x)
  BY <1>1, <1>2 DEF Pops
<1>4. Top_(c).zone = x
  <2>1. c.stack \in Seq(Frames)
    BY <1>2 DEF Tasks_
  <2> QED BY <2>1, <1>1 DEF Top_
<1> HIDE DEF up, x
<1>5. /\ up \in Tasks_ /\ Cuts(up) /\ up.at = "cells" /\ up.file = c.file /\ ~AtEnd(up) /\ MayAdvance(up)
      /\ x \in Zones /\ x \in Counting(c) /\ Counting(up) = Counting(c) \ {x}
      /\ InPlace(up, i_zone, words) /\ x = FoundAt(up, i_zone, words)
  <2> HIDE DEF c
  <2> QED BY <1>2, <1>3, Popped
<1>6. /\ d \in Tasks_ /\ Cuts(d) /\ d.file = c.file /\ d.at \in {"cells", "hash"} /\ Counting(d) = Counting(up)
      /\ InPlace(d, i_zone, words)
  <2>1. CASE Top_(c).busy
    <3>1. d = Advanced(NotFreed(up))
      BY <2>1
    <3> HIDE DEF d
    <3> QED BY <3>1, <1>5, MovesOn
  <2>2. CASE ~Top_(c).busy
    <3>1. d = [up EXCEPT !.at = "hash", !.zone = x]
      BY <2>2
    <3> HIDE DEF d
    <3>2. GoesTo(up, "hash", x, d)
      BY <3>1, <1>5, ZonesNotZero DEF GoesTo
    <3>3. /\ d \in Tasks_ /\ Cuts(d) /\ d.at = "hash" /\ d.file = up.file /\ Counting(d) = Counting(up)
          /\ InPlace(d, i_zone, words)
      BY <3>2, <1>5, CutAt
    <3> QED BY <3>3, <1>5
  <2> QED BY <2>1, <2>2
<1>7. work' = [work EXCEPT ![t] = d] /\ turn' = t /\ UNCHANGED <<i_zone, words, content, zmap, pressing>>
      /\ brelse_(x)
  BY <1>1, <1>4 DEF Goes_through, Turn
<1> HIDE DEF d
<1>8. b_count' \in [Zones -> Int] /\ CountsIn(b_count', work')
  BY <1>5, <1>6, <1>7, CutCounts
<1> QED BY <1>1, <1>2, <1>6, <1>7, <1>8, CutStep

LEMMA LookUpKeeps ==
  ASSUME BlocksInv, NEW t \in Workers, LookUp(t) PROVE BlocksInv'
<1> DEFINE c == work[t]
           z == c.zone
<1>1. turn \in {NoWorker, t} /\ c.at = "hash" /\ UNCHANGED <<i_zone, words, content, zmap, pressing>>
  BY DEF LookUp, Has_turn
<1>2. /\ c \in Tasks_ /\ Cuts(c) /\ c.op = "truncate" /\ InPlace(c, i_zone, words) /\ b_count \in [Zones -> Int]
      /\ CountsIn(b_count, work) /\ z \in Zones /\ z \notin Stacked(c) /\ work \in [Workers -> Tasks_]
  BY <1>1, CutIs
<1>3. z = FoundAt(c, i_zone, words) /\ ~AtEnd(c) /\ z # 0
  BY <1>1, <1>2, ZonesNotZero DEF InPlace, FoundAt, Cuts
<1>4. ASSUME NEW a \in {"free", "gone"}, NEW d, d = [c EXCEPT !.at = a]
      PROVE  /\ d \in Tasks_ /\ Cuts(d) /\ d.at = a /\ d.zone = z /\ d.file = c.file
             /\ Counting(c) = Stacked(c)
             /\ Counting(d) = Stacked(c) \cup (IF a = "free" THEN {z} ELSE {})
             /\ InPlace(d, i_zone, words)
  <2>1. d = [c EXCEPT !.at = a, !.zone = z]
    BY <1>2, <1>4 DEF Tasks_
  <2>2. GoesTo(c, a, z, d)
    BY <2>1, <1>2, <1>3, <1>4 DEF GoesTo
  <2>3. c.at # "free"
    BY <1>1
  <2> HIDE DEF c, z
  <2> QED BY <2>2, <2>3, <1>2, <1>3, CutAt
<1>5. CASE Counted(z) /\ Turn(t, [c EXCEPT !.at = "free"], Either(t))
  <2> DEFINE d == [c EXCEPT !.at = "free"]
  <2>1. /\ d \in Tasks_ /\ Cuts(d) /\ d.at = "free" /\ d.file = c.file /\ InPlace(d, i_zone, words)
        /\ z \notin Counting(c) /\ Counting(d) = Counting(c) \cup {z}
    BY <1>2, <1>4
  <2>2. work' = [work EXCEPT ![t] = d] /\ turn' \in {t, NoWorker}
    BY <1>5 DEF Turn, Either
  <2> HIDE DEF d
  <2>3. b_count' \in [Zones -> Int] /\ CountsIn(b_count', work')
    BY <2>1, <2>2, <1>2, <1>5, CutCounts
  <2> QED BY <2>1, <2>2, <2>3, <1>1, <1>2, CutStep
<1>6. CASE ~InCache(z) /\ Turn(t, [c EXCEPT !.at = "gone"], {t}) /\ UNCHANGED b_count
  <2> DEFINE d == [c EXCEPT !.at = "gone"]
  <2>1. /\ d \in Tasks_ /\ Cuts(d) /\ d.at = "gone" /\ d.zone = z /\ d.file = c.file /\ InPlace(d, i_zone, words)
        /\ Counting(d) = Counting(c)
    BY <1>4
  <2>2. work' = [work EXCEPT ![t] = d] /\ turn' = t /\ b_count' = b_count
    BY <1>6 DEF Turn
  <2> HIDE DEF d
  <2>3. b_count' \in [Zones -> Int] /\ CountsIn(b_count', work')
    BY <2>1, <2>2, CutCounts
  <2>4. b_count'[d.zone] = 0
    <3>1. b_count[z] >= 0 /\ b_count[z] \in Int
      BY <1>2, Countings
    <3>2. ~(b_count[z] > 0)
      BY <1>6 DEF InCache
    <3>3. b_count[z] = 0
      <4> DEFINE m == b_count[z]
      <4>1. m \in Int /\ m >= 0 /\ ~(m > 0)
        BY <3>1, <3>2
      <4> HIDE DEF m
      <4> QED BY <4>1 DEF m
    <3> QED BY <3>3, <2>1, <2>2
  <2> QED BY <2>1, <2>2, <2>3, <2>4, <1>1, <1>2, CutStep
<1> QED BY <1>5, <1>6 DEF LookUp

LEMMA FoundFreeKeeps ==
  ASSUME BlocksInv, NEW t \in Workers, FoundFree(t) PROVE BlocksInv'
<1> DEFINE c == work[t]
           z == c.zone
           e == [c EXCEPT !.at = "cells", !.zone = 0]
           d == IF Busy_(z) THEN Advanced(NotFreed(e)) ELSE [c EXCEPT !.at = "gone"]
<1>1. /\ turn \in {NoWorker, t} /\ c.at = "free" /\ brelse_(z)
      /\ work' = [work EXCEPT ![t] = d] /\ turn' = t
      /\ UNCHANGED <<i_zone, words, content, zmap, pressing>>
  BY DEF FoundFree, Has_turn, Goes_through, Turn
<1>2. /\ c \in Tasks_ /\ Cuts(c) /\ c.op = "truncate" /\ InPlace(c, i_zone, words) /\ b_count \in [Zones -> Int]
      /\ CountsIn(b_count, work) /\ z \in Zones /\ z \notin Stacked(c) /\ work \in [Workers -> Tasks_] /\ BlockTypes
  BY <1>1, CutIs
<1>3. z = FoundAt(c, i_zone, words) /\ ~AtEnd(c) /\ z # 0
  BY <1>1, <1>2, ZonesNotZero DEF InPlace, FoundAt, Cuts
<1>4. MayAdvance(c)
  BY <1>2, <1>3, CutCell
<1>5. CASE Busy_(z)
  <2>1. d = Advanced(NotFreed(e))
    BY <1>5
  <2>2. GoesTo(c, "cells", 0, e)
    BY <1>2 DEF GoesTo
  <2> HIDE DEF e, d
  <2>3. /\ e \in Tasks_ /\ Cuts(e) /\ e.at = "cells" /\ e.file = c.file /\ MayAdvance(e) /\ InPlace(e, i_zone, words)
        /\ Counting(c) = Stacked(c) \cup {z} /\ Counting(e) = Stacked(c)
    <3>1. c.at = "free"
      BY <1>1
    <3> HIDE DEF c
    <3> QED BY <3>1, <2>2, <1>2, <1>4, CutAt
  <2>4. /\ d \in Tasks_ /\ Cuts(d) /\ d.at = "cells" /\ d.file = c.file /\ Counting(d) = Counting(e)
        /\ InPlace(d, i_zone, words)
    BY <2>1, <2>3, MovesOn
  <2>5. z \in Counting(c) /\ Counting(d) = Counting(c) \ {z}
    BY <2>3, <2>4, <1>2
  <2>6. b_count' \in [Zones -> Int] /\ CountsIn(b_count', work')
    BY <2>4, <2>5, <1>1, <1>2, CutCounts
  <2> QED BY <2>4, <2>6, <1>1, <1>2, CutStep
<1>6. CASE ~Busy_(z)
  <2>1. d = [c EXCEPT !.at = "gone"]
    BY <1>6
  <2> HIDE DEF d
  <2>2. GoesTo(c, "gone", z, d)
    <3>1. d = [c EXCEPT !.at = "gone", !.zone = z]
      BY <2>1, <1>2 DEF Tasks_
    <3> QED BY <3>1, <1>2, <1>3 DEF GoesTo
  <2>3. /\ d \in Tasks_ /\ Cuts(d) /\ d.at = "gone" /\ d.zone = z /\ d.file = c.file /\ InPlace(d, i_zone, words)
        /\ Counting(c) = Stacked(c) \cup {z} /\ Counting(d) = Stacked(c)
    <3>1. c.at = "free" /\ {z} = {c.zone}
      BY <1>1
    <3> HIDE DEF c, z
    <3> QED BY <3>1, <2>2, <1>2, <1>3, CutAt
  <2>4. z \in Counting(c) /\ Counting(d) = Counting(c) \ {z}
    BY <2>3, <1>2
  <2>5. b_count' \in [Zones -> Int] /\ CountsIn(b_count', work')
    BY <2>3, <2>4, <1>1, <1>2, CutCounts
  <2>6. b_count'[d.zone] = 0
    <3>1. b_count' = [b_count EXCEPT ![z] = @ - 1]
      BY <1>1, <1>3 DEF brelse_
    <3>2. work' \in [Workers -> Tasks_]
      BY <2>3, <1>1, <1>2
    <3>3. b_count'[z] >= 0
      BY <3>2, <2>3, <2>5, <1>2, Countings
    <3>4. b_count'[z] = b_count[z] - 1 /\ b_count[z] \in Int
      <4> HIDE DEF z
      <4> QED BY <3>1, <1>2
    <3>5. ~(b_count[z] > 1)
      BY <1>6 DEF Busy_
    <3>6. b_count'[z] = 0
      <4> DEFINE m == b_count[z]
                 k == b_count'[z]
      <4>1. m \in Int /\ k = m - 1 /\ ~(m > 1) /\ k >= 0
        BY <3>3, <3>4, <3>5
      <4> HIDE DEF m, k
      <4>2. k = 0
        BY <4>1
      <4> QED BY <4>2 DEF k
    <3> QED BY <3>6, <2>3
  <2> QED BY <2>3, <2>5, <2>6, <1>1, <1>2, CutStep
<1> QED BY <1>5, <1>6

LEMMA TruncateEndsKeeps ==
  ASSUME BlocksInv, NEW t \in Workers, TruncateEnds(t) PROVE BlocksInv'
<1> DEFINE c == work[t]
<1>1. /\ turn \in {NoWorker, t} /\ c.at = "cells" /\ c.stack = <<>>
      /\ UNCHANGED <<i_zone, words, content, zmap, b_count, pressing>>
  BY DEF TruncateEnds, Has_turn
<1>2. /\ c \in Tasks_ /\ Cuts(c) /\ c.op = "truncate" /\ InPlace(c, i_zone, words) /\ b_count \in [Zones -> Int]
      /\ CountsIn(b_count, work) /\ work \in [Workers -> Tasks_]
  BY <1>1, CutIs
<1>3. Counting(c) = {} /\ Len(c.stack) = 0
  <2>1. c.bh = 0 /\ c.zone = 0
    BY <1>1, <1>2 DEF Cuts
  <2> QED BY <2>1, <1>1, CountingIs
<1>4. CASE c.busy
  <2> DEFINE d == [c EXCEPT !.slot = 0, !.busy = FALSE]
  <2>1. work' = [work EXCEPT ![t] = d] /\ turn' = NoWorker
    BY <1>4 DEF TruncateEnds, Turn
  <2>2. /\ d \in Tasks_ /\ d.at = "cells" /\ d.op = c.op /\ d.file = c.file /\ d.bh = c.bh /\ d.zone = c.zone
        /\ d.stack = <<>>
    <3>1. 0 \in 0..(DIRECT + 2)
      BY FileBlocksAssumption
    <3> QED BY <3>1, <1>1, <1>2 DEF Tasks_
  <2> HIDE DEF d
  <2>3. Len(d.stack) = 0 /\ Levels(d) \in 0..2
    BY <2>2 DEF Levels
  <2>4. Cuts(d) /\ InPlace(d, i_zone, words)
    <3>1. Cuts(d)
      BY <2>2, <2>3, <1>1, <1>2 DEF Cuts
    <3> QED BY <3>1, <2>2, <2>3 DEF InPlace
  <2>5. Counting(d) = Counting(c)
    <3>1. d.bh = 0
      BY <2>2, <1>2 DEF Cuts
    <3> QED BY <3>1, <2>2, <1>3, CountingIs
  <2>6. b_count' \in [Zones -> Int] /\ CountsIn(b_count', work')
    BY <2>1, <2>2, <2>5, <1>1, CutCounts
  <2> QED BY <2>1, <2>2, <2>4, <2>6, <1>1, <1>2, CutStep
<1>5. CASE ~c.busy
  <2>1. work' = [work EXCEPT ![t] = Rest] /\ turn' = NoWorker
    BY <1>5 DEF TruncateEnds, Turn, Ends_work
  <2>2. /\ Rest \in Tasks_ /\ Fits(Rest) /\ Rest.op = "none" /\ Rest.at = "user" /\ Counting(Rest) = {}
        /\ content \in [Zones -> {<<>>} \cup (Owners \X Blocks_)]
    BY AtPlace
  <2>3. b_count' \in [Zones -> Int] /\ CountsIn(b_count', work')
    BY <2>1, <2>2, <1>1, <1>3, CutCounts
  <2>4. \A L \in [Zones -> Labels] : Marked(i_zone, words, zmap, content, work, L) =>
          /\ Finds(Rest, Settled(zmap, work), L) /\ InPlace(Rest, i_zone, words)
          /\ Contents(content', Settled(zmap, work), L)
    BY <1>1, RestFits DEF Marked
  <2>5. KeepsApart(t, Rest)
    BY <2>2 DEF KeepsApart
  <2> QED BY <2>1, <2>2, <2>3, <2>4, <2>5, <1>1, QuietStep
<1> QED BY <1>4, <1>5

(* A zone that is to be freed is in nobody else's hands.                   *)
LEMMA NobodyElse ==
  ASSUME BlocksInv, ~(pressing.pressed /\ pressing.shared), NEW t \in Workers, turn \in {NoWorker, t},
         work[t].at = "gone",
         NEW L \in [Zones -> Labels], Marked(i_zone, words, zmap, content, work, L), NEW u \in Workers \ {t}
  PROVE  MarksClearFree(u, work[t].zone, Settled(zmap, work), work)
<1> DEFINE c == work[t]
           z == c.zone
           e == work[u]
           S == Settled(zmap, work)
<1>1. /\ c \in Tasks_ /\ Cuts(c) /\ c.op = "truncate" /\ InPlace(c, i_zone, words) /\ b_count \in [Zones -> Int]
      /\ CountsIn(b_count, work) /\ z \in Zones /\ work \in [Workers -> Tasks_] /\ BlockTypes
  BY CutIs
<1>2. Tree(i_zone, words, S, L) /\ Typed(i_zone, words, S, L) /\ Finds(e, S, L)
  <2>1. Tree(i_zone, words, S, L) /\ Finds(e, S, L)
    BY DEF Marked
  <2>2. Typed(i_zone, words, S, L)
    BY <1>1 DEF Typed, BlockTypes, Settled
  <2> QED BY <2>1, <2>2
<1>3. L[z].file = c.file
  BY <1>1, <1>2, CutHas
<1>4. z \notin Counting(e)
  <2>1. b_count[z] = 0
    BY DEF BlocksInv, Freed
  <2> QED BY <2>1, <1>1, Countings
<1>5. z # e.bh /\ z \notin Stacked(e) /\ (e.at \in {"copy", "free"} => z # e.zone)
  BY <1>1, <1>4, ZonesNotZero DEF Counting
<1>6. e.at \notin {"hash", "gone"} /\ (~pressing.pressed => e.at \notin {"new", "leave", "get", "indirect"})
  BY OthersStand DEF BlocksInv
<1>7. ASSUME e.at \in {"leave", "get", "indirect"} PROVE e.file # c.file
  <2>1. pressing.pressed /\ ~pressing.shared
    BY <1>6, <1>7
  <2>2. e.op # "none"
    <3>1. Maps(e) \/ Cuts(e)
      BY <1>7, AtPlace
    <3> QED BY <3>1 DEF Maps, Cuts
  <2> QED BY <2>1, <2>2, <1>1 DEF BlocksInv, Apart_
<1>8. ASSUME e.op \in {"read", "write"}, e.at \in {"leave", "get"} PROVE e.zone # z
  <2>1. L[e.zone] = Label(e.file, e.block, Passed(e) + 1)
    BY <1>2, <1>8 DEF Finds
  <2>2. L[e.zone].file = e.file
    BY <2>1 DEF Label
  <2> HIDE DEF e, c, z
  <2> QED BY <2>2, <1>3, <1>7, <1>8
<1>9. ASSUME e.op = "truncate", e.at = "indirect" PROVE e.zone # z
  <2>1. e \in Tasks_ /\ Cuts(e) /\ InPlace(e, i_zone, words) /\ e.at # "cells"
    BY <1>9, CutIs
  <2>2. L[e.zone].file = e.file
    <3> HIDE DEF e, S
    <3> QED BY <2>1, <1>2, CutHas
  <2> HIDE DEF e, c, z
  <2> QED BY <2>2, <1>3, <1>7, <1>9
<1>10. e.op = "truncate" => z \notin Hand(e)
  <2>1. SUFFICES ASSUME e.op = "truncate", e.at # "cells" PROVE e.zone # z
    BY <1>5 DEF Hand
  <2>2. e.at \in {"indirect", "free"}
    <3>1. Fits(e)
      BY AtPlace
    <3>2. Cuts(e)
      BY <2>1, <3>1 DEF Fits, Rest, Maps
    <3> QED BY <2>1, <3>2, <1>6 DEF Cuts
  <2> QED BY <2>1, <2>2, <1>5, <1>9
<1> QED BY <1>5, <1>8, <1>10 DEF MarksClearFree

LEMMA ClearBitKeeps ==
  ASSUME BlocksInv, NEW t \in Workers, ClearBit(t), ~(pressing.pressed /\ pressing.shared)
  PROVE  BlocksInv'
<1> DEFINE c == work[t]
           z == c.zone
           e == [c EXCEPT !.at = "cells", !.zone = 0]
           d == Advanced(e)
<1>1. /\ turn \in {NoWorker, t} /\ c.at = "gone" /\ zmap' = zmap \ {z}
      /\ work' = [work EXCEPT ![t] = d] /\ turn' = t
      /\ UNCHANGED <<content, b_count, pressing>>
  BY DEF ClearBit, Has_turn, Turn
<1>2. /\ c \in Tasks_ /\ Cuts(c) /\ c.op = "truncate" /\ b_count \in [Zones -> Int]
      /\ CountsIn(b_count, work) /\ z \in Zones /\ work \in [Workers -> Tasks_] /\ BlockTypes
      /\ c.stack \in Seq(Frames)
  BY <1>1, CutIs DEF Tasks_
<1>3. /\ c.file \in Owners /\ c.slot \in ZoneSlots /\ (c.stack = <<>> <=> Len(c.stack) = 0)
      /\ c.stack # <<>> => c.stack[1].zone \in Zones /\ c.stack[1].word \in Words /\ Top_(c) = c.stack[1]
  <2>1. c.at # "cells"
    BY <1>1
  <2>2. /\ c.slot \in ZoneSlots /\ (c.stack = <<>> <=> Len(c.stack) = 0) /\ Len(c.stack) \in 0..2
        /\ \A i \in 1..Len(c.stack) : c.stack[i].zone \in Zones
        /\ c.stack # <<>> => c.stack[1].word \in Words
    BY <2>1, <1>2, CutsFits
  <2>3. c.stack # <<>> => Top_(c) = c.stack[1] /\ 1 \in 1..Len(c.stack)
    BY <2>2, <1>2 DEF Top_
  <2> QED BY <2>2, <2>3, <1>2 DEF Cuts
<1>4. IF c.stack = <<>> THEN i_zone' = [i_zone EXCEPT ![c.file][c.slot] = 0] /\ words' = words
      ELSE i_zone' = i_zone /\ words' = [words EXCEPT ![c.stack[1].zone][c.stack[1].word] = 0]
  <2>1. IF c.stack = <<>> THEN i_zone' = [i_zone EXCEPT ![c.file][c.slot] = 0] /\ words' = words
        ELSE i_zone' = i_zone /\ words' = [words EXCEPT ![Top_(c).zone][Top_(c).word] = 0]
    BY DEF ClearBit
  <2> QED BY <2>1, <1>3
<1>5. /\ e \in Tasks_ /\ Cuts(e) /\ e.at = "cells" /\ e.file = c.file /\ e.op = c.op /\ e.stack = c.stack
      /\ e.slot = c.slot /\ MayAdvance(e) /\ Counting(e) = Counting(c)
  <2>1. GoesTo(c, "cells", 0, e)
    BY <1>2 DEF GoesTo
  <2>2. MayAdvance(c)
    <3>1. ~AtEnd(c)
      BY <1>1, <1>2 DEF Cuts
    <3> QED BY <3>1, <1>2, CutCell
  <2>3. c.at # "free"
    BY <1>1
  <2> HIDE DEF c, e
  <2> QED BY <2>1, <2>2, <2>3, CutAt
<1> HIDE DEF e
<1>6. Same(d, e)
  BY <1>5, AdvancedIs
<1>7. d \in Tasks_ /\ Cuts(d) /\ d.at = "cells" /\ d.file = c.file /\ Counting(d) = Counting(c)
  BY <1>5, MovesOn
<1> HIDE DEF d
<1>8. Clears(c, d, i_zone, words, i_zone', words')
  <2>1. /\ d.op = "truncate" /\ Len(d.stack) = Len(c.stack)
        /\ \A i \in 1..Len(c.stack) : d.stack[i].zone = c.stack[i].zone
        /\ \A i \in 2..Len(c.stack) : d.stack[i].word = c.stack[i].word
        /\ c.stack # <<>> => d.slot = c.slot
    BY <1>2, <1>5, <1>6 DEF Same
  <2>2. Len(d.stack) = 2 => d.stack[2].word = c.stack[2].word
    BY <2>1
  <2>3. d.stack # <<>> => d.slot = c.slot
    <3>1. d.stack # <<>> => Len(d.stack) # 0
      BY <1>7 DEF Tasks_
    <3> QED BY <3>1, <2>1, <1>3
  <2> QED BY <2>1, <2>2, <2>3, <1>4, <1>7 DEF Clears
<1>9. \A u \in Workers : work'[u] = IF u = t THEN d ELSE work[u]
  BY <1>1, <1>2
<1>10. BlockTypes'
  <2>1. i_zone \in [Owners -> [ZoneSlots -> Zones \cup {0}]] /\ words \in [Zones -> [Words -> Zones \cup {0}]]
    BY <1>2 DEF BlockTypes
  <2>2. i_zone' \in [Owners -> [ZoneSlots -> Zones \cup {0}]] /\ words' \in [Zones -> [Words -> Zones \cup {0}]]
    <3>1. CASE c.stack = <<>>
      <4>1. i_zone' = [i_zone EXCEPT ![c.file][c.slot] = 0] /\ words' = words
        BY <3>1, <1>4
      <4> HIDE DEF c
      <4> QED BY <4>1, <2>1, <1>3
    <3>2. CASE c.stack # <<>>
      <4> DEFINE y == c.stack[1].zone
                 w == c.stack[1].word
      <4>1. i_zone' = i_zone /\ words' = [words EXCEPT ![y][w] = 0] /\ y \in Zones /\ w \in Words
        BY <3>2, <1>3, <1>4
      <4> HIDE DEF c, y, w
      <4> QED BY <4>1, <2>1
    <3> QED BY <3>1, <3>2
  <2>3. work' \in [Workers -> Tasks_] /\ turn' \in Workers \cup {NoWorker} /\ zmap' \subseteq Zones
    BY <1>1, <1>2, <1>7 DEF BlockTypes
  <2> QED BY <2>2, <2>3, <1>1, <1>2 DEF BlockTypes
<1>11. \A u \in Workers : Fits(work'[u])
  BY <1>7, <1>9 DEF BlocksInv, Fits
<1>12. Apart_(work', pressing')
  <2>1. KeepsApart(t, d)
    BY <1>2, <1>7 DEF KeepsApart, Cuts
  <2> QED BY <2>1, <1>1, <1>2, ApartKept DEF BlocksInv
<1>13. \A u \in Workers \ {t} : /\ work[u].at \notin {"hash", "gone"}
                                /\ ~pressing.pressed => work[u].at \notin {"new", "leave", "get", "indirect"}
  BY <1>1, OthersStand DEF BlocksInv
<1>14. InTurn(work', turn', pressing')
  BY <1>1, <1>7, <1>9, <1>13 DEF InTurn
<1>15. CountsIn(b_count', work')
  BY <1>1, <1>7, CutCounts
<1>16. Freed(b_count', work') /\ Unfilled(work', pressing', i_zone', words')
  BY <1>1, <1>7, <1>9, <1>13 DEF Freed, Unfilled
<1>17. \E L \in [Zones -> Labels] : Marked(i_zone', words', zmap', content', work', L)
  <2>1. PICK L \in [Zones -> Labels] : Marked(i_zone, words, zmap, content, work, L)
    BY DEF BlocksInv
  <2>2. Typed(i_zone, words, zmap, L)
    BY <1>2 DEF Typed, BlockTypes
  <2>3. \A u \in Workers \ {t} : MarksClearFree(u, z, Settled(zmap, work), work)
    BY <2>1, <1>1, NobodyElse
  <2>4. \A u \in Workers : Fits(work[u])
    BY DEF BlocksInv
  <2>5. Marked(i_zone', words', zmap \ {z}, content, [work EXCEPT ![t] = d], L)
    BY <2>1, <2>2, <2>3, <2>4, <1>1, <1>2, <1>7, <1>8, MarksClear
  <2> QED BY <2>5, <1>1
<1> QED BY <1>10, <1>11, <1>12, <1>14, <1>15, <1>16, <1>17 DEF BlocksInv

-----------------------------------------------------------------------------
(* A step that keeps the invariant, unless buffers are short while a file  *)
(* is truncated that others read or write.                                 *)
LEMMA BlocksKept ==
  ASSUME BlocksInv, ~(pressing.pressed /\ pressing.shared), [BlocksNext]_blockVars
  PROVE  BlocksInv'
<1>1. ASSUME NEW t \in Workers, Starts(t) PROVE BlocksInv'
  BY <1>1, StartsKeeps
<1>2. ASSUME NEW t \in Workers, Map(t) PROVE BlocksInv'
  BY <1>2, MapKeeps
<1>3. ASSUME NEW t \in Workers, Hole(t) PROVE BlocksInv'
  BY <1>3, HoleKeeps
<1>4. ASSUME NEW t \in Workers, NewZone(t) PROVE BlocksInv'
  BY <1>4, NewKeeps
<1>5. ASSUME NEW t \in Workers, Enter_new(t) PROVE BlocksInv'
  BY <1>5, EnterKeeps
<1>6. ASSUME NEW t \in Workers, Leave_indirect(t) PROVE BlocksInv'
  BY <1>6, LeaveKeeps
<1>7. ASSUME NEW t \in Workers, GetZone(t) PROVE BlocksInv'
  BY <1>7, GetKeeps
<1>8. ASSUME NEW t \in Workers, CopyBlock(t) PROVE BlocksInv'
  BY <1>8, CopyKeeps
<1>9. ASSUME NEW t \in Workers, NextCell(t) PROVE BlocksInv'
  BY <1>9, NextCellKeeps
<1>10. ASSUME NEW t \in Workers, ReadIndirect(t) PROVE BlocksInv'
  BY <1>10, ReadIndirectKeeps
<1>11. ASSUME NEW t \in Workers, IndirectDone(t) PROVE BlocksInv'
  BY <1>11, IndirectDoneKeeps
<1>12. ASSUME NEW t \in Workers, LookUp(t) PROVE BlocksInv'
  BY <1>12, LookUpKeeps
<1>13. ASSUME NEW t \in Workers, FoundFree(t) PROVE BlocksInv'
  BY <1>13, FoundFreeKeeps
<1>14. ASSUME NEW t \in Workers, ClearBit(t) PROVE BlocksInv'
  BY <1>14, ClearBitKeeps
<1>15. ASSUME NEW t \in Workers, TruncateEnds(t) PROVE BlocksInv'
  BY <1>15, TruncateEndsKeeps
<1>16. CASE UNCHANGED blockVars
  BY <1>16 DEF BlocksInv, BlockTypes, blockVars
<1> QED BY <1>1, <1>2, <1>3, <1>4, <1>5, <1>6, <1>7, <1>8, <1>9, <1>10, <1>11, <1>12, <1>13, <1>14, <1>15,
           <1>16 DEF BlocksNext

(* pressing stays what it was at the start.                                *)
LEMMA CaseStays ==
  ASSUME [BlocksNext]_blockVars PROVE pressing' = pressing
BY DEF BlocksNext, blockVars, Starts, Map, Hole, NewZone, Enter_new, Leave_indirect, GetZone, CopyBlock,
       NextCell, Goes_through, ReadIndirect, IndirectDone, LookUp, FoundFree, ClearBit, TruncateEnds

(* The blocks of files stay apart, however tasks share them and interrupt  *)
(* one another, as long as a file is not truncated while others use it and *)
(* buffers are short.                                                      *)
THEOREM BlocksApartAlways ==
  ASSUME \A c \in BlockCases : ~(c.pressed /\ c.shared)
  PROVE  BlocksSpec => []BlocksApart
<1> DEFINE Held == BlocksInv /\ ~(pressing.pressed /\ pressing.shared)
<1>1. BlocksRest => Held
  <2>1. BlocksRest => pressing \in BlockCases
    BY DEF BlocksRest
  <2> QED BY <2>1, BlocksInit
<1>2. Held /\ [BlocksNext]_blockVars => Held'
  BY BlocksKept, CaseStays
<1>3. Held => BlocksApart
  BY LabelsApart DEF BlocksInv
<1> QED BY <1>1, <1>2, <1>3, PTL DEF BlocksSpec
================================================================================
