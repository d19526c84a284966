----------------------------- MODULE Memory_proofs -----------------------------
(***************************************************************************)
(* Paging, for any tasks, pages, page tables and swap pages, while no task *)
(* swaps between looking at a shared page and copying it.                  *)
(*                                                                         *)
(* All that a task finds in its memory rests on pages that are in one      *)
(* place only: those it may write, and the one it has in its hands while   *)
(* it sleeps for the disk.                                                 *)
(*                                                                         *)
(* After it malloc, for any tasks, pages and sizes: what it gives does not *)
(* overlap.                                                                *)
(***************************************************************************)
EXTENDS Memory, Malloc, FiniteSetTheorems, WellFoundedInduction, TLAPS

Kernel == {"alloc", "put", "copy"}
Requests == {"alloc", "writing"}
HasPage == {"put", "reading file", "reading swap", "reading fork"}
Labels == Kernel \cup HasPage \cup {"writing", "user", "gone"}
Shares == {"cow", "share"}
Fills == {"new", "table"}
Forks == {"fork", "fork in"}
Goals == Shares \cup Fills \cup Forks \cup {"swap in"}
Faults == [at : Labels, goal : Goals \cup {"none"}, v : Nat,
           held : Pages \cup {NULL}, out : Pages \cup {NULL}, other : Nat]
Entries == [page : Pages \cup {NULL}, nr : SwapPages \cup {NULL}, rw : BOOLEAN, dirty : BOOLEAN]

Types ==
  /\ mem_map \in [Pages -> Int]
  /\ content \in [Pages -> Nat]
  /\ dir \in [Tasks -> Pages \cup {NULL}]
  /\ pte \in [Tasks -> [Virtual -> Entries]]
  /\ swap_bitmap \in SUBSET SwapPages
  /\ swap \in [SwapPages -> Nat]
  /\ fault \in [Tasks -> Faults]
  /\ cpu \in Tasks \cup {NULL}
  /\ want \in [Tasks -> [Virtual -> Nat]]

(* What an entry says of its page; a page that was not written has what    *)
(* the file has, or zeros.                                                 *)
Empty(t, v) == pte[t][v].page = NULL /\ pte[t][v].nr = NULL
EntryFits(t, v) ==
  LET e == pte[t][v] IN
  /\ e.page # NULL => e.nr = NULL
  /\ e.rw => e.page # NULL
  /\ e.page # NULL /\ ~e.dirty => content[e.page] = First(v)
EntriesFit == \A t \in Tasks, v \in Virtual : EntryFits(t, v)

(* A page that its task may write, or has in its hands, is nowhere else.   *)
Private(t, w) == IF w = InHand THEN fault[t].held # NULL ELSE w \in Virtual /\ pte[t][w].rw
PrivatePages ==
  \A t, u \in Tasks, w, x \in Places :
    Private(t, w) /\ PageAt(u, x) = PageAt(t, w) => u = t /\ x = w

SwapApart ==
  /\ \A t, u \in Tasks, v, w \in Virtual :
       pte[t][v].nr # NULL /\ pte[u][w].nr = pte[t][v].nr => u = t /\ w = v
  /\ \A t \in Tasks, v \in Virtual : pte[t][v].nr \notin swap_bitmap
  /\ \A n \in SwapPages \ swap_bitmap : \E t \in Tasks, v \in Virtual : pte[t][v].nr = n

(* Where a task can be in its fault.                                       *)
Shape(f) ==
  /\ f.at = "user" => f = User
  /\ f.at = "gone" => f = Gone
  /\ f.out # NULL <=> f.at = "writing"
  /\ f.held # NULL <=> f.at \in HasPage \/ f.goal = "table"
  /\ f.at \in Requests => f.goal # "none"
  /\ f.at \in {"put", "reading file"} => f.goal = "new"
  /\ f.at = "reading swap" => f.goal = "swap in"
  /\ f.at = "reading fork" => f.goal = "fork in"
  /\ f.at = "copy" => f.goal \in Forks
  /\ f.goal \in Shares => f.at = "alloc"
  /\ f.goal \in Goals /\ f.goal # "fork" /\ f.at # "copy" => f.v \in Virtual
  /\ f.goal = "fork" /\ f.at # "copy" => f.v = NULL

(* The entry that a task is about to change is still as it was when the    *)
(* fault began, and the page it has is what will be found there.           *)
Swapping(f) == f.goal = "swap in" \/ (f.goal = "fork in" /\ f.at # "copy")
FaultFits(t) ==
  LET f == fault[t]  e == pte[t][f.v] IN
  /\ Shape(f)
  /\ f.at \in Kernel <=> cpu = t
  /\ f.goal = "cow" => FreePages # {} /\ e.page = f.other /\ e.page # NULL
  /\ f.goal = "share" => /\ FreePages # {} /\ Empty(t, f.v) /\ dir[t] = NULL
                         /\ f.other \in Tasks \ {t}
                         /\ Present(f.other, f.v) /\ ~pte[f.other][f.v].dirty
  /\ f.goal \in Fills => Empty(t, f.v) /\ (f.held # NULL => content[f.held] = First(f.v))
  /\ f.goal = "table" => dir[t] = NULL
  /\ Swapping(f) => e.nr # NULL /\ (f.held # NULL => content[f.held] = swap[e.nr])

(* The child that fork is making has what its father wants, up to the      *)
(* entry where the copy is, and nothing after it.                          *)
Forking(t) == fault[t].goal \in Forks
ForkFits(t) ==
  LET f == fault[t]  c == fault[t].other IN
  Forking(t) =>
    /\ c \in Tasks /\ fault[c] = Gone
    /\ \A w \in Virtual : IF w < f.v THEN Seen(c, w) = want[t][w] ELSE Empty(c, w)
    /\ f.goal = "fork" /\ f.at # "copy" => dir[c] = NULL
ChildrenApart ==
  \A t, u \in Tasks : Forking(t) /\ Forking(u) /\ fault[t].other = fault[u].other => t = u
GoneFits ==
  \A c \in Tasks : fault[c].at = "gone" =>
    \/ \E t \in Tasks : Forking(t) /\ fault[t].other = c
    \/ dir[c] = NULL /\ \A v \in Virtual : Empty(c, v)

IInv ==
  /\ Types /\ CountsMappings /\ EntriesFit /\ PrivatePages /\ SwapApart
  /\ \A t \in Tasks : FaultFits(t) /\ ForkFits(t)
  /\ ChildrenApart /\ GoneFits /\ OwnContents

-----------------------------------------------------------------------------
(* Finite sets of numbers have a least and a greatest one: the numbers up  *)
(* to x are fewer for a smaller x.                                         *)
LEMMA LeastOf ==
  ASSUME NEW T, T \subseteq Nat, IsFiniteSet(T), T # {}
  PROVE  Min(T) \in T /\ \A y \in T : Min(T) <= y
<1> DEFINE UpTo(x) == {y \in T : y <= x}
           R == StrictSubsetOrdering(T)
           Segments == {UpTo(x) : x \in T}
<1>1. Segments \subseteq FiniteSubsetsOf(T)
  BY FS_Subset DEF FiniteSubsetsOf
<1>2. IsWellFoundedOn(R, FiniteSubsetsOf(T))
  BY FS_StrictSubsetOrderingWellFounded
<1>3. PICK B \in Segments : \A C \in Segments : <<C, B>> \notin R
  <2> HIDE DEF R, Segments
  <2>1. Segments # {}
    BY DEF Segments
  <2> QED BY <1>1, <1>2, <2>1, WFMin
<1>4. PICK x \in T : B = UpTo(x)
  BY <1>3
<1>5. \A y \in T : x =< y
  <2> SUFFICES ASSUME NEW y \in T, ~(x =< y) PROVE FALSE
    OBVIOUS
  <2>1. UpTo(y) \subseteq UpTo(x) /\ x \in UpTo(x) /\ x \notin UpTo(y) /\ UpTo(x) \subseteq T
    <3>1. x \in Nat /\ y \in Nat /\ ~(x <= y) /\ \A z \in T : z \in Nat
      OBVIOUS
    <3> HIDE DEF R, Segments
    <3>2. \A z \in T : z <= y => z <= x
      BY <3>1
    <3>3. x <= x
      BY <3>1
    <3> QED BY <3>1, <3>2, <3>3
  <2>2. <<UpTo(y), B>> \in R
    BY <2>1, <1>4 DEF StrictSubsetOrdering
  <2> QED BY <2>2, <1>3
<1> QED BY <1>5 DEF Min

LEMMA GreatestOf ==
  ASSUME NEW T, T \subseteq Nat, IsFiniteSet(T), T # {}
  PROVE  Max(T) \in T
<1> DEFINE From(x) == {y \in T : x <= y}
           R == StrictSubsetOrdering(T)
           Segments == {From(x) : x \in T}
<1>1. Segments \subseteq FiniteSubsetsOf(T)
  BY FS_Subset DEF FiniteSubsetsOf
<1>2. IsWellFoundedOn(R, FiniteSubsetsOf(T))
  BY FS_StrictSubsetOrderingWellFounded
<1>3. PICK B \in Segments : \A C \in Segments : <<C, B>> \notin R
  <2> HIDE DEF R, Segments
  <2>1. Segments # {}
    BY DEF Segments
  <2> QED BY <1>1, <1>2, <2>1, WFMin
<1>4. PICK x \in T : B = From(x)
  BY <1>3
<1>5. \A y \in T : x >= y
  <2> SUFFICES ASSUME NEW y \in T, ~(x >= y) PROVE FALSE
    OBVIOUS
  <2>1. From(y) \subseteq From(x) /\ x \in From(x) /\ x \notin From(y) /\ From(x) \subseteq T
    <3>1. x \in Nat /\ y \in Nat /\ ~(y <= x) /\ \A z \in T : z \in Nat
      OBVIOUS
    <3> HIDE DEF R, Segments
    <3>2. \A z \in T : y <= z => x <= z
      BY <3>1
    <3>3. x <= x
      BY <3>1
    <3> QED BY <3>1, <3>2, <3>3
  <2>2. <<From(y), B>> \in R
    BY <2>1, <1>4 DEF StrictSubsetOrdering
  <2> QED BY <2>2, <1>3
<1> QED BY <1>5 DEF Max

-----------------------------------------------------------------------------
(* Counts of the places that have each page, when places change.           *)
Spot == Tasks \X Places
With(a, p) == {x \in Spot : a[x] = p}
Counted(m, a) == \A p \in Pages : m[p] = Cardinality(With(a, p))

LEMMA SpotsFinite ==
  /\ IsFiniteSet(Spot) /\ IsFiniteSet(Places)
  /\ \A a, p : IsFiniteSet(With(a, p)) /\ Cardinality(With(a, p)) \in Nat
<1>1. IsFiniteSet(Virtual) /\ IsFiniteSet(Tasks)
  BY MemoryAssumption
<1>2. IsFiniteSet(Places)
  <2>1. IsFiniteSet(Virtual \cup {Dir})
    BY <1>1, FS_AddElement
  <2>2. IsFiniteSet(Virtual \cup {Dir} \cup {InHand})
    BY <2>1, FS_AddElement
  <2>3. IsFiniteSet(Virtual \cup {Dir} \cup {InHand} \cup {Outgoing})
    BY <2>2, FS_AddElement
  <2>4. Places = Virtual \cup {Dir} \cup {InHand} \cup {Outgoing}
    BY DEF Places
  <2> QED BY <2>3, <2>4
<1>3. IsFiniteSet(Spot)
  BY <1>1, <1>2, FS_Product DEF Spot
<1>4. ASSUME NEW a, NEW p PROVE IsFiniteSet(With(a, p)) /\ Cardinality(With(a, p)) \in Nat
  <2>1. With(a, p) \in SUBSET Spot
    BY DEF With
  <2> QED BY <1>3, <2>1, FS_Subset, FS_CardinalityType
<1> QED BY <1>2, <1>3, <1>4

LEMMA PageEntered ==
  ASSUME NEW m, NEW n, NEW a, NEW b, Counted(m, a),
         NEW x \in Spot, NEW p \in Pages, a[x] = NULL,
         \A y \in Spot : b[y] = IF y = x THEN p ELSE a[y],
         n[p] = m[p] + 1, \A q \in Pages : q # p => n[q] = m[q]
  PROVE  Counted(n, b)
<1> SUFFICES ASSUME NEW q \in Pages
             PROVE  n[q] = Cardinality(With(b, q))
  BY DEF Counted
<1>1. m[q] = Cardinality(With(a, q)) /\ IsFiniteSet(With(a, q)) /\ NULL \notin Pages
  BY SpotsFinite, MemoryAssumption DEF Counted
<1>2. CASE q = p
  <2>1. With(b, q) = With(a, q) \cup {x} /\ x \notin With(a, q)
    BY <1>1, <1>2 DEF With
  <2>2. Cardinality(With(a, q) \cup {x}) = Cardinality(With(a, q)) + 1
    BY <1>1, <2>1, FS_AddElement
  <2> QED BY <1>1, <1>2, <2>1, <2>2
<1>3. CASE q # p
  <2>1. With(b, q) = With(a, q)
    BY <1>1, <1>3 DEF With
  <2> QED BY <1>1, <1>3, <2>1
<1> QED BY <1>2, <1>3

LEMMA PageLeft ==
  ASSUME NEW m, NEW n, NEW a, NEW b, Counted(m, a),
         NEW x \in Spot, NEW p \in Pages, a[x] = p,
         \A y \in Spot : b[y] = IF y = x THEN NULL ELSE a[y],
         n[p] = m[p] - 1, \A q \in Pages : q # p => n[q] = m[q]
  PROVE  Counted(n, b)
<1> SUFFICES ASSUME NEW q \in Pages
             PROVE  n[q] = Cardinality(With(b, q))
  BY DEF Counted
<1>1. m[q] = Cardinality(With(a, q)) /\ IsFiniteSet(With(a, q)) /\ NULL \notin Pages
  BY SpotsFinite, MemoryAssumption DEF Counted
<1>2. CASE q = p
  <2>1. With(b, q) = With(a, q) \ {x} /\ x \in With(a, q)
    BY <1>1, <1>2 DEF With
  <2>2. Cardinality(With(a, q) \ {x}) = Cardinality(With(a, q)) - 1
    BY <1>1, <2>1, FS_RemoveElement
  <2> QED BY <1>1, <1>2, <2>1, <2>2
<1>3. CASE q # p
  <2>1. With(b, q) = With(a, q)
    BY <1>1, <1>3 DEF With
  <2> QED BY <1>1, <1>3, <2>1
<1> QED BY <1>2, <1>3

LEMMA PageMoved ==
  ASSUME NEW m \in [Pages -> Int], NEW a, NEW b, Counted(m, a),
         NEW x \in Spot, NEW y \in Spot, NEW p \in Pages, x # y, a[x] = p, a[y] = NULL,
         \A z \in Spot : b[z] = IF z = x THEN NULL ELSE IF z = y THEN p ELSE a[z]
  PROVE  Counted(m, b)
<1> DEFINE c == [z \in Spot |-> IF z = x THEN NULL ELSE a[z]]
           n == [m EXCEPT ![p] = @ - 1]
<1>1. /\ \A z \in Spot : c[z] = IF z = x THEN NULL ELSE a[z]
      /\ \A z \in Spot : b[z] = IF z = y THEN p ELSE c[z]
      /\ c[y] = NULL
  OBVIOUS
<1>2. /\ n[p] = m[p] - 1 /\ m[p] = n[p] + 1
      /\ \A q \in Pages : q # p => n[q] = m[q] /\ m[q] = n[q]
  OBVIOUS
<1> HIDE DEF c, n
<1>3. Counted(n, c)
  BY <1>1, <1>2, PageLeft
<1> QED BY <1>1, <1>2, <1>3, PageEntered

(* The places of one task are as many as their names.                      *)
LEMMA PlacesOfOne ==
  ASSUME NEW t \in Tasks, NEW W \in SUBSET Places
  PROVE  IsFiniteSet({t} \X W) /\ Cardinality({t} \X W) = Cardinality(W)
<1>1. IsFiniteSet(W)
  BY SpotsFinite, FS_Subset
<1> DEFINE f == [w \in W |-> <<t, w>>]
<1>2. f \in Bijection(W, {t} \X W)
  BY DEF Bijection, Injection, Surjection, IsInjective
<1>3. ExistsBijection(W, {t} \X W)
  BY <1>2 DEF ExistsBijection
<1> QED BY <1>1, <1>3, FS_Bijection

PlacesWith(a, t, W, p) == {w \in W : a[<<t, w>>] = p}

LEMMA PagesFreed ==
  ASSUME NEW m, NEW n, NEW a, NEW b, Counted(m, a),
         NEW t \in Tasks, NEW W \in SUBSET Places,
         \A u \in Tasks, w \in Places :
           b[<<u, w>>] = IF u = t /\ w \in W THEN NULL ELSE a[<<u, w>>],
         \A p \in Pages : n[p] = m[p] - Cardinality(PlacesWith(a, t, W, p))
  PROVE  Counted(n, b)
<1> SUFFICES ASSUME NEW p \in Pages
             PROVE  m[p] - Cardinality(PlacesWith(a, t, W, p)) = Cardinality(With(b, p))
  BY DEF Counted
<1> DEFINE V == {w \in W : a[<<t, w>>] = p}
<1>0. PlacesWith(a, t, W, p) = V
  BY DEF PlacesWith
<1>1. m[p] = Cardinality(With(a, p)) /\ IsFiniteSet(With(a, p)) /\ NULL \notin Pages
  BY SpotsFinite, MemoryAssumption DEF Counted
<1>2. With(b, p) = With(a, p) \ ({t} \X V)
  <2>1. \A y \in Spot : b[y] = p <=> a[y] = p /\ y \notin {t} \X V
    <3> SUFFICES ASSUME NEW u \in Tasks, NEW w \in Places
                 PROVE  b[<<u, w>>] = p <=> a[<<u, w>>] = p /\ ~(u = t /\ w \in V)
      BY DEF Spot
    <3> QED BY <1>1
  <2> HIDE DEF V
  <2> QED BY <2>1 DEF With
<1>3. With(a, p) \cap ({t} \X V) = {t} \X V
  BY DEF With, Spot
<1>4. Cardinality({t} \X V) = Cardinality(V)
  BY PlacesOfOne
<1> HIDE DEF V
<1>5. Cardinality(With(a, p) \ ({t} \X V)) = Cardinality(With(a, p)) - Cardinality(V)
  <2> DEFINE S == With(a, p)  T == {t} \X V
  <2>1. IsFiniteSet(S) /\ S \cap T = T /\ Cardinality(T) = Cardinality(V)
    BY <1>1, <1>3, <1>4
  <2> HIDE DEF S, T
  <2>2. Cardinality(S \ T) = Cardinality(S) - Cardinality(S \cap T)
    BY <2>1, FS_Difference
  <2>3. Cardinality(S \ T) = Cardinality(S) - Cardinality(V)
    BY <2>1, <2>2
  <2> QED BY <2>3 DEF S, T
<1> QED BY <1>0, <1>1, <1>2, <1>5

LEMMA PagesCopied ==
  ASSUME NEW m, NEW n, NEW a, NEW b, Counted(m, a),
         NEW t \in Tasks, NEW c \in Tasks, NEW W \in SUBSET Places,
         \A w \in W : a[<<c, w>>] = NULL,
         \A u \in Tasks, w \in Places :
           b[<<u, w>>] = IF u = c /\ w \in W THEN a[<<t, w>>] ELSE a[<<u, w>>],
         \A p \in Pages : n[p] = m[p] + Cardinality(PlacesWith(a, t, W, p))
  PROVE  Counted(n, b)
<1> SUFFICES ASSUME NEW p \in Pages
             PROVE  m[p] + Cardinality(PlacesWith(a, t, W, p)) = Cardinality(With(b, p))
  BY DEF Counted
<1> DEFINE V == {w \in W : a[<<t, w>>] = p}
<1>0. PlacesWith(a, t, W, p) = V
  BY DEF PlacesWith
<1>1. m[p] = Cardinality(With(a, p)) /\ IsFiniteSet(With(a, p)) /\ NULL \notin Pages
  BY SpotsFinite, MemoryAssumption DEF Counted
<1>2. With(b, p) = With(a, p) \cup ({c} \X V)
  <2>1. \A y \in Spot : y \in {c} \X W => /\ a[y] = NULL
                                          /\ (y \in {c} \X V <=> b[y] = p)
    <3> SUFFICES ASSUME NEW w \in W PROVE a[<<c, w>>] = NULL /\ (w \in V <=> b[<<c, w>>] = p)
      BY DEF Spot
    <3> QED OBVIOUS
  <2>2. \A y \in Spot : y \notin {c} \X W => b[y] = a[y] /\ y \notin {c} \X V
    <3> SUFFICES ASSUME NEW u \in Tasks, NEW w \in Places, ~(u = c /\ w \in W)
                 PROVE  b[<<u, w>>] = a[<<u, w>>] /\ ~(u = c /\ w \in V)
      BY DEF Spot
    <3> QED OBVIOUS
  <2>3. {c} \X V \subseteq Spot
    BY DEF Spot
  <2> HIDE DEF V
  <2> QED BY <1>1, <2>1, <2>2, <2>3 DEF With
<1>3. With(a, p) \cap ({c} \X V) = {}
  <2>1. \A w \in V : a[<<c, w>>] # p
    BY <1>1
  <2> QED BY <2>1 DEF With
<1>4. IsFiniteSet({c} \X V) /\ Cardinality({c} \X V) = Cardinality(V) /\ Cardinality(V) \in Nat
  <2>1. V \in SUBSET Places
    OBVIOUS
  <2>2. IsFiniteSet(V)
    BY <2>1, SpotsFinite, FS_Subset
  <2> HIDE DEF V
  <2> QED BY <2>1, <2>2, PlacesOfOne, FS_CardinalityType
<1> HIDE DEF V
<1>5. Cardinality(With(a, p) \cup ({c} \X V)) = Cardinality(With(a, p)) + Cardinality(V)
  <2> DEFINE S == With(a, p)  T == {c} \X V
  <2>1. IsFiniteSet(S) /\ IsFiniteSet(T) /\ Cardinality(S) \in Nat /\ S \cap T = {}
        /\ Cardinality(T) = Cardinality(V) /\ Cardinality(V) \in Nat
    BY <1>1, <1>3, <1>4, SpotsFinite
  <2> HIDE DEF S, T
  <2>2. Cardinality(S \cup T) = Cardinality(S) + Cardinality(T) - Cardinality(S \cap T)
    BY <2>1, FS_Union
  <2>3. Cardinality(S \cap T) = 0
    BY <2>1, FS_EmptySet
  <2>4. Cardinality(S \cup T) = Cardinality(S) + Cardinality(V)
    BY <2>1, <2>2, <2>3
  <2> QED BY <2>4 DEF S, T
<1> QED BY <1>0, <1>1, <1>2, <1>5

(* A page that is counted once is in one place, and one that is not        *)
(* counted in none.                                                        *)
LEMMA CountedOnce ==
  ASSUME NEW m, NEW a, Counted(m, a), NEW p \in Pages
  PROVE  /\ m[p] = 0 => \A x \in Spot : a[x] # p
         /\ m[p] = 1 => \A x, y \in Spot : a[x] = p /\ a[y] = p => x = y
<1>1. m[p] = Cardinality(With(a, p)) /\ IsFiniteSet(With(a, p))
  BY SpotsFinite DEF Counted
<1>2. m[p] = 0 => With(a, p) = {}
  BY <1>1, FS_EmptySet
<1>3. m[p] = 1 => \E x : With(a, p) = {x}
  BY <1>1, FS_Singleton
<1> QED BY <1>2, <1>3 DEF With

-----------------------------------------------------------------------------
(* What place has which page.                                              *)
pages == [x \in Spot |-> PageAt(x[1], x[2])]

LEMMA PlacesAre ==
  /\ Virtual \subseteq Places /\ {Dir, InHand, Outgoing} \subseteq Places
  /\ Dir # InHand /\ Dir # Outgoing /\ InHand # Outgoing
  /\ \A w \in Virtual : w \in Nat /\ w # NULL /\ w # Dir /\ w # InHand /\ w # Outgoing
  /\ \A w \in Places : w \in Virtual \/ w = Dir \/ w = InHand \/ w = Outgoing
  /\ NULL \notin Pages /\ NULL \notin SwapPages /\ NULL \notin Tasks
BY MemoryAssumption DEF Places, Dir, InHand, Outgoing, NULL

LEMMA PageIs ==
  ASSUME NEW t
  PROVE  /\ PageAt(t, Dir) = dir[t] /\ PageAt(t, InHand) = fault[t].held
         /\ PageAt(t, Outgoing) = fault[t].out
         /\ \A w \in Virtual : PageAt(t, w) = pte[t][w].page
         /\ PageAt(t, Dir)' = dir'[t] /\ PageAt(t, InHand)' = fault'[t].held
         /\ PageAt(t, Outgoing)' = fault'[t].out
         /\ \A w \in Virtual : PageAt(t, w)' = pte'[t][w].page
<1>1. \A w \in Virtual : w # Dir /\ w # InHand /\ w # Outgoing
  BY PlacesAre
<1>2. Dir # InHand /\ Dir # Outgoing /\ InHand # Outgoing
  BY PlacesAre
<1> QED BY <1>1, <1>2 DEF PageAt

LEMMA PlacesSame ==
  ASSUME NEW u, dir'[u] = dir[u], fault'[u] = fault[u],
         \A w \in Virtual : pte'[u][w].page = pte[u][w].page /\ pte'[u][w].rw = pte[u][w].rw
  PROVE  \A w \in Places : PageAt(u, w)' = PageAt(u, w) /\ (Private(u, w)' <=> Private(u, w))
<1> SUFFICES ASSUME NEW w \in Places
             PROVE  PageAt(u, w)' = PageAt(u, w) /\ (Private(u, w)' <=> Private(u, w))
  OBVIOUS
<1>1. PageAt(u, w)' = PageAt(u, w)
  BY PageIs, PlacesAre
<1> QED BY <1>1, PlacesAre DEF Private

LEMMA PagesAre ==
  /\ pages \in [Spot -> {PageAt(x[1], x[2]) : x \in Spot}]
  /\ \A t \in Tasks, w \in Places : <<t, w>> \in Spot /\ pages[<<t, w>>] = PageAt(t, w)
                                    /\ pages'[<<t, w>>] = PageAt(t, w)'
  /\ \A x \in Spot : x[1] \in Tasks /\ x[2] \in Places /\ x = <<x[1], x[2]>>
BY DEF pages, Spot

LEMMA CountsAre ==
  (CountsMappings <=> Counted(mem_map, pages)) /\ (CountsMappings' <=> Counted(mem_map', pages'))
<1>1. \A p : UsesOf(p) = With(pages, p)
  BY DEF UsesOf, With, pages, Spot
<1>2. \A p : UsesOf(p)' = With(pages', p)
  BY DEF UsesOf, With, pages, Spot
<1> QED BY <1>1, <1>2 DEF CountsMappings, Counted

(* get_free_page gives a page that is in no place.                         *)
LEMMA NewPageIsFree ==
  ASSUME Types, CountsMappings, FreePages # {}
  PROVE  /\ NewPage \in Pages /\ mem_map[NewPage] = 0 /\ NewPage # NULL
         /\ \A t \in Tasks, w \in Places : PageAt(t, w) # NewPage
<1>1. FreePages \subseteq Pages /\ IsFiniteSet(FreePages) /\ FreePages \subseteq Nat
  BY MemoryAssumption, FS_Subset DEF FreePages
<1>2. NewPage \in FreePages
  BY <1>1, GreatestOf DEF NewPage
<1>3. NewPage \in Pages /\ mem_map[NewPage] = 0
  BY <1>2 DEF FreePages
<1>4. \A x \in Spot : pages[x] # NewPage
  BY <1>3, CountsAre, CountedOnce
<1> QED BY <1>3, <1>4, PagesAre, PlacesAre

(* A page that is counted once is in one place.                            *)
LEMMA OnlyUse ==
  ASSUME CountsMappings, NEW p \in Pages, mem_map[p] = 1,
         NEW t \in Tasks, NEW w \in Places, PageAt(t, w) = p,
         NEW u \in Tasks, NEW x \in Places, PageAt(u, x) = p
  PROVE  u = t /\ x = w
<1>1. \A y, z \in Spot : pages[y] = p /\ pages[z] = p => y = z
  BY CountsAre, CountedOnce
<1>2. <<t, w>> = <<u, x>>
  <2>1. /\ <<t, w>> \in Spot /\ pages[<<t, w>>] = p
        /\ <<u, x>> \in Spot /\ pages[<<u, x>>] = p
    BY PagesAre
  <2> QED BY <1>1, <2>1
<1> QED BY <1>2

-----------------------------------------------------------------------------
(* What other tasks may rely on while they sleep.                          *)
KeptFor(u) ==
  \A w \in Virtual :
    /\ Seen(u, w)' = Seen(u, w)
    /\ Empty(u, w) => Empty(u, w)'
    /\ pte[u][w].nr # NULL => pte'[u][w].nr = pte[u][w].nr /\ pte'[u][w].page = NULL
                              /\ swap'[pte[u][w].nr] = swap[pte[u][w].nr]
HeldKept(u) == fault[u].held # NULL => content'[fault[u].held] = content[fault[u].held]

(* The fault of u goes on, or u sleeps and others do something.            *)
GoesOn(u) ==
  LET f == fault[u]  g == fault'[u] IN
  /\ g.goal = f.goal /\ g.v = f.v /\ g.held = f.held /\ g.other = f.other
  /\ g.at = "copy" <=> f.at = "copy"
  /\ Shape(g) /\ (g.at \in Kernel <=> cpu' = u)

LEMMA SleeperFits ==
  ASSUME NEW u \in Tasks, FaultFits(u), GoesOn(u), fault[u].goal \notin Shares,
         HeldKept(u), dir'[u] = dir[u], KeptFor(u)
  PROVE  FaultFits(u)'
<1> DEFINE f == fault[u]  g == fault'[u]
<1>1. /\ g.goal = f.goal /\ g.v = f.v /\ g.held = f.held /\ g.other = f.other
      /\ (g.at = "copy" <=> f.at = "copy") /\ Shape(g) /\ (g.at \in Kernel <=> cpu' = u)
  BY DEF GoesOn
<1>2. f.goal \in Fills \/ Swapping(f) => f.v \in Virtual
  <2>1. Shape(f)
    BY DEF FaultFits
  <2>2. f.goal \in Fills => f.at # "copy" /\ f.goal # "fork" /\ f.goal \in Goals
    BY <2>1 DEF Shape, Fills, Forks, Goals
  <2>3. Swapping(f) => f.goal # "fork" /\ f.at # "copy" /\ f.goal \in Goals
    BY <2>1 DEF Shape, Swapping, Forks, Goals
  <2> QED BY <2>1, <2>2, <2>3 DEF Shape
<1>3. Swapping(g) <=> Swapping(f)
  BY <1>1 DEF Swapping
<1>4. ASSUME f.goal \in Fills
      PROVE  Empty(u, f.v)' /\ (f.held # NULL => content'[f.held] = First(f.v))
  <2>1. Empty(u, f.v) /\ (f.held # NULL => content[f.held] = First(f.v))
    BY <1>4 DEF FaultFits
  <2>2. \A w \in Virtual : Empty(u, w) => Empty(u, w)'
    BY DEF KeptFor
  <2>3. f.held # NULL => content'[f.held] = content[f.held]
    BY DEF HeldKept
  <2>4. Empty(u, f.v)'
    <3>1. pte'[u][f.v].page = NULL /\ pte'[u][f.v].nr = NULL
      BY <1>2, <1>4, <2>1, <2>2 DEF Empty
    <3> QED BY <1>1, <3>1 DEF Empty
  <2> QED BY <2>1, <2>3, <2>4
<1>5. ASSUME Swapping(f)
      PROVE  /\ pte'[u][f.v].nr # NULL
             /\ f.held # NULL => content'[f.held] = swap'[pte'[u][f.v].nr]
  <2>1. pte[u][f.v].nr # NULL /\ (f.held # NULL => content[f.held] = swap[pte[u][f.v].nr])
    BY <1>5 DEF FaultFits
  <2>2. \A w \in Virtual : pte[u][w].nr # NULL =>
          pte'[u][w].nr = pte[u][w].nr /\ swap'[pte[u][w].nr] = swap[pte[u][w].nr]
    BY DEF KeptFor
  <2>3. f.held # NULL => content'[f.held] = content[f.held]
    BY DEF HeldKept
  <2>4. pte'[u][f.v].nr = pte[u][f.v].nr /\ swap'[pte[u][f.v].nr] = swap[pte[u][f.v].nr]
    BY <1>2, <1>5, <2>1, <2>2
  <2> QED BY <2>1, <2>3, <2>4
<1>6. f.goal = "table" => dir'[u] = NULL
  BY DEF FaultFits
<1> QED BY <1>1, <1>3, <1>4, <1>5, <1>6 DEF FaultFits, Shares

LEMMA RestIs ==
  /\ \A f \in {User, Gone} : f.goal = "none" /\ f.v = NULL /\ f.held = NULL /\ f.out = NULL
                             /\ f.other = NULL
  /\ User.at = "user" /\ Gone.at = "gone"
BY DEF User, Gone

LEMMA RestFits ==
  ASSUME NEW u \in Tasks, fault'[u] \in {User, Gone}, cpu' # u
  PROVE  FaultFits(u)' /\ ForkFits(u)' /\ ~Forking(u)'
<1>1. ~Forking(u)'
  BY RestIs DEF Forking, Forks
<1>2. \A f \in {User, Gone} :
         Shape(f) /\ ~Swapping(f) /\ f.at \notin Kernel /\ f.goal = "none"
  <2>1. \A f \in {User, Gone} :
          /\ f.goal = "none" /\ f.held = NULL /\ f.out = NULL
          /\ (f.at = "user" /\ f = User) \/ (f.at = "gone" /\ f = Gone)
    BY RestIs
  <2> QED BY <2>1 DEF Shape, Swapping, Kernel, Requests, HasPage, Forks, Shares, Goals, Fills
<1> QED BY <1>1, <1>2 DEF FaultFits, ForkFits, Fills

LEMMA ForkerFits ==
  ASSUME NEW u \in Tasks, ForkFits(u), GoesOn(u), want'[u] = want[u],
         Forking(u) => /\ KeptFor(fault[u].other) /\ fault'[fault[u].other] = fault[fault[u].other]
                       /\ dir'[fault[u].other] = dir[fault[u].other]
  PROVE  ForkFits(u)'
<1>1. /\ fault'[u].goal = fault[u].goal /\ fault'[u].v = fault[u].v
      /\ fault'[u].other = fault[u].other /\ (fault'[u].at = "copy" <=> fault[u].at = "copy")
  BY DEF GoesOn
<1> SUFFICES ASSUME Forking(u)' PROVE ForkFits(u)'
  BY DEF ForkFits
<1>2. Forking(u)
  BY <1>1 DEF Forking
<1> DEFINE c == fault[u].other
<1>3. /\ c \in Tasks /\ fault'[c] = Gone
      /\ fault[u].goal = "fork" /\ fault[u].at # "copy" => dir'[c] = NULL
  BY <1>2 DEF ForkFits
<1>4. \A w \in Virtual : IF w < fault[u].v THEN Seen(c, w)' = want'[u][w] ELSE Empty(c, w)'
  BY <1>2 DEF ForkFits, KeptFor
<1> QED BY <1>1, <1>3, <1>4 DEF ForkFits

(* A step of one task that leaves the family as it is.                     *)
Child(t) == {c \in Tasks : Forking(t) /\ c = fault[t].other}
LEMMA OthersFit ==
  ASSUME IInv, NEW t \in Tasks, cpu \in {t, NULL}, cpu' \in {t, NULL},
         \A u \in Tasks \ {t} : fault'[u] = fault[u] /\ want'[u] = want[u] /\ HeldKept(u),
         fault[t].at # "gone", fault'[t].at # "gone",
         Forking(t)' <=> Forking(t), Forking(t) => fault'[t].other = fault[t].other,
         \A u \in Tasks \ ({t} \cup Child(t)) : dir'[u] = dir[u] /\ KeptFor(u),
         FaultFits(t)', ForkFits(t)', \A w \in Virtual : Seen(t, w)' = want'[t][w]
  PROVE  /\ \A u \in Tasks : FaultFits(u)' /\ ForkFits(u)'
         /\ ChildrenApart' /\ GoneFits' /\ OwnContents'
<1>1. /\ Types /\ ChildrenApart /\ GoneFits /\ OwnContents
      /\ \A u \in Tasks : FaultFits(u) /\ ForkFits(u) /\ fault[u] \in Faults
      /\ NULL \notin Tasks
  BY PlacesAre DEF IInv, Types
<1>2. \A c \in Child(t) : fault[c] = Gone /\ c # t
  BY <1>1 DEF Child, ForkFits, Gone, User
<1>3. ASSUME NEW u \in Tasks PROVE FaultFits(u)' /\ ForkFits(u)'
  <2>1. CASE u = t
    BY <2>1
  <2>2. CASE u \in Child(t)
    <3>1. fault'[u] = Gone /\ cpu' # u
      BY <1>1, <1>2, <2>2
    <3> QED BY <3>1, RestFits
  <2>3. CASE u \in Tasks \ ({t} \cup Child(t))
    <3>1. /\ fault'[u] = fault[u] /\ want'[u] = want[u] /\ HeldKept(u) /\ dir'[u] = dir[u] /\ KeptFor(u)
          /\ cpu # u /\ cpu' # u
      BY <1>1, <2>3
    <3>2. FaultFits(u)' /\ GoesOn(u)
      <4>1. Shape(fault[u]) /\ fault[u].at \notin Kernel
        BY <1>1, <3>1 DEF FaultFits
      <4>2. fault[u].goal \notin Shares
        BY <4>1 DEF Shape, Kernel
      <4>3. GoesOn(u)
        BY <3>1, <4>1 DEF GoesOn
      <4> QED BY <1>1, <3>1, <4>2, <4>3, SleeperFits
    <3>3. Forking(u) => LET c == fault[u].other IN KeptFor(c) /\ fault'[c] = fault[c] /\ dir'[c] = dir[c]
      <4> SUFFICES ASSUME Forking(u)
                   PROVE  LET c == fault[u].other
                          IN  KeptFor(c) /\ fault'[c] = fault[c] /\ dir'[c] = dir[c]
        OBVIOUS
      <4>1. fault[u].other \in Tasks /\ fault[fault[u].other].at = "gone"
        BY <1>1 DEF ForkFits, Gone, User
      <4>2. fault[u].other \notin Child(t)
        BY <1>1, <2>3 DEF Child, ChildrenApart
      <4> QED BY <4>1, <4>2
    <3> QED BY <1>1, <3>1, <3>2, <3>3, ForkerFits
  <2> QED BY <2>1, <2>2, <2>3
<1>4. \A u \in Tasks : /\ Forking(u)' <=> Forking(u)
                       /\ Forking(u) => fault'[u].other = fault[u].other
  BY DEF Forking
<1>5. ChildrenApart'
  BY <1>1, <1>4 DEF ChildrenApart
<1>6. GoneFits'
  <2> SUFFICES ASSUME NEW c \in Tasks, fault'[c].at = "gone",
                      \A u \in Tasks : Forking(u)' => fault'[u].other # c
               PROVE  dir'[c] = NULL /\ \A v \in Virtual : Empty(c, v)'
    BY DEF GoneFits
  <2>1. c # t /\ fault[c].at = "gone" /\ \A u \in Tasks : Forking(u) => fault[u].other # c
    BY <1>4
  <2>2. dir[c] = NULL /\ \A v \in Virtual : Empty(c, v)
    BY <1>1, <2>1 DEF GoneFits
  <2>3. c \notin Child(t)
    BY <2>1 DEF Child
  <2> QED BY <2>1, <2>2, <2>3 DEF KeptFor
<1>7. OwnContents'
  <2> SUFFICES ASSUME NEW u \in Tasks, NEW v \in Virtual, fault'[u].at # "gone"
               PROVE  Seen(u, v)' = want'[u][v]
    BY DEF OwnContents
  <2>1. CASE u = t
    BY <2>1
  <2>2. CASE u # t
    <3>1. fault[u].at # "gone" /\ u \notin Child(t) /\ want'[u] = want[u]
      BY <1>2, <2>2 DEF Gone, User
    <3>2. Seen(u, v)' = Seen(u, v)
      BY <2>2, <3>1 DEF KeptFor
    <3>3. Seen(u, v) = want[u][v]
      BY <1>1, <3>1 DEF OwnContents
    <3> QED BY <3>1, <3>2, <3>3
  <2> QED BY <2>1, <2>2
<1> QED BY <1>3, <1>5, <1>6, <1>7

(* Places get and lose pages: what must hold of those that got one.        *)
LEMMA PrivateStay ==
  ASSUME PrivatePages, EntriesFit, NEW K \in SUBSET Spot,
         \A u \in Tasks, w \in Places : <<u, w>> \notin K =>
           /\ PageAt(u, w)' \in {PageAt(u, w), NULL}
           /\ Private(u, w)' => Private(u, w) /\ PageAt(u, w)' = PageAt(u, w),
         \A t, u \in Tasks, w, x \in Places :
           <<t, w>> \in K /\ PageAt(u, x)' = PageAt(t, w)' /\ <<u, x>> # <<t, w>>
             => ~Private(t, w)' /\ ~Private(u, x)'
  PROVE  PrivatePages'
<1> SUFFICES ASSUME NEW t \in Tasks, NEW u \in Tasks, NEW w \in Places, NEW x \in Places,
                    Private(t, w)', PageAt(u, x)' = PageAt(t, w)'
             PROVE  u = t /\ x = w
  BY DEF PrivatePages
<1>1. CASE <<t, w>> \in K \/ <<u, x>> \in K
  BY <1>1
<1>2. CASE <<t, w>> \notin K /\ <<u, x>> \notin K
  <2>1. Private(t, w) /\ PageAt(t, w)' = PageAt(t, w)
    BY <1>2
  <2>2. PageAt(t, w) # NULL
    BY <2>1, PageIs, PlacesAre DEF Private, EntriesFit, EntryFits
  <2>3. PageAt(u, x)' = PageAt(u, x)
    BY <1>2, <2>1, <2>2
  <2>4. PageAt(u, x) = PageAt(t, w)
    BY <2>1, <2>3
  <2>5. \A y, z \in Tasks, p, q \in Places :
          Private(y, p) /\ PageAt(z, q) = PageAt(y, p) => z = y /\ q = p
    BY DEF PrivatePages
  <2> QED BY <2>1, <2>4, <2>5
<1> QED BY <1>1, <1>2

LEMMA PrivateLeft ==
  ASSUME PrivatePages, EntriesFit,
         \A u \in Tasks, w \in Places :
           /\ PageAt(u, w)' \in {PageAt(u, w), NULL}
           /\ Private(u, w)' => Private(u, w) /\ PageAt(u, w)' = PageAt(u, w)
  PROVE  PrivatePages'
<1> DEFINE K == {}
<1>1. K \in SUBSET Spot /\ \A x : x \notin K
  OBVIOUS
<1> HIDE DEF K
<1> QED BY <1>1, PrivateStay

LEMMA SwapStays ==
  ASSUME SwapApart, swap_bitmap' = swap_bitmap,
         \A t \in Tasks, v \in Virtual : pte'[t][v].nr = pte[t][v].nr
  PROVE  SwapApart'
BY DEF SwapApart

(* A task whose entries stay, with what is in their pages.                 *)
LEMMA KeptIf ==
  ASSUME NEW u \in Tasks, EntriesFit,
         \A w \in Virtual : /\ pte'[u][w].page = pte[u][w].page /\ pte'[u][w].nr = pte[u][w].nr
                            /\ pte[u][w].page # NULL
                                 => content'[pte[u][w].page] = content[pte[u][w].page]
                            /\ pte[u][w].nr # NULL => swap'[pte[u][w].nr] = swap[pte[u][w].nr]
  PROVE  KeptFor(u)
<1> SUFFICES ASSUME NEW w \in Virtual
             PROVE  /\ Seen(u, w)' = Seen(u, w)
                    /\ Empty(u, w) => Empty(u, w)'
                    /\ pte[u][w].nr # NULL => /\ pte'[u][w].nr = pte[u][w].nr
                                              /\ pte'[u][w].page = NULL
                                              /\ swap'[pte[u][w].nr] = swap[pte[u][w].nr]
  BY DEF KeptFor
<1>1. pte[u][w].page # NULL => pte[u][w].nr = NULL
  BY DEF EntriesFit, EntryFits
<1> QED BY <1>1 DEF Seen, Present, Empty

LEMMA SeenSame ==
  ASSUME NEW u, NEW w, pte'[u][w] = pte[u][w], content' = content, swap' = swap
  PROVE  Seen(u, w)' = Seen(u, w)
BY DEF Seen, Present

-----------------------------------------------------------------------------
(* What the invariant says of one task, entry or page.                     *)
LEMMA Known ==
  ASSUME IInv
  PROVE  /\ Types /\ CountsMappings /\ EntriesFit /\ PrivatePages /\ SwapApart
         /\ ChildrenApart /\ GoneFits /\ OwnContents
         /\ \A u \in Tasks : /\ FaultFits(u) /\ ForkFits(u) /\ fault[u] \in Faults /\ Shape(fault[u])
                             /\ fault[u].at \in Kernel <=> cpu = u
                             /\ dir[u] \in Pages \cup {NULL}
         /\ \A u \in Tasks, w \in Virtual : pte[u][w] \in Entries /\ EntryFits(u, w)
         /\ NULL \notin Tasks /\ NULL \notin Pages /\ NULL \notin SwapPages
BY PlacesAre DEF IInv, Types, FaultFits, EntriesFit

(* A task in user mode, and nobody in the kernel.                          *)
LEMMA UserIs ==
  ASSUME IInv, NEW t \in Tasks, InUserMode(t)
  PROVE  /\ cpu = NULL /\ fault[t] = User /\ User.at # "gone" /\ ~Forking(t) /\ Child(t) = {}
         /\ \A w \in Virtual : Seen(t, w) = want[t][w]
<1>1. cpu = NULL /\ fault[t] = User
  BY Known DEF InUserMode, Shape
<1>2. ~Forking(t)
  BY <1>1 DEF Forking, User, Forks
<1>3. \A w \in Virtual : Seen(t, w) = want[t][w]
  BY <1>1, Known DEF OwnContents, User
<1> QED BY <1>1, <1>2, <1>3 DEF Child, User

(* An assignment to one entry.                                             *)
LEMMA EntrySet ==
  ASSUME NEW t \in Tasks, NEW v \in Virtual, NEW e \in Entries,
         pte \in [Tasks -> [Virtual -> Entries]], pte' = [pte EXCEPT ![t][v] = e]
  PROVE  /\ pte' \in [Tasks -> [Virtual -> Entries]] /\ pte'[t][v] = e
         /\ \A u \in Tasks, w \in Virtual : <<u, w>> # <<t, v>> => pte'[u][w] = pte[u][w]
<1>1. pte' = [u \in Tasks |-> IF u = t THEN [pte[t] EXCEPT ![v] = e] ELSE pte[u]]
  OBVIOUS
<1>2. [pte[t] EXCEPT ![v] = e] \in [Virtual -> Entries]
  OBVIOUS
<1>3. pte' \in [Tasks -> [Virtual -> Entries]]
  BY <1>1, <1>2
<1> QED BY <1>1, <1>3

LEMMA StoreKeeps ==
  ASSUME IInv, NEW t \in Tasks, NEW v \in Virtual, Store(t, v)
  PROVE  IInv'
<1> DEFINE q == pte[t][v].page
<1>1. /\ InUserMode(t) /\ Present(t, v) /\ pte[t][v].rw
      /\ content' = [content EXCEPT ![q] = t]
      /\ pte' = [pte EXCEPT ![t][v].dirty = TRUE]
      /\ want' = [want EXCEPT ![t][v] = t]
      /\ UNCHANGED <<mem_map, dir, swap_bitmap, swap, fault, cpu>>
  BY DEF Store
<1>2. /\ cpu = NULL /\ fault[t] = User /\ ~Forking(t) /\ Child(t) = {} /\ t \in Nat
      /\ \A w \in Virtual : Seen(t, w) = want[t][w]
  BY <1>1, UserIs, MemoryAssumption
<1>3. /\ pte' \in [Tasks -> [Virtual -> Entries]]
      /\ pte'[t][v] = [pte[t][v] EXCEPT !.dirty = TRUE]
      /\ \A u \in Tasks, w \in Virtual : <<u, w>> # <<t, v>> => pte'[u][w] = pte[u][w]
  <2> DEFINE e == [pte[t][v] EXCEPT !.dirty = TRUE]
  <2>1. e \in Entries /\ pte \in [Tasks -> [Virtual -> Entries]]
    <3>1. pte[t][v] \in Entries /\ Types
      BY Known
    <3> QED BY <3>1 DEF Types, Entries
  <2>2. pte' = [pte EXCEPT ![t][v] = e]
    BY <1>1
  <2> HIDE DEF e
  <2>3. /\ pte' \in [Tasks -> [Virtual -> Entries]] /\ pte'[t][v] = e
        /\ \A u \in Tasks, w \in Virtual : <<u, w>> # <<t, v>> => pte'[u][w] = pte[u][w]
    BY <2>1, <2>2, EntrySet
  <2> QED BY <2>3 DEF e
<1>4. q \in Pages /\ v \in Places
  BY <1>1, Known, PlacesAre DEF Present, Entries
<1>5. Types'
  BY <1>1, <1>2, <1>3, <1>4, Known DEF Types
<1>6. \A u \in Tasks, w \in Virtual :
        /\ pte'[u][w].page = pte[u][w].page /\ pte'[u][w].nr = pte[u][w].nr
        /\ pte'[u][w].rw = pte[u][w].rw
        /\ <<u, w>> # <<t, v>> => pte'[u][w].dirty = pte[u][w].dirty
  BY <1>3, Known DEF Entries
<1>7. \A u \in Tasks, w \in Places :
        PageAt(u, w)' = PageAt(u, w) /\ (Private(u, w)' <=> Private(u, w))
  <2>1. fault' = fault /\ dir' = dir
    BY <1>1
  <2> QED BY <1>6, <2>1, PlacesSame
<1>8. \A u \in Tasks, w \in Places : <<u, w>> # <<t, v>> => PageAt(u, w) # q
  <2>1. Private(t, v) /\ PageAt(t, v) = q
    BY <1>1, <1>4, PageIs, PlacesAre DEF Private
  <2> QED BY <1>4, <2>1, Known DEF PrivatePages
<1>9. CountsMappings' /\ PrivatePages'
  <2>1. pages' = pages
    BY <1>7 DEF pages, Spot
  <2> QED BY <1>1, <1>7, <2>1, Known, CountsAre DEF PrivatePages
<1>10. SwapApart'
  BY <1>1, <1>6, Known, SwapStays
<1>11. \A u \in Tasks, w \in Virtual : <<u, w>> # <<t, v>> /\ pte[u][w].page # NULL
         => content'[pte[u][w].page] = content[pte[u][w].page]
  BY <1>1, <1>4, <1>8, Known, PageIs, PlacesAre DEF Types
<1>12. EntriesFit'
  BY <1>3, <1>6, <1>11, Known DEF EntriesFit, EntryFits, Entries
<1>13. \A u \in Tasks \ {t} : fault'[u] = fault[u] /\ want'[u] = want[u] /\ HeldKept(u)
  BY <1>1, <1>4, <1>8, Known, PageIs, PlacesAre DEF Types, HeldKept
<1>14. \A u \in Tasks \ {t} : KeptFor(u)
  BY <1>1, <1>6, <1>11, Known, KeptIf
<1>15. \A w \in Virtual : Seen(t, w)' = want'[t][w]
  BY <1>1, <1>2, <1>4, <1>6, <1>11, Known DEF Seen, Present, Types
<1>16. fault'[t] = User /\ cpu' # t
  BY <1>1, <1>2, Known
<1> QED
  <2>1. /\ \A u \in Tasks : FaultFits(u)' /\ ForkFits(u)'
        /\ ChildrenApart' /\ GoneFits' /\ OwnContents'
    <3>1. FaultFits(t)' /\ ForkFits(t)' /\ ~Forking(t)'
      BY <1>16, RestFits
    <3>2. fault[t].at # "gone" /\ fault'[t].at # "gone" /\ cpu' \in {t, NULL} /\ cpu \in {t, NULL}
      BY <1>1, <1>2 DEF User
    <3>3. \A u \in Tasks : dir'[u] = dir[u]
      BY <1>1
    <3> QED BY <1>2, <1>13, <1>14, <1>15, <3>1, <3>2, <3>3, OthersFit
  <2> QED BY <1>5, <1>9, <1>10, <1>12, <2>1 DEF IInv

-----------------------------------------------------------------------------
(* A step of a task's fault that leaves the memory alone.                  *)
LEMMA OnlyFault ==
  ASSUME IInv, NEW t \in Tasks, NEW f \in Faults,
         cpu \in {t, NULL}, cpu' \in {t, NULL}, fault' = [fault EXCEPT ![t] = f],
         UNCHANGED <<mem_map, content, dir, pte, swap_bitmap, swap, want>>,
         f.held = fault[t].held, f.out = fault[t].out, fault[t].at # "gone", f.at # "gone",
         Forking(t)' <=> Forking(t), Forking(t) => f.other = fault[t].other,
         FaultFits(t)', ForkFits(t)'
  PROVE  IInv'
<1>1. /\ fault'[t] = f /\ \A u \in Tasks \ {t} : fault'[u] = fault[u]
      /\ fault' \in [Tasks -> Faults]
  BY Known DEF Types
<1>2. Types'
  BY <1>1, Known DEF Types
<1>3. \A u \in Tasks, w \in Places : PageAt(u, w)' = PageAt(u, w) /\ (Private(u, w)' <=> Private(u, w))
  <2> SUFFICES ASSUME NEW u \in Tasks, NEW w \in Places
               PROVE  PageAt(u, w)' = PageAt(u, w) /\ (Private(u, w)' <=> Private(u, w))
    OBVIOUS
  <2>1. fault'[u].held = fault[u].held /\ fault'[u].out = fault[u].out
    BY <1>1
  <2>2. PageAt(u, w)' = PageAt(u, w)
    BY <2>1, PageIs, PlacesAre
  <2> QED BY <2>1, <2>2 DEF Private
<1>4. CountsMappings' /\ PrivatePages'
  <2>1. pages' = pages
    BY <1>3 DEF pages, Spot
  <2> QED BY <1>3, <2>1, Known, CountsAre DEF PrivatePages
<1>5. SwapApart' /\ EntriesFit'
  BY Known DEF SwapApart, EntriesFit, EntryFits
<1>6. \A u \in Tasks : KeptFor(u) /\ HeldKept(u) /\ dir'[u] = dir[u] /\ want'[u] = want[u]
  BY Known, KeptIf DEF HeldKept
<1>7. \A u \in Tasks : FaultFits(u)' /\ ForkFits(u)'
  <2>1. \A w \in Virtual : Seen(t, w)' = want'[t][w]
    <3>1. \A w \in Virtual : Seen(t, w)' = Seen(t, w) /\ Seen(t, w) = want[t][w]
      BY Known DEF OwnContents, Seen, Present
    <3> QED BY <3>1
  <2> QED BY <1>1, <1>6, <2>1, OthersFit
<1>8. ChildrenApart' /\ GoneFits' /\ OwnContents'
  <2>1. \A w \in Virtual : Seen(t, w)' = want'[t][w]
    <3>1. \A w \in Virtual : Seen(t, w)' = Seen(t, w) /\ Seen(t, w) = want[t][w]
      BY Known DEF OwnContents, Seen, Present
    <3> QED BY <3>1
  <2> QED BY <1>1, <1>6, <2>1, OthersFit
<1> QED BY <1>2, <1>4, <1>5, <1>7, <1>8 DEF IInv

(* A fault begins.                                                         *)
LEMMA CallIs ==
  ASSUME IInv, NEW t \in Tasks, InUserMode(t), NEW goal \in Goals, NEW v \in Nat, NEW other \in Nat,
         Call(t, goal, v, other)
  PROVE  \E f \in Faults :
           /\ f.at = "alloc" /\ f.goal = goal /\ f.v = v /\ f.other = other /\ f.held = NULL /\ f.out = NULL
           /\ cpu' = t /\ fault' = [fault EXCEPT ![t] = f] /\ fault'[t] = f
           /\ \A u \in Tasks \ {t} : fault'[u] = fault[u]
<1> DEFINE f == [fault[t] EXCEPT !.at = "alloc", !.goal = goal, !.v = v, !.other = other]
<1>1. cpu' = t /\ fault' = [fault EXCEPT ![t] = f]
  BY DEF Call, Enter
<1>2. fault[t] \in Faults /\ fault[t].held = NULL /\ fault[t].out = NULL /\ fault \in [Tasks -> Faults]
  BY Known, UserIs, RestIs DEF Types
<1>3. f \in Faults
  BY <1>2 DEF Faults, Labels, Kernel
<1>4. f.at = "alloc" /\ f.goal = goal /\ f.v = v /\ f.other = other /\ f.held = NULL /\ f.out = NULL
  BY <1>2 DEF Faults
<1> HIDE DEF f
<1>5. fault'[t] = f /\ \A u \in Tasks \ {t} : fault'[u] = fault[u]
  BY <1>1, <1>2
<1> QED BY <1>1, <1>3, <1>4, <1>5

LEMMA CallKeeps ==
  ASSUME IInv, NEW t \in Tasks, InUserMode(t), NEW goal \in Goals \ Forks, NEW v \in Virtual,
         NEW other \in Nat, Call(t, goal, v, other),
         UNCHANGED <<mem_map, content, dir, pte, swap_bitmap, swap, want>>,
         goal # "table",
         goal = "cow" => FreePages # {} /\ pte[t][v].page = other /\ other # NULL,
         goal = "share" => /\ FreePages # {} /\ Empty(t, v) /\ dir[t] = NULL
                           /\ other \in Tasks \ {t} /\ Present(other, v) /\ ~pte[other][v].dirty,
         goal \in Fills => Empty(t, v),
         goal = "swap in" => pte[t][v].nr # NULL
  PROVE  IInv'
<1>1. v \in Nat
  BY PlacesAre
<1>2. PICK f \in Faults :
         /\ f.at = "alloc" /\ f.goal = goal /\ f.v = v /\ f.other = other /\ f.held = NULL /\ f.out = NULL
         /\ cpu' = t /\ fault' = [fault EXCEPT ![t] = f] /\ fault'[t] = f
         /\ \A u \in Tasks \ {t} : fault'[u] = fault[u]
  <2>1. goal \in Goals
    OBVIOUS
  <2> QED BY <1>1, <2>1, CallIs, Zenon
<1>3. cpu = NULL /\ fault[t].at = "user" /\ fault[t].held = NULL /\ fault[t].out = NULL /\ ~Forking(t)
  BY UserIs, RestIs
<1>4. Shape(f) /\ ~Forking(t)'
  BY <1>2 DEF Shape, Forking, Forks, Goals, Shares, Fills, HasPage, Requests
<1>5. FaultFits(t)'
  <2>1. FreePages' = FreePages
    BY DEF FreePages
  <2> QED BY <1>2, <1>4, <2>1 DEF FaultFits, Swapping, Empty, Present, Kernel, Forks, Goals, Fills
<1>6. ForkFits(t)'
  BY <1>4 DEF ForkFits
<1> QED BY <1>2, <1>3, <1>4, <1>5, <1>6, OnlyFault

(* An entry gets another protection.                                       *)
LEMMA WriteFaultKeeps ==
  ASSUME IInv, ~SwapInCow, NEW t \in Tasks, NEW v \in Virtual, WriteFault(t, v)
  PROVE  IInv'
<1> DEFINE q == pte[t][v].page
<1>1. /\ InUserMode(t) /\ Present(t, v)
      /\ UNCHANGED <<mem_map, content, dir, swap_bitmap, swap, want>>
  BY DEF WriteFault
<1>2. q \in Pages /\ q # NULL /\ q \in Nat /\ v \in Places
  <2>1. q \in Pages \cup {NULL}
    <3>1. pte[t][v] \in Entries
      BY Known
    <3> QED BY <3>1 DEF Entries
  <2>2. q # NULL
    BY <1>1 DEF Present
  <2>3. Pages \subseteq Nat
    BY MemoryAssumption
  <2>4. v \in Places
    BY PlacesAre
  <2> QED BY <2>1, <2>2, <2>3, <2>4
<1>3. CASE ~Alone(pte[t][v])
  <2>1. FreePages # {} /\ Call(t, "cow", v, q) /\ pte' = pte
    BY <1>3 DEF WriteFault
  <2>2. "cow" \in Goals \ Forks /\ "cow" \notin Fills
    BY DEF Goals, Shares, Forks, Fills
  <2> QED BY <1>1, <1>2, <2>1, <2>2, CallKeeps
<1>4. CASE Alone(pte[t][v])
  <2>1. pte' = [pte EXCEPT ![t][v].rw = TRUE] /\ fault' = fault /\ cpu' = cpu /\ mem_map[q] = 1
    BY <1>4 DEF WriteFault, Alone
  <2>2. /\ cpu = NULL /\ fault[t] = User /\ ~Forking(t) /\ Child(t) = {}
        /\ \A w \in Virtual : Seen(t, w) = want[t][w]
    BY <1>1, UserIs
  <2>3. /\ pte' \in [Tasks -> [Virtual -> Entries]]
        /\ pte'[t][v] = [pte[t][v] EXCEPT !.rw = TRUE]
        /\ \A u \in Tasks, w \in Virtual : <<u, w>> # <<t, v>> => pte'[u][w] = pte[u][w]
    <3> DEFINE e == [pte[t][v] EXCEPT !.rw = TRUE]
    <3>1. e \in Entries /\ pte \in [Tasks -> [Virtual -> Entries]]
      <4>1. pte[t][v] \in Entries /\ Types
        BY Known
      <4> QED BY <4>1 DEF Types, Entries
    <3>2. pte' = [pte EXCEPT ![t][v] = e]
      BY <2>1
    <3> HIDE DEF e
    <3>3. /\ pte' \in [Tasks -> [Virtual -> Entries]] /\ pte'[t][v] = e
          /\ \A u \in Tasks, w \in Virtual : <<u, w>> # <<t, v>> => pte'[u][w] = pte[u][w]
      BY <3>1, <3>2, EntrySet
    <3> QED BY <3>3 DEF e
  <2>4. Types'
    BY <1>1, <2>1, <2>3, Known DEF Types
  <2>5. \A u \in Tasks, w \in Virtual :
          /\ pte'[u][w].page = pte[u][w].page /\ pte'[u][w].nr = pte[u][w].nr
          /\ pte'[u][w].dirty = pte[u][w].dirty
          /\ <<u, w>> # <<t, v>> => pte'[u][w].rw = pte[u][w].rw
    BY <2>3, Known DEF Entries
  <2>6. \A u \in Tasks, w \in Places :
          /\ PageAt(u, w)' = PageAt(u, w)
          /\ Private(u, w)' => Private(u, w) \/ <<u, w>> = <<t, v>>
    <3> SUFFICES ASSUME NEW u \in Tasks, NEW w \in Places
                 PROVE  /\ PageAt(u, w)' = PageAt(u, w)
                        /\ Private(u, w)' => Private(u, w) \/ <<u, w>> = <<t, v>>
      OBVIOUS
    <3>1. PageAt(u, w)' = PageAt(u, w)
      <4>1. dir'[u] = dir[u] /\ fault'[u] = fault[u]
            /\ \A x \in Virtual : pte'[u][x].page = pte[u][x].page
        BY <1>1, <2>1, <2>5
      <4> QED BY <4>1, PageIs, PlacesAre
    <3> QED BY <2>1, <2>5, <3>1 DEF Private
  <2>7. \A u \in Tasks, w \in Places : PageAt(u, w) = q => u = t /\ w = v
    <3>1. PageAt(t, v) = q
      BY PageIs
    <3> QED BY <1>2, <2>1, <3>1, Known, OnlyUse
  <2>8. CountsMappings'
    <3>1. pages' = pages
      BY <2>6 DEF pages, Spot
    <3> QED BY <1>1, <3>1, Known, CountsAre
  <2>9. PrivatePages'
    <3>1. PageAt(t, v) = q
      BY PageIs
    <3> QED BY <2>6, <2>7, <3>1, Known DEF PrivatePages
  <2>10. SwapApart' /\ EntriesFit'
    <3>1. SwapApart'
      BY <1>1, <2>5, Known, SwapStays
    <3>2. EntriesFit'
      BY <1>1, <1>2, <2>5, Known DEF EntriesFit, EntryFits
    <3> QED BY <3>1, <3>2
  <2>11. \A u \in Tasks : KeptFor(u) /\ HeldKept(u)
    BY <1>1, <2>5, Known, KeptIf DEF HeldKept
  <2>12. \A w \in Virtual : Seen(t, w)' = want'[t][w]
    BY <1>1, <2>2, <2>11 DEF KeptFor
  <2>13. FaultFits(t)' /\ ForkFits(t)' /\ ~Forking(t)'
    BY <2>1, <2>2, Known, RestFits
  <2>14. /\ \A u \in Tasks : FaultFits(u)' /\ ForkFits(u)'
         /\ ChildrenApart' /\ GoneFits' /\ OwnContents'
    <3>1. fault[t].at # "gone" /\ fault'[t].at # "gone" /\ cpu' \in {t, NULL} /\ cpu \in {t, NULL}
      BY <2>1, <2>2, RestIs
    <3> QED BY <1>1, <2>1, <2>2, <2>11, <2>12, <2>13, <3>1, OthersFit
  <2> QED BY <2>4, <2>8, <2>9, <2>10, <2>14 DEF IInv
<1> QED BY <1>3, <1>4

-----------------------------------------------------------------------------
(* A task in the kernel, with a free page.                                 *)
LEMMA GetsIs ==
  ASSUME IInv, NEW t \in Tasks, NEW goal \in Goals, Gets(t, goal)
  PROVE  /\ cpu = t /\ fault[t].at = "alloc" /\ fault[t].goal = goal /\ FreePages # {}
         /\ fault[t].out = NULL /\ (goal # "table" => fault[t].held = NULL)
         /\ NewPage \in Pages /\ NewPage \in Nat /\ mem_map[NewPage] = 0 /\ NewPage # NULL
         /\ \A u \in Tasks, w \in Places : PageAt(u, w) # NewPage
         /\ \A u \in Tasks, w \in Virtual : pte[u][w].page # NewPage
         /\ \A u \in Tasks : fault[u].held # NewPage
         /\ \A w \in Virtual : Seen(t, w) = want[t][w]
<1>1. cpu = t /\ fault[t].at = "alloc" /\ fault[t].goal = goal /\ FreePages # {}
  BY DEF Gets, Allocating
<1>2. fault[t].out = NULL /\ (goal # "table" => fault[t].held = NULL)
  BY <1>1, Known DEF Shape, HasPage
<1>3. /\ NewPage \in Pages /\ mem_map[NewPage] = 0 /\ NewPage # NULL
      /\ \A u \in Tasks, w \in Places : PageAt(u, w) # NewPage
  BY <1>1, Known, NewPageIsFree
<1>4. \A u \in Tasks, w \in Virtual : pte[u][w].page # NewPage
  BY <1>3, PageIs, PlacesAre
<1>5. \A u \in Tasks : fault[u].held # NewPage
  BY <1>3, PageIs, PlacesAre
<1>6. \A w \in Virtual : Seen(t, w) = want[t][w]
  BY <1>1, Known DEF OwnContents
<1>7. NewPage \in Nat
  BY <1>3, MemoryAssumption
<1> QED BY <1>1, <1>2, <1>3, <1>4, <1>5, <1>6, <1>7

(* It takes the page in its hands, and something is read into it.          *)
Takes(t, goal, d, f) ==
  /\ Gets(t, goal)
  /\ mem_map' = Taken /\ content' = [content EXCEPT ![NewPage] = d]
  /\ UNCHANGED <<dir, pte, swap_bitmap, swap, want>>
  /\ fault' = [fault EXCEPT ![t] = f] /\ cpu' \in {t, NULL}
  /\ f.at \in Kernel <=> cpu' = t
  /\ f.at \notin {"gone", "copy"} /\ Shape(f)
  /\ f.held = NewPage /\ f.out = NULL /\ f.goal = goal /\ goal \notin Shares
  /\ f.v = fault[t].v /\ f.other = fault[t].other
  /\ goal = "new" => d = First(f.v)
  /\ goal \in {"swap in", "fork in"} => d = swap[pte[t][f.v].nr]

LEMMA TakesInHand ==
  ASSUME IInv, NEW t \in Tasks, NEW goal \in Goals \ {"table", "fork"},
         NEW d \in Nat, NEW f \in Faults, Takes(t, goal, d, f)
  PROVE  IInv'
<1>a. /\ mem_map' = [mem_map EXCEPT ![NewPage] = 1] /\ content' = [content EXCEPT ![NewPage] = d]
      /\ dir' = dir /\ pte' = pte /\ swap_bitmap' = swap_bitmap /\ swap' = swap /\ want' = want
      /\ fault' = [fault EXCEPT ![t] = f] /\ cpu' \in {t, NULL}
  BY DEF Takes, Taken
<1>b. /\ f.at \in Kernel <=> cpu' = t
      /\ f.at \notin {"gone", "copy"} /\ Shape(f)
      /\ f.held = NewPage /\ f.out = NULL /\ f.goal = goal /\ goal \notin Shares
      /\ f.v = fault[t].v /\ f.other = fault[t].other
  BY DEF Takes
<1>c. /\ goal = "new" => d = First(f.v)
      /\ goal \in {"swap in", "fork in"} => d = swap[pte[t][f.v].nr]
  BY DEF Takes
<1>1. /\ cpu = t /\ fault[t].at = "alloc" /\ fault[t].goal = goal /\ fault[t].held = NULL
      /\ fault[t].out = NULL
      /\ NewPage \in Pages /\ mem_map[NewPage] = 0 /\ NewPage # NULL
      /\ \A u \in Tasks, w \in Places : PageAt(u, w) # NewPage
      /\ \A u \in Tasks, w \in Virtual : pte[u][w].page # NewPage
      /\ \A u \in Tasks : fault[u].held # NewPage
      /\ \A w \in Virtual : Seen(t, w) = want[t][w]
  BY GetsIs DEF Takes
<1>2. /\ fault'[t] = f /\ \A u \in Tasks \ {t} : fault'[u] = fault[u]
      /\ fault' \in [Tasks -> Faults]
  BY <1>a, Known DEF Types
<1>3. Types'
  <2>1. mem_map' \in [Pages -> Int] /\ content' \in [Pages -> Nat]
    BY <1>a, <1>1, Known DEF Types
  <2> QED BY <1>a, <1>2, <2>1, Known DEF Types
<1>4. /\ content'[NewPage] = d
      /\ \A p \in Pages \ {NewPage} : content'[p] = content[p]
  BY <1>a, <1>1, Known DEF Types
<1>5. \A u \in Tasks, w \in Places :
        PageAt(u, w)' = IF <<u, w>> = <<t, InHand>> THEN NewPage ELSE PageAt(u, w)
  <2> SUFFICES ASSUME NEW u \in Tasks, NEW w \in Places
               PROVE  PageAt(u, w)' = IF <<u, w>> = <<t, InHand>> THEN NewPage ELSE PageAt(u, w)
    OBVIOUS
  <2>1. CASE u # t
    <3>1. fault'[u] = fault[u] /\ dir'[u] = dir[u] /\ pte'[u] = pte[u]
      BY <1>a, <1>2, <2>1
    <3> QED BY <2>1, <3>1, PlacesSame
  <2>2. CASE u = t
    <3>1. fault'[t].held = NewPage /\ fault'[t].out = fault[t].out /\ dir'[t] = dir[t] /\ pte'[t] = pte[t]
      BY <1>a, <1>b, <1>1, <1>2
    <3>2. PageAt(t, InHand)' = NewPage /\ InHand \notin Virtual
      BY <3>1, PageIs, PlacesAre
    <3>3. CASE w \in Virtual
      BY <2>2, <3>1, <3>2, <3>3, PageIs
    <3>4. CASE w = Dir \/ w = Outgoing
      BY <2>2, <3>1, <3>4, PageIs, PlacesAre
    <3> QED BY <2>2, <3>2, <3>3, <3>4, PlacesAre
  <2> QED BY <2>1, <2>2
<1>6. CountsMappings'
  <2> DEFINE x == <<t, InHand>>
  <2>1. /\ x \in Spot /\ pages[x] = NULL
        /\ \A y \in Spot : pages'[y] = IF y = x THEN NewPage ELSE pages[y]
    <3>1. x \in Spot /\ pages[x] = NULL
      BY <1>1, PagesAre, PageIs, PlacesAre
    <3>2. ASSUME NEW y \in Spot PROVE pages'[y] = IF y = x THEN NewPage ELSE pages[y]
      BY <1>5, PagesAre
    <3> QED BY <3>1, <3>2
  <2>2. mem_map'[NewPage] = mem_map[NewPage] + 1
        /\ \A q \in Pages : q # NewPage => mem_map'[q] = mem_map[q]
    BY <1>a, <1>1, Known DEF Types
  <2> HIDE DEF x
  <2>3. Counted(mem_map', pages')
    <3>1. Counted(mem_map, pages) /\ NewPage \in Pages
      BY <1>1, Known, CountsAre
    <3> QED BY <2>1, <2>2, <3>1, PageEntered
  <2> QED BY <2>3, CountsAre
<1>7. PrivatePages'
  <2> DEFINE K == {<<t, InHand>>}
  <2>1. K \in SUBSET Spot /\ PrivatePages /\ EntriesFit
    <3>1. <<t, InHand>> \in Spot
      BY PlacesAre, PagesAre
    <3> QED BY <3>1, Known
  <2>2. \A u \in Tasks, w \in Places : <<u, w>> \notin K =>
          /\ PageAt(u, w)' \in {PageAt(u, w), NULL}
          /\ Private(u, w)' => Private(u, w) /\ PageAt(u, w)' = PageAt(u, w)
    BY <1>a, <1>2, <1>5 DEF Private
  <2>3. \A a, u \in Tasks, w, x \in Places :
          <<a, w>> \in K /\ PageAt(u, x)' = PageAt(a, w)' /\ <<u, x>> # <<a, w>>
            => ~Private(a, w)' /\ ~Private(u, x)'
    <3>1. ASSUME NEW u \in Tasks, NEW x \in Places, PageAt(u, x)' = NewPage
          PROVE  <<u, x>> = <<t, InHand>>
      BY <1>1, <1>5, <3>1
    <3>2. PageAt(t, InHand)' = NewPage
      BY <1>5, PlacesAre
    <3> QED BY <3>1, <3>2
  <2> HIDE DEF K
  <2> QED BY <2>1, <2>2, <2>3, PrivateStay
<1>8. SwapApart'
  BY <1>a, Known, SwapStays
<1>9. \A u \in Tasks, w \in Virtual :
        pte[u][w].page # NULL => content'[pte[u][w].page] = content[pte[u][w].page]
  BY <1>1, <1>4, Known DEF Entries
<1>10. EntriesFit'
  <2> SUFFICES ASSUME NEW u \in Tasks, NEW w \in Virtual PROVE EntryFits(u, w)'
    BY DEF EntriesFit
  <2>1. EntryFits(u, w) /\ pte'[u][w] = pte[u][w]
    BY <1>a, Known
  <2> QED BY <1>9, <2>1 DEF EntryFits
<1>11. \A u \in Tasks : KeptFor(u) /\ HeldKept(u)
  <2>1. \A u \in Tasks : HeldKept(u)
    BY <1>1, <1>4, Known DEF HeldKept, Faults
  <2>2. ASSUME NEW u \in Tasks PROVE KeptFor(u)
    BY <1>a, <1>9, Known, KeptIf
  <2> QED BY <2>1, <2>2
<1>12. FaultFits(t)'
  <2>1. goal \in Fills => Empty(t, f.v)' /\ goal = "new"
    <3>1. goal \in Fills => goal = "new" /\ Empty(t, fault[t].v)
      BY <1>1, Known DEF FaultFits, Fills
    <3> QED BY <1>a, <1>b, <3>1 DEF Empty
  <2>2. Swapping(f) => goal \in {"swap in", "fork in"} /\ pte'[t][f.v].nr # NULL
    <3>1. goal \in {"swap in", "fork in"} => pte[t][fault[t].v].nr # NULL
      BY <1>1, Known DEF FaultFits, Swapping
    <3> QED BY <1>a, <1>b, <3>1 DEF Swapping
  <2> QED BY <1>a, <1>b, <1>c, <1>2, <1>4, <2>1, <2>2 DEF FaultFits, Shares
<1>13. ForkFits(t)' /\ (Forking(t)' <=> Forking(t))
  <2>1. Forking(t)' <=> Forking(t)
    BY <1>b, <1>1, <1>2 DEF Forking
  <2>2. Forking(t) => LET c == f.other IN
          c \in Tasks /\ fault'[c] = Gone
            /\ \A w \in Virtual : IF w < f.v THEN Seen(c, w)' = want'[t][w] ELSE Empty(c, w)'
    <3> SUFFICES ASSUME Forking(t)
                 PROVE  LET c == f.other IN
                        c \in Tasks /\ fault'[c] = Gone
                          /\ \A w \in Virtual : IF w < f.v THEN Seen(c, w)' = want'[t][w]
                                                           ELSE Empty(c, w)'
      OBVIOUS
    <3>1. /\ f.other \in Tasks /\ fault[f.other] = Gone
          /\ \A w \in Virtual : IF w < f.v THEN Seen(f.other, w) = want[t][w] ELSE Empty(f.other, w)
      BY <1>b, Known DEF ForkFits
    <3>2. f.other # t
      BY <1>1, <3>1, RestIs
    <3> QED BY <1>a, <1>2, <1>11, <3>1, <3>2 DEF KeptFor
  <2> QED BY <1>b, <1>2, <2>1, <2>2 DEF ForkFits
<1>14. /\ \A u \in Tasks : FaultFits(u)' /\ ForkFits(u)'
       /\ ChildrenApart' /\ GoneFits' /\ OwnContents'
  <2>1. \A w \in Virtual : Seen(t, w)' = want'[t][w]
    BY <1>a, <1>1, <1>11 DEF KeptFor
  <2>2. fault[t].at # "gone" /\ fault'[t].at # "gone" /\ cpu \in {t, NULL} /\ fault'[t].other = fault[t].other
    BY <1>b, <1>1, <1>2
  <2>3. \A u \in Tasks : dir'[u] = dir[u] /\ want'[u] = want[u]
    BY <1>a
  <2> QED BY <1>a, <1>2, <1>11, <1>12, <1>13, <2>1, <2>2, <2>3, OthersFit
<1> QED BY <1>3, <1>6, <1>7, <1>8, <1>10, <1>14 DEF IInv

LEMMA ReadSwapKeeps ==
  ASSUME IInv, NEW t \in Tasks, ReadSwap(t)
  PROVE  IInv'
<1> DEFINE f == [fault[t] EXCEPT !.at = "reading swap", !.held = NewPage]
           d == swap[pte[t][fault[t].v].nr]
<1>1. /\ Gets(t, "swap in") /\ mem_map' = Taken /\ content' = [content EXCEPT ![NewPage] = d]
      /\ fault' = [fault EXCEPT ![t] = f] /\ cpu' = NULL
      /\ UNCHANGED <<dir, pte, swap_bitmap, swap, want>>
  BY DEF ReadSwap, Sleep
<1>2. "swap in" \in Goals \ {"table", "fork"} /\ "swap in" \notin Shares
  BY DEF Goals, Shares
<1>3. /\ fault[t].at = "alloc" /\ fault[t].goal = "swap in" /\ fault[t].held = NULL
      /\ fault[t].out = NULL /\ NewPage \in Pages /\ NewPage # NULL /\ fault[t] \in Faults
      /\ fault[t].v \in Virtual
  <2>1. /\ fault[t].at = "alloc" /\ fault[t].goal = "swap in" /\ fault[t].held = NULL
        /\ fault[t].out = NULL /\ NewPage \in Pages /\ NewPage # NULL
    BY <1>1, <1>2, GetsIs
  <2>2. Shape(fault[t]) /\ fault[t] \in Faults
    BY Known
  <2> QED BY <1>2, <2>1, <2>2 DEF Shape
<1>4. d \in Nat
  <2>1. pte[t][fault[t].v].nr \in SwapPages
    <3>1. pte[t][fault[t].v].nr # NULL /\ pte[t][fault[t].v] \in Entries
      BY <1>3, Known DEF FaultFits, Swapping
    <3> QED BY <3>1 DEF Entries
  <2> QED BY <2>1, Known DEF Types
<1>5. /\ f \in Faults /\ f.at = "reading swap" /\ f.goal = "swap in" /\ f.held = NewPage
      /\ f.out = NULL /\ f.v = fault[t].v /\ f.other = fault[t].other
  BY <1>3 DEF Faults, Labels, HasPage
<1> HIDE DEF f
<1>6. Shape(f)
  BY <1>3, <1>5 DEF Shape, HasPage, Requests, Goals, Shares, Forks
<1>7. f.at \notin Kernel /\ cpu' # t
  BY <1>1, <1>5, Known DEF Kernel
<1> HIDE DEF d
<1>8. swap[pte[t][f.v].nr] = d
  BY <1>5 DEF d
<1>9. Takes(t, "swap in", d, f)
  BY <1>1, <1>2, <1>5, <1>6, <1>7, <1>8 DEF Takes
<1> QED BY <1>2, <1>4, <1>5, <1>9, TakesInHand

LEMMA ForkReadKeeps ==
  ASSUME IInv, NEW t \in Tasks, ForkRead(t)
  PROVE  IInv'
<1> DEFINE f == [fault[t] EXCEPT !.at = "reading fork", !.held = NewPage]
           d == swap[pte[t][fault[t].v].nr]
<1>1. /\ Gets(t, "fork in") /\ mem_map' = Taken /\ content' = [content EXCEPT ![NewPage] = d]
      /\ fault' = [fault EXCEPT ![t] = f] /\ cpu' = NULL
      /\ UNCHANGED <<dir, pte, swap_bitmap, swap, want>>
  BY DEF ForkRead, Sleep
<1>2. "fork in" \in Goals \ {"table", "fork"} /\ "fork in" \notin Shares
  BY DEF Goals, Shares, Forks
<1>3. /\ fault[t].at = "alloc" /\ fault[t].goal = "fork in" /\ fault[t].held = NULL
      /\ fault[t].out = NULL /\ NewPage \in Pages /\ NewPage # NULL /\ fault[t] \in Faults
      /\ fault[t].v \in Virtual
  <2>1. /\ fault[t].at = "alloc" /\ fault[t].goal = "fork in" /\ fault[t].held = NULL
        /\ fault[t].out = NULL /\ NewPage \in Pages /\ NewPage # NULL
    BY <1>1, <1>2, GetsIs
  <2>2. Shape(fault[t]) /\ fault[t] \in Faults
    BY Known
  <2> QED BY <1>2, <2>1, <2>2 DEF Shape
<1>4. d \in Nat
  <2>1. pte[t][fault[t].v].nr \in SwapPages
    <3>1. pte[t][fault[t].v].nr # NULL /\ pte[t][fault[t].v] \in Entries
      BY <1>3, Known DEF FaultFits, Swapping
    <3> QED BY <3>1 DEF Entries
  <2> QED BY <2>1, Known DEF Types
<1>5. /\ f \in Faults /\ f.at = "reading fork" /\ f.goal = "fork in" /\ f.held = NewPage
      /\ f.out = NULL /\ f.v = fault[t].v /\ f.other = fault[t].other
  BY <1>3 DEF Faults, Labels, HasPage
<1> HIDE DEF f
<1>6. Shape(f)
  BY <1>3, <1>5 DEF Shape, HasPage, Requests, Goals, Shares, Forks
<1>7. f.at \notin Kernel /\ cpu' # t
  BY <1>1, <1>5, Known DEF Kernel
<1> HIDE DEF d
<1>8. swap[pte[t][f.v].nr] = d
  BY <1>5 DEF d
<1>9. Takes(t, "fork in", d, f)
  BY <1>1, <1>2, <1>5, <1>6, <1>7, <1>8 DEF Takes
<1> QED BY <1>2, <1>4, <1>5, <1>9, TakesInHand

LEMMA NewOrReadKeeps ==
  ASSUME IInv, NEW t \in Tasks, NewOrRead(t)
  PROVE  IInv'
<1> DEFINE v == fault[t].v
           at == IF v \in Code THEN "reading file" ELSE "put"
           f == [fault[t] EXCEPT !.held = NewPage, !.at = at]
<1>1. /\ Gets(t, "new") /\ mem_map' = Taken
      /\ content' = [Zeroed EXCEPT ![NewPage] = First(v)]
      /\ UNCHANGED <<dir, pte, swap_bitmap, swap, want>>
  BY DEF NewOrRead
<1>2. "new" \in Goals \ {"table", "fork"} /\ "new" \notin Shares
  BY DEF Goals, Shares, Fills
<1>3. /\ fault[t].at = "alloc" /\ fault[t].goal = "new" /\ fault[t].held = NULL
      /\ fault[t].out = NULL /\ NewPage \in Pages /\ NewPage # NULL /\ fault[t] \in Faults
      /\ v \in Virtual
  <2>1. /\ fault[t].at = "alloc" /\ fault[t].goal = "new" /\ fault[t].held = NULL
        /\ fault[t].out = NULL /\ NewPage \in Pages /\ NewPage # NULL
    BY <1>1, <1>2, GetsIs
  <2>2. Shape(fault[t]) /\ fault[t] \in Faults
    BY Known
  <2> QED BY <1>2, <2>1, <2>2 DEF Shape
<1>4. First(v) \in Nat
  BY DEF First, File, Zero
<1>5. content' = [content EXCEPT ![NewPage] = First(v)]
  BY <1>1, Known DEF Types, Zeroed
<1>6. /\ f \in Faults /\ f.at = at /\ f.goal = "new" /\ f.held = NewPage
      /\ f.out = NULL /\ f.v = fault[t].v /\ f.other = fault[t].other
  BY <1>3 DEF Faults, Labels, HasPage
<1>7. fault' = [fault EXCEPT ![t] = f] /\ cpu' = IF v \in Code THEN NULL ELSE t
  <2>1. CASE v \in Code
    BY <2>1, <1>3 DEF NewOrRead, Sleep, Faults
  <2>2. CASE v \notin Code
    BY <2>2, <1>3 DEF NewOrRead, Enter, Faults
  <2> QED BY <2>1, <2>2
<1> HIDE DEF f
<1>8. Shape(f)
  BY <1>3, <1>6 DEF Shape, HasPage, Requests, Goals, Shares, Forks
<1>9. (f.at \in Kernel <=> cpu' = t) /\ cpu' \in {t, NULL}
  BY <1>6, <1>7, Known DEF Kernel
<1>10. First(f.v) = First(v) /\ f.at \notin {"gone", "copy"}
  BY <1>6
<1> DEFINE d == First(v)
<1>11. d \in Nat /\ d = First(f.v) /\ content' = [content EXCEPT ![NewPage] = d]
  BY <1>4, <1>5, <1>10
<1> HIDE DEF d, at
<1>12. Takes(t, "new", d, f)
  BY <1>1, <1>2, <1>6, <1>7, <1>8, <1>9, <1>10, <1>11 DEF Takes
<1> QED BY <1>2, <1>6, <1>11, <1>12, TakesInHand

-----------------------------------------------------------------------------
(* get_free_page looks for a page to swap out: whatever entry it takes,    *)
(* all tasks still see what they saw.                                      *)
LEMMA AllGoOn ==
  ASSUME IInv, NEW t \in Tasks, fault[t].goal \notin Shares, fault[t].at \notin {"gone", "user"},
         cpu \in {t, NULL}, cpu' \in {t, NULL},
         GoesOn(t), \A u \in Tasks \ {t} : fault'[u] = fault[u],
         dir' = dir, want' = want, \A u \in Tasks : KeptFor(u) /\ HeldKept(u),
         Types', CountsMappings', EntriesFit', PrivatePages', SwapApart'
  PROVE  IInv'
<1>1. FaultFits(t)'
  BY Known, SleeperFits
<1>2. ForkFits(t)'
  <2>1. Forking(t) => LET c == fault[t].other IN KeptFor(c) /\ fault'[c] = fault[c] /\ dir'[c] = dir[c]
    <3> SUFFICES ASSUME Forking(t)
                 PROVE  LET c == fault[t].other IN KeptFor(c) /\ fault'[c] = fault[c] /\ dir'[c] = dir[c]
      OBVIOUS
    <3>1. fault[t].other \in Tasks /\ fault[fault[t].other] = Gone
      BY Known DEF ForkFits
    <3>2. fault[t].other # t
      BY <3>1, RestIs
    <3> QED BY <3>1, <3>2
  <2> QED BY <2>1, Known, ForkerFits
<1>3. /\ Forking(t)' <=> Forking(t)
      /\ fault'[t].other = fault[t].other /\ fault'[t].at # "gone"
  <2>1. fault[t].goal # "none"
    BY Known DEF Shape, Requests, Forks, FaultFits, Types, Faults, Labels, Kernel, HasPage
  <2>2. fault'[t].goal = fault[t].goal /\ fault'[t].other = fault[t].other /\ Shape(fault'[t])
    BY DEF GoesOn
  <2> QED BY <2>1, <2>2, RestIs DEF Forking, Shape
<1>4. \A w \in Virtual : Seen(t, w)' = want'[t][w]
  BY Known DEF KeptFor, OwnContents
<1>5. /\ \A u \in Tasks : FaultFits(u)' /\ ForkFits(u)'
      /\ ChildrenApart' /\ GoneFits' /\ OwnContents'
  <2>1. \A u \in Tasks : dir'[u] = dir[u] /\ want'[u] = want[u]
    OBVIOUS
  <2> QED BY <1>1, <1>2, <1>3, <1>4, <2>1, OthersFit
<1> QED BY <1>5 DEF IInv

LEMMA WrittenOutKeeps ==
  ASSUME IInv, NEW t \in Tasks, WrittenOut(t)
  PROVE  IInv'
<1> DEFINE p == fault[t].out
           f == [fault[t] EXCEPT !.at = "alloc", !.out = NULL]
<1>1. /\ cpu = NULL /\ fault[t].at = "writing" /\ cpu' = t
      /\ fault' = [fault EXCEPT ![t] = f] /\ mem_map' = [mem_map EXCEPT ![p] = @ - 1]
      /\ content' = content /\ dir' = dir /\ pte' = pte /\ swap_bitmap' = swap_bitmap
      /\ swap' = swap /\ want' = want
  BY DEF WrittenOut, Awake, Enter
<1>2. fault[t] \in Faults /\ Shape(fault[t]) /\ p \in Pages /\ p # NULL
  BY <1>1, Known DEF Shape, Faults
<1>3. /\ f \in Faults /\ f.at = "alloc" /\ f.out = NULL /\ f.goal = fault[t].goal
      /\ f.v = fault[t].v /\ f.held = fault[t].held /\ f.other = fault[t].other
  BY <1>2 DEF Faults, Labels, Kernel
<1> HIDE DEF f
<1>4. /\ fault'[t] = f /\ \A u \in Tasks \ {t} : fault'[u] = fault[u]
      /\ fault' \in [Tasks -> Faults]
  BY <1>1, <1>3, Known DEF Types
<1>5. GoesOn(t)
  <2>1. Shape(f)
    BY <1>1, <1>2, <1>3 DEF Shape, HasPage, Requests, Shares
  <2> QED BY <1>1, <1>3, <1>4, <2>1 DEF GoesOn, Kernel
<1>6. Types'
  <2>1. mem_map' \in [Pages -> Int]
    BY <1>1, <1>2, Known DEF Types
  <2> QED BY <1>1, <1>4, <2>1, Known DEF Types
<1>7. \A u \in Tasks, w \in Places :
        /\ PageAt(u, w)' = IF <<u, w>> = <<t, Outgoing>> THEN NULL ELSE PageAt(u, w)
        /\ Private(u, w)' <=> Private(u, w)
  <2> SUFFICES ASSUME NEW u \in Tasks, NEW w \in Places
               PROVE  /\ PageAt(u, w)' = IF <<u, w>> = <<t, Outgoing>> THEN NULL ELSE PageAt(u, w)
                      /\ Private(u, w)' <=> Private(u, w)
    OBVIOUS
  <2>1. CASE u # t
    <3>1. fault'[u] = fault[u] /\ dir'[u] = dir[u] /\ pte'[u] = pte[u]
      BY <1>1, <1>4, <2>1
    <3> QED BY <2>1, <3>1, PlacesSame
  <2>2. CASE u = t
    <3>1. fault'[t].held = fault[t].held /\ fault'[t].out = NULL /\ dir'[t] = dir[t] /\ pte'[t] = pte[t]
      BY <1>1, <1>3, <1>4
    <3>2. PageAt(t, w)' = IF w = Outgoing THEN NULL ELSE PageAt(t, w)
      BY <3>1, PageIs, PlacesAre
    <3> QED BY <2>2, <3>1, <3>2 DEF Private
  <2> QED BY <2>1, <2>2
<1>8. CountsMappings'
  <2> DEFINE x == <<t, Outgoing>>
  <2>1. /\ x \in Spot /\ pages[x] = p
        /\ \A y \in Spot : pages'[y] = IF y = x THEN NULL ELSE pages[y]
    <3>1. x \in Spot /\ pages[x] = p
      BY PagesAre, PageIs, PlacesAre
    <3>2. ASSUME NEW y \in Spot PROVE pages'[y] = IF y = x THEN NULL ELSE pages[y]
      BY <1>7, PagesAre
    <3> QED BY <3>1, <3>2
  <2>2. mem_map'[p] = mem_map[p] - 1 /\ \A q \in Pages : q # p => mem_map'[q] = mem_map[q]
    BY <1>1, <1>2, Known DEF Types
  <2> HIDE DEF x
  <2>3. Counted(mem_map, pages)
    BY Known, CountsAre
  <2>4. Counted(mem_map', pages')
    BY <1>2, <2>1, <2>2, <2>3, PageLeft
  <2> QED BY <2>4, CountsAre
<1>9. PrivatePages'
  <2>1. \A u \in Tasks, w \in Places :
          /\ PageAt(u, w)' \in {PageAt(u, w), NULL}
          /\ Private(u, w)' => Private(u, w) /\ PageAt(u, w)' = PageAt(u, w)
    <3>1. \A u \in Tasks : ~Private(u, Outgoing)
      BY PlacesAre DEF Private
    <3> QED BY <1>7, <3>1
  <2> QED BY <2>1, Known, PrivateLeft
<1>10. SwapApart' /\ EntriesFit'
  <2>1. SwapApart'
    BY <1>1, Known, SwapStays
  <2> QED BY <1>1, <2>1, Known DEF EntriesFit, EntryFits
<1>11. \A u \in Tasks : KeptFor(u) /\ HeldKept(u)
  BY <1>1, Known, KeptIf DEF HeldKept
<1>12. fault[t].goal \notin Shares /\ fault[t].at \notin {"gone", "user"}
  BY <1>1, <1>2 DEF Shape
<1> QED BY <1>1, <1>4, <1>5, <1>6, <1>8, <1>9, <1>10, <1>11, <1>12, AllGoOn

(* The entry that is taken, by Drop and WriteOut.                          *)
LEMMA DropKeeps ==
  ASSUME IInv, NEW t \in Tasks, Drop(t)
  PROVE  IInv'
<1>1. /\ cpu = t /\ fault[t].at = "alloc" /\ FreePages = {}
      /\ content' = content /\ dir' = dir /\ swap_bitmap' = swap_bitmap /\ swap' = swap
      /\ fault' = fault /\ cpu' = cpu /\ want' = want
  BY DEF Drop
<1>2. PICK u \in Tasks, v \in Virtual :
        /\ Present(u, v) /\ ~pte[u][v].dirty
        /\ pte' = [pte EXCEPT ![u][v] = NotMapped]
        /\ mem_map' = [mem_map EXCEPT ![pte[u][v].page] = @ - 1]
  BY DEF Drop, Droppable
<1> DEFINE p == pte[u][v].page
<1>3. p \in Pages /\ p # NULL /\ v \in Places /\ content[p] = First(v) /\ pte[u][v].nr = NULL
  BY <1>2, Known, PlacesAre DEF Present, Entries, EntryFits
<1>4. NotMapped \in Entries /\ NotMapped.page = NULL /\ NotMapped.nr = NULL /\ ~NotMapped.rw
  BY DEF NotMapped, Entries
<1>5. /\ pte' \in [Tasks -> [Virtual -> Entries]] /\ pte'[u][v] = NotMapped
      /\ \A a \in Tasks, w \in Virtual : <<a, w>> # <<u, v>> => pte'[a][w] = pte[a][w]
  BY <1>2, <1>4, Known, EntrySet DEF Types
<1>6. Types'
  <2>1. mem_map' \in [Pages -> Int]
    BY <1>2, <1>3, Known DEF Types
  <2> QED BY <1>1, <1>5, <2>1, Known DEF Types
<1>7. \A a \in Tasks, w \in Places :
        /\ PageAt(a, w)' = IF <<a, w>> = <<u, v>> THEN NULL ELSE PageAt(a, w)
        /\ Private(a, w)' => Private(a, w) /\ <<a, w>> # <<u, v>>
  <2> SUFFICES ASSUME NEW a \in Tasks, NEW w \in Places
               PROVE  /\ PageAt(a, w)' = IF <<a, w>> = <<u, v>> THEN NULL ELSE PageAt(a, w)
                      /\ Private(a, w)' => Private(a, w) /\ <<a, w>> # <<u, v>>
    OBVIOUS
  <2>1. CASE w \in Virtual
    BY <1>1, <1>4, <1>5, <2>1, PageIs, PlacesAre DEF Private
  <2>2. CASE w \notin Virtual
    <3>1. PageAt(a, w)' = PageAt(a, w)
      BY <1>1, <2>2, PageIs, PlacesAre
    <3> QED BY <1>1, <2>2, <3>1 DEF Private
  <2> QED BY <2>1, <2>2
<1>8. CountsMappings'
  <2> DEFINE x == <<u, v>>
  <2>1. /\ x \in Spot /\ pages[x] = p
        /\ \A y \in Spot : pages'[y] = IF y = x THEN NULL ELSE pages[y]
    <3>1. x \in Spot /\ pages[x] = p
      BY <1>3, PagesAre, PageIs
    <3>2. ASSUME NEW y \in Spot PROVE pages'[y] = IF y = x THEN NULL ELSE pages[y]
      BY <1>7, PagesAre
    <3> QED BY <3>1, <3>2
  <2>2. mem_map'[p] = mem_map[p] - 1 /\ \A q \in Pages : q # p => mem_map'[q] = mem_map[q]
    BY <1>2, <1>3, Known DEF Types
  <2> HIDE DEF x
  <2>3. Counted(mem_map, pages)
    BY Known, CountsAre
  <2>4. Counted(mem_map', pages')
    BY <1>3, <2>1, <2>2, <2>3, PageLeft
  <2> QED BY <2>4, CountsAre
<1>9. PrivatePages'
  <2>1. \A a \in Tasks, w \in Places :
          /\ PageAt(a, w)' \in {PageAt(a, w), NULL}
          /\ Private(a, w)' => Private(a, w) /\ PageAt(a, w)' = PageAt(a, w)
    BY <1>7
  <2> QED BY <2>1, Known, PrivateLeft
<1>10. SwapApart'
  <2>1. \A a \in Tasks, w \in Virtual : pte'[a][w].nr = pte[a][w].nr
    BY <1>3, <1>4, <1>5
  <2> QED BY <1>1, <2>1, Known, SwapStays
<1>11. EntriesFit'
  <2> SUFFICES ASSUME NEW a \in Tasks, NEW w \in Virtual PROVE EntryFits(a, w)'
    BY DEF EntriesFit
  <2>1. EntryFits(a, w)
    BY Known
  <2> QED BY <1>1, <1>4, <1>5, <2>1 DEF EntryFits
<1>12. \A a \in Tasks : KeptFor(a) /\ HeldKept(a)
  <2> SUFFICES ASSUME NEW a \in Tasks PROVE KeptFor(a)
    BY <1>1 DEF HeldKept
  <2> SUFFICES ASSUME NEW w \in Virtual
               PROVE  /\ Seen(a, w)' = Seen(a, w)
                      /\ Empty(a, w) => Empty(a, w)'
                      /\ pte[a][w].nr # NULL => /\ pte'[a][w].nr = pte[a][w].nr
                                                /\ pte'[a][w].page = NULL
                                                /\ swap'[pte[a][w].nr] = swap[pte[a][w].nr]
    BY DEF KeptFor
  <2>1. CASE <<a, w>> # <<u, v>>
    <3>1. pte[a][w].nr # NULL => pte[a][w].page = NULL
      BY Known DEF EntryFits
    <3> QED BY <1>1, <1>5, <2>1, <3>1 DEF Seen, Present, Empty
  <2>2. CASE <<a, w>> = <<u, v>>
    BY <1>1, <1>3, <1>4, <1>5, <2>2 DEF Seen, Present, Empty
  <2> QED BY <2>1, <2>2
<1>13. fault[t].goal \notin Shares /\ GoesOn(t) /\ \A a \in Tasks \ {t} : fault'[a] = fault[a]
  <2>1. fault[t].goal \notin Shares
    BY <1>1, Known DEF FaultFits, Shares
  <2> QED BY <1>1, <2>1, Known DEF GoesOn
<1> QED BY <1>1, <1>6, <1>8, <1>9, <1>10, <1>11, <1>12, <1>13, AllGoOn

LEMMA WriteOutKeeps ==
  ASSUME IInv, NEW t \in Tasks, WriteOut(t)
  PROVE  IInv'
<1> DEFINE n == Min(swap_bitmap)
<1>1. PICK u \in Tasks, v \in Virtual :
        /\ Writable(u, v)
        /\ pte' = [pte EXCEPT ![u][v] = Swapped(n)]
        /\ swap_bitmap' = swap_bitmap \ {n}
        /\ swap' = [swap EXCEPT ![n] = content[pte[u][v].page]]
        /\ Sleep(t, [fault[t] EXCEPT !.at = "writing", !.out = pte[u][v].page])
  BY DEF WriteOut
<1> DEFINE p == pte[u][v].page
           f == [fault[t] EXCEPT !.at = "writing", !.out = p]
<1>2. /\ cpu = t /\ fault[t].at = "alloc" /\ cpu' = NULL /\ fault' = [fault EXCEPT ![t] = f]
      /\ mem_map' = mem_map /\ content' = content /\ dir' = dir /\ want' = want
  BY <1>1 DEF WriteOut, Sleep
<1>3. /\ p \in Pages /\ p # NULL /\ v \in Places /\ pte[u][v].nr = NULL
      /\ mem_map[p] = 1 /\ swap_bitmap # {}
  BY <1>1, Known, PlacesAre DEF Writable, Present, Entries, EntryFits
<1>4. n \in swap_bitmap /\ n \in SwapPages /\ n # NULL
  <2>1. swap_bitmap \subseteq SwapPages /\ NULL \notin SwapPages
    BY Known DEF Types
  <2>2. swap_bitmap \subseteq Nat /\ IsFiniteSet(swap_bitmap)
    BY <2>1, MemoryAssumption, FS_Subset
  <2> QED BY <1>3, <2>1, <2>2, LeastOf
<1> HIDE DEF n
<1> DEFINE e == Swapped(n)
<1>5. e \in Entries /\ e.page = NULL /\ e.nr = n /\ ~e.rw
  BY <1>4 DEF Swapped, NotMapped, Entries
<1>6. pte' = [pte EXCEPT ![u][v] = e]
  BY <1>1
<1> HIDE DEF e
<1>7. /\ pte' \in [Tasks -> [Virtual -> Entries]] /\ pte'[u][v] = e
      /\ \A a \in Tasks, w \in Virtual : <<a, w>> # <<u, v>> => pte'[a][w] = pte[a][w]
  BY <1>5, <1>6, Known, EntrySet DEF Types
<1>8. /\ fault[t] \in Faults /\ Shape(fault[t]) /\ fault[t].out = NULL
      /\ fault[t].goal \notin Shares
  <2>1. FreePages = {} /\ FaultFits(t) /\ fault[t] \in Faults /\ Shape(fault[t])
    BY Known DEF WriteOut
  <2> QED BY <1>2, <2>1 DEF FaultFits, Shape, Shares
<1>9. /\ f \in Faults /\ f.at = "writing" /\ f.out = p /\ f.goal = fault[t].goal
      /\ f.v = fault[t].v /\ f.held = fault[t].held /\ f.other = fault[t].other
  BY <1>3, <1>8 DEF Faults, Labels
<1> HIDE DEF f
<1>10. /\ fault'[t] = f /\ \A a \in Tasks \ {t} : fault'[a] = fault[a]
       /\ fault' \in [Tasks -> Faults]
  BY <1>2, <1>9, Known DEF Types
<1>11. GoesOn(t)
  <2>1. Shape(f)
    BY <1>2, <1>3, <1>8, <1>9 DEF Shape, HasPage, Requests, Shares
  <2>2. cpu' # t
    BY <1>2, Known
  <2> QED BY <1>2, <1>9, <1>10, <2>1, <2>2 DEF GoesOn, Kernel
<1>12. swap'[n] = content[p] /\ \A m \in SwapPages \ {n} : swap'[m] = swap[m]
  BY <1>1, <1>4, Known DEF Types
<1>13. Types'
  <2>1. swap' \in [SwapPages -> Nat] /\ swap_bitmap' \in SUBSET SwapPages
    BY <1>1, <1>3, <1>4, Known DEF Types
  <2> QED BY <1>2, <1>7, <1>10, <2>1, Known DEF Types
<1>14. \A a \in Tasks, w \in Places :
         /\ PageAt(a, w)' = IF <<a, w>> = <<u, v>> THEN NULL
                            ELSE IF <<a, w>> = <<t, Outgoing>> THEN p ELSE PageAt(a, w)
         /\ Private(a, w)' => Private(a, w) /\ <<a, w>> # <<u, v>>
  <2> SUFFICES ASSUME NEW a \in Tasks, NEW w \in Places
               PROVE  /\ PageAt(a, w)' = IF <<a, w>> = <<u, v>> THEN NULL
                            ELSE IF <<a, w>> = <<t, Outgoing>> THEN p ELSE PageAt(a, w)
                      /\ Private(a, w)' => Private(a, w) /\ <<a, w>> # <<u, v>>
    OBVIOUS
  <2>1. CASE w \in Virtual
    BY <1>5, <1>7, <2>1, PageIs, PlacesAre DEF Private
  <2>2. CASE w = Outgoing
    <3>1. PageAt(a, w)' = IF a = t THEN p ELSE PageAt(a, w)
      BY <1>9, <1>10, <2>2, PageIs
    <3> QED BY <2>2, <3>1, PlacesAre DEF Private
  <2>3. CASE w = Dir \/ w = InHand
    <3>1. dir'[a] = dir[a] /\ fault'[a].held = fault[a].held
      BY <1>2, <1>9, <1>10
    <3>2. PageAt(a, w)' = PageAt(a, w)
      BY <2>3, <3>1, PageIs
    <3> QED BY <2>3, <3>1, <3>2, PlacesAre DEF Private
  <2> QED BY <2>1, <2>2, <2>3, PlacesAre
<1>15. CountsMappings'
  <2> DEFINE x == <<u, v>>  y == <<t, Outgoing>>
  <2>1. /\ x \in Spot /\ y \in Spot /\ pages[x] = p /\ pages[y] = NULL /\ x # y
    BY <1>3, <1>8, PagesAre, PageIs, PlacesAre
  <2>2. \A z \in Spot : pages'[z] = IF z = x THEN NULL ELSE IF z = y THEN p ELSE pages[z]
    BY <1>14, PagesAre
  <2>3. Counted(mem_map, pages) /\ mem_map \in [Pages -> Int]
    BY Known, CountsAre DEF Types
  <2> HIDE DEF x, y
  <2>4. Counted(mem_map, pages')
    BY <1>3, <2>1, <2>2, <2>3, PageMoved
  <2> QED BY <1>2, <2>4, CountsAre
<1>16. PrivatePages'
  <2> DEFINE K == {<<t, Outgoing>>}
  <2>1. K \in SUBSET Spot
    BY PlacesAre, PagesAre
  <2>2. \A a \in Tasks, w \in Places : <<a, w>> \notin K =>
          /\ PageAt(a, w)' \in {PageAt(a, w), NULL}
          /\ Private(a, w)' => Private(a, w) /\ PageAt(a, w)' = PageAt(a, w)
    BY <1>14
  <2>3. ASSUME NEW a \in Tasks, NEW x \in Places, PageAt(a, x)' = p PROVE <<a, x>> = <<t, Outgoing>>
    <3> SUFFICES ASSUME <<a, x>> # <<t, Outgoing>> PROVE FALSE
      OBVIOUS
    <3>1. PageAt(a, x) = p /\ <<a, x>> # <<u, v>>
      BY <1>3, <1>14, <2>3
    <3>2. PageAt(u, v) = p
      BY PageIs
    <3> QED BY <1>3, <3>1, <3>2, Known, OnlyUse
  <2>4. PageAt(t, Outgoing)' = p
    <3>1. Outgoing \in Places /\ <<t, Outgoing>> # <<u, v>>
      BY PlacesAre
    <3> QED BY <3>1, <1>14
  <2>5. \A b, a \in Tasks, w, x \in Places :
          <<b, w>> \in K /\ PageAt(a, x)' = PageAt(b, w)' /\ <<a, x>> # <<b, w>>
            => ~Private(b, w)' /\ ~Private(a, x)'
    <3> SUFFICES ASSUME NEW b \in Tasks, NEW a \in Tasks, NEW w \in Places, NEW x \in Places,
                        <<b, w>> \in K, PageAt(a, x)' = PageAt(b, w)', <<a, x>> # <<b, w>>
                 PROVE  FALSE
      OBVIOUS
    <3>1. b = t /\ w = Outgoing
      OBVIOUS
    <3>2. PageAt(a, x)' = p
      BY <2>4, <3>1
    <3> QED BY <2>3, <3>1, <3>2
  <2> HIDE DEF K
  <2> QED BY <2>1, <2>2, <2>5, Known, PrivateStay
<1>17. SwapApart'
  <2>1. SwapApart
    BY Known
  <2>2. \A a \in Tasks, w \in Virtual :
          pte'[a][w].nr = IF <<a, w>> = <<u, v>> THEN n ELSE pte[a][w].nr
    BY <1>5, <1>7
  <2>3. \A a \in Tasks, w \in Virtual : pte[a][w].nr # n
    BY <1>4, <2>1 DEF SwapApart
  <2>4. \A a, b \in Tasks, w, x \in Virtual :
          pte'[a][w].nr # NULL /\ pte'[b][x].nr = pte'[a][w].nr => b = a /\ x = w
    BY <2>1, <2>2, <2>3 DEF SwapApart
  <2>5. \A a \in Tasks, w \in Virtual : pte'[a][w].nr \notin swap_bitmap'
    BY <1>1, <2>1, <2>2 DEF SwapApart
  <2>6. ASSUME NEW m \in SwapPages \ swap_bitmap'
        PROVE  \E a \in Tasks, w \in Virtual : pte'[a][w].nr = m
    <3>1. CASE m = n
      BY <2>2, <3>1
    <3>2. CASE m # n
      <4>1. PICK a \in Tasks, w \in Virtual : pte[a][w].nr = m
        BY <1>1, <2>1, <3>2 DEF SwapApart
      <4>2. <<a, w>> # <<u, v>>
        BY <1>3, <4>1, Known
      <4> QED BY <2>2, <4>1, <4>2
    <3> QED BY <3>1, <3>2
  <2> QED BY <2>4, <2>5, <2>6 DEF SwapApart
<1>18. EntriesFit'
  <2> SUFFICES ASSUME NEW a \in Tasks, NEW w \in Virtual PROVE EntryFits(a, w)'
    BY DEF EntriesFit
  <2>1. EntryFits(a, w)
    BY Known
  <2> QED BY <1>2, <1>5, <1>7, <2>1 DEF EntryFits
<1>19. \A a \in Tasks : KeptFor(a) /\ HeldKept(a)
  <2> SUFFICES ASSUME NEW a \in Tasks PROVE KeptFor(a)
    BY <1>2 DEF HeldKept
  <2> SUFFICES ASSUME NEW w \in Virtual
               PROVE  /\ Seen(a, w)' = Seen(a, w)
                      /\ Empty(a, w) => Empty(a, w)'
                      /\ pte[a][w].nr # NULL => /\ pte'[a][w].nr = pte[a][w].nr
                                                /\ pte'[a][w].page = NULL
                                                /\ swap'[pte[a][w].nr] = swap[pte[a][w].nr]
    BY DEF KeptFor
  <2>1. CASE <<a, w>> # <<u, v>>
    <3>1. pte[a][w].nr # NULL =>
            /\ pte[a][w].page = NULL /\ pte[a][w].nr \in SwapPages /\ pte[a][w].nr # n
      BY <1>4, Known DEF EntryFits, Entries, SwapApart
    <3>2. pte[a][w].nr # NULL => swap'[pte[a][w].nr] = swap[pte[a][w].nr]
      BY <1>12, <3>1
    <3> QED BY <1>2, <1>7, <2>1, <3>1, <3>2 DEF Seen, Present, Empty
  <2>2. CASE <<a, w>> = <<u, v>>
    <3>1. pte'[u][v].page = NULL /\ pte'[u][v].nr = n /\ swap'[n] = content[p]
      BY <1>5, <1>7, <1>12
    <3>2. Seen(u, v)' = content[p]
      BY <1>4, <3>1 DEF Seen, Present
    <3>3. Seen(u, v) = content[p] /\ ~Empty(u, v)
      BY <1>3 DEF Seen, Present, Empty
    <3> QED BY <1>3, <2>2, <3>2, <3>3
  <2> QED BY <2>1, <2>2
<1> QED
  <2>1. fault[t].at \notin {"gone", "user"} /\ cpu \in {t, NULL} /\ cpu' \in {t, NULL}
    BY <1>2
  <2> QED BY <1>2, <1>8, <1>10, <1>11, <1>13, <1>15, <1>16, <1>17, <1>18, <1>19, <2>1, AllGoOn

-----------------------------------------------------------------------------
(* A fault ends: the task runs again.                                      *)
LEMMA Returns ==
  ASSUME IInv, NEW t \in Tasks, ~Forking(t), fault[t].at # "gone", cpu \in {t, NULL}, cpu' = NULL,
         fault' = [fault EXCEPT ![t] = User],
         \A u \in Tasks \ {t} : want'[u] = want[u] /\ HeldKept(u) /\ dir'[u] = dir[u] /\ KeptFor(u),
         \A w \in Virtual : Seen(t, w)' = want'[t][w],
         Types', CountsMappings', EntriesFit', PrivatePages', SwapApart'
  PROVE  IInv'
<1>1. /\ fault'[t] = User /\ \A u \in Tasks \ {t} : fault'[u] = fault[u]
      /\ cpu' # t /\ Child(t) = {}
  BY Known DEF Types, Child
<1>2. FaultFits(t)' /\ ForkFits(t)' /\ ~Forking(t)'
  BY <1>1, RestFits
<1>3. /\ \A u \in Tasks : FaultFits(u)' /\ ForkFits(u)'
      /\ ChildrenApart' /\ GoneFits' /\ OwnContents'
  BY <1>1, <1>2, RestIs, OthersFit
<1> QED BY <1>3 DEF IInv

LEMMA UserInFaults == User \in Faults /\ Gone \in Faults
BY DEF User, Gone, Faults, Labels, NULL

(* Its hands are empty then, and one entry, or its table, may be new.      *)
LEMMA PlacesOnReturn ==
  ASSUME NEW t \in Tasks, NEW v \in Virtual, NEW e,
         pte'[t][v] = e, \A u \in Tasks, w \in Virtual : <<u, w>> # <<t, v>> => pte'[u][w] = pte[u][w],
         fault'[t] = User, fault[t].out = NULL,
         \A u \in Tasks \ {t} : dir'[u] = dir[u] /\ fault'[u] = fault[u]
  PROVE  \A u \in Tasks, w \in Places :
           /\ PageAt(u, w)' = IF <<u, w>> = <<t, v>> THEN e.page
                              ELSE IF <<u, w>> = <<t, InHand>> THEN NULL
                              ELSE IF <<u, w>> = <<t, Dir>> THEN dir'[t]
                              ELSE PageAt(u, w)
           /\ Private(u, w)' => IF <<u, w>> = <<t, v>> THEN e.rw
                                ELSE Private(u, w) /\ <<u, w>> # <<t, InHand>>
<1>2. fault'[t].held = NULL /\ fault'[t].out = NULL
  BY RestIs
<1> SUFFICES ASSUME NEW u \in Tasks, NEW w \in Places
             PROVE  /\ PageAt(u, w)' = IF <<u, w>> = <<t, v>> THEN e.page
                              ELSE IF <<u, w>> = <<t, InHand>> THEN NULL
                              ELSE IF <<u, w>> = <<t, Dir>> THEN dir'[t]
                              ELSE PageAt(u, w)
                    /\ Private(u, w)' => IF <<u, w>> = <<t, v>> THEN e.rw
                                         ELSE Private(u, w) /\ <<u, w>> # <<t, InHand>>
  OBVIOUS
<1>3. CASE w \in Virtual
  BY <1>3, PageIs, PlacesAre DEF Private
<1>4. CASE w = InHand
  BY <1>2, <1>4, PageIs, PlacesAre DEF Private
<1>5. CASE w = Dir \/ w = Outgoing
  BY <1>2, <1>5, PageIs, PlacesAre DEF Private
<1> QED BY <1>3, <1>4, <1>5, PlacesAre

(* The copy of a shared page.                                              *)
LEMMA CopyOnWriteKeeps ==
  ASSUME IInv, NEW t \in Tasks, CopyOnWrite(t)
  PROVE  IInv'
<1> DEFINE e == MappedDirty(NewPage)
<1>1. /\ Gets(t, "cow") /\ mem_map' = [Taken EXCEPT ![fault[t].other] = @ - 1]
      /\ content' = [content EXCEPT ![NewPage] = t]
      /\ pte' = [pte EXCEPT ![t][fault[t].v] = e]
      /\ want' = [want EXCEPT ![t][fault[t].v] = t]
      /\ cpu' = NULL /\ fault' = [fault EXCEPT ![t] = User]
      /\ dir' = dir /\ swap_bitmap' = swap_bitmap /\ swap' = swap
  BY DEF CopyOnWrite, Given_up, Return
<1>2. "cow" \in Goals /\ "cow" # "table" /\ "cow" \notin Forks
  BY DEF Goals, Shares, Forks
<1>3. /\ cpu = t /\ fault[t].at = "alloc" /\ fault[t].goal = "cow"
      /\ fault[t].out = NULL /\ fault[t].held = NULL
      /\ NewPage \in Pages /\ mem_map[NewPage] = 0 /\ NewPage # NULL
      /\ \A u \in Tasks, w \in Places : PageAt(u, w) # NewPage
      /\ \A u \in Tasks, w \in Virtual : pte[u][w].page # NewPage
      /\ \A u \in Tasks : fault[u].held # NewPage
      /\ \A w \in Virtual : Seen(t, w) = want[t][w]
  BY <1>1, <1>2, GetsIs
<1>0. fault[t].v \in Virtual /\ ~Forking(t)
  BY <1>2, <1>3, Known DEF Shape, Forking, Forks
<1> PICK v \in Virtual : v = fault[t].v
  BY <1>0
<1> DEFINE p == pte[t][v].page
<1>4. /\ fault[t].other = p /\ p # NULL
      /\ pte' = [pte EXCEPT ![t][v] = e] /\ want' = [want EXCEPT ![t][v] = t]
  BY <1>1, <1>3, Known DEF FaultFits
<1>5. p \in Pages /\ v \in Places /\ pte[t][v].nr = NULL /\ p # NewPage
  BY <1>3, <1>4, Known, PlacesAre DEF Entries, EntryFits
<1>6. e \in Entries /\ e.page = NewPage /\ e.nr = NULL /\ e.dirty
  BY <1>3 DEF MappedDirty, Mapped, NotMapped, Entries
<1> HIDE DEF e
<1>7. /\ pte' \in [Tasks -> [Virtual -> Entries]] /\ pte'[t][v] = e
      /\ \A a \in Tasks, w \in Virtual : <<a, w>> # <<t, v>> => pte'[a][w] = pte[a][w]
  BY <1>4, <1>6, Known, EntrySet DEF Types
<1>8. Types'
  <2>1. t \in Nat
    BY MemoryAssumption
  <2>2. mem_map' \in [Pages -> Int] /\ content' \in [Pages -> Nat] /\ want' \in [Tasks -> [Virtual -> Nat]]
    BY <1>1, <1>3, <1>4, <1>5, <2>1, Known DEF Types, Taken
  <2>3. fault' \in [Tasks -> Faults] /\ cpu' \in Tasks \cup {NULL}
    BY <1>1, Known, UserInFaults DEF Types
  <2> QED BY <1>1, <1>7, <2>2, <2>3, Known DEF Types
<1>9. \A u \in Tasks, w \in Places :
        /\ PageAt(u, w)' = IF <<u, w>> = <<t, v>> THEN NewPage ELSE PageAt(u, w)
        /\ Private(u, w)' => <<u, w>> = <<t, v>> \/ Private(u, w)
  <2>1. fault'[t] = User /\ \A u \in Tasks \ {t} : dir'[u] = dir[u] /\ fault'[u] = fault[u]
    BY <1>1, Known DEF Types
  <2> HIDE DEF e, p
  <2>2. \A u \in Tasks, w \in Places :
          /\ PageAt(u, w)' = IF <<u, w>> = <<t, v>> THEN e.page
                             ELSE IF <<u, w>> = <<t, InHand>> THEN NULL
                             ELSE IF <<u, w>> = <<t, Dir>> THEN dir'[t]
                             ELSE PageAt(u, w)
          /\ Private(u, w)' => IF <<u, w>> = <<t, v>> THEN e.rw
                               ELSE Private(u, w) /\ <<u, w>> # <<t, InHand>>
    <3>1. /\ pte'[t][v] = e /\ fault'[t] = User /\ fault[t].out = NULL
          /\ \A u \in Tasks, w \in Virtual : <<u, w>> # <<t, v>> => pte'[u][w] = pte[u][w]
          /\ \A u \in Tasks \ {t} : dir'[u] = dir[u] /\ fault'[u] = fault[u]
      BY <1>3, <1>7, <2>1
    <3> QED BY <3>1, PlacesOnReturn
  <2>3. PageAt(t, InHand) = NULL /\ PageAt(t, Dir) = dir'[t]
    BY <1>1, <1>3, PageIs
  <2> QED BY <1>6, <2>2, <2>3
<1>10. CountsMappings'
  <2> DEFINE x == <<t, v>>
             a == [y \in Spot |-> IF y = x THEN NULL ELSE pages[y]]
             m == [mem_map EXCEPT ![p] = @ - 1]
  <2>1. x \in Spot /\ pages[x] = p
    BY <1>4, <1>5, PagesAre, PageIs
  <2>2. \A y \in Spot : pages'[y] = IF y = x THEN NewPage ELSE pages[y]
    BY <1>9, PagesAre
  <2>3. /\ m[p] = mem_map[p] - 1 /\ mem_map'[NewPage] = m[NewPage] + 1
        /\ \A q \in Pages : q # p => m[q] = mem_map[q]
        /\ \A q \in Pages : q # NewPage => mem_map'[q] = m[q]
    <3>1. /\ mem_map' = [[mem_map EXCEPT ![NewPage] = 1] EXCEPT ![p] = @ - 1]
          /\ p # NewPage /\ mem_map[NewPage] = 0 /\ mem_map \in [Pages -> Int]
      BY <1>1, <1>3, <1>4, <1>5, Known DEF Types, Taken
    <3>2. p \in Pages /\ NewPage \in Pages
      BY <1>3, <1>4, <1>5
    <3>3. /\ mem_map'[p] = mem_map[p] - 1 /\ mem_map'[NewPage] = 1
          /\ \A q \in Pages : q # NewPage /\ q # p => mem_map'[q] = mem_map[q]
      <4> DEFINE k == [mem_map EXCEPT ![NewPage] = 1]
      <4>1. /\ k \in [Pages -> Int] /\ k[NewPage] = 1
            /\ \A q \in Pages : q # NewPage => k[q] = mem_map[q]
        BY <3>1, <3>2
      <4>2. mem_map' = [k EXCEPT ![p] = @ - 1]
        BY <3>1
      <4> HIDE DEF k
      <4> QED BY <3>1, <3>2, <4>1, <4>2
    <3>4. /\ m[p] = mem_map[p] - 1 /\ m[NewPage] = 0
          /\ \A q \in Pages : q # p => m[q] = mem_map[q]
      BY <3>1, <3>2
    <3> HIDE DEF m, a
    <3>5. mem_map'[NewPage] = m[NewPage] + 1
      <4>1. mem_map'[NewPage] = 1 /\ m[NewPage] = 0
        BY <3>3, <3>4, Zenon
      <4> QED BY <4>1
    <3>6. \A q \in Pages : q # NewPage => mem_map'[q] = m[q]
      BY <3>3, <3>4
    <3> QED BY <3>4, <3>5, <3>6
  <2>4. /\ \A z \in Spot : a[z] = IF z = x THEN NULL ELSE pages[z]
        /\ \A z \in Spot : pages'[z] = IF z = x THEN NewPage ELSE a[z]
        /\ a[x] = NULL /\ Counted(mem_map, pages)
    BY <2>1, <2>2, Known, CountsAre
  <2> HIDE DEF x, a, m
  <2>5. Counted(m, a)
    BY <1>5, <2>1, <2>3, <2>4, PageLeft
  <2>6. Counted(mem_map', pages')
    BY <1>3, <2>1, <2>3, <2>4, <2>5, PageEntered
  <2> QED BY <2>6, CountsAre
<1>11. PrivatePages'
  <2> DEFINE K == {<<t, v>>}
  <2>1. K \in SUBSET Spot
    BY <1>5, PagesAre
  <2>2. \A u \in Tasks, w \in Places : <<u, w>> \notin K =>
          /\ PageAt(u, w)' \in {PageAt(u, w), NULL}
          /\ Private(u, w)' => Private(u, w) /\ PageAt(u, w)' = PageAt(u, w)
    BY <1>9
  <2>3. PageAt(t, v)' = NewPage
    BY <1>5, <1>9
  <2>4. \A b, a \in Tasks, w, x \in Places :
          <<b, w>> \in K /\ PageAt(a, x)' = PageAt(b, w)' /\ <<a, x>> # <<b, w>>
            => ~Private(b, w)' /\ ~Private(a, x)'
    BY <1>3, <1>9, <2>3
  <2> HIDE DEF K
  <2> QED BY <2>1, <2>2, <2>4, Known, PrivateStay
<1>12. SwapApart'
  <2>1. \A a \in Tasks, w \in Virtual : pte'[a][w].nr = pte[a][w].nr
    BY <1>5, <1>6, <1>7
  <2> QED BY <1>1, <2>1, Known, SwapStays
<1>13. content'[NewPage] = t /\ \A q \in Pages \ {NewPage} : content'[q] = content[q]
  BY <1>1, <1>3, Known DEF Types
<1>14. \A a \in Tasks, w \in Virtual : pte[a][w].page # NULL =>
         content'[pte[a][w].page] = content[pte[a][w].page]
  BY <1>3, <1>13, Known DEF Entries
<1>15. EntriesFit'
  <2> SUFFICES ASSUME NEW a \in Tasks, NEW w \in Virtual PROVE EntryFits(a, w)'
    BY DEF EntriesFit
  <2>1. EntryFits(a, w)
    BY Known
  <2> QED BY <1>3, <1>6, <1>7, <1>14, <2>1 DEF EntryFits
<1>16. \A u \in Tasks \ {t} : want'[u] = want[u] /\ HeldKept(u) /\ dir'[u] = dir[u] /\ KeptFor(u)
  <2> SUFFICES ASSUME NEW u \in Tasks \ {t}
               PROVE  want'[u] = want[u] /\ HeldKept(u) /\ dir'[u] = dir[u] /\ KeptFor(u)
    OBVIOUS
  <2>1. want'[u] = want[u] /\ dir'[u] = dir[u]
    BY <1>1, Known DEF Types
  <2>2. HeldKept(u)
    BY <1>3, <1>13, Known DEF HeldKept, Faults
  <2>3. KeptFor(u)
    BY <1>1, <1>7, <1>14, Known, KeptIf
  <2> QED BY <2>1, <2>2, <2>3
<1>17. ASSUME NEW w \in Virtual PROVE Seen(t, w)' = want'[t][w]
  <2>1. CASE w = v
    <3>1. Seen(t, v)' = t
      BY <1>3, <1>6, <1>7, <1>13 DEF Seen, Present
    <3>2. want'[t][v] = t
      BY <1>1, <1>4, Known DEF Types
    <3> QED BY <2>1, <3>1, <3>2
  <2>2. CASE w # v
    <3>1. pte'[t][w] = pte[t][w] /\ want'[t][w] = want[t][w]
      BY <1>1, <1>4, <1>7, <2>2, Known DEF Types
    <3>2. Seen(t, w)' = Seen(t, w)
      BY <1>1, <1>14, <3>1 DEF Seen, Present
    <3> QED BY <1>3, <3>1, <3>2
  <2> QED BY <2>1, <2>2
<1> QED BY <1>0, <1>1, <1>3, <1>4, <1>8, <1>10, <1>11, <1>12, <1>15, <1>16, <1>17, Returns

-----------------------------------------------------------------------------
(* The page in the hands of a task goes into the entry that misses it.     *)
Puts(t, v, e) ==
  /\ ~Forking(t) /\ fault[t].at # "gone" /\ cpu \in {t, NULL} /\ fault[t].out = NULL
  /\ cpu' = NULL /\ fault' = [fault EXCEPT ![t] = User] /\ pte' = [pte EXCEPT ![t][v] = e]
  /\ content' = content /\ swap' = swap /\ want' = want
  /\ fault[t].held # NULL /\ e.page = fault[t].held /\ e.nr = NULL /\ pte[t][v].page = NULL
  /\ content[fault[t].held] = want[t][v]
  /\ ~e.dirty => content[fault[t].held] = First(v)
  /\ \A u \in Tasks \ {t} : dir'[u] = dir[u]
  /\ dir'[t] = dir[t] \/ \A u \in Tasks, w \in Places : PageAt(u, w) # dir'[t]

LEMMA PutKeeps ==
  ASSUME IInv, NEW t \in Tasks, NEW v \in Virtual, NEW e \in Entries, NEW a,
         Puts(t, v, e), Types', SwapApart', Counted(mem_map', a), mem_map' \in [Pages -> Int],
         \A y \in Spot : a[y] = IF y = <<t, Dir>> THEN dir'[t] ELSE pages[y]
  PROVE  IInv'
<1>a. /\ ~Forking(t) /\ fault[t].at # "gone" /\ cpu \in {t, NULL} /\ fault[t].out = NULL
      /\ cpu' = NULL /\ fault' = [fault EXCEPT ![t] = User] /\ pte' = [pte EXCEPT ![t][v] = e]
      /\ content' = content /\ swap' = swap /\ want' = want
  BY DEF Puts
<1>b. /\ fault[t].held # NULL /\ e.page = fault[t].held /\ e.nr = NULL /\ pte[t][v].page = NULL
      /\ content[fault[t].held] = want[t][v]
      /\ ~e.dirty => content[fault[t].held] = First(v)
      /\ \A u \in Tasks \ {t} : dir'[u] = dir[u]
      /\ dir'[t] = dir[t] \/ \A u \in Tasks, w \in Places : PageAt(u, w) # dir'[t]
  BY DEF Puts
<1> PICK h \in Pages : h = fault[t].held
  BY <1>b, Known DEF Faults
<1>1. /\ pte' \in [Tasks -> [Virtual -> Entries]] /\ pte'[t][v] = e
      /\ \A u \in Tasks, w \in Virtual : <<u, w>> # <<t, v>> => pte'[u][w] = pte[u][w]
  BY <1>a, Known, EntrySet DEF Types
<1>2. fault'[t] = User /\ \A u \in Tasks \ {t} : dir'[u] = dir[u] /\ fault'[u] = fault[u]
  BY <1>a, <1>b, Known DEF Types
<1>3. v \in Places /\ Dir \in Places /\ InHand \in Places /\ v # InHand /\ v # Dir /\ Dir # InHand
  BY PlacesAre
<1>4. \A u \in Tasks, w \in Places :
        /\ PageAt(u, w)' = IF <<u, w>> = <<t, v>> THEN h
                           ELSE IF <<u, w>> = <<t, InHand>> THEN NULL
                           ELSE IF <<u, w>> = <<t, Dir>> THEN dir'[t]
                           ELSE PageAt(u, w)
        /\ Private(u, w)' => <<u, w>> = <<t, v>> \/ (Private(u, w) /\ <<u, w>> # <<t, InHand>>)
  <2>1. \A u \in Tasks, w \in Places :
          /\ PageAt(u, w)' = IF <<u, w>> = <<t, v>> THEN e.page
                             ELSE IF <<u, w>> = <<t, InHand>> THEN NULL
                             ELSE IF <<u, w>> = <<t, Dir>> THEN dir'[t]
                             ELSE PageAt(u, w)
          /\ Private(u, w)' => IF <<u, w>> = <<t, v>> THEN e.rw
                               ELSE Private(u, w) /\ <<u, w>> # <<t, InHand>>
    BY <1>a, <1>1, <1>2, PlacesOnReturn
  <2> QED BY <1>b, <2>1
<1>5. PageAt(t, InHand) = h /\ PageAt(t, v) = NULL /\ h # NULL /\ Private(t, InHand)
      /\ PageAt(t, Dir) = dir[t]
  BY <1>b, PageIs, Known DEF Private
<1>6. CountsMappings'
  <2> DEFINE x == <<t, InHand>>  y == <<t, v>>
  <2>1. x \in Spot /\ y \in Spot /\ x # y /\ a[x] = h /\ a[y] = NULL
    BY <1>3, <1>5, PagesAre
  <2>2. \A z \in Spot : pages'[z] = IF z = x THEN NULL ELSE IF z = y THEN h ELSE a[z]
    BY <1>3, <1>4, PagesAre
  <2> HIDE DEF x, y
  <2>3. Counted(mem_map', pages')
    BY <2>1, <2>2, PageMoved
  <2> QED BY <2>3, CountsAre
<1>7. PrivatePages'
  <2> SUFFICES ASSUME NEW b \in Tasks, NEW c \in Tasks, NEW w \in Places, NEW x \in Places,
                      Private(b, w)', PageAt(c, x)' = PageAt(b, w)'
               PROVE  c = b /\ x = w
    BY DEF PrivatePages
  <2>1. \A y, z \in Tasks, p, q \in Places :
          Private(y, p) /\ PageAt(z, q) = PageAt(y, p) => z = y /\ q = p
    BY Known DEF PrivatePages
  <2>2. CASE <<b, w>> = <<t, v>>
    <3>1. PageAt(c, x)' = h
      BY <1>4, <2>2
    <3>2. \A z \in Tasks, q \in Places : PageAt(z, q) = h => z = t /\ q = InHand
      BY <1>3, <1>5, <2>1
    <3>3. dir'[t] # h
      BY <1>b, <1>3, <1>5, <3>2
    <3>4. (<<c, x>> # <<t, InHand>> /\ <<c, x>> # <<t, Dir>>) \/ <<c, x>> = <<t, v>>
      BY <1>3, <1>4, <1>5, <3>1, <3>3
    <3> QED BY <1>4, <2>2, <3>1, <3>2, <3>4
  <2>3. CASE <<b, w>> # <<t, v>>
    <3>1. Private(b, w) /\ <<b, w>> # <<t, InHand>> /\ w # Dir
      BY <1>4, <2>3, PlacesAre DEF Private
    <3>2. PageAt(b, w)' = PageAt(b, w)
      BY <1>4, <2>3, <3>1
    <3>3. PageAt(b, w) # NULL
      BY <3>1, Known, PageIs, PlacesAre DEF Private, EntryFits
    <3>4. PageAt(b, w) # h
      BY <1>3, <1>5, <2>1, <3>1
    <3>5. PageAt(c, x)' = PageAt(c, x)
      <4>1. <<c, x>> # <<t, v>> /\ <<c, x>> # <<t, InHand>>
        BY <1>3, <1>4, <3>2, <3>3, <3>4
      <4>2. <<c, x>> = <<t, Dir>> => dir'[t] = dir[t]
        BY <1>b, <1>3, <1>4, <3>2
      <4> QED BY <1>4, <1>5, <4>1, <4>2
    <3> QED BY <2>1, <3>1, <3>2, <3>5
  <2> QED BY <2>2, <2>3
<1>8. EntriesFit'
  <2> SUFFICES ASSUME NEW u \in Tasks, NEW w \in Virtual PROVE EntryFits(u, w)'
    BY DEF EntriesFit
  <2>1. EntryFits(u, w)
    BY Known
  <2>2. CASE <<u, w>> = <<t, v>>
    <3>1. pte'[u][w] = e /\ e.page = h /\ e.page # NULL /\ e.nr = NULL
          /\ (~e.dirty => content'[h] = First(w))
      BY <1>a, <1>b, <1>1, <1>5, <2>2
    <3> QED BY <3>1 DEF EntryFits
  <2>3. CASE <<u, w>> # <<t, v>>
    BY <1>a, <1>1, <2>1, <2>3 DEF EntryFits
  <2> QED BY <2>2, <2>3
<1>9. \A u \in Tasks \ {t} : want'[u] = want[u] /\ HeldKept(u) /\ dir'[u] = dir[u] /\ KeptFor(u)
  <2> SUFFICES ASSUME NEW u \in Tasks \ {t}
               PROVE  want'[u] = want[u] /\ HeldKept(u) /\ dir'[u] = dir[u] /\ KeptFor(u)
    OBVIOUS
  <2>1. KeptFor(u)
    BY <1>a, <1>1, Known, KeptIf
  <2> QED BY <1>a, <1>2, <2>1 DEF HeldKept
<1>10. ASSUME NEW w \in Virtual PROVE Seen(t, w)' = want'[t][w]
  <2>1. CASE w = v
    BY <1>a, <1>b, <1>1, <1>5, <2>1 DEF Seen, Present
  <2>2. CASE w # v
    <3>1. Seen(t, w)' = Seen(t, w)
      BY <1>a, <1>1, <2>2 DEF Seen, Present
    <3> QED BY <1>a, <3>1, Known DEF OwnContents
  <2> QED BY <2>1, <2>2
<1> QED BY <1>a, <1>6, <1>7, <1>8, <1>9, <1>10, Returns

LEMMA ReturnTypes ==
  ASSUME Types, NEW t \in Tasks, cpu' = NULL, fault' = [fault EXCEPT ![t] = User],
         mem_map' \in [Pages -> Int], content' = content, dir' \in [Tasks -> Pages \cup {NULL}],
         pte' \in [Tasks -> [Virtual -> Entries]], swap_bitmap' \in SUBSET SwapPages, swap' = swap,
         want' \in [Tasks -> [Virtual -> Nat]]
  PROVE  Types'
BY UserInFaults DEF Types

LEMMA SwapInKeeps ==
  ASSUME IInv, NEW t \in Tasks, SwapIn(t)
  PROVE  IInv'
<1> DEFINE e == MappedDirty(fault[t].held)
<1>1. /\ cpu = NULL /\ fault[t].at = "reading swap"
      /\ swap_bitmap' = swap_bitmap \cup {pte[t][fault[t].v].nr}
      /\ pte' = [pte EXCEPT ![t][fault[t].v] = e]
      /\ cpu' = NULL /\ fault' = [fault EXCEPT ![t] = User]
      /\ mem_map' = mem_map /\ content' = content /\ dir' = dir /\ swap' = swap /\ want' = want
  BY DEF SwapIn, Awake, Return, Released
<1>2. /\ fault[t].goal = "swap in" /\ ~Forking(t) /\ fault[t].v \in Virtual
      /\ fault[t].held # NULL /\ fault[t].held \in Pages /\ fault[t].out = NULL
  BY <1>1, Known DEF Shape, Forking, Forks, Goals, HasPage, Faults
<1> PICK v \in Virtual : v = fault[t].v
  BY <1>2
<1> DEFINE n == pte[t][v].nr
<1>3. /\ n # NULL /\ n \in SwapPages /\ content[fault[t].held] = swap[n] /\ pte[t][v].page = NULL
  <2>1. FaultFits(t) /\ Swapping(fault[t]) /\ pte[t][v] \in Entries /\ EntryFits(t, v)
    BY <1>2, Known DEF Swapping
  <2>2. n # NULL /\ content[fault[t].held] = swap[n]
    BY <1>2, <2>1 DEF FaultFits
  <2> QED BY <2>1, <2>2, Known DEF Entries, EntryFits
<1>4. e \in Entries /\ e.page = fault[t].held /\ e.nr = NULL /\ e.dirty
  BY <1>2 DEF MappedDirty, Mapped, NotMapped, Entries
<1> HIDE DEF e
<1>5. /\ pte' \in [Tasks -> [Virtual -> Entries]] /\ pte'[t][v] = e
      /\ \A u \in Tasks, w \in Virtual : <<u, w>> # <<t, v>> => pte'[u][w] = pte[u][w]
  <2>1. pte' = [pte EXCEPT ![t][v] = e] /\ pte \in [Tasks -> [Virtual -> Entries]]
    BY <1>1, Known DEF Types
  <2> QED BY <1>4, <2>1, EntrySet
<1>6. Types'
  <2>1. swap_bitmap' \in SUBSET SwapPages
    BY <1>1, <1>3, Known DEF Types
  <2> QED BY <1>1, <1>5, <2>1, Known, ReturnTypes DEF Types
<1>7. SwapApart'
  <2>1. SwapApart
    BY Known
  <2>2. \A a \in Tasks, w \in Virtual :
          pte'[a][w].nr = IF <<a, w>> = <<t, v>> THEN NULL ELSE pte[a][w].nr
    BY <1>4, <1>5
  <2>3. \A a \in Tasks, w \in Virtual : pte[a][w].nr = n => <<a, w>> = <<t, v>>
    BY <1>3, <2>1 DEF SwapApart
  <2>4. swap_bitmap' = swap_bitmap \cup {n}
    BY <1>1
  <2>5. NULL \notin swap_bitmap'
    BY <1>6, Known DEF Types
  <2> HIDE DEF n
  <2>6. \A a, b \in Tasks, w, x \in Virtual :
          pte'[a][w].nr # NULL /\ pte'[b][x].nr = pte'[a][w].nr => b = a /\ x = w
    BY <2>1, <2>2 DEF SwapApart
  <2>7. \A a \in Tasks, w \in Virtual : pte'[a][w].nr \notin swap_bitmap'
    BY <2>1, <2>2, <2>3, <2>4, <2>5 DEF SwapApart
  <2>8. \A m \in SwapPages \ swap_bitmap' : \E a \in Tasks, w \in Virtual : pte'[a][w].nr = m
    <3> SUFFICES ASSUME NEW m \in SwapPages \ swap_bitmap'
                 PROVE  \E a \in Tasks, w \in Virtual : pte'[a][w].nr = m
      OBVIOUS
    <3>1. PICK a \in Tasks, w \in Virtual : pte[a][w].nr = m
      BY <2>1, <2>4 DEF SwapApart
    <3>2. <<a, w>> # <<t, v>>
      BY <2>4, <3>1 DEF n
    <3> QED BY <2>2, <3>1, <3>2
  <2> QED BY <2>6, <2>7, <2>8 DEF SwapApart
<1>8. content[fault[t].held] = want[t][v]
  <2>1. Seen(t, v) = want[t][v]
    BY <1>1, Known DEF OwnContents
  <2> QED BY <1>3, <2>1 DEF Seen, Present
<1>9. Puts(t, v, e)
  BY <1>1, <1>2, <1>3, <1>4, <1>8 DEF Puts
<1>10. /\ Counted(mem_map', pages) /\ mem_map' \in [Pages -> Int]
       /\ \A y \in Spot : pages[y] = IF y = <<t, Dir>> THEN dir'[t] ELSE pages[y]
  <2>1. pages[<<t, Dir>>] = dir'[t]
    BY <1>1, PagesAre, PlacesAre, PageIs
  <2> QED BY <1>1, <2>1, Known, CountsAre DEF Types
<1> QED BY <1>4, <1>6, <1>7, <1>9, <1>10, PutKeeps

LEMMA PutPageKeeps ==
  ASSUME IInv, NEW t \in Tasks, PutPage(t)
  PROVE  IInv'
<1>1. /\ cpu \in {t, NULL} /\ fault[t].at \in {"reading file", "put"}
      /\ mem_map' = mem_map /\ content' = content /\ dir' = dir
      /\ swap_bitmap' = swap_bitmap /\ swap' = swap /\ want' = want
  BY DEF PutPage, Awake
<1>2. /\ fault[t].goal = "new" /\ ~Forking(t) /\ fault[t].v \in Virtual
      /\ fault[t].held # NULL /\ fault[t].held \in Pages /\ fault[t].out = NULL
  BY <1>1, Known DEF Shape, Forking, Forks, Goals, Fills, HasPage, Faults
<1> PICK v \in Virtual : v = fault[t].v
  BY <1>2
<1>3. Empty(t, v) /\ content[fault[t].held] = First(v)
  BY <1>2, Known DEF FaultFits, Fills
<1>4. CASE dir[t] = NULL
  <2> DEFINE f == [fault[t] EXCEPT !.at = "alloc", !.goal = "table"]
  <2>1. cpu' = t /\ fault' = [fault EXCEPT ![t] = f] /\ pte' = pte
    BY <1>4 DEF PutPage, Enter
  <2>2. /\ f \in Faults /\ f.at = "alloc" /\ f.goal = "table" /\ f.v = fault[t].v
        /\ f.held = fault[t].held /\ f.out = fault[t].out /\ f.other = fault[t].other
    BY Known DEF Faults, Labels, Kernel, Goals, Fills
  <2> HIDE DEF f
  <2>3. fault'[t] = f
    BY <2>1, Known DEF Types
  <2>4. Shape(f) /\ ~Forking(t)'
    BY <1>2, <2>2, <2>3, PlacesAre DEF Shape, Forking, HasPage, Requests, Goals, Shares, Forks, Fills
  <2>5. FaultFits(t)'
    <3>1. f.held # NULL => content'[f.held] = First(f.v)
      BY <1>1, <1>3, <2>2
    <3>2. pte'[t][f.v].page = NULL /\ pte'[t][f.v].nr = NULL
      BY <1>3, <2>1, <2>2 DEF Empty
    <3> QED BY <1>1, <1>4, <2>1, <2>2, <2>3, <2>4, <3>1, <3>2
        DEF FaultFits, Swapping, Empty, Kernel
  <2>6. ForkFits(t)'
    BY <2>4 DEF ForkFits
  <2> QED BY <1>1, <1>2, <2>1, <2>2, <2>4, <2>5, <2>6, OnlyFault
<1>5. CASE dir[t] # NULL
  <2> DEFINE e == Mapped(fault[t].held)
  <2>1. /\ pte' = [pte EXCEPT ![t][v] = e] /\ cpu' = NULL /\ fault' = [fault EXCEPT ![t] = User]
    BY <1>5 DEF PutPage, Return
  <2>2. e \in Entries /\ e.page = fault[t].held /\ e.nr = NULL
    BY <1>2 DEF Mapped, NotMapped, Entries
  <2> HIDE DEF e
  <2>3. /\ pte' \in [Tasks -> [Virtual -> Entries]] /\ pte'[t][v] = e
        /\ \A u \in Tasks, w \in Virtual : <<u, w>> # <<t, v>> => pte'[u][w] = pte[u][w]
    BY <2>1, <2>2, Known, EntrySet DEF Types
  <2>4. Types'
    BY <1>1, <2>1, <2>3, Known, ReturnTypes DEF Types
  <2>5. SwapApart'
    <3>1. \A a \in Tasks, w \in Virtual : pte'[a][w].nr = pte[a][w].nr
      BY <1>3, <2>2, <2>3 DEF Empty
    <3> QED BY <1>1, <3>1, Known, SwapStays
  <2>6. content[fault[t].held] = want[t][v]
    <3>1. Seen(t, v) = want[t][v]
      BY <1>1, Known DEF OwnContents
    <3> QED BY <1>3, <3>1 DEF Seen, Present, Empty
  <2>7. Puts(t, v, e)
    BY <1>1, <1>2, <1>3, <2>1, <2>2, <2>6 DEF Puts, Empty
  <2>8. /\ Counted(mem_map', pages) /\ mem_map' \in [Pages -> Int]
        /\ \A y \in Spot : pages[y] = IF y = <<t, Dir>> THEN dir'[t] ELSE pages[y]
    <3>1. pages[<<t, Dir>>] = dir'[t]
      BY <1>1, PagesAre, PlacesAre, PageIs
    <3> QED BY <1>1, <3>1, Known, CountsAre DEF Types
  <2> QED BY <2>2, <2>4, <2>5, <2>7, <2>8, PutKeeps
<1> QED BY <1>4, <1>5

LEMMA PutInTableKeeps ==
  ASSUME IInv, NEW t \in Tasks, PutInTable(t)
  PROVE  IInv'
<1> DEFINE e == Mapped(fault[t].held)
<1>1. /\ Gets(t, "table") /\ mem_map' = [mem_map EXCEPT ![NewPage] = 1]
      /\ dir' = [dir EXCEPT ![t] = NewPage]
      /\ pte' = [pte EXCEPT ![t][fault[t].v] = e]
      /\ cpu' = NULL /\ fault' = [fault EXCEPT ![t] = User]
      /\ content' = content /\ swap_bitmap' = swap_bitmap /\ swap' = swap /\ want' = want
  BY DEF PutInTable, Return, Taken
<1>2. "table" \in Goals /\ "table" \in Fills /\ "table" \notin Forks
  BY DEF Goals, Fills, Forks
<1>3. /\ cpu = t /\ fault[t].at = "alloc" /\ fault[t].goal = "table" /\ fault[t].out = NULL
      /\ NewPage \in Pages /\ mem_map[NewPage] = 0 /\ NewPage # NULL
      /\ \A u \in Tasks, w \in Places : PageAt(u, w) # NewPage
  BY <1>1, <1>2, GetsIs
<1>4. /\ ~Forking(t) /\ fault[t].v \in Virtual /\ dir[t] = NULL
      /\ fault[t].held # NULL /\ fault[t].held \in Pages
  BY <1>2, <1>3, Known DEF Shape, Forking, FaultFits, Faults
<1> PICK v \in Virtual : v = fault[t].v
  BY <1>4
<1>5. Empty(t, v) /\ content[fault[t].held] = First(v)
  BY <1>2, <1>3, <1>4, Known DEF FaultFits
<1>6. e \in Entries /\ e.page = fault[t].held /\ e.nr = NULL
  BY <1>4 DEF Mapped, NotMapped, Entries
<1> HIDE DEF e
<1>7. /\ pte' \in [Tasks -> [Virtual -> Entries]] /\ pte'[t][v] = e
      /\ \A u \in Tasks, w \in Virtual : <<u, w>> # <<t, v>> => pte'[u][w] = pte[u][w]
  <2>1. pte' = [pte EXCEPT ![t][v] = e] /\ pte \in [Tasks -> [Virtual -> Entries]]
    BY <1>1, Known DEF Types
  <2> QED BY <1>6, <2>1, EntrySet
<1>8. /\ mem_map' \in [Pages -> Int] /\ dir' \in [Tasks -> Pages \cup {NULL}]
      /\ dir'[t] = NewPage /\ \A u \in Tasks \ {t} : dir'[u] = dir[u]
  BY <1>1, <1>3, Known DEF Types
<1>9. Types'
  BY <1>1, <1>7, <1>8, Known, ReturnTypes DEF Types
<1>10. SwapApart'
  <2>1. \A a \in Tasks, w \in Virtual : pte'[a][w].nr = pte[a][w].nr
    BY <1>5, <1>6, <1>7 DEF Empty
  <2> QED BY <1>1, <2>1, Known, SwapStays
<1>11. content[fault[t].held] = want[t][v]
  <2>1. Seen(t, v) = want[t][v]
    BY <1>3, Known DEF OwnContents
  <2> QED BY <1>5, <2>1 DEF Seen, Present, Empty
<1>12. Puts(t, v, e)
  BY <1>1, <1>3, <1>4, <1>5, <1>6, <1>8, <1>11 DEF Puts, Empty
<1> DEFINE a == [y \in Spot |-> IF y = <<t, Dir>> THEN NewPage ELSE pages[y]]
<1>13. Counted(mem_map', a)
  <2> DEFINE x == <<t, Dir>>
  <2>1. x \in Spot /\ pages[x] = NULL
    BY <1>4, PagesAre, PlacesAre, PageIs
  <2>2. \A y \in Spot : a[y] = IF y = x THEN NewPage ELSE pages[y]
    OBVIOUS
  <2>3. /\ mem_map'[NewPage] = mem_map[NewPage] + 1
        /\ \A q \in Pages : q # NewPage => mem_map'[q] = mem_map[q]
    BY <1>1, <1>3, Known DEF Types
  <2>4. Counted(mem_map, pages)
    BY Known, CountsAre
  <2> HIDE DEF x, a
  <2> QED BY <1>3, <2>1, <2>2, <2>3, <2>4, PageEntered
<1>14. \A y \in Spot : a[y] = IF y = <<t, Dir>> THEN dir'[t] ELSE pages[y]
  BY <1>8
<1> HIDE DEF a
<1> QED BY <1>6, <1>8, <1>9, <1>10, <1>12, <1>13, <1>14, PutKeeps

-----------------------------------------------------------------------------
(* A page of another task's table is shared.                               *)
Shared(t, u, v) ==
  pte' = [pte EXCEPT ![u][v].rw = FALSE, ![t][v] = [pte[u][v] EXCEPT !.rw = FALSE]]

LEMMA EntriesShared ==
  ASSUME NEW t \in Tasks, NEW u \in Tasks \ {t}, NEW v \in Virtual,
         pte \in [Tasks -> [Virtual -> Entries]], Shared(t, u, v)
  PROVE  /\ pte' \in [Tasks -> [Virtual -> Entries]]
         /\ \A a \in {t, u} : /\ pte'[a][v].page = pte[u][v].page /\ pte'[a][v].nr = pte[u][v].nr
                              /\ pte'[a][v].dirty = pte[u][v].dirty /\ ~pte'[a][v].rw
         /\ \A a \in Tasks, w \in Virtual :
              <<a, w>> # <<t, v>> /\ <<a, w>> # <<u, v>> => pte'[a][w] = pte[a][w]
<1> DEFINE e == [pte[u][v] EXCEPT !.rw = FALSE]
<1>1. pte[u][v] \in Entries
  OBVIOUS
<1>2. /\ e \in Entries /\ e.page = pte[u][v].page /\ e.nr = pte[u][v].nr
      /\ e.dirty = pte[u][v].dirty /\ ~e.rw
  BY <1>1 DEF Entries
<1>3. pte' = [a \in Tasks |-> IF a = t THEN [pte[t] EXCEPT ![v] = e]
                              ELSE IF a = u THEN [pte[u] EXCEPT ![v] = e] ELSE pte[a]]
  BY DEF Shared
<1> HIDE DEF e
<1>4. /\ [pte[t] EXCEPT ![v] = e] \in [Virtual -> Entries]
      /\ [pte[u] EXCEPT ![v] = e] \in [Virtual -> Entries]
  BY <1>2
<1>5. pte' \in [Tasks -> [Virtual -> Entries]]
  BY <1>3, <1>4
<1>6. /\ pte'[t][v] = e /\ pte'[u][v] = e
      /\ \A a \in Tasks, w \in Virtual :
           <<a, w>> # <<t, v>> /\ <<a, w>> # <<u, v>> => pte'[a][w] = pte[a][w]
  <2>1. /\ pte'[t] = [pte[t] EXCEPT ![v] = e] /\ pte'[u] = [pte[u] EXCEPT ![v] = e]
        /\ \A a \in Tasks : a # t /\ a # u => pte'[a] = pte[a]
    BY <1>3
  <2> QED BY <2>1
<1> QED BY <1>2, <1>5, <1>6

Sharing(t, u, v) ==
  /\ ~Forking(t) /\ fault[t].at # "gone" /\ cpu \in {t, NULL}
  /\ fault[t].held = NULL /\ fault[t].out = NULL
  /\ cpu' = NULL /\ fault' = [fault EXCEPT ![t] = User]
  /\ content' = content /\ swap_bitmap' = swap_bitmap /\ swap' = swap /\ want' = want
  /\ Shared(t, u, v)
  /\ Empty(t, v) /\ Present(u, v) /\ ~pte[u][v].dirty
  /\ \A a \in Tasks \ {t} : dir'[a] = dir[a]
  /\ dir'[t] = dir[t] \/ \A a \in Tasks, w \in Places : PageAt(a, w) # dir'[t]

LEMMA ShareKeeps ==
  ASSUME IInv, NEW t \in Tasks, NEW u \in Tasks \ {t}, NEW v \in Virtual, Sharing(t, u, v),
         mem_map' \in [Pages -> Int], dir' \in [Tasks -> Pages \cup {NULL}],
         NEW M, NEW a, Counted(M, a), \A y \in Spot : a[y] = IF y = <<t, Dir>> THEN dir'[t] ELSE pages[y],
         mem_map'[pte[u][v].page] = M[pte[u][v].page] + 1,
         \A q \in Pages : q # pte[u][v].page => mem_map'[q] = M[q]
  PROVE  IInv'
<1>a. /\ ~Forking(t) /\ fault[t].at # "gone" /\ cpu \in {t, NULL}
      /\ fault[t].held = NULL /\ fault[t].out = NULL
      /\ cpu' = NULL /\ fault' = [fault EXCEPT ![t] = User]
      /\ content' = content /\ swap_bitmap' = swap_bitmap /\ swap' = swap /\ want' = want
  BY DEF Sharing
<1>b. /\ Shared(t, u, v)
      /\ pte[t][v].page = NULL /\ pte[t][v].nr = NULL /\ pte[u][v].page # NULL /\ ~pte[u][v].dirty
      /\ \A b \in Tasks \ {t} : dir'[b] = dir[b]
      /\ dir'[t] = dir[t] \/ \A b \in Tasks, w \in Places : PageAt(b, w) # dir'[t]
  BY DEF Sharing, Empty, Present
<1> PICK q \in Pages : q = pte[u][v].page
  BY <1>b, Known DEF Entries
<1>1. q # NULL /\ pte[u][v].nr = NULL /\ content[q] = First(v)
  BY <1>b, Known DEF EntryFits
<1>2. /\ pte' \in [Tasks -> [Virtual -> Entries]]
      /\ \A b \in {t, u} : pte'[b][v].page = q /\ pte'[b][v].nr = NULL
                           /\ ~pte'[b][v].dirty /\ ~pte'[b][v].rw
      /\ \A b \in Tasks, w \in Virtual :
           <<b, w>> # <<t, v>> /\ <<b, w>> # <<u, v>> => pte'[b][w] = pte[b][w]
  <2>1. /\ pte' \in [Tasks -> [Virtual -> Entries]]
        /\ \A b \in {t, u} : /\ pte'[b][v].page = pte[u][v].page /\ pte'[b][v].nr = pte[u][v].nr
                             /\ pte'[b][v].dirty = pte[u][v].dirty /\ ~pte'[b][v].rw
        /\ \A b \in Tasks, w \in Virtual :
             <<b, w>> # <<t, v>> /\ <<b, w>> # <<u, v>> => pte'[b][w] = pte[b][w]
    BY <1>b, Known, EntriesShared DEF Types
  <2> QED BY <1>b, <1>1, <2>1
<1>3. fault'[t] = User /\ \A b \in Tasks \ {t} : dir'[b] = dir[b] /\ fault'[b] = fault[b]
  BY <1>a, <1>b, Known DEF Types
<1>4. Types'
  BY <1>a, <1>2, Known, ReturnTypes DEF Types
<1>5. \A b \in Tasks, w \in Places :
        /\ PageAt(b, w)' = IF <<b, w>> = <<t, v>> THEN q
                           ELSE IF <<b, w>> = <<t, Dir>> THEN dir'[t] ELSE PageAt(b, w)
        /\ Private(b, w)' => Private(b, w) /\ <<b, w>> # <<t, v>> /\ <<b, w>> # <<u, v>>
  <2> SUFFICES ASSUME NEW b \in Tasks, NEW w \in Places
               PROVE  /\ PageAt(b, w)' = IF <<b, w>> = <<t, v>> THEN q
                           ELSE IF <<b, w>> = <<t, Dir>> THEN dir'[t] ELSE PageAt(b, w)
                      /\ Private(b, w)' => Private(b, w) /\ <<b, w>> # <<t, v>> /\ <<b, w>> # <<u, v>>
    OBVIOUS
  <2>1. fault'[b].held = fault[b].held /\ fault'[b].out = fault[b].out
    BY <1>a, <1>3, RestIs
  <2>2. CASE w \in Virtual
    <3>1. PageAt(b, w) = pte[b][w].page /\ PageAt(b, w)' = pte'[b][w].page
          /\ (Private(b, w) <=> pte[b][w].rw) /\ (Private(b, w)' <=> pte'[b][w].rw) /\ w # Dir
      BY <2>2, PageIs, PlacesAre DEF Private
    <3>2. <<b, w>> = <<u, v>> => PageAt(b, w) = q
      BY <3>1
    <3> QED BY <1>2, <2>2, <3>1, <3>2
  <2>3. CASE w = InHand \/ w = Outgoing
    <3>1. PageAt(b, w)' = PageAt(b, w)
      BY <2>1, <2>3, PageIs
    <3> QED BY <2>1, <2>3, <3>1, PlacesAre DEF Private
  <2>4. CASE w = Dir
    BY <1>3, <2>4, PageIs, PlacesAre DEF Private
  <2> QED BY <2>2, <2>3, <2>4, PlacesAre
<1>6. CountsMappings'
  <2> DEFINE x == <<t, v>>
  <2>1. x \in Spot /\ a[x] = NULL
    <3>1. x \in Spot /\ pages[x] = NULL /\ x # <<t, Dir>>
      BY <1>b, PagesAre, PlacesAre, PageIs
    <3> QED BY <3>1
  <2>2. \A y \in Spot : pages'[y] = IF y = x THEN q ELSE a[y]
    <3>1. \A y \in Spot : pages'[y] = IF y = x THEN q
                                      ELSE IF y = <<t, Dir>> THEN dir'[t] ELSE pages[y]
      BY <1>5, PagesAre
    <3> QED BY <3>1
  <2> HIDE DEF x
  <2>3. Counted(mem_map', pages')
    BY <2>1, <2>2, PageEntered
  <2> QED BY <2>3, CountsAre
<1>7. PrivatePages'
  <2> SUFFICES ASSUME NEW b \in Tasks, NEW c \in Tasks, NEW w \in Places, NEW x \in Places,
                      Private(b, w)', PageAt(c, x)' = PageAt(b, w)'
               PROVE  c = b /\ x = w
    BY DEF PrivatePages
  <2>1. \A y, z \in Tasks, p, s \in Places :
          Private(y, p) /\ PageAt(z, s) = PageAt(y, p) => z = y /\ s = p
    BY Known DEF PrivatePages
  <2>2. Private(b, w) /\ <<b, w>> # <<t, v>> /\ <<b, w>> # <<u, v>> /\ w # Dir
    BY <1>5, PlacesAre DEF Private
  <2>3. PageAt(b, w)' = PageAt(b, w)
    BY <1>5, <2>2
  <2>4. PageAt(b, w) # q
    <3>1. PageAt(u, v) = q /\ v \in Places
      BY PageIs, PlacesAre
    <3> QED BY <2>1, <2>2, <3>1
  <2>5. PageAt(c, x)' = PageAt(c, x)
    <3>1. <<c, x>> # <<t, v>>
      BY <1>5, <2>3, <2>4
    <3>2. <<c, x>> = <<t, Dir>> => dir'[t] = PageAt(t, Dir)
      BY <1>b, <1>5, <2>3, <3>1, PageIs
    <3> QED BY <1>5, <3>1, <3>2
  <2> QED BY <2>1, <2>2, <2>3, <2>5
<1>8. SwapApart'
  <2>1. \A b \in Tasks, w \in Virtual : pte'[b][w].nr = pte[b][w].nr
    BY <1>b, <1>1, <1>2
  <2> QED BY <1>a, <2>1, Known, SwapStays
<1>9. EntriesFit'
  <2> SUFFICES ASSUME NEW b \in Tasks, NEW w \in Virtual PROVE EntryFits(b, w)'
    BY DEF EntriesFit
  <2>1. EntryFits(b, w)
    BY Known
  <2>2. CASE <<b, w>> = <<t, v>> \/ <<b, w>> = <<u, v>>
    <3>1. pte'[b][w].page = q /\ pte'[b][w].nr = NULL /\ ~pte'[b][w].rw /\ content'[q] = First(w)
      BY <1>a, <1>1, <1>2, <2>2
    <3> QED BY <3>1 DEF EntryFits
  <2>3. CASE <<b, w>> # <<t, v>> /\ <<b, w>> # <<u, v>>
    BY <1>a, <1>2, <2>1, <2>3 DEF EntryFits
  <2> QED BY <2>2, <2>3
<1>10. \A b \in Tasks \ {t} : want'[b] = want[b] /\ HeldKept(b) /\ dir'[b] = dir[b] /\ KeptFor(b)
  <2> SUFFICES ASSUME NEW b \in Tasks \ {t}
               PROVE  want'[b] = want[b] /\ HeldKept(b) /\ dir'[b] = dir[b] /\ KeptFor(b)
    OBVIOUS
  <2>1. \A w \in Virtual : pte'[b][w].page = pte[b][w].page /\ pte'[b][w].nr = pte[b][w].nr
    BY <1>1, <1>2
  <2>2. KeptFor(b)
    BY <1>a, <2>1, Known, KeptIf
  <2> QED BY <1>a, <1>3, <2>2 DEF HeldKept
<1>11. ASSUME NEW w \in Virtual PROVE Seen(t, w)' = want'[t][w]
  <2>1. Seen(t, w) = want[t][w]
    BY <1>a, Known DEF OwnContents
  <2>2. CASE w = v
    <3>1. Seen(t, v)' = First(v)
      BY <1>a, <1>1, <1>2 DEF Seen, Present
    <3>2. Seen(t, v) = First(v)
      BY <1>b DEF Seen, Present
    <3> QED BY <1>a, <2>1, <2>2, <3>1, <3>2
  <2>3. CASE w # v
    <3>1. Seen(t, w)' = Seen(t, w)
      BY <1>a, <1>2, <2>3 DEF Seen, Present
    <3> QED BY <1>a, <2>1, <3>1
  <2> QED BY <2>2, <2>3
<1> QED BY <1>a, <1>4, <1>6, <1>7, <1>8, <1>9, <1>10, <1>11, Returns

LEMMA NoPageKeeps ==
  ASSUME IInv, ~SwapInCow, NEW t \in Tasks, NEW v \in Virtual, NoPage(t, v)
  PROVE  IInv'
<1>1. /\ InUserMode(t) /\ pte[t][v].page = NULL
      /\ content' = content /\ dir' = dir /\ swap_bitmap' = swap_bitmap /\ swap' = swap
      /\ want' = want
  BY DEF NoPage, Present
<1>2. NULL \in Nat /\ Tasks \subseteq Nat
  BY MemoryAssumption DEF NULL
<1>3. CASE pte[t][v].nr # NULL
  <2>1. Call(t, "swap in", v, NULL) /\ mem_map' = mem_map /\ pte' = pte
    BY <1>3 DEF NoPage
  <2>2. "swap in" \in Goals \ Forks /\ "swap in" \notin Fills
    BY DEF Goals, Forks, Fills
  <2> QED BY <1>1, <1>2, <1>3, <2>1, <2>2, CallKeeps
<1>4. CASE pte[t][v].nr = NULL /\ Sharers(t, v) = {}
  <2>1. Call(t, "new", v, NULL) /\ mem_map' = mem_map /\ pte' = pte
    BY <1>4 DEF NoPage
  <2>2. "new" \in Goals \ Forks
    BY DEF Goals, Forks, Fills
  <2>3. Empty(t, v)
    BY <1>1, <1>4 DEF Empty
  <2> QED BY <1>1, <1>2, <2>1, <2>2, <2>3, CallKeeps
<1>5. CASE pte[t][v].nr = NULL /\ Sharers(t, v) # {}
  <2>1. Empty(t, v)
    BY <1>1, <1>5 DEF Empty
  <2>2. PICK u \in Sharers(t, v) :
          \/ dir[t] # NULL /\ Share(t, u, v, mem_map) /\ UNCHANGED <<fault, cpu>>
          \/ /\ dir[t] = NULL /\ FreePages # {}
             /\ Call(t, "share", v, u) /\ mem_map' = mem_map /\ pte' = pte
    BY <1>5 DEF NoPage
  <2>3. u \in Tasks \ {t} /\ Present(u, v) /\ ~pte[u][v].dirty
    BY DEF Sharers
  <2>4. CASE dir[t] = NULL
    <3>1. FreePages # {} /\ Call(t, "share", v, u) /\ mem_map' = mem_map /\ pte' = pte
      BY <2>2, <2>4
    <3>2. "share" \in Goals \ Forks /\ "share" \notin Fills
      BY DEF Goals, Shares, Forks, Fills
    <3> QED BY <1>1, <1>2, <2>1, <2>3, <2>4, <3>1, <3>2, CallKeeps
  <2>5. CASE dir[t] # NULL
    <3>1. Share(t, u, v, mem_map) /\ fault' = fault /\ cpu' = cpu
      BY <2>2, <2>5
    <3>2. cpu = NULL /\ fault[t] = User /\ ~Forking(t)
      BY <1>1, UserIs
    <3>3. fault' = [fault EXCEPT ![t] = User]
      BY <3>1, <3>2, Known DEF Types
    <3>4. Sharing(t, u, v)
      BY <1>1, <2>1, <2>3, <3>1, <3>2, <3>3, RestIs DEF Sharing, Share, Shared
    <3>5. pte[u][v].page \in Pages
      BY <2>3, Known DEF Present, Entries
    <3>6. /\ mem_map' \in [Pages -> Int] /\ dir' \in [Tasks -> Pages \cup {NULL}]
          /\ mem_map'[pte[u][v].page] = mem_map[pte[u][v].page] + 1
          /\ \A q \in Pages : q # pte[u][v].page => mem_map'[q] = mem_map[q]
      BY <1>1, <3>1, <3>5, Known DEF Share, Types
    <3>7. /\ Counted(mem_map, pages)
          /\ \A y \in Spot : pages[y] = IF y = <<t, Dir>> THEN dir'[t] ELSE pages[y]
      <4>1. pages[<<t, Dir>>] = dir'[t]
        BY <1>1, PagesAre, PlacesAre, PageIs
      <4> QED BY <4>1, Known, CountsAre
    <3> QED BY <2>3, <3>4, <3>6, <3>7, ShareKeeps
  <2> QED BY <2>4, <2>5
<1> QED BY <1>3, <1>4, <1>5

LEMMA ShareInTableKeeps ==
  ASSUME IInv, NEW t \in Tasks, ShareInTable(t)
  PROVE  IInv'
<1>1. /\ Gets(t, "share") /\ dir' = [dir EXCEPT ![t] = NewPage]
      /\ Share(t, fault[t].other, fault[t].v, Taken)
      /\ cpu' = NULL /\ fault' = [fault EXCEPT ![t] = User]
      /\ content' = content /\ swap_bitmap' = swap_bitmap /\ swap' = swap /\ want' = want
  BY DEF ShareInTable, Return
<1>2. "share" \in Goals /\ "share" \in Shares /\ "share" \notin Forks /\ "share" # "table"
  BY DEF Goals, Shares, Forks
<1>3. /\ cpu = t /\ fault[t].at = "alloc" /\ fault[t].goal = "share"
      /\ fault[t].out = NULL /\ fault[t].held = NULL
      /\ NewPage \in Pages /\ mem_map[NewPage] = 0 /\ NewPage # NULL
      /\ \A u \in Tasks, w \in Places : PageAt(u, w) # NewPage
      /\ \A u \in Tasks, w \in Virtual : pte[u][w].page # NewPage
  BY <1>1, <1>2, GetsIs
<1>4. /\ ~Forking(t) /\ fault[t].v \in Virtual /\ dir[t] = NULL /\ fault[t].other \in Tasks \ {t}
      /\ Empty(t, fault[t].v) /\ Present(fault[t].other, fault[t].v)
      /\ ~pte[fault[t].other][fault[t].v].dirty
  <2>1. Shape(fault[t]) /\ FaultFits(t)
    BY Known
  <2>2. ~Forking(t)
    BY <1>2, <1>3 DEF Forking
  <2>3. fault[t].v \in Virtual
    BY <1>2, <1>3, <2>1 DEF Shape
  <2>4. /\ dir[t] = NULL /\ fault[t].other \in Tasks \ {t} /\ Empty(t, fault[t].v)
        /\ Present(fault[t].other, fault[t].v) /\ ~pte[fault[t].other][fault[t].v].dirty
    BY <1>3, <2>1 DEF FaultFits
  <2> QED BY <2>2, <2>3, <2>4
<1>v. PICK v \in Virtual : v = fault[t].v
  BY <1>4
<1>u. PICK u \in Tasks \ {t} : u = fault[t].other
  BY <1>4
<1>5. /\ mem_map' = [Taken EXCEPT ![pte[u][v].page] = @ + 1]
      /\ Shared(t, u, v)
  BY <1>1, <1>u, <1>v DEF Share, Shared
<1>6. pte[u][v].page \in Pages /\ pte[u][v].page # NewPage
  BY <1>3, <1>4, <1>u, <1>v, Known DEF Present, Entries
<1>7. dir'[t] = NewPage /\ \A a \in Tasks \ {t} : dir'[a] = dir[a]
  BY <1>1, Known DEF Types
<1>8. Sharing(t, u, v)
  <2>1. Empty(t, v) /\ Present(u, v) /\ ~pte[u][v].dirty
    BY <1>4, <1>u, <1>v
  <2>2. dir'[t] = dir[t] \/ \A a \in Tasks, w \in Places : PageAt(a, w) # dir'[t]
    BY <1>3, <1>7
  <2> QED BY <1>1, <1>3, <1>4, <1>5, <1>7, <2>1, <2>2 DEF Sharing
<1>9. /\ Taken \in [Pages -> Int] /\ Taken[NewPage] = mem_map[NewPage] + 1
      /\ \A q \in Pages : q # NewPage => Taken[q] = mem_map[q]
  BY <1>3, Known DEF Taken, Types
<1>10. /\ mem_map' \in [Pages -> Int] /\ dir' \in [Tasks -> Pages \cup {NULL}]
       /\ mem_map'[pte[u][v].page] = Taken[pte[u][v].page] + 1
       /\ \A q \in Pages : q # pte[u][v].page => mem_map'[q] = Taken[q]
  <2>1. dir' \in [Tasks -> Pages \cup {NULL}]
    BY <1>1, <1>3, Known DEF Types
  <2> DEFINE q == pte[u][v].page
  <2>2. q \in Pages /\ mem_map' = [Taken EXCEPT ![q] = @ + 1]
    BY <1>5, <1>6
  <2> HIDE DEF q
  <2>3. mem_map' \in [Pages -> Int] /\ mem_map'[q] = Taken[q] + 1
        /\ \A r \in Pages : r # q => mem_map'[r] = Taken[r]
    BY <1>9, <2>2
  <2> QED BY <2>1, <2>3 DEF q
<1> DEFINE a == [y \in Spot |-> IF y = <<t, Dir>> THEN NewPage ELSE pages[y]]
<1>11. Counted(Taken, a)
  <2> DEFINE x == <<t, Dir>>
  <2>1. x \in Spot /\ pages[x] = NULL
    BY <1>4, PagesAre, PlacesAre, PageIs
  <2>2. \A y \in Spot : a[y] = IF y = x THEN NewPage ELSE pages[y]
    OBVIOUS
  <2>3. Counted(mem_map, pages)
    BY Known, CountsAre
  <2> HIDE DEF x, a
  <2> QED BY <1>3, <1>9, <2>1, <2>2, <2>3, PageEntered
<1>12. \A y \in Spot : a[y] = IF y = <<t, Dir>> THEN dir'[t] ELSE pages[y]
  BY <1>7
<1> HIDE DEF a
<1> QED
  <2> DEFINE M == Taken
  <2>1. /\ Counted(M, a) /\ mem_map'[pte[u][v].page] = M[pte[u][v].page] + 1
        /\ \A q \in Pages : q # pte[u][v].page => mem_map'[q] = M[q]
    BY <1>10, <1>11
  <2>2. mem_map' \in [Pages -> Int] /\ dir' \in [Tasks -> Pages \cup {NULL}]
    BY <1>10
  <2> HIDE DEF M
  <2>3. u \in Tasks \ {t} /\ v \in Virtual
    BY <1>u, <1>v
  <2> QED BY <1>8, <1>12, <2>1, <2>2, <2>3, ShareKeeps

-----------------------------------------------------------------------------
(* fork: the task has a child in the making.                               *)
LEMMA ForkKeeps ==
  ASSUME IInv, NEW t \in Tasks, Fork(t)
  PROVE  IInv'
<1>1. /\ InUserMode(t)
      /\ UNCHANGED <<mem_map, content, dir, pte, swap_bitmap, swap, want>>
  BY DEF Fork
<1>2. PICK c \in Tasks :
        fault[c].at = "gone" /\ (\A u \in Tasks : fault[u].other # c) /\ Call(t, "fork", NULL, c)
  BY DEF Fork
<1>3. PICK f \in Faults :
        /\ f.at = "alloc" /\ f.goal = "fork" /\ f.v = NULL /\ f.other = c /\ f.held = NULL /\ f.out = NULL
        /\ cpu' = t /\ fault' = [fault EXCEPT ![t] = f] /\ fault'[t] = f
        /\ \A u \in Tasks \ {t} : fault'[u] = fault[u]
  <2>1. "fork" \in Goals /\ NULL \in Nat /\ c \in Nat
    BY MemoryAssumption DEF Goals, Forks, NULL
  <2> HIDE DEF NULL
  <2>2. InUserMode(t) /\ Call(t, "fork", NULL, c)
    BY <1>1, <1>2
  <2> QED BY <2>1, <2>2, CallIs, Zenon
<1>4. /\ cpu = NULL /\ fault[t] = User /\ ~Forking(t) /\ fault[t].held = NULL /\ fault[t].out = NULL
      /\ fault[t].at = "user"
  BY <1>1, UserIs, RestIs
<1>5. /\ fault[c] = Gone /\ c # t /\ fault'[c] = Gone /\ dir[c] = NULL
      /\ \A w \in Virtual : Empty(c, w)
  <2>1. fault[c] = Gone /\ c # t
    BY <1>2, <1>4, Known DEF Shape
  <2>2. dir[c] = NULL /\ \A w \in Virtual : Empty(c, w)
    BY <1>2, Known DEF GoneFits
  <2> QED BY <1>3, <2>1, <2>2
<1>6. Types'
  BY <1>1, <1>3, Known DEF Types
<1>7. \A u \in Tasks, w \in Places : PageAt(u, w)' = PageAt(u, w) /\ (Private(u, w)' <=> Private(u, w))
  <2> SUFFICES ASSUME NEW u \in Tasks, NEW w \in Places
               PROVE  PageAt(u, w)' = PageAt(u, w) /\ (Private(u, w)' <=> Private(u, w))
    OBVIOUS
  <2>1. fault'[u].held = fault[u].held /\ fault'[u].out = fault[u].out
    BY <1>3, <1>4
  <2>2. PageAt(u, w)' = PageAt(u, w)
    BY <1>1, <2>1, PageIs, PlacesAre
  <2> QED BY <1>1, <2>1, <2>2 DEF Private
<1>8. CountsMappings' /\ PrivatePages'
  <2>1. pages' = pages
    BY <1>7 DEF pages, Spot
  <2> QED BY <1>1, <1>7, <2>1, Known, CountsAre DEF PrivatePages
<1>9. SwapApart' /\ EntriesFit'
  BY <1>1, Known DEF SwapApart, EntriesFit, EntryFits
<1>10. \A u \in Tasks : KeptFor(u) /\ HeldKept(u) /\ dir'[u] = dir[u] /\ want'[u] = want[u]
  BY <1>1, Known, KeptIf DEF HeldKept
<1>11. Forking(t)' /\ \A u \in Tasks \ {t} : Forking(u)' <=> Forking(u)
  BY <1>3 DEF Forking, Forks
<1>12. ASSUME NEW u \in Tasks PROVE FaultFits(u)' /\ ForkFits(u)'
  <2>1. CASE u = t
    <3>1. Shape(f)
      BY <1>3 DEF Shape, HasPage, Requests, Goals, Shares, Forks
    <3>2. FaultFits(t)'
      BY <1>3, <3>1 DEF FaultFits, Kernel, Swapping, Fills
    <3>3. ForkFits(t)'
      <4>1. \A w \in Virtual : ~(w < NULL) /\ Empty(c, w)'
        BY <1>5, <1>10, MemoryAssumption DEF KeptFor, NULL
      <4>2. dir'[c] = NULL
        BY <1>5, <1>10
      <4> QED BY <1>3, <1>5, <4>1, <4>2 DEF ForkFits
    <3> QED BY <2>1, <3>2, <3>3
  <2>2. CASE u # t
    <3>1. fault'[u] = fault[u]
      BY <1>3, <2>2
    <3>2. Shape(fault[u]) /\ fault[u].at \notin Kernel /\ cpu' # u
      BY <1>3, <1>4, <2>2, Known
    <3>3. GoesOn(u) /\ fault[u].goal \notin Shares
      BY <3>1, <3>2 DEF GoesOn, Shape, Kernel
    <3>4. FaultFits(u)'
      BY <1>10, <3>3, Known, SleeperFits
    <3>5. Forking(u) => LET d == fault[u].other IN KeptFor(d) /\ fault'[d] = fault[d] /\ dir'[d] = dir[d]
      <4> SUFFICES ASSUME Forking(u)
                   PROVE  LET d == fault[u].other IN KeptFor(d) /\ fault'[d] = fault[d] /\ dir'[d] = dir[d]
        OBVIOUS
      <4>1. fault[u].other \in Tasks /\ fault[fault[u].other] = Gone
        BY Known DEF ForkFits
      <4>2. fault[u].other # t
        BY <1>4, <4>1, RestIs
      <4> QED BY <1>3, <1>10, <4>1, <4>2
    <3> QED BY <1>10, <3>3, <3>4, <3>5, Known, ForkerFits
  <2> QED BY <2>1, <2>2
<1>13. ChildrenApart'
  <2>1. \A u \in Tasks \ {t} : fault'[u].other = fault[u].other /\ fault[u].other # c
    BY <1>2, <1>3
  <2> QED BY <1>3, <1>11, <2>1, Known DEF ChildrenApart
<1>14. GoneFits'
  <2> SUFFICES ASSUME NEW d \in Tasks, fault'[d].at = "gone",
                      \A u \in Tasks : Forking(u)' => fault'[u].other # d
               PROVE  dir'[d] = NULL /\ \A v \in Virtual : Empty(d, v)'
    BY DEF GoneFits
  <2>1. d # t /\ fault[d].at = "gone"
    BY <1>3
  <2>2. \A u \in Tasks : Forking(u) => fault[u].other # d
    BY <1>3, <1>4, <1>11
  <2>3. dir[d] = NULL /\ \A v \in Virtual : Empty(d, v)
    BY <2>1, <2>2, Known DEF GoneFits
  <2> QED BY <1>10, <2>3 DEF KeptFor
<1>15. OwnContents'
  <2> SUFFICES ASSUME NEW u \in Tasks, NEW v \in Virtual, fault'[u].at # "gone"
               PROVE  Seen(u, v)' = want'[u][v]
    BY DEF OwnContents
  <2>1. fault[u].at # "gone"
    BY <1>3, <1>4
  <2> QED BY <1>10, <2>1, Known DEF OwnContents, KeptFor
<1> QED BY <1>6, <1>8, <1>9, <1>12, <1>13, <1>14, <1>15 DEF IInv

(* What fork knows of the child.                                           *)
LEMMA ForkIs ==
  ASSUME IInv, NEW t \in Tasks, Forking(t)
  PROVE  \E c \in Tasks : /\ c = fault[t].other /\ c # t /\ fault[c] = Gone /\ Child(t) = {c}
                          /\ fault[t].at \notin {"gone", "user"}
                          /\ \A w \in Virtual : Seen(t, w) = want[t][w]
                          /\ \A w \in Virtual : IF w < fault[t].v THEN Seen(c, w) = want[t][w]
                                                ELSE Empty(c, w)
                          /\ fault[t].goal = "fork" /\ fault[t].at # "copy" => dir[c] = NULL
<1>1. PICK c \in Tasks : c = fault[t].other
  BY Known DEF ForkFits
<1>2. /\ fault[c] = Gone /\ Child(t) = {c}
      /\ \A w \in Virtual : IF w < fault[t].v THEN Seen(c, w) = want[t][w] ELSE Empty(c, w)
      /\ fault[t].goal = "fork" /\ fault[t].at # "copy" => dir[c] = NULL
  BY <1>1, Known DEF ForkFits, Child
<1>3. fault[t].at \notin {"gone", "user"}
  BY Known, RestIs DEF Forking, Forks, Shape
<1>4. c # t
  BY <1>2, <1>3, RestIs
<1>5. \A w \in Virtual : Seen(t, w) = want[t][w]
  BY <1>3, Known DEF OwnContents
<1> QED BY <1>1, <1>2, <1>3, <1>4, <1>5

LEMMA ForkTableKeeps ==
  ASSUME IInv, NEW t \in Tasks, ForkTable(t)
  PROVE  IInv'
<1> DEFINE f == [fault[t] EXCEPT !.at = "copy", !.v = 1]
<1>1. /\ Gets(t, "fork") /\ mem_map' = [mem_map EXCEPT ![NewPage] = 1]
      /\ dir' = [dir EXCEPT ![fault[t].other] = NewPage]
      /\ cpu' = t /\ fault' = [fault EXCEPT ![t] = f]
      /\ content' = content /\ pte' = pte /\ swap_bitmap' = swap_bitmap /\ swap' = swap /\ want' = want
  BY DEF ForkTable, Enter, Taken
<1>2. "fork" \in Goals /\ "fork" \in Forks /\ "fork" # "table"
  BY DEF Goals, Forks
<1>3. /\ cpu = t /\ fault[t].at = "alloc" /\ fault[t].goal = "fork" /\ fault[t].out = NULL
      /\ fault[t].held = NULL /\ NewPage \in Pages /\ mem_map[NewPage] = 0 /\ NewPage # NULL
      /\ \A u \in Tasks, w \in Places : PageAt(u, w) # NewPage
  BY <1>1, <1>2, GetsIs
<1>4. Forking(t) /\ fault[t].v = NULL
  BY <1>2, <1>3, Known DEF Forking, Shape
<1>5. PICK c \in Tasks : /\ c = fault[t].other /\ c # t /\ fault[c] = Gone /\ Child(t) = {c}
                         /\ \A w \in Virtual : Seen(t, w) = want[t][w]
                         /\ \A w \in Virtual : IF w < fault[t].v THEN Seen(c, w) = want[t][w]
                                               ELSE Empty(c, w)
                         /\ dir[c] = NULL
  BY <1>3, <1>4, ForkIs
<1>6. /\ f \in Faults /\ f.at = "copy" /\ f.goal = "fork" /\ f.v = 1 /\ f.held = NULL
      /\ f.out = NULL /\ f.other = c
  <2>1. fault[t] \in Faults /\ "copy" \in Labels
    BY Known DEF Labels, Kernel
  <2>2. f \in Faults
    BY <2>1 DEF Faults
  <2>3. /\ f.at = "copy" /\ f.goal = fault[t].goal /\ f.v = 1 /\ f.held = fault[t].held
        /\ f.out = fault[t].out /\ f.other = fault[t].other
    BY <2>1 DEF Faults
  <2> QED BY <1>3, <1>5, <2>2, <2>3
<1> HIDE DEF f
<1>7. /\ fault'[t] = f /\ \A u \in Tasks \ {t} : fault'[u] = fault[u]
      /\ fault' \in [Tasks -> Faults]
  BY <1>1, <1>6, Known DEF Types
<1>8. /\ dir' \in [Tasks -> Pages \cup {NULL}] /\ dir'[c] = NewPage
      /\ \A u \in Tasks \ {c} : dir'[u] = dir[u]
  BY <1>1, <1>3, <1>5, Known DEF Types
<1>9. Types'
  <2>1. mem_map' \in [Pages -> Int]
    BY <1>1, <1>3, Known DEF Types
  <2> QED BY <1>1, <1>7, <1>8, <2>1, Known DEF Types
<1>10. \A u \in Tasks, w \in Places :
         /\ PageAt(u, w)' = IF <<u, w>> = <<c, Dir>> THEN NewPage ELSE PageAt(u, w)
         /\ Private(u, w)' <=> Private(u, w)
  <2> SUFFICES ASSUME NEW u \in Tasks, NEW w \in Places
               PROVE  /\ PageAt(u, w)' = IF <<u, w>> = <<c, Dir>> THEN NewPage ELSE PageAt(u, w)
                      /\ Private(u, w)' <=> Private(u, w)
    OBVIOUS
  <2>1. fault'[u].held = fault[u].held /\ fault'[u].out = fault[u].out
    BY <1>3, <1>6, <1>7
  <2>2. CASE w = Dir
    BY <1>8, <2>2, PageIs, PlacesAre DEF Private
  <2>3. CASE w # Dir
    <3>1. PageAt(u, w)' = PageAt(u, w)
      BY <1>1, <2>1, <2>3, PageIs, PlacesAre
    <3> QED BY <1>1, <2>1, <2>3, <3>1 DEF Private
  <2> QED BY <2>2, <2>3
<1>11. CountsMappings'
  <2> DEFINE x == <<c, Dir>>
  <2>1. x \in Spot /\ pages[x] = NULL
    BY <1>5, PagesAre, PlacesAre, PageIs
  <2>2. \A y \in Spot : pages'[y] = IF y = x THEN NewPage ELSE pages[y]
    BY <1>10, PagesAre
  <2>3. /\ mem_map'[NewPage] = mem_map[NewPage] + 1
        /\ \A q \in Pages : q # NewPage => mem_map'[q] = mem_map[q]
    BY <1>1, <1>3, Known DEF Types
  <2>4. Counted(mem_map, pages)
    BY Known, CountsAre
  <2> HIDE DEF x
  <2>5. Counted(mem_map', pages')
    BY <1>3, <2>1, <2>2, <2>3, <2>4, PageEntered
  <2> QED BY <2>5, CountsAre
<1>12. PrivatePages'
  <2> DEFINE K == {<<c, Dir>>}
  <2>1. K \in SUBSET Spot
    BY PlacesAre, PagesAre
  <2>2. \A u \in Tasks, w \in Places : <<u, w>> \notin K =>
          /\ PageAt(u, w)' \in {PageAt(u, w), NULL}
          /\ Private(u, w)' => Private(u, w) /\ PageAt(u, w)' = PageAt(u, w)
    BY <1>10
  <2>3. PageAt(c, Dir)' = NewPage
    BY <1>10, PlacesAre
  <2>4. \A b, a \in Tasks, w, x \in Places :
          <<b, w>> \in K /\ PageAt(a, x)' = PageAt(b, w)' /\ <<a, x>> # <<b, w>>
            => ~Private(b, w)' /\ ~Private(a, x)'
    BY <1>3, <1>10, <2>3
  <2> HIDE DEF K
  <2> QED BY <2>1, <2>2, <2>4, Known, PrivateStay
<1>13. SwapApart' /\ EntriesFit'
  <2>1. SwapApart'
    BY <1>1, Known, SwapStays
  <2> QED BY <1>1, <2>1, Known DEF EntriesFit, EntryFits
<1>14. \A u \in Tasks : KeptFor(u) /\ HeldKept(u) /\ want'[u] = want[u]
  BY <1>1, Known, KeptIf DEF HeldKept
<1>15. FaultFits(t)' /\ Forking(t)'
  <2>1. Shape(f)
    BY <1>6 DEF Shape, HasPage, Requests, Goals, Shares, Forks
  <2> QED BY <1>1, <1>2, <1>6, <1>7, <2>1 DEF FaultFits, Forking, Kernel, Swapping, Fills
<1>16. ForkFits(t)'
  <2>1. fault'[c] = Gone
    BY <1>5, <1>7
  <2>2. \A w \in Virtual : ~(w < 1) /\ Empty(c, w)'
    <3>1. \A w \in Virtual : w \in Nat /\ w # 0
      BY MemoryAssumption DEF NULL
    <3>2. \A w \in Virtual : Empty(c, w)
      BY <1>4, <1>5, <3>1 DEF NULL
    <3> QED BY <1>14, <3>1, <3>2 DEF KeptFor
  <2> QED BY <1>6, <1>7, <2>1, <2>2 DEF ForkFits
<1>17. /\ \A u \in Tasks : FaultFits(u)' /\ ForkFits(u)'
       /\ ChildrenApart' /\ GoneFits' /\ OwnContents'
  <2>1. \A w \in Virtual : Seen(t, w)' = want'[t][w]
    BY <1>1, <1>5, <1>14 DEF KeptFor
  <2>2. /\ fault'[t].other = fault[t].other /\ fault[t].at # "gone" /\ fault'[t].at # "gone"
        /\ cpu \in {t, NULL} /\ cpu' \in {t, NULL}
    BY <1>1, <1>3, <1>5, <1>6, <1>7
  <2>3. \A u \in Tasks \ ({t} \cup Child(t)) : dir'[u] = dir[u] /\ KeptFor(u)
    BY <1>5, <1>8, <1>14
  <2> QED BY <1>4, <1>7, <1>14, <1>15, <1>16, <2>1, <2>2, <2>3, OthersFit
<1> QED BY <1>9, <1>11, <1>12, <1>13, <1>17 DEF IInv

LEMMA EntriesTwo ==
  ASSUME NEW t \in Tasks, NEW c \in Tasks \ {t}, NEW v \in Virtual, NEW d \in Entries, NEW e \in Entries,
         pte \in [Tasks -> [Virtual -> Entries]], pte' = [pte EXCEPT ![c][v] = d, ![t][v] = e]
  PROVE  /\ pte' \in [Tasks -> [Virtual -> Entries]] /\ pte'[c][v] = d /\ pte'[t][v] = e
         /\ \A a \in Tasks, w \in Virtual :
              <<a, w>> # <<t, v>> /\ <<a, w>> # <<c, v>> => pte'[a][w] = pte[a][w]
<1>1. pte' = [a \in Tasks |-> IF a = t THEN [pte[t] EXCEPT ![v] = e]
                              ELSE IF a = c THEN [pte[c] EXCEPT ![v] = d] ELSE pte[a]]
  OBVIOUS
<1>2. [pte[t] EXCEPT ![v] = e] \in [Virtual -> Entries] /\ [pte[c] EXCEPT ![v] = d] \in [Virtual -> Entries]
  OBVIOUS
<1>3. pte' \in [Tasks -> [Virtual -> Entries]]
  BY <1>1, <1>2
<1>4. /\ pte'[t] = [pte[t] EXCEPT ![v] = e] /\ pte'[c] = [pte[c] EXCEPT ![v] = d]
      /\ \A a \in Tasks : a # t /\ a # c => pte'[a] = pte[a]
  BY <1>1
<1> QED BY <1>3, <1>4

(* The child takes over the swap page of an entry.                         *)
LEMMA ForkSwappedKeeps ==
  ASSUME IInv, NEW t \in Tasks, ForkSwapped(t)
  PROVE  IInv'
<1> DEFINE e == MappedDirty(fault[t].held)
           f == [fault[t] EXCEPT !.at = "copy", !.v = fault[t].v + 1, !.held = NULL]
<1>1. /\ cpu = NULL /\ fault[t].at = "reading fork"
      /\ pte' = [pte EXCEPT ![fault[t].other][fault[t].v] = pte[t][fault[t].v], ![t][fault[t].v] = e]
      /\ cpu' = t /\ fault' = [fault EXCEPT ![t] = f]
      /\ mem_map' = mem_map /\ content' = content /\ dir' = dir /\ swap_bitmap' = swap_bitmap
      /\ swap' = swap /\ want' = want
  BY DEF ForkSwapped, Awake, Enter
<1>2. /\ fault[t].goal = "fork in" /\ Forking(t) /\ fault[t].v \in Virtual
      /\ fault[t].held # NULL /\ fault[t].held \in Pages /\ fault[t].out = NULL
  BY <1>1, Known DEF Shape, Forking, Forks, Goals, HasPage, Faults
<1>v. PICK v \in Virtual : v = fault[t].v
  BY <1>2
<1>h. PICK h \in Pages : h = fault[t].held
  BY <1>2
<1>3. PICK c \in Tasks : /\ c = fault[t].other /\ c # t /\ fault[c] = Gone /\ Child(t) = {c}
                         /\ \A w \in Virtual : Seen(t, w) = want[t][w]
                         /\ \A w \in Virtual : IF w < v THEN Seen(c, w) = want[t][w] ELSE Empty(c, w)
  BY <1>2, <1>v, ForkIs
<1>n. PICK n \in SwapPages : n = pte[t][v].nr
  <2>1. FaultFits(t) /\ Swapping(fault[t]) /\ pte[t][v] \in Entries
    BY <1>1, <1>2, <1>v, Known DEF Swapping
  <2>2. pte[t][v].nr # NULL
    BY <1>v, <2>1 DEF FaultFits
  <2> QED BY <2>1, <2>2 DEF Entries
<1>4. n # NULL /\ content[h] = swap[n] /\ pte[t][v].page = NULL /\ ~pte[t][v].rw
  <2>1. FaultFits(t) /\ Swapping(fault[t]) /\ EntryFits(t, v)
    BY <1>1, <1>2, <1>v, Known DEF Swapping
  <2>2. n # NULL /\ content[h] = swap[n]
    BY <1>2, <1>v, <1>h, <1>n, <2>1, Known DEF FaultFits
  <2> QED BY <1>n, <2>1, <2>2 DEF EntryFits
<1>5. v \in Nat /\ h # NULL /\ Empty(c, v)
  <2>1. v \in Nat /\ ~(v < v)
    BY PlacesAre
  <2> QED BY <1>3, <2>1, Known
<1>6. e \in Entries /\ e.page = h /\ e.nr = NULL /\ e.dirty
  BY <1>h DEF MappedDirty, Mapped, NotMapped, Entries
<1>7. /\ f \in Faults /\ f.at = "copy" /\ f.goal = "fork in" /\ f.v = v + 1 /\ f.held = NULL
      /\ f.out = NULL /\ f.other = c
  <2>1. fault[t] \in Faults /\ fault[t].v + 1 \in Nat
    BY <1>v, <1>5, Known
  <2>2. /\ f \in Faults /\ f.at = "copy" /\ f.goal = fault[t].goal /\ f.v = fault[t].v + 1
        /\ f.held = NULL /\ f.out = fault[t].out /\ f.other = fault[t].other
    BY <2>1 DEF Faults, Labels, Kernel
  <2> HIDE DEF f
  <2> QED BY <1>2, <1>v, <1>3, <2>2
<1> HIDE DEF e, f
<1>8. /\ fault'[t] = f /\ \A u \in Tasks \ {t} : fault'[u] = fault[u]
      /\ fault' \in [Tasks -> Faults]
  BY <1>1, <1>7, Known DEF Types
<1>9. /\ pte' \in [Tasks -> [Virtual -> Entries]] /\ pte'[c][v] = pte[t][v] /\ pte'[t][v] = e
      /\ \A a \in Tasks, w \in Virtual :
           <<a, w>> # <<t, v>> /\ <<a, w>> # <<c, v>> => pte'[a][w] = pte[a][w]
  <2> DEFINE d == pte[t][v]
  <2>1. pte' = [pte EXCEPT ![c][v] = d, ![t][v] = e]
    BY <1>1, <1>v, <1>3
  <2>2. d \in Entries /\ c \in Tasks \ {t} /\ v \in Virtual /\ pte \in [Tasks -> [Virtual -> Entries]]
    BY <1>3, <1>v, Known DEF Types
  <2> HIDE DEF d
  <2>3. /\ pte' \in [Tasks -> [Virtual -> Entries]] /\ pte'[c][v] = d /\ pte'[t][v] = e
        /\ \A a \in Tasks, w \in Virtual :
             <<a, w>> # <<t, v>> /\ <<a, w>> # <<c, v>> => pte'[a][w] = pte[a][w]
    BY <1>6, <2>1, <2>2, EntriesTwo
  <2> QED BY <2>3 DEF d
<1>10. Types'
  BY <1>1, <1>8, <1>9, Known DEF Types
<1>11. \A u \in Tasks, w \in Places :
         /\ PageAt(u, w)' = IF <<u, w>> = <<t, v>> THEN h
                            ELSE IF <<u, w>> = <<t, InHand>> THEN NULL ELSE PageAt(u, w)
         /\ Private(u, w)' => <<u, w>> = <<t, v>> \/ (Private(u, w) /\ <<u, w>> # <<t, InHand>>)
  <2> SUFFICES ASSUME NEW u \in Tasks, NEW w \in Places
               PROVE  /\ PageAt(u, w)' = IF <<u, w>> = <<t, v>> THEN h
                            ELSE IF <<u, w>> = <<t, InHand>> THEN NULL ELSE PageAt(u, w)
                      /\ Private(u, w)' => <<u, w>> = <<t, v>>
                                           \/ (Private(u, w) /\ <<u, w>> # <<t, InHand>>)
    OBVIOUS
  <2>1. CASE w \in Virtual
    <3>1. PageAt(u, w) = pte[u][w].page /\ PageAt(u, w)' = pte'[u][w].page
          /\ (Private(u, w) <=> pte[u][w].rw) /\ (Private(u, w)' <=> pte'[u][w].rw) /\ w # InHand
      BY <2>1, PageIs, PlacesAre DEF Private
    <3>2. <<u, w>> = <<c, v>> => PageAt(u, w) = NULL
      BY <1>5, <3>1 DEF Empty
    <3> QED BY <1>3, <1>4, <1>6, <1>9, <2>1, <3>1, <3>2
  <2>2. CASE w = InHand
    <3>1. fault'[u].held = IF u = t THEN NULL ELSE fault[u].held
      BY <1>7, <1>8
    <3>2. InHand # v
      BY <1>v, PlacesAre
    <3> QED BY <2>2, <3>1, <3>2, PageIs DEF Private
  <2>3. CASE w = Dir \/ w = Outgoing
    <3>1. fault'[u].out = fault[u].out /\ dir'[u] = dir[u]
      BY <1>1, <1>2, <1>7, <1>8
    <3>2. PageAt(u, w)' = PageAt(u, w) /\ w # v /\ w # InHand
      BY <1>v, <2>3, <3>1, PageIs, PlacesAre
    <3> QED BY <2>3, <3>2, PlacesAre DEF Private
  <2> QED BY <2>1, <2>2, <2>3, PlacesAre
<1>12. /\ PageAt(t, InHand) = h /\ PageAt(t, v) = NULL /\ Private(t, InHand)
       /\ v \in Places /\ InHand \in Places /\ v # InHand
  BY <1>2, <1>v, <1>h, <1>4, PageIs, PlacesAre DEF Private
<1>13. CountsMappings'
  <2> DEFINE x == <<t, InHand>>  y == <<t, v>>
  <2>1. x \in Spot /\ y \in Spot /\ x # y /\ pages[x] = h /\ pages[y] = NULL
    BY <1>12, PagesAre
  <2>2. \A z \in Spot : pages'[z] = IF z = x THEN NULL ELSE IF z = y THEN h ELSE pages[z]
    BY <1>11, <1>12, PagesAre
  <2>3. Counted(mem_map, pages) /\ mem_map \in [Pages -> Int] /\ h \in Pages
    BY <1>h, Known, CountsAre DEF Types
  <2> HIDE DEF x, y
  <2>4. Counted(mem_map, pages')
    BY <2>1, <2>2, <2>3, PageMoved
  <2> QED BY <1>1, <2>4, CountsAre
<1>14. PrivatePages'
  <2> DEFINE K == {<<t, v>>}
  <2>1. K \in SUBSET Spot
    BY <1>12, PagesAre
  <2>2. \A u \in Tasks, w \in Places : <<u, w>> \notin K =>
          /\ PageAt(u, w)' \in {PageAt(u, w), NULL}
          /\ Private(u, w)' => Private(u, w) /\ PageAt(u, w)' = PageAt(u, w)
    BY <1>11
  <2>3. PageAt(t, v)' = h
    BY <1>11, <1>12
  <2>4. \A a \in Tasks, x \in Places : PageAt(a, x) = h => a = t /\ x = InHand
    BY <1>12, Known DEF PrivatePages
  <2>5. \A a \in Tasks, x \in Places : PageAt(a, x)' = h => <<a, x>> = <<t, v>>
    BY <1>5, <1>11, <2>4
  <2>6. \A b, a \in Tasks, w, x \in Places :
          <<b, w>> \in K /\ PageAt(a, x)' = PageAt(b, w)' /\ <<a, x>> # <<b, w>>
            => ~Private(b, w)' /\ ~Private(a, x)'
    BY <2>3, <2>5
  <2> HIDE DEF K
  <2> QED BY <2>1, <2>2, <2>6, Known, PrivateStay
<1>15. SwapApart'
  <2>1. SwapApart
    BY Known
  <2>2. \A a \in Tasks, w \in Virtual :
          pte'[a][w].nr = IF <<a, w>> = <<t, v>> THEN NULL
                          ELSE IF <<a, w>> = <<c, v>> THEN n ELSE pte[a][w].nr
    BY <1>n, <1>6, <1>9
  <2>3. \A a \in Tasks, w \in Virtual : pte[a][w].nr = n => <<a, w>> = <<t, v>>
    BY <1>n, <1>v, <1>4, <2>1 DEF SwapApart
  <2>4. swap_bitmap' = swap_bitmap /\ n \notin swap_bitmap /\ NULL \notin swap_bitmap
    BY <1>1, <1>n, <1>v, <2>1, Known DEF SwapApart, Types
  <2>5. \A a, b \in Tasks, w, x \in Virtual :
          pte'[a][w].nr # NULL /\ pte'[b][x].nr = pte'[a][w].nr => b = a /\ x = w
    <3> SUFFICES ASSUME NEW a \in Tasks, NEW b \in Tasks, NEW w \in Virtual, NEW x \in Virtual,
                        pte'[a][w].nr # NULL, pte'[b][x].nr = pte'[a][w].nr
                 PROVE  b = a /\ x = w
      OBVIOUS
    <3>1. CASE <<a, w>> = <<c, v>> \/ <<b, x>> = <<c, v>>
      BY <2>2, <2>3, <3>1
    <3>2. CASE <<a, w>> # <<c, v>> /\ <<b, x>> # <<c, v>>
      BY <2>1, <2>2, <3>2 DEF SwapApart
    <3> QED BY <3>1, <3>2
  <2>6. \A a \in Tasks, w \in Virtual : pte'[a][w].nr \notin swap_bitmap'
    BY <2>1, <2>2, <2>4 DEF SwapApart
  <2>7. \A m \in SwapPages \ swap_bitmap' : \E a \in Tasks, w \in Virtual : pte'[a][w].nr = m
    <3> SUFFICES ASSUME NEW m \in SwapPages \ swap_bitmap'
                 PROVE  \E a \in Tasks, w \in Virtual : pte'[a][w].nr = m
      OBVIOUS
    <3>1. CASE m = n
      <4>1. pte'[c][v].nr = n
        BY <1>3, <1>v, <2>2
      <4> QED BY <1>v, <3>1, <4>1
    <3>2. CASE m # n
      <4>1. PICK a \in Tasks, w \in Virtual : pte[a][w].nr = m
        BY <2>1, <2>4 DEF SwapApart
      <4>2. <<a, w>> # <<t, v>> /\ <<a, w>> # <<c, v>>
        BY <1>n, <1>5, <3>2, <4>1, Known DEF Empty
      <4> QED BY <2>2, <4>1, <4>2
    <3> QED BY <3>1, <3>2
  <2> QED BY <2>5, <2>6, <2>7 DEF SwapApart
<1>16. EntriesFit'
  <2> SUFFICES ASSUME NEW u \in Tasks, NEW w \in Virtual PROVE EntryFits(u, w)'
    BY DEF EntriesFit
  <2>1. EntryFits(u, w)
    BY Known
  <2>2. CASE <<u, w>> = <<t, v>>
    <3>1. pte'[u][w] = e
      BY <1>9, <2>2
    <3> QED BY <1>5, <1>6, <3>1 DEF EntryFits
  <2>3. CASE <<u, w>> = <<c, v>>
    <3>1. pte'[u][w].page = NULL /\ ~pte'[u][w].rw
      BY <1>4, <1>9, <2>3
    <3> QED BY <3>1 DEF EntryFits
  <2>4. CASE <<u, w>> # <<t, v>> /\ <<u, w>> # <<c, v>>
    BY <1>1, <1>9, <2>1, <2>4 DEF EntryFits
  <2> QED BY <2>2, <2>3, <2>4
<1>17. \A u \in Tasks \ {t, c} : KeptFor(u)
  BY <1>1, <1>9, Known, KeptIf
<1>18. Seen(t, v)' = want[t][v] /\ Seen(c, v)' = want[t][v]
  <2>1. Seen(t, v) = swap[n] /\ Seen(t, v) = want[t][v]
    BY <1>v, <1>n, <1>3, <1>4 DEF Seen, Present
  <2>2. Seen(t, v)' = content[h]
    BY <1>1, <1>5, <1>6, <1>9 DEF Seen, Present
  <2>3. Seen(c, v)' = swap[n]
    BY <1>1, <1>n, <1>4, <1>9 DEF Seen, Present
  <2> QED BY <1>4, <2>1, <2>2, <2>3
<1>19. ASSUME NEW w \in Virtual, w # v
       PROVE  /\ Seen(t, w)' = Seen(t, w) /\ Seen(c, w)' = Seen(c, w)
              /\ Empty(c, w) => Empty(c, w)'
  <2>1. pte'[t][w] = pte[t][w] /\ pte'[c][w] = pte[c][w]
    BY <1>3, <1>9, <1>19
  <2>2. Seen(t, w)' = Seen(t, w) /\ Seen(c, w)' = Seen(c, w)
    BY <1>1, <2>1, SeenSame
  <2>3. Empty(c, w) => Empty(c, w)'
    BY <2>1 DEF Empty
  <2> QED BY <2>2, <2>3
<1>20. FaultFits(t)' /\ Forking(t)'
  <2>1. Shape(f)
    BY <1>7 DEF Shape, HasPage, Requests, Goals, Shares, Forks
  <2> QED BY <1>1, <1>7, <1>8, <2>1 DEF FaultFits, Forking, Forks, Kernel, Swapping, Fills
<1>21. ForkFits(t)'
  <2>1. fault'[c] = Gone
    BY <1>3, <1>8
  <2>2. ASSUME NEW w \in Virtual
        PROVE  IF w < v + 1 THEN Seen(c, w)' = want'[t][w] ELSE Empty(c, w)'
    <3>1. w \in Nat
      BY PlacesAre
    <3>2. CASE w = v
      <4>1. w < v + 1
        BY <1>5, <3>1, <3>2
      <4>2. Seen(c, w)' = want'[t][w]
        BY <1>1, <1>18, <3>2
      <4> QED BY <4>1, <4>2
    <3>3. CASE w # v
      <4>1. w < v + 1 <=> w < v
        BY <1>5, <3>1, <3>3
      <4>2. IF w < v THEN Seen(c, w) = want[t][w] ELSE Empty(c, w)
        BY <1>3
      <4> QED BY <1>1, <1>19, <3>3, <4>1, <4>2
    <3> QED BY <3>2, <3>3
  <2> QED BY <1>7, <1>8, <2>1, <2>2 DEF ForkFits
<1>22. /\ \A u \in Tasks : FaultFits(u)' /\ ForkFits(u)'
       /\ ChildrenApart' /\ GoneFits' /\ OwnContents'
  <2>1. \A w \in Virtual : Seen(t, w)' = want'[t][w]
    BY <1>1, <1>3, <1>18, <1>19
  <2>2. /\ fault'[t].other = fault[t].other /\ fault[t].at # "gone" /\ fault'[t].at # "gone"
        /\ cpu \in {t, NULL} /\ cpu' \in {t, NULL}
    BY <1>1, <1>3, <1>7, <1>8
  <2>3. \A u \in Tasks \ ({t} \cup Child(t)) : dir'[u] = dir[u] /\ KeptFor(u)
    BY <1>1, <1>3, <1>17
  <2>4. \A u \in Tasks \ {t} : fault'[u] = fault[u] /\ want'[u] = want[u] /\ HeldKept(u)
    BY <1>1, <1>8 DEF HeldKept
  <2> QED BY <1>2, <1>20, <1>21, <2>1, <2>2, <2>3, <2>4, OthersFit
<1> QED BY <1>10, <1>13, <1>14, <1>15, <1>16, <1>22 DEF IInv

(* copy_page_tables shares the entries D: from v on, up to those of S,     *)
(* which are swapped out.                                                  *)
CopyStarts(t, c, v, S, D) ==
  /\ cpu = t /\ fault[t].at = "copy" /\ fault[t].goal \in Forks
  /\ fault[t].held = NULL /\ fault[t].out = NULL /\ fault[t].v = v
  /\ c = fault[t].other /\ c # t /\ fault[c] = Gone
  /\ S = NextSwapped(t, v)
  /\ \A w \in Virtual : w \in S <=> w >= v /\ pte[t][w].nr # NULL
  /\ \A w \in Virtual : w \in D <=> w >= v /\ pte[t][w].page # NULL /\ \A s \in S : w < s
CopyFinds(t, c, v, D) ==
  /\ \A w \in Virtual : Seen(t, w) = want[t][w]
  /\ \A w \in Virtual : IF w < v THEN Seen(c, w) = want[t][w] ELSE Empty(c, w)
  /\ \A w \in D : /\ pte[t][w].page # NULL /\ pte[t][w].nr = NULL /\ pte[t][w].page \in Pages
                  /\ pte[c][w].page = NULL /\ pte[c][w].nr = NULL
CopyShares(t, c, D) ==
  /\ content' = content /\ dir' = dir /\ swap_bitmap' = swap_bitmap /\ swap' = swap
  /\ mem_map' = [p \in Pages |-> mem_map[p] + Cardinality({w \in D : pte[t][w].page = p})]
  /\ pte' \in [Tasks -> [Virtual -> Entries]]
  /\ \A u \in {t, c}, w \in D : /\ pte'[u][w].page = pte[t][w].page /\ pte'[u][w].nr = NULL
                                /\ ~pte'[u][w].rw /\ pte'[u][w].dirty = pte[t][w].dirty
  /\ \A u \in Tasks, w \in Virtual : ~(u \in {t, c} /\ w \in D) => pte'[u][w] = pte[u][w]

LEMMA CopyIs ==
  ASSUME IInv, NEW t \in Tasks, CopyEntries(t)
  PROVE  \E c \in Tasks, v \in Nat, S \in SUBSET Virtual, D \in SUBSET Virtual :
           /\ CopyStarts(t, c, v, S, D) /\ CopyFinds(t, c, v, D) /\ CopyShares(t, c, D)
           /\ Forking(t) /\ Child(t) = {c}
<1>1. /\ cpu = t /\ fault[t].at = "copy"
      /\ content' = content /\ dir' = dir /\ swap_bitmap' = swap_bitmap /\ swap' = swap
  BY DEF CopyEntries
<1>2. /\ Forking(t) /\ fault[t].goal \in Forks /\ fault[t].held = NULL /\ fault[t].out = NULL
      /\ fault[t].v \in Nat /\ fault[t] \in Faults
  <2>1. Shape(fault[t]) /\ fault[t] \in Faults
    BY Known
  <2>2. fault[t].goal \in Forks /\ fault[t].goal # "table"
    BY <1>1, <2>1 DEF Shape, Forks
  <2> QED BY <1>1, <2>1, <2>2 DEF Shape, Forking, HasPage, Faults
<1>v. PICK v \in Nat : v = fault[t].v
  BY <1>2
<1>3. PICK c \in Tasks : /\ c = fault[t].other /\ c # t /\ fault[c] = Gone /\ Child(t) = {c}
                         /\ \A w \in Virtual : Seen(t, w) = want[t][w]
                         /\ \A w \in Virtual : IF w < v THEN Seen(c, w) = want[t][w] ELSE Empty(c, w)
  BY <1>2, <1>v, ForkIs
<1>S. PICK S \in SUBSET Virtual : S = NextSwapped(t, v)
  BY DEF NextSwapped
<1>D. PICK D \in SUBSET Virtual : D = Copied(t, v)
  BY DEF Copied
<1>4. /\ \A w \in Virtual : w \in Nat
      /\ \A w \in Virtual : w \in S <=> w >= v /\ pte[t][w].nr # NULL
      /\ \A w \in Virtual : w \in D <=> w >= v /\ pte[t][w].page # NULL /\ \A s \in S : w < s
  BY <1>S, <1>D, PlacesAre DEF NextSwapped, Copied, Present
<1>5. \A w \in D : /\ pte[t][w].page # NULL /\ pte[t][w].nr = NULL /\ pte[t][w].page \in Pages
                   /\ pte[c][w].page = NULL /\ pte[c][w].nr = NULL
  <2> SUFFICES ASSUME NEW w \in D
               PROVE  /\ pte[t][w].page # NULL /\ pte[t][w].nr = NULL /\ pte[t][w].page \in Pages
                      /\ pte[c][w].page = NULL /\ pte[c][w].nr = NULL
    OBVIOUS
  <2>1. w \in Virtual /\ w \in Nat /\ w >= v /\ v \in Nat /\ pte[t][w].page # NULL
    BY <1>v, <1>D, <1>4
  <2>2. ~(w < v)
    BY <2>1
  <2>3. Empty(c, w)
    BY <1>3, <2>1, <2>2
  <2>4. pte[t][w] \in Entries /\ EntryFits(t, w)
    BY <2>1, Known
  <2> QED BY <2>1, <2>3, <2>4 DEF Empty, EntryFits, Entries
<1>6. /\ pte' \in [Tasks -> [Virtual -> Entries]]
      /\ \A u \in {t, c}, w \in D : /\ pte'[u][w].page = pte[t][w].page /\ pte'[u][w].nr = NULL
                                    /\ ~pte'[u][w].rw /\ pte'[u][w].dirty = pte[t][w].dirty
      /\ \A u \in Tasks, w \in Virtual : ~(u \in {t, c} /\ w \in D) => pte'[u][w] = pte[u][w]
  <2>1. pte' = [u \in Tasks |-> [w \in Virtual |->
                  IF u \in {t, c} /\ w \in D THEN Protected(pte[t][w]) ELSE pte[u][w]]]
    BY <1>v, <1>3, <1>D DEF CopyEntries
  <2>2. \A w \in Virtual : /\ Protected(pte[t][w]) \in Entries
                           /\ Protected(pte[t][w]).page = pte[t][w].page
                           /\ Protected(pte[t][w]).nr = pte[t][w].nr
                           /\ Protected(pte[t][w]).dirty = pte[t][w].dirty
                           /\ ~Protected(pte[t][w]).rw
    <3> SUFFICES ASSUME NEW w \in Virtual
                 PROVE  /\ Protected(pte[t][w]) \in Entries
                        /\ Protected(pte[t][w]).page = pte[t][w].page
                        /\ Protected(pte[t][w]).nr = pte[t][w].nr
                        /\ Protected(pte[t][w]).dirty = pte[t][w].dirty
                        /\ ~Protected(pte[t][w]).rw
      OBVIOUS
    <3>1. pte[t][w] \in Entries
      BY Known
    <3> QED BY <3>1 DEF Protected, Entries
  <2>3. \A u \in Tasks, w \in Virtual : pte[u][w] \in Entries
    BY Known
  <2>4. \A u \in Tasks, w \in Virtual :
          pte'[u][w] = IF u \in {t, c} /\ w \in D THEN Protected(pte[t][w]) ELSE pte[u][w]
    BY <2>1
  <2>5. pte' \in [Tasks -> [Virtual -> Entries]]
    BY <2>1, <2>2, <2>3
  <2>6. t \in Tasks /\ c \in Tasks /\ D \subseteq Virtual
    BY <1>3, <1>D
  <2> QED BY <1>5, <2>2, <2>4, <2>5, <2>6
<1>7. CopyStarts(t, c, v, S, D)
  BY <1>1, <1>2, <1>v, <1>3, <1>S, <1>4 DEF CopyStarts
<1>8. CopyFinds(t, c, v, D)
  BY <1>3, <1>5 DEF CopyFinds
<1>9. CopyShares(t, c, D)
  <2>1. mem_map' = [p \in Pages |-> mem_map[p] + Cardinality({w \in D : pte[t][w].page = p})]
    BY <1>v, <1>D DEF CopyEntries
  <2> QED BY <1>1, <1>6, <2>1 DEF CopyShares
<1> QED BY <1>2, <1>v, <1>3, <1>S, <1>D, <1>7, <1>8, <1>9

LEMMA CopiedPages ==
  ASSUME IInv, NEW t \in Tasks, NEW c \in Tasks, NEW v \in Nat, NEW D \in SUBSET Virtual,
         c # t, CopyFinds(t, c, v, D), CopyShares(t, c, D),
         \A u \in Tasks : fault'[u].held = fault[u].held /\ fault'[u].out = fault[u].out
  PROVE  /\ CountsMappings' /\ PrivatePages' /\ SwapApart' /\ EntriesFit' /\ mem_map' \in [Pages -> Int]
         /\ \A u \in Tasks \ {c} : KeptFor(u)
         /\ \A u \in Tasks : HeldKept(u)
<1>a. /\ content' = content /\ dir' = dir /\ swap_bitmap' = swap_bitmap /\ swap' = swap
      /\ mem_map' = [p \in Pages |-> mem_map[p] + Cardinality({w \in D : pte[t][w].page = p})]
      /\ pte' \in [Tasks -> [Virtual -> Entries]]
      /\ \A u \in {t, c}, w \in D : /\ pte'[u][w].page = pte[t][w].page /\ pte'[u][w].nr = NULL
                                    /\ ~pte'[u][w].rw /\ pte'[u][w].dirty = pte[t][w].dirty
      /\ \A u \in Tasks, w \in Virtual : ~(u \in {t, c} /\ w \in D) => pte'[u][w] = pte[u][w]
  BY DEF CopyShares
<1>b. \A w \in D : /\ pte[t][w].page # NULL /\ pte[t][w].nr = NULL /\ pte[t][w].page \in Pages
                   /\ pte[c][w].page = NULL /\ pte[c][w].nr = NULL
  BY DEF CopyFinds
<1>1. \A u \in Tasks, w \in Places :
        /\ PageAt(u, w)' = IF u = c /\ w \in D THEN PageAt(t, w) ELSE PageAt(u, w)
        /\ Private(u, w)' => Private(u, w) /\ ~(u \in {t, c} /\ w \in D)
  <2> SUFFICES ASSUME NEW u \in Tasks, NEW w \in Places
               PROVE  /\ PageAt(u, w)' = IF u = c /\ w \in D THEN PageAt(t, w) ELSE PageAt(u, w)
                      /\ Private(u, w)' => Private(u, w) /\ ~(u \in {t, c} /\ w \in D)
    OBVIOUS
  <2>1. CASE w \in Virtual
    <3>1. /\ \A a \in Tasks : PageAt(a, w) = pte[a][w].page /\ PageAt(a, w)' = pte'[a][w].page
          /\ (Private(u, w) <=> pte[u][w].rw) /\ (Private(u, w)' <=> pte'[u][w].rw)
      BY <2>1, PageIs, PlacesAre DEF Private
    <3> QED BY <1>a, <2>1, <3>1
  <2>2. CASE w \notin Virtual
    <3>1. PageAt(u, w)' = PageAt(u, w)
      <4>1. dir'[u] = dir[u] /\ fault'[u].held = fault[u].held /\ fault'[u].out = fault[u].out
        BY <1>a
      <4> QED BY <2>2, <4>1, PageIs, PlacesAre
    <3> QED BY <2>2, <3>1 DEF Private
  <2> QED BY <2>1, <2>2
<1>2. \A w \in D : w \in Places /\ PageAt(c, w) = NULL /\ PageAt(t, w) = pte[t][w].page
  BY <1>b, PageIs, PlacesAre
<1>3. CountsMappings'
  <2>1. Counted(mem_map, pages) /\ D \in SUBSET Places
    BY Known, CountsAre, PlacesAre
  <2>2. \A w \in D : pages[<<c, w>>] = NULL /\ pages[<<t, w>>] = pte[t][w].page
    BY <1>2, PagesAre
  <2>3. \A u \in Tasks, w \in Places :
          pages'[<<u, w>>] = IF u = c /\ w \in D THEN pages[<<t, w>>] ELSE pages[<<u, w>>]
    <3> SUFFICES ASSUME NEW u \in Tasks, NEW w \in Places
                 PROVE  pages'[<<u, w>>] = IF u = c /\ w \in D THEN pages[<<t, w>>] ELSE pages[<<u, w>>]
      OBVIOUS
    <3>1. pages'[<<u, w>>] = PageAt(u, w)' /\ pages[<<u, w>>] = PageAt(u, w) /\ pages[<<t, w>>] = PageAt(t, w)
      BY PagesAre
    <3>2. PageAt(u, w)' = IF u = c /\ w \in D THEN PageAt(t, w) ELSE PageAt(u, w)
      BY <1>1
    <3> QED BY <3>1, <3>2
  <2>4. \A p : PlacesWith(pages, t, D, p) = {w \in D : pte[t][w].page = p}
    BY <2>2 DEF PlacesWith
  <2>5. \A p \in Pages : mem_map'[p] = mem_map[p] + Cardinality(PlacesWith(pages, t, D, p))
    BY <1>a, <2>4
  <2>6. Counted(mem_map', pages')
    <3> DEFINE b == pages'
    <3>1. /\ \A w \in D : pages[<<c, w>>] = NULL
          /\ \A u \in Tasks, w \in Places :
               b[<<u, w>>] = IF u = c /\ w \in D THEN pages[<<t, w>>] ELSE pages[<<u, w>>]
      BY <2>2, <2>3
    <3> DEFINE n == mem_map'
    <3>2. \A p \in Pages : n[p] = mem_map[p] + Cardinality(PlacesWith(pages, t, D, p))
      BY <2>5
    <3> HIDE DEF b, n
    <3>3. Counted(n, b)
      BY <2>1, <3>1, <3>2, PagesCopied
    <3> QED BY <3>3 DEF b, n
  <2> QED BY <2>6, CountsAre
<1>4. PrivatePages'
  <2> SUFFICES ASSUME NEW b \in Tasks, NEW d \in Tasks, NEW w \in Places, NEW x \in Places,
                      Private(b, w)', PageAt(d, x)' = PageAt(b, w)'
               PROVE  d = b /\ x = w
    BY DEF PrivatePages
  <2>1. \A y, z \in Tasks, p, s \in Places :
          Private(y, p) /\ PageAt(z, s) = PageAt(y, p) => z = y /\ s = p
    BY Known DEF PrivatePages
  <2>2. Private(b, w) /\ ~(b \in {t, c} /\ w \in D) /\ PageAt(b, w)' = PageAt(b, w)
    BY <1>1
  <2>3. CASE d = c /\ x \in D
    <3>1. PageAt(t, x) = PageAt(b, w)
      BY <1>1, <2>2, <2>3
    <3>2. t = b /\ x = w
      BY <2>1, <2>2, <3>1
    <3> QED BY <2>2, <2>3, <3>2
  <2>4. CASE ~(d = c /\ x \in D)
    <3>1. PageAt(d, x) = PageAt(b, w)
      BY <1>1, <2>2, <2>4
    <3> QED BY <2>1, <2>2, <3>1
  <2> QED BY <2>3, <2>4
<1>5. \A u \in Tasks, w \in Virtual :
        /\ pte'[u][w].nr = pte[u][w].nr
        /\ u # c => pte'[u][w].page = pte[u][w].page /\ pte'[u][w].dirty = pte[u][w].dirty
  BY <1>a, <1>b
<1>6. SwapApart'
  BY <1>a, <1>5, Known, SwapStays
<1>7. EntriesFit'
  <2> SUFFICES ASSUME NEW u \in Tasks, NEW w \in Virtual PROVE EntryFits(u, w)'
    BY DEF EntriesFit
  <2>1. EntryFits(u, w) /\ EntryFits(t, w)
    BY Known
  <2>2. CASE u \in {t, c} /\ w \in D
    <3>1. /\ pte'[u][w].page = pte[t][w].page /\ pte'[u][w].nr = NULL /\ ~pte'[u][w].rw
          /\ pte'[u][w].dirty = pte[t][w].dirty /\ content' = content
      BY <1>a, <2>2
    <3> QED BY <2>1, <3>1 DEF EntryFits
  <2>3. CASE ~(u \in {t, c} /\ w \in D)
    <3>1. pte'[u][w] = pte[u][w] /\ content' = content
      BY <1>a, <2>3
    <3> QED BY <2>1, <3>1 DEF EntryFits
  <2> QED BY <2>2, <2>3
<1>8. \A u \in Tasks \ {c} : KeptFor(u)
  BY <1>a, <1>5, Known, KeptIf
<1>9. \A u \in Tasks : HeldKept(u)
  BY <1>a DEF HeldKept
<1>10. mem_map' \in [Pages -> Int]
  <2>1. \A p \in Pages : mem_map[p] \in Int /\ Cardinality({w \in D : pte[t][w].page = p}) \in Nat
    <3> SUFFICES ASSUME NEW p \in Pages
                 PROVE  mem_map[p] \in Int /\ Cardinality({w \in D : pte[t][w].page = p}) \in Nat
      OBVIOUS
    <3>1. mem_map[p] \in Int
      BY Known DEF Types
    <3>2. {w \in D : pte[t][w].page = p} \subseteq Virtual
      OBVIOUS
    <3>3. IsFiniteSet({w \in D : pte[t][w].page = p})
      BY <3>2, MemoryAssumption, FS_Subset
    <3> QED BY <3>1, <3>3, FS_CardinalityType
  <2> QED BY <1>a, <2>1
<1> QED BY <1>3, <1>4, <1>6, <1>7, <1>8, <1>9, <1>10

(* What the child finds in its pages now.                                  *)
LEMMA CopiedSeen ==
  ASSUME IInv, NEW t \in Tasks, NEW c \in Tasks, NEW v \in Nat,
         NEW S \in SUBSET Virtual, NEW D \in SUBSET Virtual,
         CopyStarts(t, c, v, S, D), CopyFinds(t, c, v, D), CopyShares(t, c, D), NEW w \in Virtual
  PROVE  /\ (\A s \in S : w < s) => Seen(c, w)' = want[t][w]
         /\ (\E s \in S : s <= w) => Empty(c, w)'
<1>1. /\ w \in S <=> w >= v /\ pte[t][w].nr # NULL
      /\ w \in D <=> w >= v /\ pte[t][w].page # NULL /\ \A s \in S : w < s
      /\ \A s \in S : s >= v /\ s \in Nat
      /\ w \in Nat
  BY PlacesAre DEF CopyStarts
<1>2. /\ Seen(t, w) = want[t][w]
      /\ IF w < v THEN Seen(c, w) = want[t][w] ELSE Empty(c, w)
  BY DEF CopyFinds
<1>3. /\ content' = content /\ swap' = swap
      /\ w \in D => pte'[c][w].page = pte[t][w].page
      /\ w \notin D => pte'[c][w] = pte[c][w]
  BY DEF CopyShares
<1>4. ASSUME \A s \in S : w < s PROVE Seen(c, w)' = want[t][w]
  <2>1. CASE w \in D
    <3>1. pte'[c][w].page = pte[t][w].page /\ pte[t][w].page # NULL
      BY <1>1, <1>3, <2>1
    <3>2. Seen(c, w)' = content[pte[t][w].page]
      BY <1>3, <3>1 DEF Seen, Present
    <3>3. Seen(t, w) = content[pte[t][w].page]
      BY <3>1 DEF Seen, Present
    <3> QED BY <1>2, <3>2, <3>3
  <2>2. CASE w \notin D /\ w < v
    <3>1. Seen(c, w)' = Seen(c, w)
      BY <1>3, <2>2, SeenSame
    <3> QED BY <1>2, <2>2, <3>1
  <2>3. CASE w \notin D /\ ~(w < v)
    <3>1. w >= v /\ w \notin S
      BY <1>1, <1>4, <2>3
    <3>2. pte[t][w].nr = NULL /\ pte[t][w].page = NULL
      BY <1>1, <1>4, <2>3, <3>1
    <3>3. Seen(t, w) = First(w)
      BY <3>2 DEF Seen, Present
    <3>4. Empty(c, w) /\ pte'[c][w] = pte[c][w]
      BY <1>2, <1>3, <2>3
    <3>5. Seen(c, w)' = First(w)
      BY <3>4 DEF Seen, Present, Empty
    <3> QED BY <1>2, <3>3, <3>5
  <2> QED BY <2>1, <2>2, <2>3
<1>5. ASSUME NEW s \in S, s <= w PROVE Empty(c, w)'
  <2>1. ~(w < v) /\ ~(w < s)
    BY <1>1, <1>5
  <2>2. w \notin D
    BY <1>1, <2>1
  <2>3. Empty(c, w) /\ pte'[c][w] = pte[c][w]
    BY <1>2, <1>3, <2>1, <2>2
  <2> QED BY <2>3 DEF Empty
<1> QED BY <1>4, <1>5

LEMMA CopyEntriesKeeps ==
  ASSUME IInv, NEW t \in Tasks, CopyEntries(t)
  PROVE  IInv'
<1>0. PICK c \in Tasks, v \in Nat, S \in SUBSET Virtual, D \in SUBSET Virtual :
        /\ CopyStarts(t, c, v, S, D) /\ CopyFinds(t, c, v, D) /\ CopyShares(t, c, D)
        /\ Forking(t) /\ Child(t) = {c}
  BY CopyIs
<1>1. /\ cpu = t /\ fault[t].at = "copy" /\ fault[t].goal \in Forks
      /\ fault[t].held = NULL /\ fault[t].out = NULL /\ fault[t].v = v
      /\ c = fault[t].other /\ c # t /\ fault[c] = Gone /\ S = NextSwapped(t, v)
  BY <1>0 DEF CopyStarts
<1>2. \A w \in Virtual : w \in S <=> w >= v /\ pte[t][w].nr # NULL
  BY <1>0 DEF CopyStarts
<1>3. /\ content' = content /\ dir' = dir /\ swap_bitmap' = swap_bitmap /\ swap' = swap
      /\ pte' \in [Tasks -> [Virtual -> Entries]]
  BY <1>0 DEF CopyShares
<1>4. \A w \in Virtual : /\ (\A s \in S : w < s) => Seen(c, w)' = want[t][w]
                         /\ (\E s \in S : s <= w) => Empty(c, w)'
  BY <1>0, CopiedSeen
<1>5. CASE S # {}
  <2>1. PICK m \in S : m = Min(S) /\ \A s \in S : m <= s
    <3>1. S \subseteq Nat /\ IsFiniteSet(S)
      BY <1>0, PlacesAre, MemoryAssumption, FS_Subset
    <3> QED BY <1>5, <3>1, LeastOf
  <2> DEFINE f == [fault[t] EXCEPT !.at = "alloc", !.goal = "fork in", !.v = m, !.other = c]
  <2>2. cpu' = t /\ fault' = [fault EXCEPT ![t] = f] /\ want' = want
    BY <1>1, <1>5, <2>1 DEF CopyEntries, Call, Enter
  <2>3. m \in Virtual /\ m \in Nat /\ pte[t][m].nr # NULL
    BY <1>0, <1>2, <2>1, PlacesAre
  <2>4. /\ f \in Faults /\ f.at = "alloc" /\ f.goal = "fork in" /\ f.v = m /\ f.held = NULL
        /\ f.out = NULL /\ f.other = c
    <3>1. c \in Nat /\ fault[t] \in Faults
      BY <1>0, MemoryAssumption, Known
    <3> QED BY <1>1, <2>3, <3>1 DEF Faults, Labels, Kernel, Goals, Forks
  <2> HIDE DEF f
  <2>5. /\ fault'[t] = f /\ \A u \in Tasks \ {t} : fault'[u] = fault[u]
        /\ fault' \in [Tasks -> Faults]
    BY <2>2, <2>4, Known DEF Types
  <2>6. \A u \in Tasks : fault'[u].held = fault[u].held /\ fault'[u].out = fault[u].out
    BY <1>1, <2>4, <2>5
  <2>7. /\ CountsMappings' /\ PrivatePages' /\ SwapApart' /\ EntriesFit' /\ mem_map' \in [Pages -> Int]
        /\ \A u \in Tasks \ {c} : KeptFor(u)
        /\ \A u \in Tasks : HeldKept(u)
    BY <1>0, <1>1, <2>6, CopiedPages
  <2>8. Types'
    BY <1>3, <2>2, <2>5, <2>7, Known DEF Types
  <2>9. FaultFits(t)' /\ Forking(t)'
    <3>1. Shape(f)
      BY <2>3, <2>4 DEF Shape, HasPage, Requests, Goals, Shares, Forks
    <3>2. pte'[t][m].nr # NULL
      <4>1. KeptFor(t)
        BY <1>1, <2>7
      <4> QED BY <2>3, <4>1 DEF KeptFor
    <3> QED BY <2>2, <2>4, <2>5, <3>1, <3>2 DEF FaultFits, Forking, Forks, Kernel, Swapping, Fills
  <2>10. ForkFits(t)'
    <3>1. fault'[c] = Gone
      BY <1>0, <1>1, <2>5
    <3>2. ASSUME NEW w \in Virtual
          PROVE  IF w < m THEN Seen(c, w)' = want'[t][w] ELSE Empty(c, w)'
      <4>1. w \in Nat /\ m \in Nat /\ \A s \in S : s \in Nat
        BY <1>0, <2>3, PlacesAre
      <4>2. CASE w < m
        <5>1. \A s \in S : w < s
          BY <2>1, <4>1, <4>2
        <5> QED BY <1>4, <2>2, <4>2, <5>1
      <4>3. CASE ~(w < m)
        <5>1. m <= w
          BY <4>1, <4>3
        <5> QED BY <1>4, <2>1, <4>3, <5>1
      <4> QED BY <4>2, <4>3
    <3> QED BY <1>0, <2>4, <2>5, <3>1, <3>2 DEF ForkFits
  <2>11. /\ \A u \in Tasks : FaultFits(u)' /\ ForkFits(u)'
         /\ ChildrenApart' /\ GoneFits' /\ OwnContents'
    <3>1. \A w \in Virtual : Seen(t, w)' = want'[t][w]
      <4>1. KeptFor(t) /\ \A w \in Virtual : Seen(t, w) = want[t][w]
        BY <1>0, <1>1, <2>7 DEF CopyFinds
      <4> QED BY <2>2, <4>1 DEF KeptFor
    <3>2. /\ fault'[t].other = fault[t].other /\ fault[t].at # "gone" /\ fault'[t].at # "gone"
          /\ cpu \in {t, NULL} /\ cpu' \in {t, NULL}
      BY <1>1, <2>2, <2>4, <2>5
    <3>3. \A u \in Tasks \ ({t} \cup Child(t)) : dir'[u] = dir[u] /\ KeptFor(u)
      BY <1>0, <1>3, <2>7
    <3>4. \A u \in Tasks \ {t} : fault'[u] = fault[u] /\ want'[u] = want[u] /\ HeldKept(u)
      BY <2>2, <2>5, <2>7
    <3> QED BY <1>0, <2>9, <2>10, <3>1, <3>2, <3>3, <3>4, OthersFit
  <2> QED BY <2>7, <2>8, <2>11 DEF IInv
<1>6. CASE S = {}
  <2>1. /\ cpu' = NULL /\ fault' = [fault EXCEPT ![t] = User, ![c] = User]
        /\ want' = [want EXCEPT ![c] = want[t]]
    BY <1>1, <1>6 DEF CopyEntries
  <2>2. /\ fault'[t] = User /\ fault'[c] = User /\ \A u \in Tasks \ {t, c} : fault'[u] = fault[u]
        /\ fault' \in [Tasks -> Faults]
    BY <1>0, <1>1, <2>1, UserInFaults, Known DEF Types
  <2>3. /\ want' \in [Tasks -> [Virtual -> Nat]] /\ want'[c] = want[t]
        /\ \A u \in Tasks \ {c} : want'[u] = want[u]
    BY <1>0, <2>1, Known DEF Types
  <2>4. \A u \in Tasks : fault'[u].held = fault[u].held /\ fault'[u].out = fault[u].out
    BY <1>1, <2>2, RestIs
  <2>5. /\ CountsMappings' /\ PrivatePages' /\ SwapApart' /\ EntriesFit' /\ mem_map' \in [Pages -> Int]
        /\ \A u \in Tasks \ {c} : KeptFor(u)
        /\ \A u \in Tasks : HeldKept(u)
    BY <1>0, <1>1, <2>4, CopiedPages
  <2>6. Types'
    BY <1>3, <2>1, <2>2, <2>3, <2>5, Known DEF Types
  <2>7. ~Forking(t)' /\ ~Forking(c)' /\ ~Forking(c)
    BY <1>1, <2>2, RestIs DEF Forking, Forks
  <2>8. \A u \in Tasks : Forking(u)' =>
          /\ u \in Tasks \ {t, c} /\ Forking(u) /\ fault'[u] = fault[u]
          /\ fault[u].other \in Tasks \ {t, c}
    <3> SUFFICES ASSUME NEW u \in Tasks, Forking(u)'
                 PROVE  /\ u \in Tasks \ {t, c} /\ Forking(u) /\ fault'[u] = fault[u]
                        /\ fault[u].other \in Tasks \ {t, c}
      OBVIOUS
    <3>1. u # t /\ u # c
      BY <2>7
    <3>2. fault'[u] = fault[u] /\ Forking(u)
      BY <2>2, <3>1 DEF Forking
    <3>3. fault[u].other \in Tasks /\ fault[fault[u].other] = Gone
      BY <3>2, Known DEF ForkFits
    <3>4. fault[u].other # t
      BY <1>1, <3>3, RestIs
    <3>5. fault[u].other # c
      BY <1>0, <1>1, <3>1, <3>2, Known DEF ChildrenApart
    <3> QED BY <3>1, <3>2, <3>3, <3>4, <3>5
  <2>9. ASSUME NEW u \in Tasks PROVE FaultFits(u)' /\ ForkFits(u)'
    <3>1. CASE u \in {t, c}
      <4>1. fault'[u] \in {User, Gone} /\ cpu' # u
        BY <2>1, <2>2, <3>1, Known
      <4> QED BY <4>1, RestFits
    <3>2. CASE u \notin {t, c}
      <4>1. fault'[u] = fault[u] /\ KeptFor(u) /\ HeldKept(u) /\ dir'[u] = dir[u] /\ want'[u] = want[u]
        BY <1>3, <2>2, <2>3, <2>5, <3>2
      <4>2. Shape(fault[u]) /\ fault[u].at \notin Kernel /\ cpu' # u /\ FaultFits(u) /\ ForkFits(u)
        BY <1>1, <2>1, <3>2, Known
      <4>3. GoesOn(u) /\ fault[u].goal \notin Shares
        BY <4>1, <4>2 DEF GoesOn, Shape, Kernel
      <4>4. FaultFits(u)'
        BY <4>1, <4>2, <4>3, SleeperFits
      <4>5. Forking(u) => LET d == fault[u].other
                          IN  KeptFor(d) /\ fault'[d] = fault[d] /\ dir'[d] = dir[d]
        <5> SUFFICES ASSUME Forking(u)
                     PROVE  LET d == fault[u].other
                            IN  KeptFor(d) /\ fault'[d] = fault[d] /\ dir'[d] = dir[d]
          OBVIOUS
        <5>1. Forking(u)'
          BY <4>1 DEF Forking
        <5>2. fault[u].other \in Tasks \ {t, c}
          BY <2>8, <5>1
        <5> QED BY <1>3, <2>2, <2>5, <5>2
      <4> QED BY <4>1, <4>2, <4>3, <4>4, <4>5, ForkerFits
    <3> QED BY <3>1, <3>2
  <2>10. ChildrenApart'
    BY <2>8, Known DEF ChildrenApart
  <2>11. GoneFits'
    <3> SUFFICES ASSUME NEW d \in Tasks, fault'[d].at = "gone",
                        \A u \in Tasks : Forking(u)' => fault'[u].other # d
                 PROVE  dir'[d] = NULL /\ \A w \in Virtual : Empty(d, w)'
      BY DEF GoneFits
    <3>1. d # t /\ d # c
      BY <2>2, RestIs
    <3>2. fault[d].at = "gone"
      BY <2>2, <3>1
    <3>3. \A u \in Tasks : Forking(u) => fault[u].other # d
      <4> SUFFICES ASSUME NEW u \in Tasks, Forking(u), fault[u].other = d PROVE FALSE
        OBVIOUS
      <4>1. u # t /\ u # c
        BY <1>1, <2>7, <3>1
      <4>2. fault'[u] = fault[u] /\ Forking(u)'
        BY <2>2, <4>1 DEF Forking
      <4> QED BY <4>2
    <3>4. dir[d] = NULL /\ \A w \in Virtual : Empty(d, w)
      BY <3>2, <3>3, Known DEF GoneFits
    <3>5. KeptFor(d)
      BY <2>5, <3>1
    <3> QED BY <1>3, <3>4, <3>5 DEF KeptFor
  <2>12. OwnContents'
    <3> SUFFICES ASSUME NEW u \in Tasks, NEW w \in Virtual, fault'[u].at # "gone"
                 PROVE  Seen(u, w)' = want'[u][w]
      BY DEF OwnContents
    <3>1. CASE u = c
      BY <1>4, <1>6, <2>3, <3>1
    <3>2. CASE u # c
      <4>1. fault[u].at # "gone"
        BY <1>1, <2>2, <3>2
      <4>2. KeptFor(u) /\ want'[u] = want[u]
        BY <2>3, <2>5, <3>2
      <4> QED BY <4>1, <4>2, Known DEF KeptFor, OwnContents
    <3> QED BY <3>1, <3>2
  <2> QED BY <2>5, <2>6, <2>9, <2>10, <2>11, <2>12 DEF IInv
<1> QED BY <1>5, <1>6

-----------------------------------------------------------------------------
(* The pages of x, which is t itself or its child, are freed.              *)
Frees(t, x, W, g) ==
  /\ FreeTables(x, W) /\ InTables \subseteq W /\ W \subseteq InTables \cup {InHand}
  /\ fault[t].at # "gone" /\ cpu \in {t, NULL} /\ cpu' = NULL /\ fault' = [fault EXCEPT ![t] = g]
  /\ fault[t].out = NULL
  /\ fault[t].held # NULL => x = t /\ InHand \in W
  /\ (x = t /\ ~Forking(t)) \/ (x # t /\ g = User /\ Forking(t) /\ x = fault[t].other)
  /\ want' \in [Tasks -> [Virtual -> Nat]] /\ \A u \in Tasks \ {x} : want'[u] = want[u]
  /\ x = t /\ g = User => \A w \in Virtual : want'[t][w] = First(w)

LEMMA FreeIs ==
  ASSUME IInv, NEW t \in Tasks, NEW x \in Tasks, NEW W \in SUBSET Places, NEW g \in {User, Gone},
         Frees(t, x, W, g)
  PROVE  /\ pte' \in [Tasks -> [Virtual -> Entries]] /\ \A w \in Virtual : pte'[x][w] = NotMapped
         /\ \A u \in Tasks \ {x}, w \in Virtual : pte'[u][w] = pte[u][w]
         /\ dir' \in [Tasks -> Pages \cup {NULL}] /\ dir'[x] = NULL
         /\ \A u \in Tasks \ {x} : dir'[u] = dir[u]
         /\ fault' \in [Tasks -> Faults] /\ fault'[t] = g
         /\ \A u \in Tasks \ {t} : fault'[u] = fault[u]
         /\ content' = content /\ swap' = swap
         /\ swap_bitmap' = swap_bitmap \cup ({pte[x][v].nr : v \in Virtual} \ {NULL})
         /\ x # t => fault[x] = Gone
<1>1. /\ pte' = [pte EXCEPT ![x] = NoPages] /\ dir' = [dir EXCEPT ![x] = NULL]
      /\ content' = content /\ swap' = swap /\ fault' = [fault EXCEPT ![t] = g]
      /\ swap_bitmap' = swap_bitmap \cup ({pte[x][v].nr : v \in Virtual} \ {NULL})
  BY DEF Frees, FreeTables
<1>2. NotMapped \in Entries
  BY DEF NotMapped, Entries
<1>3. NoPages \in [Virtual -> Entries] /\ \A w \in Virtual : NoPages[w] = NotMapped
  BY <1>2 DEF NoPages
<1>4. /\ pte' \in [Tasks -> [Virtual -> Entries]] /\ pte'[x] = NoPages
      /\ \A u \in Tasks \ {x} : pte'[u] = pte[u]
  BY <1>1, <1>3, Known DEF Types
<1>5. /\ dir' \in [Tasks -> Pages \cup {NULL}] /\ dir'[x] = NULL
      /\ \A u \in Tasks \ {x} : dir'[u] = dir[u]
  BY <1>1, Known DEF Types
<1>6. /\ fault' \in [Tasks -> Faults] /\ fault'[t] = g
      /\ \A u \in Tasks \ {t} : fault'[u] = fault[u]
  BY <1>1, UserInFaults, Known DEF Types
<1>7. x # t => fault[x] = Gone
  BY Known DEF Frees, ForkFits
<1> QED BY <1>1, <1>3, <1>4, <1>5, <1>6, <1>7

LEMMA FreedPages ==
  ASSUME IInv, NEW t \in Tasks, NEW x \in Tasks, NEW W \in SUBSET Places, NEW g \in {User, Gone},
         Frees(t, x, W, g)
  PROVE  CountsMappings' /\ PrivatePages' /\ mem_map' \in [Pages -> Int]
<1>1. /\ \A w \in Virtual : pte'[x][w] = NotMapped
      /\ \A u \in Tasks \ {x}, w \in Virtual : pte'[u][w] = pte[u][w]
      /\ dir'[x] = NULL /\ \A u \in Tasks \ {x} : dir'[u] = dir[u]
      /\ fault'[t] = g /\ \A u \in Tasks \ {t} : fault'[u] = fault[u]
      /\ x # t => fault[x] = Gone
  BY FreeIs
<1>2. /\ \A w \in Places : w \in W <=> w \in Virtual \/ w = Dir \/ (w = InHand /\ InHand \in W)
      /\ fault[t].out = NULL /\ (fault[t].held # NULL => x = t /\ InHand \in W)
      /\ mem_map' = [p \in Pages |-> mem_map[p] - Cardinality({w \in W : PageAt(x, w) = p})]
  BY PlacesAre DEF Frees, FreeTables, InTables
<1>3. NotMapped.page = NULL /\ ~NotMapped.rw
  BY DEF NotMapped
<1>4. /\ g.held = NULL /\ g.out = NULL /\ (x # t => fault[x].held = NULL /\ fault[x].out = NULL)
  BY <1>1, RestIs
<1>5. \A u \in Tasks, w \in Places :
        /\ PageAt(u, w)' = IF u = x /\ w \in W THEN NULL ELSE PageAt(u, w)
        /\ Private(u, w)' => Private(u, w) /\ PageAt(u, w)' = PageAt(u, w)
  <2> SUFFICES ASSUME NEW u \in Tasks, NEW w \in Places
               PROVE  /\ PageAt(u, w)' = IF u = x /\ w \in W THEN NULL ELSE PageAt(u, w)
                      /\ Private(u, w)' => Private(u, w) /\ PageAt(u, w)' = PageAt(u, w)
    OBVIOUS
  <2>1. CASE w \in Virtual
    <3>1. /\ PageAt(u, w) = pte[u][w].page /\ PageAt(u, w)' = pte'[u][w].page
          /\ (Private(u, w) <=> pte[u][w].rw) /\ (Private(u, w)' <=> pte'[u][w].rw)
      BY <2>1, PageIs, PlacesAre DEF Private
    <3> QED BY <1>1, <1>2, <1>3, <2>1, <3>1
  <2>2. CASE w = Dir
    <3>1. PageAt(u, w) = dir[u] /\ PageAt(u, w)' = dir'[u] /\ ~Private(u, w)'
      BY <2>2, PageIs, PlacesAre DEF Private
    <3> QED BY <1>1, <1>2, <2>2, <3>1
  <2>3. CASE w = InHand
    <3>1. /\ PageAt(u, w) = fault[u].held /\ PageAt(u, w)' = fault'[u].held
          /\ (Private(u, w) <=> fault[u].held # NULL) /\ (Private(u, w)' <=> fault'[u].held # NULL)
      BY <2>3, PageIs, PlacesAre DEF Private
    <3>2. fault'[u].held = IF u = t THEN NULL ELSE fault[u].held
      BY <1>1, <1>4
    <3>3. w \notin Virtual /\ w # Dir
      BY <2>3, PlacesAre
    <3>4. CASE u = t
      BY <1>2, <1>4, <2>3, <3>1, <3>2, <3>4
    <3>5. CASE u # t
      BY <1>4, <3>1, <3>2, <3>5
    <3> QED BY <3>4, <3>5
  <2>4. CASE w = Outgoing
    <3>1. PageAt(u, w) = fault[u].out /\ PageAt(u, w)' = fault'[u].out /\ ~Private(u, w)'
      BY <2>4, PageIs, PlacesAre DEF Private
    <3>2. w \notin W
      BY <1>2, <2>4, PlacesAre
    <3> QED BY <1>1, <1>2, <1>4, <3>1, <3>2
  <2> QED BY <2>1, <2>2, <2>3, <2>4, PlacesAre
<1>6. CountsMappings'
  <2>1. Counted(mem_map, pages)
    BY Known, CountsAre
  <2> DEFINE b == pages'  n == mem_map'
  <2>2. \A u \in Tasks, w \in Places : b[<<u, w>>] = IF u = x /\ w \in W THEN NULL ELSE pages[<<u, w>>]
    <3> SUFFICES ASSUME NEW u \in Tasks, NEW w \in Places
                 PROVE  b[<<u, w>>] = IF u = x /\ w \in W THEN NULL ELSE pages[<<u, w>>]
      OBVIOUS
    <3>1. b[<<u, w>>] = PageAt(u, w)' /\ pages[<<u, w>>] = PageAt(u, w)
      BY PagesAre
    <3> QED BY <1>5, <3>1
  <2>3. \A p : PlacesWith(pages, x, W, p) = {w \in W : PageAt(x, w) = p}
    BY PagesAre DEF PlacesWith
  <2>4. \A p \in Pages : n[p] = mem_map[p] - Cardinality(PlacesWith(pages, x, W, p))
    BY <1>2, <2>3
  <2> HIDE DEF b, n
  <2>5. Counted(n, b)
    BY <2>1, <2>2, <2>4, PagesFreed
  <2> QED BY <2>5, CountsAre DEF b, n
<1>7. PrivatePages'
  <2>1. \A u \in Tasks, w \in Places :
          /\ PageAt(u, w)' \in {PageAt(u, w), NULL}
          /\ Private(u, w)' => Private(u, w) /\ PageAt(u, w)' = PageAt(u, w)
    BY <1>5
  <2> QED BY <2>1, Known, PrivateLeft
<1>8. mem_map' \in [Pages -> Int]
  <2>1. ASSUME NEW p \in Pages
        PROVE  mem_map[p] \in Int /\ Cardinality({w \in W : PageAt(x, w) = p}) \in Nat
    <3>1. mem_map[p] \in Int
      BY Known DEF Types
    <3>2. {w \in W : PageAt(x, w) = p} \subseteq Places
      OBVIOUS
    <3>3. IsFiniteSet({w \in W : PageAt(x, w) = p})
      BY <3>2, SpotsFinite, FS_Subset
    <3> QED BY <3>1, <3>3, FS_CardinalityType
  <2> QED BY <1>2, <2>1
<1> QED BY <1>6, <1>7, <1>8

LEMMA FreedSwap ==
  ASSUME IInv, NEW t \in Tasks, NEW x \in Tasks, NEW W \in SUBSET Places, NEW g \in {User, Gone},
         Frees(t, x, W, g)
  PROVE  SwapApart' /\ EntriesFit' /\ swap_bitmap' \in SUBSET SwapPages
<1>1. /\ \A w \in Virtual : pte'[x][w] = NotMapped
      /\ \A u \in Tasks \ {x}, w \in Virtual : pte'[u][w] = pte[u][w]
      /\ content' = content
      /\ swap_bitmap' = swap_bitmap \cup ({pte[x][v].nr : v \in Virtual} \ {NULL})
  BY FreeIs
<1>2. NotMapped.page = NULL /\ ~NotMapped.rw /\ NotMapped.nr = NULL
  BY DEF NotMapped
<1>3. swap_bitmap' \in SUBSET SwapPages
  <2>1. \A w \in Virtual : pte[x][w].nr \in SwapPages \cup {NULL}
    BY Known DEF Entries
  <2> QED BY <1>1, <2>1, Known DEF Types
<1>4. SwapApart'
  <2>1. SwapApart
    BY Known
  <2>2. \A a \in Tasks, w \in Virtual : pte'[a][w].nr = IF a = x THEN NULL ELSE pte[a][w].nr
    BY <1>1, <1>2
  <2>3. \A a, b \in Tasks, w, y \in Virtual :
          pte'[a][w].nr # NULL /\ pte'[b][y].nr = pte'[a][w].nr => b = a /\ y = w
    BY <2>1, <2>2 DEF SwapApart
  <2>4. \A a \in Tasks, w \in Virtual : pte'[a][w].nr \notin swap_bitmap'
    <3> SUFFICES ASSUME NEW a \in Tasks, NEW w \in Virtual, pte'[a][w].nr \in swap_bitmap'
                 PROVE  FALSE
      OBVIOUS
    <3>1. NULL \notin swap_bitmap'
      BY <1>3, Known
    <3>2. a # x /\ pte'[a][w].nr = pte[a][w].nr /\ pte[a][w].nr # NULL
      BY <2>2, <3>1
    <3>3. pte[a][w].nr \notin swap_bitmap
      BY <2>1 DEF SwapApart
    <3>4. PICK v \in Virtual : pte[a][w].nr = pte[x][v].nr
      BY <1>1, <3>2, <3>3
    <3> QED BY <2>1, <3>2, <3>4 DEF SwapApart
  <2>5. \A m \in SwapPages \ swap_bitmap' : \E a \in Tasks, w \in Virtual : pte'[a][w].nr = m
    <3> SUFFICES ASSUME NEW m \in SwapPages \ swap_bitmap'
                 PROVE  \E a \in Tasks, w \in Virtual : pte'[a][w].nr = m
      OBVIOUS
    <3>1. PICK a \in Tasks, w \in Virtual : pte[a][w].nr = m
      BY <1>1, <2>1 DEF SwapApart
    <3>2. a # x
      BY <1>1, <3>1, Known
    <3> QED BY <2>2, <3>1, <3>2
  <2> QED BY <2>3, <2>4, <2>5 DEF SwapApart
<1>5. EntriesFit'
  <2> SUFFICES ASSUME NEW u \in Tasks, NEW w \in Virtual PROVE EntryFits(u, w)'
    BY DEF EntriesFit
  <2>1. CASE u = x
    <3>1. pte'[u][w] = NotMapped
      BY <1>1, <2>1
    <3> QED BY <1>2, <3>1 DEF EntryFits
  <2>2. CASE u # x
    <3>1. pte'[u][w] = pte[u][w] /\ EntryFits(u, w)
      BY <1>1, <2>2, Known
    <3> QED BY <1>1, <3>1 DEF EntryFits
  <2> QED BY <2>1, <2>2
<1> QED BY <1>3, <1>4, <1>5

LEMMA FreeKeeps ==
  ASSUME IInv, NEW t \in Tasks, NEW x \in Tasks, NEW W \in SUBSET Places, NEW g \in {User, Gone},
         Frees(t, x, W, g)
  PROVE  IInv'
<1>1. /\ pte' \in [Tasks -> [Virtual -> Entries]] /\ \A w \in Virtual : pte'[x][w] = NotMapped
      /\ \A u \in Tasks \ {x}, w \in Virtual : pte'[u][w] = pte[u][w]
      /\ dir' \in [Tasks -> Pages \cup {NULL}] /\ dir'[x] = NULL
      /\ \A u \in Tasks \ {x} : dir'[u] = dir[u]
      /\ fault' \in [Tasks -> Faults] /\ fault'[t] = g
      /\ \A u \in Tasks \ {t} : fault'[u] = fault[u]
      /\ content' = content /\ swap' = swap /\ (x # t => fault[x] = Gone)
  BY FreeIs
<1>2. /\ fault[t].at # "gone" /\ cpu \in {t, NULL} /\ cpu' = NULL
      /\ (x = t /\ ~Forking(t)) \/ (x # t /\ g = User /\ Forking(t) /\ x = fault[t].other)
      /\ want' \in [Tasks -> [Virtual -> Nat]] /\ \A u \in Tasks \ {x} : want'[u] = want[u]
      /\ x = t /\ g = User => \A w \in Virtual : want'[t][w] = First(w)
  BY DEF Frees
<1>3. /\ CountsMappings' /\ PrivatePages' /\ mem_map' \in [Pages -> Int]
      /\ SwapApart' /\ EntriesFit' /\ swap_bitmap' \in SUBSET SwapPages
  BY FreedPages, FreedSwap
<1>4. Types'
  BY <1>1, <1>2, <1>3, Known DEF Types
<1>5. \A u \in Tasks \ {x} : KeptFor(u)
  BY <1>1, KeptIf, Known
<1>6. \A w \in Virtual : Empty(x, w)' /\ Seen(x, w)' = First(w)
  <2>1. NotMapped.page = NULL /\ NotMapped.nr = NULL
    BY DEF NotMapped
  <2> QED BY <1>1, <2>1 DEF Empty, Seen, Present
<1>7. ~Forking(t)' /\ ~Forking(x)' /\ (x # t => ~Forking(x))
  BY <1>1, RestIs DEF Forking, Forks
<1>8. \A u \in Tasks : Forking(u)' =>
        /\ u \in Tasks \ {t, x} /\ Forking(u) /\ fault'[u] = fault[u]
        /\ fault[u].other \in Tasks \ {t, x}
  <2> SUFFICES ASSUME NEW u \in Tasks, Forking(u)'
               PROVE  /\ u \in Tasks \ {t, x} /\ Forking(u) /\ fault'[u] = fault[u]
                      /\ fault[u].other \in Tasks \ {t, x}
    OBVIOUS
  <2>1. u # t /\ u # x
    BY <1>7
  <2>2. fault'[u] = fault[u] /\ Forking(u)
    BY <1>1, <2>1 DEF Forking
  <2>3. fault[u].other \in Tasks /\ fault[fault[u].other] = Gone
    BY <2>2, Known DEF ForkFits
  <2>4. fault[u].other # t
    BY <1>2, <2>3, RestIs
  <2>5. fault[u].other # x
    BY <1>2, <2>1, <2>2, <2>4, Known DEF ChildrenApart
  <2> QED BY <2>1, <2>2, <2>3, <2>4, <2>5
<1>9. ASSUME NEW u \in Tasks PROVE FaultFits(u)' /\ ForkFits(u)'
  <2>1. CASE u \in {t, x}
    <3>1. fault'[u] \in {User, Gone} /\ cpu' # u
      BY <1>1, <1>2, <2>1, Known
    <3> QED BY <3>1, RestFits
  <2>2. CASE u \notin {t, x}
    <3>1. fault'[u] = fault[u] /\ KeptFor(u) /\ dir'[u] = dir[u] /\ want'[u] = want[u]
      BY <1>1, <1>2, <1>5, <2>2
    <3>2. HeldKept(u)
      BY <1>1 DEF HeldKept
    <3>3. Shape(fault[u]) /\ fault[u].at \notin Kernel /\ cpu' # u /\ FaultFits(u) /\ ForkFits(u)
      BY <1>2, <2>2, Known
    <3>4. GoesOn(u) /\ fault[u].goal \notin Shares
      BY <3>1, <3>3 DEF GoesOn, Shape, Kernel
    <3>5. FaultFits(u)'
      BY <3>1, <3>2, <3>3, <3>4, SleeperFits
    <3>6. Forking(u) => LET d == fault[u].other
                        IN  KeptFor(d) /\ fault'[d] = fault[d] /\ dir'[d] = dir[d]
      <4> SUFFICES ASSUME Forking(u)
                   PROVE  LET d == fault[u].other
                          IN  KeptFor(d) /\ fault'[d] = fault[d] /\ dir'[d] = dir[d]
        OBVIOUS
      <4>1. Forking(u)'
        BY <3>1 DEF Forking
      <4>2. fault[u].other \in Tasks \ {t, x}
        BY <1>8, <4>1
      <4> QED BY <1>1, <1>5, <4>2
    <3> QED BY <3>1, <3>3, <3>4, <3>5, <3>6, ForkerFits
  <2> QED BY <2>1, <2>2
<1>10. ChildrenApart'
  BY <1>8, Known DEF ChildrenApart
<1>11. GoneFits'
  <2> SUFFICES ASSUME NEW d \in Tasks, fault'[d].at = "gone",
                      \A u \in Tasks : Forking(u)' => fault'[u].other # d
               PROVE  dir'[d] = NULL /\ \A w \in Virtual : Empty(d, w)'
    BY DEF GoneFits
  <2>1. CASE d = x
    BY <1>1, <1>6, <2>1
  <2>2. CASE d # x
    <3>1. d # t
      BY <1>1, <1>2, <2>2, RestIs
    <3>2. fault[d].at = "gone"
      BY <1>1, <3>1
    <3>3. \A u \in Tasks : Forking(u) => fault[u].other # d
      <4> SUFFICES ASSUME NEW u \in Tasks, Forking(u), fault[u].other = d PROVE FALSE
        OBVIOUS
      <4>1. u # t
        BY <1>2, <2>2
      <4>2. fault'[u] = fault[u] /\ Forking(u)'
        BY <1>1, <4>1 DEF Forking
      <4> QED BY <4>2
    <3>4. dir[d] = NULL /\ \A w \in Virtual : Empty(d, w)
      BY <3>2, <3>3, Known DEF GoneFits
    <3> QED BY <1>1, <1>5, <2>2, <3>4 DEF KeptFor
  <2> QED BY <2>1, <2>2
<1>12. OwnContents'
  <2> SUFFICES ASSUME NEW u \in Tasks, NEW w \in Virtual, fault'[u].at # "gone"
               PROVE  Seen(u, w)' = want'[u][w]
    BY DEF OwnContents
  <2>1. CASE u = x
    <3>1. x = t /\ g = User
      BY <1>1, <1>2, <2>1, RestIs
    <3> QED BY <1>2, <1>6, <2>1, <3>1
  <2>2. CASE u # x
    <3>1. fault[u].at # "gone"
      BY <1>1, <1>2
    <3>2. KeptFor(u) /\ want'[u] = want[u]
      BY <1>2, <1>5, <2>2
    <3> QED BY <3>1, <3>2, Known DEF KeptFor, OwnContents
  <2> QED BY <2>1, <2>2
<1> QED BY <1>3, <1>4, <1>9, <1>10, <1>11, <1>12 DEF IInv

(* exit, execve and a task that gets no page.                              *)
LEMMA FreedPlaces ==
  /\ InTables \in SUBSET Places /\ InTables \cup {InHand} \in SUBSET Places
BY PlacesAre DEF InTables

LEMMA ExitKeeps ==
  ASSUME IInv, NEW t \in Tasks, Exit(t)
  PROVE  IInv'
<1>1. FreeTables(t, InTables) /\ fault' = [fault EXCEPT ![t] = Gone] /\ cpu' = cpu /\ want' = want
  BY DEF Exit
<1>2. cpu = NULL /\ fault[t] = User /\ ~Forking(t) /\ User.at # "gone"
  BY UserIs DEF Exit
<1>3. Frees(t, t, InTables, Gone)
  BY <1>1, <1>2, RestIs, Known DEF Frees, Types
<1> QED BY <1>3, FreedPlaces, FreeKeeps

LEMMA ExecKeeps ==
  ASSUME IInv, NEW t \in Tasks, Exec(t)
  PROVE  IInv'
<1>1. /\ FreeTables(t, InTables) /\ cpu' = cpu /\ fault' = fault
      /\ want' = [want EXCEPT ![t] = [v \in Virtual |-> First(v)]]
  BY DEF Exec
<1>2. cpu = NULL /\ fault[t] = User /\ ~Forking(t) /\ User.at # "gone"
  BY UserIs DEF Exec
<1>3. fault' = [fault EXCEPT ![t] = User]
  BY <1>1, <1>2, Known DEF Types
<1>4. /\ want' \in [Tasks -> [Virtual -> Nat]] /\ \A u \in Tasks \ {t} : want'[u] = want[u]
      /\ \A w \in Virtual : want'[t][w] = First(w)
  BY <1>1, Known DEF Types, First, File, Zero
<1>5. Frees(t, t, InTables, User)
  BY <1>1, <1>2, <1>3, <1>4, RestIs, Known DEF Frees
<1> QED BY <1>5, FreedPlaces, FreeKeeps

LEMMA OutOfMemoryKeeps ==
  ASSUME IInv, NEW t \in Tasks, OutOfMemory(t)
  PROVE  IInv'
<1>1. /\ cpu = t /\ fault[t].at = "alloc" /\ cpu' = NULL /\ want' = want
      /\ IF fault[t].goal \in {"fork", "fork in"}
         THEN FreeTables(fault[t].other, InTables) /\ fault' = [fault EXCEPT ![t] = User]
         ELSE FreeTables(t, InTables \cup {InHand}) /\ fault' = [fault EXCEPT ![t] = Gone]
  BY DEF OutOfMemory, Return
<1>2. /\ fault[t].out = NULL /\ (fault[t].held # NULL => fault[t].goal = "table")
      /\ (Forking(t) <=> fault[t].goal \in {"fork", "fork in"})
  BY <1>1, Known DEF Shape, HasPage, Forking, Forks
<1>3. /\ want' \in [Tasks -> [Virtual -> Nat]] /\ \A u \in Tasks : want'[u] = want[u]
  BY <1>1, Known DEF Types
<1>4. CASE Forking(t)
  <2>1. PICK x \in Tasks : x = fault[t].other /\ x # t
    <3>1. fault[t].other \in Tasks /\ fault[fault[t].other] = Gone
      BY <1>4, Known DEF ForkFits
    <3> QED BY <1>1, <3>1, RestIs
  <2>2. FreeTables(x, InTables) /\ fault' = [fault EXCEPT ![t] = User]
    BY <1>1, <1>2, <1>4, <2>1
  <2>3. fault[t].held = NULL
    BY <1>2, <1>4
  <2>4. Frees(t, x, InTables, User)
    BY <1>1, <1>2, <1>3, <1>4, <2>1, <2>2, <2>3, Known DEF Frees
  <2> QED BY <2>4, FreedPlaces, FreeKeeps
<1>5. CASE ~Forking(t)
  <2>1. /\ FreeTables(t, InTables \cup {InHand}) /\ fault' = [fault EXCEPT ![t] = Gone]
    BY <1>1, <1>2, <1>5
  <2>2. Frees(t, t, InTables \cup {InHand}, Gone)
    BY <1>1, <1>2, <1>3, <1>5, <2>1, RestIs, Known DEF Frees
  <2> QED BY <2>2, FreedPlaces, FreeKeeps
<1> QED BY <1>4, <1>5

-----------------------------------------------------------------------------
(* At first no task has a page.                                            *)
LEMMA AtFirst ==
  ASSUME MemInit
  PROVE  IInv
<1>1. /\ mem_map = [p \in Pages |-> 0] /\ content = [p \in Pages |-> Zero]
      /\ dir = [t \in Tasks |-> NULL] /\ pte = [t \in Tasks |-> NoPages]
      /\ swap_bitmap = SwapPages /\ swap = [n \in SwapPages |-> Zero]
      /\ fault = [t \in Tasks |-> IF t \in Running THEN User ELSE Gone]
      /\ cpu = NULL /\ want = [t \in Tasks |-> [v \in Virtual |-> First(v)]]
  BY DEF MemInit
<1>2. /\ NotMapped \in Entries /\ NotMapped.page = NULL /\ NotMapped.nr = NULL /\ ~NotMapped.rw
  BY DEF NotMapped, Entries
<1>3. NoPages \in [Virtual -> Entries] /\ \A t \in Tasks, w \in Virtual : pte[t][w] = NotMapped
  BY <1>1, <1>2 DEF NoPages
<1>4. Types
  <2>1. fault \in [Tasks -> Faults]
    BY <1>1, UserInFaults
  <2>2. want \in [Tasks -> [Virtual -> Nat]]
    BY <1>1 DEF First, File, Zero
  <2> QED BY <1>1, <1>3, <2>1, <2>2 DEF Types, Zero
<1>5. \A t \in Tasks : fault[t] \in {User, Gone} /\ fault[t].held = NULL /\ fault[t].out = NULL
  BY <1>1, RestIs
<1>6. \A t \in Tasks, w \in Places : PageAt(t, w) = NULL /\ ~Private(t, w)
  <2> SUFFICES ASSUME NEW t \in Tasks, NEW w \in Places
               PROVE  PageAt(t, w) = NULL /\ ~Private(t, w)
    OBVIOUS
  <2>1. CASE w \in Virtual
    BY <1>2, <1>3, <2>1, PageIs, PlacesAre DEF Private
  <2>2. CASE w \notin Virtual
    <3>1. dir[t] = NULL
      BY <1>1
    <3> QED BY <1>5, <2>2, <3>1, PageIs, PlacesAre DEF Private
  <2> QED BY <2>1, <2>2
<1>7. CountsMappings
  <2> SUFFICES ASSUME NEW p \in Pages PROVE mem_map[p] = Cardinality(UsesOf(p))
    BY DEF CountsMappings
  <2>1. UsesOf(p) = {}
    BY <1>6, PlacesAre DEF UsesOf
  <2> QED BY <1>1, <2>1, FS_EmptySet
<1>8. EntriesFit /\ PrivatePages
  BY <1>2, <1>3, <1>6 DEF EntriesFit, EntryFits, PrivatePages
<1>9. SwapApart
  BY <1>1, <1>2, <1>3, PlacesAre DEF SwapApart
<1>10. \A t \in Tasks : ~Forking(t)
  BY <1>5, RestIs DEF Forking, Forks
<1>11. \A t \in Tasks : FaultFits(t) /\ ForkFits(t)
  <2>1. \A f \in {User, Gone} :
           Shape(f) /\ ~Swapping(f) /\ f.at \notin Kernel /\ f.goal = "none"
    <3>1. \A f \in {User, Gone} :
            /\ f.goal = "none" /\ f.held = NULL /\ f.out = NULL
            /\ (f.at = "user" /\ f = User) \/ (f.at = "gone" /\ f = Gone)
      BY RestIs
    <3> QED BY <3>1 DEF Shape, Swapping, Kernel, Requests, HasPage, Forks, Shares, Goals, Fills
  <2>2. cpu \notin Tasks
    BY <1>1, PlacesAre
  <2> QED BY <1>5, <1>10, <2>1, <2>2 DEF FaultFits, ForkFits, Fills
<1>12. ChildrenApart /\ GoneFits
  <2>1. \A c \in Tasks : dir[c] = NULL /\ \A w \in Virtual : Empty(c, w)
    BY <1>1, <1>2, <1>3 DEF Empty
  <2>2. ChildrenApart
    BY <1>10 DEF ChildrenApart
  <2>3. GoneFits
    BY <2>1, Zenon DEF GoneFits
  <2> QED BY <2>2, <2>3
<1>13. OwnContents
  <2> SUFFICES ASSUME NEW t \in Tasks, NEW w \in Virtual PROVE Seen(t, w) = want[t][w]
    BY DEF OwnContents
  <2>1. pte[t][w] = NotMapped /\ want[t][w] = First(w)
    BY <1>1, <1>3
  <2> QED BY <1>2, <2>1 DEF Seen, Present
<1> QED BY <1>4, <1>7, <1>8, <1>9, <1>11, <1>12, <1>13 DEF IInv

LEMMA StepKeeps ==
  ASSUME IInv, ~SwapInCow, [MemNext]_memVars
  PROVE  IInv'
<1>1. CASE UNCHANGED memVars
  <2>1. /\ mem_map' = mem_map /\ content' = content /\ dir' = dir /\ pte' = pte
        /\ swap_bitmap' = swap_bitmap /\ swap' = swap /\ fault' = fault /\ cpu' = cpu /\ want' = want
    BY <1>1 DEF memVars
  <2>2. Types' /\ EntriesFit' /\ PrivatePages'
    BY <2>1, Known DEF Types, EntriesFit, EntryFits, PrivatePages, Private, PageAt
  <2>5. SwapApart' /\ ChildrenApart'
    BY <2>1, Known DEF SwapApart, ChildrenApart, Forking
  <2>6. GoneFits'
    BY <2>1, Known DEF GoneFits, Forking, Empty
  <2>7. OwnContents'
    BY <2>1, Known DEF OwnContents, Seen, Present
  <2>3. CountsMappings'
    <3>1. \A p : UsesOf(p)' = UsesOf(p)
      BY <2>1 DEF UsesOf, PageAt
    <3> QED BY <2>1, <3>1, Known DEF CountsMappings
  <2>4. ASSUME NEW u \in Tasks PROVE FaultFits(u)' /\ ForkFits(u)'
    <3>1. FaultFits(u) /\ ForkFits(u)
      BY Known
    <3>2. FaultFits(u)'
      BY <2>1, <3>1 DEF FaultFits, FreePages, Empty, Present
    <3>3. ForkFits(u)'
      BY <2>1, <3>1 DEF ForkFits, Empty, Present, Seen, Forking
    <3> QED BY <3>2, <3>3
  <2> QED BY <2>2, <2>3, <2>4, <2>5, <2>6, <2>7 DEF IInv
<1>2. ASSUME NEW t \in Tasks,
             Drop(t) \/ WriteOut(t) \/ WrittenOut(t) \/ Exit(t) \/ Exec(t) \/ OutOfMemory(t)
      PROVE  IInv'
  BY <1>2, DropKeeps, WriteOutKeeps, WrittenOutKeeps, ExitKeeps, ExecKeeps, OutOfMemoryKeeps
<1>3. ASSUME NEW t \in Tasks, NEW v \in Virtual, WriteFault(t, v) \/ Store(t, v) \/ NoPage(t, v)
      PROVE  IInv'
  BY <1>3, WriteFaultKeeps, StoreKeeps, NoPageKeeps
<1>4. ASSUME NEW t \in Tasks,
             \/ CopyOnWrite(t) \/ ShareInTable(t) \/ ReadSwap(t) \/ SwapIn(t)
             \/ NewOrRead(t) \/ PutPage(t) \/ PutInTable(t)
      PROVE  IInv'
  BY <1>4, CopyOnWriteKeeps, ShareInTableKeeps, ReadSwapKeeps, SwapInKeeps, NewOrReadKeeps,
     PutPageKeeps, PutInTableKeeps
<1>5. ASSUME NEW t \in Tasks,
             Fork(t) \/ ForkTable(t) \/ CopyEntries(t) \/ ForkRead(t) \/ ForkSwapped(t)
      PROVE  IInv'
  BY <1>5, ForkKeeps, ForkTableKeeps, CopyEntriesKeeps, ForkReadKeeps, ForkSwappedKeeps
<1>6. CASE MemNext
  <2>1. PICK t \in Tasks :
          \/ Drop(t) \/ WriteOut(t) \/ WrittenOut(t) \/ Exit(t) \/ Exec(t) \/ OutOfMemory(t)
          \/ \E v \in Virtual : WriteFault(t, v) \/ Store(t, v) \/ NoPage(t, v)
          \/ CopyOnWrite(t) \/ ShareInTable(t) \/ ReadSwap(t) \/ SwapIn(t)
          \/ NewOrRead(t) \/ PutPage(t) \/ PutInTable(t)
          \/ Fork(t) \/ ForkTable(t) \/ CopyEntries(t) \/ ForkRead(t) \/ ForkSwapped(t)
    BY <1>6 DEF MemNext
  <2> QED BY <1>2, <1>3, <1>4, <1>5, <2>1
<1> QED BY <1>1, <1>6

THEOREM PagesInvariant == ~SwapInCow => (MemSpec => []IInv)
<1> SUFFICES ASSUME ~SwapInCow PROVE MemSpec => []IInv
  OBVIOUS
<1>1. MemInit => IInv
  BY AtFirst
<1>2. IInv /\ [MemNext]_memVars => IInv'
  BY StepKeeps
<1> QED BY <1>1, <1>2, PTL DEF MemSpec

(* The count of a page is the number of the places it is in: put_page      *)
(* never complains that mem_map disagrees, no page is freed that is in     *)
(* use, none is lost (get_free_page, free_page, copy_page_tables).         *)
THEOREM CountsMappingsAlways == ~SwapInCow => (MemSpec => []CountsMappings)
<1> SUFFICES ASSUME ~SwapInCow PROVE MemSpec => []CountsMappings
  OBVIOUS
<1>1. IInv => CountsMappings
  BY DEF IInv
<1> QED BY <1>1, PagesInvariant, PTL

(* A swap page is free or belongs to one entry of one task, never to two   *)
(* and never to none, whatever is swapped, shared, forked or freed while   *)
(* the disk is waited for (swap_in, try_to_swap_out, swap_free).           *)
THEOREM SwapAccountedAlways == ~SwapInCow => (MemSpec => []SwapAccounted)
<1> SUFFICES ASSUME ~SwapInCow PROVE MemSpec => []SwapAccounted
  OBVIOUS
<1>1. ASSUME IInv PROVE SwapAccounted
  <2> SUFFICES ASSUME NEW n \in SwapPages
               PROVE  Cardinality({tv \in Tasks \X Virtual : pte[tv[1]][tv[2]].nr = n})
                        = (IF n \in swap_bitmap THEN 0 ELSE 1)
    BY DEF SwapAccounted
  <2> DEFINE S == {tv \in Tasks \X Virtual : pte[tv[1]][tv[2]].nr = n}
  <2>1. SwapApart /\ n # NULL
    BY <1>1, Known
  <2>2. \A tv \in S : tv[1] \in Tasks /\ tv[2] \in Virtual /\ tv = <<tv[1], tv[2]>>
                      /\ pte[tv[1]][tv[2]].nr = n
    OBVIOUS
  <2>3. CASE n \in swap_bitmap
    <3>1. S = {}
      BY <2>1, <2>2, <2>3 DEF SwapApart
    <3> QED BY <2>3, <3>1, FS_EmptySet
  <2>4. CASE n \notin swap_bitmap
    <3>1. PICK t \in Tasks, v \in Virtual : pte[t][v].nr = n
      BY <2>1, <2>4 DEF SwapApart
    <3>2. <<t, v>> \in S
      BY <3>1
    <3>3. \A tv \in S : tv = <<t, v>>
      BY <2>1, <2>2, <3>1 DEF SwapApart
    <3>4. S = {<<t, v>>}
      BY <3>2, <3>3
    <3> HIDE DEF S
    <3>5. Cardinality(S) = 1
      BY <3>4, FS_Singleton
    <3> QED BY <2>4, <3>5 DEF S
  <2> QED BY <2>3, <2>4
<1> QED BY <1>1, PagesInvariant, PTL

(* A task finds in its pages what it has stored in them, or what the file  *)
(* has, and nobody else's data, however they are shared, copied on write,  *)
(* dropped, swapped out and in, and copied by fork.                        *)
THEOREM OwnContentsAlways == ~SwapInCow => (MemSpec => []OwnContents)
<1> SUFFICES ASSUME ~SwapInCow PROVE MemSpec => []OwnContents
  OBVIOUS
<1>1. IInv => OwnContents
  BY DEF IInv
<1> QED BY <1>1, PagesInvariant, PTL

-----------------------------------------------------------------------------
(***************************************************************************)
(* malloc: its descriptors of pages, the pages, and the objects on a page. *)
(***************************************************************************)
Descriptors == [page : Nat, free : Seq(Nat), refcnt : Int, size : Nat]
Objects == [page : Nat, at : Nat, len : Nat]
RequestsMade == [at : {"idle", "page", "descriptors"}, len : Nat, desc : Desc \cup {<<>>}]

MallocTypes ==
  /\ chain \in [Buckets -> Seq(Desc)]
  /\ free_bucket_desc \in Seq(Desc)
  /\ desc \in [Desc -> Descriptors]
  /\ frames \in SUBSET Frames
  /\ request \in [Callers -> RequestsMade]
  /\ objects \in [Callers -> SUBSET Objects]

(* A descriptor is on one chain, in the list of unused ones, or in the     *)
(* hands of a task that waits for the page it will describe.               *)
Linked_at(b, d) == b \in Buckets /\ d \in Range(chain[b])
InHands(t, d) == t \in Callers /\ request[t].at = "page" /\ request[t].desc = d
DescriptorsApart ==
  /\ IsInjective(free_bucket_desc)
  /\ \A b \in Buckets : IsInjective(chain[b])
  /\ \A b \in Buckets, d \in Desc : Linked_at(b, d) => d \notin Range(free_bucket_desc)
  /\ \A t \in Callers, d \in Desc : InHands(t, d) =>
       /\ d \notin Range(free_bucket_desc)
       /\ \A b \in Buckets : ~Linked_at(b, d)
       /\ \A u \in Callers : InHands(u, d) => t = u
  /\ \A t \in Callers : request[t].at = "page" => request[t].desc \in Desc
  /\ \A t \in Callers : request[t] # Idle => request[t].len \in 1..Largest

(* A page is free, has descriptors, or is described by one of them.        *)
Made(d) == \/ d \in Range(free_bucket_desc)
           \/ \E b \in Buckets : Linked_at(b, d)
           \/ \E t \in Callers : InHands(t, d)
PagesApart ==
  /\ \A d \in Desc : Made(d) => d[1] \notin frames
  /\ \A b \in Buckets, d \in Desc : Linked_at(b, d) =>
       /\ desc[d].page \in Frames \ frames
       /\ \A e \in Desc : Made(e) => e[1] # desc[d].page
       /\ \A c \in Buckets, e \in Desc : Linked_at(c, e) /\ desc[e].page = desc[d].page => d = e

(* The free and the held objects of a page, each of n bytes, do not        *)
(* overlap, and the count of the page is that of the held ones.            *)
Clear(x, y, n) == x + n <= y \/ y + n <= x
Layout(r, H, n) ==
  /\ r.size = n
  /\ IsInjective(r.free)
  /\ \A x \in Range(r.free) : x + n <= PAGE_SIZE
  /\ \A x, y \in Range(r.free) : x # y => Clear(x, y, n)
  /\ \A h \in H : h[2].at + n <= PAGE_SIZE /\ h[2].len <= n
  /\ \A h \in H, x \in Range(r.free) : Clear(h[2].at, x, n)
  /\ \A g, h \in H : g # h => Clear(g[2].at, h[2].at, n)
  /\ IsFiniteSet(H) /\ r.refcnt = Cardinality(H)

OnPage(O, p) == {h \in Callers \X Objects : h[2] \in O[h[1]] /\ h[2].page = p}
PagesLaidOut ==
  \A b \in Buckets, d \in Desc : Linked_at(b, d) => Layout(desc[d], OnPage(objects, desc[d].page), BucketSize[b])
ObjectsPlaced ==
  \A t \in Callers, o \in Objects : o \in objects[t] =>
    \E b \in Buckets, d \in Desc : Linked_at(b, d) /\ desc[d].page = o.page

MallocIInv == MallocTypes /\ DescriptorsApart /\ PagesApart /\ PagesLaidOut /\ ObjectsPlaced

-----------------------------------------------------------------------------
(* What leaves the front of a list of different elements.                  *)
LEMMA ListWithoutFirst ==
  ASSUME NEW S, NEW s \in Seq(S), s # <<>>, IsInjective(s)
  PROVE  /\ Head(s) \in S /\ Head(s) \in Range(s)
         /\ Tail(s) \in Seq(S) /\ IsInjective(Tail(s))
         /\ Range(Tail(s)) = Range(s) \ {Head(s)}
<1>1. Len(s) \in Nat /\ Len(s) # 0 /\ DOMAIN s = 1..Len(s)
  OBVIOUS
<1>2. Tail(s) \in Seq(S) /\ DOMAIN Tail(s) = 1..(Len(s) - 1) /\ \A i \in 1..(Len(s) - 1) : Tail(s)[i] = s[i + 1]
  BY <1>1
<1>3. Head(s) = s[1] /\ s[1] \in S /\ s[1] \in Range(s)
  BY <1>1 DEF Range
<1>4. IsInjective(Tail(s))
  BY <1>1, <1>2 DEF IsInjective
<1>5. ASSUME NEW x PROVE x \in Range(Tail(s)) <=> x \in Range(s) \ {Head(s)}
  <2>1. ASSUME x \in Range(Tail(s)) PROVE x \in Range(s) \ {Head(s)}
    <3>1. PICK i \in 1..(Len(s) - 1) : x = s[i + 1]
      BY <2>1, <1>2 DEF Range
    <3> QED BY <3>1, <1>1, <1>3 DEF Range, IsInjective
  <2>2. ASSUME x \in Range(s), x # s[1] PROVE x \in Range(Tail(s))
    <3>1. PICK i \in 1..Len(s) : x = s[i]
      BY <2>2, <1>1 DEF Range
    <3>2. i - 1 \in 1..(Len(s) - 1) /\ s[(i - 1) + 1] = s[i]
      BY <3>1, <2>2, <1>1
    <3> QED BY <3>1, <3>2, <1>2 DEF Range
  <2> QED BY <2>1, <2>2, <1>3
<1> QED BY <1>2, <1>3, <1>4, <1>5

(* Two lists without a common element, one after the other.                *)
LEMMA ListOfBoth ==
  ASSUME NEW S, NEW r \in Seq(S), NEW s \in Seq(S), IsInjective(r), IsInjective(s),
         Range(r) \cap Range(s) = {}
  PROVE  /\ r \o s \in Seq(S) /\ IsInjective(r \o s)
         /\ Range(r \o s) = Range(r) \cup Range(s)
<1> DEFINE q == r \o s
<1>1. Len(r) \in Nat /\ Len(s) \in Nat /\ DOMAIN r = 1..Len(r) /\ DOMAIN s = 1..Len(s)
  OBVIOUS
<1>2. /\ q \in Seq(S) /\ DOMAIN q = 1..(Len(r) + Len(s))
      /\ \A i \in 1..(Len(r) + Len(s)) : q[i] = IF i <= Len(r) THEN r[i] ELSE s[i - Len(r)]
  BY <1>1
<1> HIDE DEF q
<1>3. \A i \in 1..Len(r), j \in 1..Len(s) : r[i] # s[j]
  BY <1>1 DEF Range
<1>4. IsInjective(q)
  <2> SUFFICES ASSUME NEW i \in 1..(Len(r) + Len(s)), NEW j \in 1..(Len(r) + Len(s)), q[i] = q[j]
               PROVE  i = j
    BY <1>2 DEF IsInjective
  <2>1. CASE i <= Len(r) /\ j <= Len(r)
    <3>1. i \in 1..Len(r) /\ j \in 1..Len(r) /\ q[i] = r[i] /\ q[j] = r[j]
      BY <2>1, <1>1, <1>2
    <3> QED BY <3>1, <1>1 DEF IsInjective
  <2>2. CASE i > Len(r) /\ j > Len(r)
    <3>1. i - Len(r) \in 1..Len(s) /\ j - Len(r) \in 1..Len(s) /\ q[i] = s[i - Len(r)] /\ q[j] = s[j - Len(r)]
      BY <2>2, <1>1, <1>2
    <3>2. i - Len(r) = j - Len(r)
      BY <3>1, <1>1 DEF IsInjective
    <3> QED BY <3>2, <1>1
  <2>3. CASE i <= Len(r) /\ j > Len(r)
    <3>1. i \in 1..Len(r) /\ j - Len(r) \in 1..Len(s) /\ q[i] = r[i] /\ q[j] = s[j - Len(r)]
      BY <2>3, <1>1, <1>2
    <3> QED BY <3>1, <1>3
  <2>4. CASE i > Len(r) /\ j <= Len(r)
    <3>1. j \in 1..Len(r) /\ i - Len(r) \in 1..Len(s) /\ q[j] = r[j] /\ q[i] = s[i - Len(r)]
      BY <2>4, <1>1, <1>2
    <3> QED BY <3>1, <1>3
  <2> QED BY <2>1, <2>2, <2>3, <2>4, <1>1
<1>5. Range(q) \subseteq Range(r) \cup Range(s)
  <2> SUFFICES ASSUME NEW i \in 1..(Len(r) + Len(s)) PROVE q[i] \in Range(r) \cup Range(s)
    BY <1>2 DEF Range
  <2>1. CASE i <= Len(r)
    BY <2>1, <1>1, <1>2 DEF Range
  <2>2. CASE i > Len(r)
    <3>1. i - Len(r) \in 1..Len(s) /\ q[i] = s[i - Len(r)]
      BY <2>2, <1>1, <1>2
    <3> QED BY <3>1, <1>1 DEF Range
  <2> QED BY <2>1, <2>2, <1>1
<1>6. Range(r) \subseteq Range(q)
  <2> SUFFICES ASSUME NEW i \in 1..Len(r) PROVE r[i] \in Range(q)
    BY <1>1 DEF Range
  <2>1. i \in 1..(Len(r) + Len(s)) /\ q[i] = r[i]
    BY <1>1, <1>2
  <2> QED BY <2>1, <1>2 DEF Range
<1>7. Range(s) \subseteq Range(q)
  <2> SUFFICES ASSUME NEW i \in 1..Len(s) PROVE s[i] \in Range(q)
    BY <1>1 DEF Range
  <2>1. i + Len(r) \in 1..(Len(r) + Len(s)) /\ q[i + Len(r)] = s[i]
    BY <1>1, <1>2
  <2> QED BY <2>1, <1>2 DEF Range
<1>8. Range(q) = Range(r) \cup Range(s)
  BY <1>5, <1>6, <1>7
<1> QED BY <1>2, <1>4, <1>8 DEF q

(* An element more in front.                                               *)
LEMMA ListWithFirst ==
  ASSUME NEW S, NEW d \in S, NEW s \in Seq(S), IsInjective(s), d \notin Range(s)
  PROVE  /\ <<d>> \o s \in Seq(S) /\ IsInjective(<<d>> \o s)
         /\ Range(<<d>> \o s) = Range(s) \cup {d}
<1> DEFINE one == <<d>>
<1>1. one \in Seq(S) /\ DOMAIN one = {1} /\ one[1] = d
  OBVIOUS
<1> HIDE DEF one
<1>2. IsInjective(one) /\ Range(one) = {d}
  BY <1>1 DEF IsInjective, Range
<1>3. Range(one) \cap Range(s) = {}
  BY <1>2
<1>4. one \o s \in Seq(S) /\ IsInjective(one \o s) /\ Range(one \o s) = Range(one) \cup Range(s)
  BY <1>1, <1>2, <1>3, ListOfBoth
<1> QED BY <1>2, <1>4 DEF one

(* The element at i taken out.                                             *)
LEMMA ListWithout ==
  ASSUME NEW S, NEW s \in Seq(S), IsInjective(s), NEW i \in DOMAIN s
  PROVE  /\ RemoveAt(s, i) \in Seq(S) /\ IsInjective(RemoveAt(s, i))
         /\ Range(RemoveAt(s, i)) = Range(s) \ {s[i]}
<1> DEFINE l == SubSeq(s, 1, i - 1)
           r == SubSeq(s, i + 1, Len(s))
<1>1. Len(s) \in Nat /\ DOMAIN s = 1..Len(s) /\ i \in 1..Len(s) /\ \A j \in 1..Len(s) : s[j] \in S
  OBVIOUS
<1>2. l \in Seq(S) /\ DOMAIN l = 1..(i - 1) /\ \A j \in 1..(i - 1) : l[j] = s[j]
  BY <1>1
<1>3. r \in Seq(S) /\ DOMAIN r = 1..(Len(s) - i) /\ \A j \in 1..(Len(s) - i) : r[j] = s[j + i]
  <2>1. r = [j \in 1..(Len(s) - i) |-> s[j + i]]
    BY <1>1
  <2>2. Len(s) - i \in Nat /\ \A j \in 1..(Len(s) - i) : j + i \in 1..Len(s)
    BY <1>1
  <2> DEFINE m == Len(s) - i
  <2>3. m \in Nat /\ \A j \in 1..m : s[j + i] \in S
    BY <2>2, <1>1
  <2>4. r = [j \in 1..m |-> s[j + i]]
    BY <2>1
  <2> HIDE DEF r, m
  <2>5. r \in [1..m -> S] /\ DOMAIN r = 1..m /\ \A j \in 1..m : r[j] = s[j + i]
    BY <2>3, <2>4
  <2>6. r \in Seq(S)
    BY <2>3, <2>5
  <2> QED BY <2>5, <2>6 DEF m
<1>4. RemoveAt(s, i) = l \o r
  BY DEF RemoveAt
<1> HIDE DEF l, r
<1>5. IsInjective(l) /\ IsInjective(r) /\ Range(l) \cap Range(r) = {}
  <2>1. IsInjective(l)
    BY <1>1, <1>2 DEF IsInjective
  <2>2. IsInjective(r)
    <3> SUFFICES ASSUME NEW j \in 1..(Len(s) - i), NEW k \in 1..(Len(s) - i), r[j] = r[k] PROVE j = k
      BY <1>3 DEF IsInjective
    <3>1. j + i \in 1..Len(s) /\ k + i \in 1..Len(s) /\ s[j + i] = s[k + i]
      BY <1>1, <1>3
    <3>2. j + i = k + i
      BY <3>1, <1>1 DEF IsInjective
    <3> QED BY <3>2, <1>1
  <2>3. ASSUME NEW j \in 1..(i - 1), NEW k \in 1..(Len(s) - i) PROVE l[j] # r[k]
    <3>1. j \in 1..Len(s) /\ k + i \in 1..Len(s) /\ l[j] = s[j] /\ r[k] = s[k + i] /\ j # k + i
      BY <1>1, <1>2, <1>3
    <3> QED BY <3>1, <1>1 DEF IsInjective
  <2> QED BY <2>1, <2>2, <2>3, <1>2, <1>3 DEF Range
<1>6. Range(l) \cup Range(r) = Range(s) \ {s[i]}
  <2>1. ASSUME NEW j \in 1..(i - 1) PROVE l[j] \in Range(s) \ {s[i]}
    BY <1>1, <1>2 DEF Range, IsInjective
  <2>2. ASSUME NEW j \in 1..(Len(s) - i) PROVE r[j] \in Range(s) \ {s[i]}
    <3>1. j + i \in 1..Len(s) /\ j + i # i /\ r[j] = s[j + i]
      BY <1>1, <1>3
    <3> QED BY <3>1, <1>1 DEF Range, IsInjective
  <2>3. ASSUME NEW j \in 1..Len(s), s[j] # s[i] PROVE s[j] \in Range(l) \cup Range(r)
    <3>1. CASE j < i
      <4>1. j \in 1..(i - 1) /\ s[j] = l[j]
        BY <3>1, <1>1, <1>2
      <4> QED BY <4>1, <1>2 DEF Range
    <3>2. CASE j > i
      <4>1. j - i \in 1..(Len(s) - i) /\ s[j] = r[j - i]
        BY <3>2, <1>1, <1>3
      <4> QED BY <4>1, <1>3 DEF Range
    <3> QED BY <3>1, <3>2, <2>3, <1>1
  <2>4. Range(l) \subseteq Range(s) \ {s[i]} /\ Range(r) \subseteq Range(s) \ {s[i]}
    BY <2>1, <2>2, <1>2, <1>3 DEF Range
  <2>5. Range(s) \ {s[i]} \subseteq Range(l) \cup Range(r)
    BY <2>3, <1>1 DEF Range
  <2> QED BY <2>4, <2>5
<1> QED BY <1>2, <1>3, <1>4, <1>5, <1>6, ListOfBoth

-----------------------------------------------------------------------------
(* An object is taken from the front of the free ones: it goes to h.       *)
LEMMA ObjectGiven ==
  ASSUME NEW n \in Nat \ {0}, NEW r \in Descriptors, NEW s \in Descriptors, NEW H,
         H \subseteq Callers \X Objects, Layout(r, H, n), r.free # <<>>,
         s.free = Tail(r.free), s.refcnt = r.refcnt + 1, s.size = r.size,
         NEW h \in Callers \X Objects, h[2].at = Head(r.free), h[2].len <= n
  PROVE  Layout(s, H \cup {h}, n)
<1>1. /\ Head(r.free) \in Nat /\ Head(r.free) \in Range(r.free)
      /\ IsInjective(Tail(r.free)) /\ Range(Tail(r.free)) = Range(r.free) \ {Head(r.free)}
  BY ListWithoutFirst DEF Layout, Descriptors
<1>2. \A x \in Range(r.free) : x \in Nat
  <2>1. r.free \in Seq(Nat)
    BY DEF Descriptors
  <2> QED BY <2>1 DEF Range
<1>3. \A g \in H : g[2].at \in Nat
  BY DEF Objects
<1>4. IsFiniteSet(H \cup {h}) /\ Cardinality(H \cup {h}) = Cardinality(H) + 1
  <2>1. h \notin H
    BY <1>1, <1>3 DEF Layout, Clear
  <2> QED BY <2>1, FS_AddElement DEF Layout
<1>5. \A g \in H : Clear(g[2].at, h[2].at, n) /\ Clear(h[2].at, g[2].at, n)
  BY <1>1, <1>3 DEF Layout, Clear
<1>6. \A x \in Range(s.free) : Clear(h[2].at, x, n)
  BY <1>1, <1>2 DEF Layout, Clear
<1>7. \A g \in H \cup {h}, x \in Range(s.free) : Clear(g[2].at, x, n)
  BY <1>1, <1>6 DEF Layout
<1>8. \A f, g \in H \cup {h} : f # g => Clear(f[2].at, g[2].at, n)
  BY <1>5 DEF Layout
<1>9. \A g \in H \cup {h} : g[2].at + n <= PAGE_SIZE /\ g[2].len <= n
  BY <1>1 DEF Layout
<1>10. s.refcnt = Cardinality(H \cup {h})
  BY <1>4 DEF Layout
<1>11. /\ s.size = n /\ IsInjective(s.free)
       /\ \A x \in Range(s.free) : x + n <= PAGE_SIZE
       /\ \A x, y \in Range(s.free) : x # y => Clear(x, y, n)
  BY <1>1 DEF Layout
<1> QED BY <1>4, <1>7, <1>8, <1>9, <1>10, <1>11 DEF Layout

(* An object is put back in front of the free ones: h had it.              *)
LEMMA ObjectTakenBack ==
  ASSUME NEW n \in Nat \ {0}, NEW r \in Descriptors, NEW s \in Descriptors, NEW H,
         H \subseteq Callers \X Objects, Layout(r, H, n), NEW h \in H,
         s.free = <<h[2].at>> \o r.free, s.refcnt = r.refcnt - 1, s.size = r.size
  PROVE  Layout(s, H \ {h}, n)
<1>1. \A g \in H : g[2].at \in Nat
  BY DEF Objects
<1>2. r.free \in Seq(Nat) /\ \A x \in Range(r.free) : x \in Nat
  <2>1. r.free \in Seq(Nat)
    BY DEF Descriptors
  <2> QED BY <2>1 DEF Range
<1>3. h[2].at \notin Range(r.free)
  BY <1>1 DEF Layout, Clear
<1>4. IsInjective(s.free) /\ Range(s.free) = Range(r.free) \cup {h[2].at}
  BY <1>1, <1>2, <1>3, ListWithFirst DEF Layout
<1>5. IsFiniteSet(H \ {h}) /\ Cardinality(H \ {h}) = Cardinality(H) - 1
  BY FS_RemoveElement DEF Layout
<1>6. \A x \in Range(s.free) : x + n <= PAGE_SIZE
  BY <1>4 DEF Layout
<1>7. \A x \in Range(r.free) : Clear(h[2].at, x, n) /\ Clear(x, h[2].at, n)
  BY <1>1, <1>2 DEF Layout, Clear
<1>8. \A x, y \in Range(s.free) : x # y => Clear(x, y, n)
  BY <1>4, <1>7 DEF Layout
<1>9. \A g \in H \ {h}, x \in Range(s.free) : Clear(g[2].at, x, n)
  BY <1>4 DEF Layout
<1>10. s.refcnt = Cardinality(H \ {h})
  BY <1>5 DEF Layout
<1>11. /\ s.size = n
       /\ \A g \in H \ {h} : g[2].at + n <= PAGE_SIZE /\ g[2].len <= n
       /\ \A f, g \in H \ {h} : f # g => Clear(f[2].at, g[2].at, n)
  BY DEF Layout
<1> QED BY <1>4, <1>5, <1>6, <1>8, <1>9, <1>10, <1>11 DEF Layout

(* The objects that a page is cut into are next to each other.             *)
LEMMA PageCut ==
  ASSUME NEW n \in 1..PAGE_SIZE
  PROVE  /\ Cut(n) \in Seq(Nat) /\ Cut(n) # <<>> /\ IsInjective(Cut(n))
         /\ \A x \in Range(Cut(n)) : x + n <= PAGE_SIZE
         /\ \A x, y \in Range(Cut(n)) : x # y => Clear(x, y, n)
<1> DEFINE k == PAGE_SIZE \div n
<1>1. PAGE_SIZE \in Nat /\ n \in Nat /\ n # 0
  BY MallocAssumption
<1>2. k \in Nat /\ k >= 1 /\ k * n <= PAGE_SIZE
  BY <1>1
<1>3. \A i \in 1..k : (i - 1) * n \in Nat
  BY <1>1, <1>2
<1>4. \A i, j \in 1..k : i < j => (i - 1) * n + n <= (j - 1) * n
  BY <1>1, <1>2
<1>5. \A i \in 1..k : (i - 1) * n + n <= PAGE_SIZE
  BY <1>1, <1>2
<1>6. Cut(n) \in Seq(Nat) /\ DOMAIN Cut(n) = 1..k /\ \A i \in 1..k : Cut(n)[i] = (i - 1) * n
  BY <1>2, <1>3 DEF Cut
<1> HIDE DEF k
<1>7. Cut(n) # <<>>
  BY <1>2, <1>6
<1>8. ASSUME NEW i \in 1..k, NEW j \in 1..k, i # j PROVE Clear((i - 1) * n, (j - 1) * n, n)
  <2>1. i < j \/ j < i
    BY <1>2, <1>8
  <2> QED BY <2>1, <1>4 DEF Clear
<1>9. IsInjective(Cut(n))
  <2> SUFFICES ASSUME NEW i \in 1..k, NEW j \in 1..k, i # j PROVE Cut(n)[i] # Cut(n)[j]
    BY <1>6 DEF IsInjective
  <2>1. (i - 1) * n \in Nat /\ (j - 1) * n \in Nat /\ Clear((i - 1) * n, (j - 1) * n, n)
    BY <1>3, <1>8
  <2> DEFINE x == (i - 1) * n  y == (j - 1) * n
  <2>2. x \in Nat /\ y \in Nat /\ Clear(x, y, n) /\ Cut(n)[i] = x /\ Cut(n)[j] = y
    BY <2>1, <1>6
  <2> HIDE DEF x, y
  <2> QED BY <2>2, <1>1 DEF Clear
<1> QED BY <1>5, <1>6, <1>7, <1>8, <1>9 DEF Range

(* The bucket of a request is one with objects that are long enough.       *)
LEMMA BucketIs ==
  ASSUME NEW len \in 1..Largest
  PROVE  Bucket(len) \in Buckets /\ BucketSize[Bucket(len)] >= len
<1> DEFINE T == {b \in Buckets : BucketSize[b] >= len}
<1>1. Len(BucketSize) \in Buckets /\ \A b \in Buckets : BucketSize[b] \in Nat
  BY MallocAssumption DEF Buckets
<1>2. T \subseteq Nat /\ T # {}
  BY <1>1 DEF Largest, Buckets
<1>3. IsFiniteSet(T)
  <2>1. IsFiniteSet(Buckets)
    BY MallocAssumption, FS_Interval DEF Buckets
  <2> QED BY <2>1, FS_Subset
<1>4. Min(T) \in T /\ \A c \in T : Min(T) <= c
  BY <1>2, <1>3, LeastOf
<1>5. \E b \in Buckets : BucketSize[b] >= len /\ \A c \in Buckets : BucketSize[c] >= len => b <= c
  BY <1>4
<1> QED BY <1>5 DEF Bucket

(* No two buckets have objects of the same size.                           *)
LEMMA BucketSizes ==
  /\ \A b \in Buckets : BucketSize[b] \in 1..PAGE_SIZE /\ BucketSize[b] \in Nat \ {0}
  /\ \A b, c \in Buckets : BucketSize[b] = BucketSize[c] => b = c
<1>1. \A b \in Buckets : BucketSize[b] \in 1..PAGE_SIZE
  BY MallocAssumption DEF Buckets
<1>2. \A b \in Buckets : BucketSize[b] \in Nat \ {0}
  BY <1>1, MallocAssumption
<1>3. \A b, c \in Buckets : b = c \/ b < c \/ c < b
  BY MallocAssumption DEF Buckets
<1> QED BY <1>1, <1>2, <1>3, MallocAssumption

-----------------------------------------------------------------------------
(* Somebody has h more, on page p.                                         *)
Gains(h, p) ==
  /\ \A u \in Callers, o \in Objects : o \in objects'[u] => o \in objects[u] \/ o = h[2]
  /\ OnPage(objects', p) = OnPage(objects, p) \cup {h}
  /\ \A q : q # p => OnPage(objects', q) = OnPage(objects, q)

(* What the last lines of malloc do: the caller has one object more.       *)
LEMMA HasMore ==
  ASSUME MallocTypes, NEW t \in Callers, NEW D \in [Desc -> Descriptors], NEW d \in Desc,
         NEW len \in Nat, D[d].free # <<>>, Give(t, D, d, len)
  PROVE  /\ desc' \in [Desc -> Descriptors] /\ objects' \in [Callers -> SUBSET Objects]
         /\ \A e \in Desc : e # d => desc'[e] = D[e]
         /\ desc'[d].page = D[d].page /\ desc'[d].size = D[d].size
         /\ desc'[d].free = Tail(D[d].free) /\ desc'[d].refcnt = D[d].refcnt + 1
         /\ \E h \in Callers \X Objects :
              /\ h[2].page = D[d].page /\ h[2].at = Head(D[d].free) /\ h[2].len = len
              /\ Gains(h, D[d].page)
<1> DEFINE r == D[d]
           c == [r EXCEPT !.free = Tail(r.free), !.refcnt = r.refcnt + 1]
           o == [page |-> r.page, at |-> Head(r.free), len |-> len]
           h == <<t, o>>
<1>1. r \in Descriptors /\ r.page \in Nat /\ r.size \in Nat /\ r.free \in Seq(Nat) /\ r.refcnt \in Int
  BY DEF Descriptors
<1>2. Head(r.free) \in Nat /\ Tail(r.free) \in Seq(Nat)
  BY <1>1
<1>3. c \in Descriptors /\ c.page = r.page /\ c.size = r.size /\ c.free = Tail(r.free) /\ c.refcnt = r.refcnt + 1
  <2> DEFINE f == Tail(r.free)
             k == r.refcnt + 1
  <2>1. f \in Seq(Nat) /\ k \in Int /\ c = [r EXCEPT !.free = f, !.refcnt = k]
    BY <1>1, <1>2
  <2> HIDE DEF c, f, k
  <2>2. c \in Descriptors /\ c.page = r.page /\ c.size = r.size /\ c.free = f /\ c.refcnt = k
    BY <1>1, <2>1 DEF Descriptors
  <2> QED BY <2>2 DEF f, k
<1>4. desc' = [D EXCEPT ![d] = c]
  BY DEF Give
<1>5. o \in Objects /\ o.page = r.page /\ o.at = Head(r.free) /\ o.len = len
  BY <1>1, <1>2 DEF Objects
<1>6. objects' = [objects EXCEPT ![t] = objects[t] \cup {o}]
  BY DEF Give
<1> HIDE DEF c, o
<1>7. desc' \in [Desc -> Descriptors] /\ desc'[d] = c /\ \A e \in Desc : e # d => desc'[e] = D[e]
  BY <1>3, <1>4
<1>8. /\ objects' \in [Callers -> SUBSET Objects] /\ objects'[t] = objects[t] \cup {o}
      /\ \A u \in Callers : u # t => objects'[u] = objects[u]
  BY <1>5, <1>6 DEF MallocTypes
<1>9. h \in Callers \X Objects /\ h[1] = t /\ h[2] = o
  BY <1>5
<1>10. \A g \in Callers \X Objects : g[2] \in objects'[g[1]] <=> g[2] \in objects[g[1]] \/ g = h
  BY <1>8, <1>9
<1>11. \A u \in Callers, q \in Objects : q \in objects'[u] => q \in objects[u] \/ q = h[2]
  BY <1>8, <1>9
<1> HIDE DEF h
<1>12. OnPage(objects', r.page) = OnPage(objects, r.page) \cup {h}
  BY <1>5, <1>9, <1>10 DEF OnPage
<1>13. \A p : p # r.page => OnPage(objects', p) = OnPage(objects, p)
  BY <1>5, <1>9, <1>10 DEF OnPage
<1>14. Gains(h, r.page)
  BY <1>11, <1>12, <1>13 DEF Gains
<1> QED BY <1>3, <1>5, <1>7, <1>8, <1>9, <1>14

(* Giving and taking back an object moves no descriptor and no page.       *)
LEMMA NothingMoved ==
  ASSUME DescriptorsApart, PagesApart, UNCHANGED <<chain, free_bucket_desc, frames, request>>,
         \A e \in Desc : desc'[e].page = desc[e].page
  PROVE  /\ DescriptorsApart' /\ PagesApart'
         /\ \A b, d : Linked_at(b, d)' <=> Linked_at(b, d)
<1>1. \A b, d : Linked_at(b, d)' <=> Linked_at(b, d)
  BY DEF Linked_at
<1>2. \A t, d : InHands(t, d)' <=> InHands(t, d)
  BY DEF InHands
<1>3. \A d : Made(d)' <=> Made(d)
  BY <1>1, <1>2 DEF Made
<1>4. DescriptorsApart'
  BY <1>1, <1>2 DEF DescriptorsApart
<1>5. PagesApart'
  BY <1>1, <1>3 DEF PagesApart
<1> QED BY <1>1, <1>4, <1>5

(* malloc finds a page with a free object.                                 *)
LEMMA ObjectFromPage ==
  ASSUME MallocIInv, NEW t \in Callers, NEW len \in 1..Largest, NEW i \in FirstFree(Bucket(len)),
         Give(t, desc, chain[Bucket(len)][i], len),
         UNCHANGED <<chain, free_bucket_desc, frames, request>>
  PROVE  MallocIInv'
<1> DEFINE b == Bucket(len)
           d == chain[b][i]
           n == BucketSize[b]
<1> USE DEF MallocIInv
<1>1. b \in Buckets /\ n >= len /\ n \in Nat \ {0} /\ len \in Nat
  BY BucketIs, BucketSizes, MallocAssumption DEF Largest, Buckets
<1>2. i \in DOMAIN chain[b] /\ d \in Desc /\ Linked_at(b, d) /\ desc[d].free # <<>>
  BY <1>1 DEF FirstFree, HasFree, Linked_at, Range, MallocTypes
<1>3. desc \in [Desc -> Descriptors] /\ Give(t, desc, d, len)
  BY DEF MallocTypes
<1>4. d \in Desc
  BY <1>2
<1> HIDE DEF b, d, n
<1>5. /\ desc' \in [Desc -> Descriptors] /\ objects' \in [Callers -> SUBSET Objects]
      /\ \A e \in Desc : e # d => desc'[e] = desc[e]
      /\ desc'[d].page = desc[d].page /\ desc'[d].size = desc[d].size
      /\ desc'[d].free = Tail(desc[d].free) /\ desc'[d].refcnt = desc[d].refcnt + 1
  BY <1>1, <1>2, <1>3, HasMore
<1>6. PICK h \in Callers \X Objects :
              /\ h[2].page = desc[d].page /\ h[2].at = Head(desc[d].free) /\ h[2].len = len
              /\ Gains(h, desc[d].page)
  BY <1>1, <1>2, <1>3, HasMore
<1>7. MallocTypes'
  BY <1>5 DEF MallocTypes
<1>8. DescriptorsApart' /\ PagesApart' /\ \A c, e : Linked_at(c, e)' <=> Linked_at(c, e)
  BY <1>5, NothingMoved
<1>9. PagesLaidOut'
  <2> SUFFICES ASSUME NEW c \in Buckets, NEW e \in Desc, Linked_at(c, e)
               PROVE  Layout(desc'[e], OnPage(objects', desc'[e].page), BucketSize[c])
    BY <1>8 DEF PagesLaidOut
  <2>1. Layout(desc[e], OnPage(objects, desc[e].page), BucketSize[c])
    BY DEF PagesLaidOut
  <2>2. CASE e = d
    <3>1. BucketSize[c] = n
      BY <2>1, <2>2, <1>1, <1>2 DEF PagesLaidOut, Layout, n
    <3>2. OnPage(objects, desc[d].page) \subseteq Callers \X Objects
      BY DEF OnPage
    <3>3. desc[d] \in Descriptors /\ desc'[d] \in Descriptors
      BY <1>3, <1>4, <1>5
    <3>4. Layout(desc[d], OnPage(objects, desc[d].page), n)
      BY <2>1, <2>2, <3>1
    <3>5. h[2].len <= n
      BY <1>1, <1>6
    <3>6. Layout(desc'[d], OnPage(objects, desc[d].page) \cup {h}, n)
      BY <1>1, <1>2, <1>5, <1>6, <3>2, <3>3, <3>4, <3>5, ObjectGiven
    <3> QED BY <2>2, <3>1, <3>6, <1>5, <1>6 DEF Gains
  <2>3. CASE e # d
    <3>1. desc'[e] = desc[e] /\ desc[e].page # desc[d].page
      BY <2>3, <1>1, <1>2, <1>5 DEF PagesApart
    <3> QED BY <3>1, <2>1, <1>6 DEF Gains
  <2> QED BY <2>2, <2>3
<1>10. ObjectsPlaced'
  <2> SUFFICES ASSUME NEW u \in Callers, NEW o \in Objects, o \in objects'[u]
               PROVE  \E c \in Buckets, e \in Desc : Linked_at(c, e) /\ desc'[e].page = o.page
    BY <1>8 DEF ObjectsPlaced
  <2>1. \A e \in Desc : desc'[e].page = desc[e].page
    BY <1>5
  <2>2. CASE o \in objects[u]
    BY <2>1, <2>2 DEF ObjectsPlaced
  <2>3. CASE o = h[2]
    BY <2>1, <2>3, <1>1, <1>2, <1>6
  <2> QED BY <2>2, <2>3, <1>6 DEF Gains
<1> QED BY <1>7, <1>8, <1>9, <1>10

(* malloc has to wait for a page, with or without a descriptor in hand.    *)
LEMMA RequestMade ==
  ASSUME MallocIInv, NEW t \in Callers, request[t] = Idle, NEW len \in 1..Largest,
         \/ /\ free_bucket_desc # <<>>
            /\ request' = [request EXCEPT ![t] =
                             [at |-> "page", len |-> len, desc |-> Head(free_bucket_desc)]]
            /\ free_bucket_desc' = Tail(free_bucket_desc)
         \/ /\ request' = [request EXCEPT ![t] = [at |-> "descriptors", len |-> len, desc |-> <<>>]]
            /\ UNCHANGED free_bucket_desc,
         UNCHANGED <<desc, objects, chain, frames>>
  PROVE  MallocIInv'
<1> USE DEF MallocIInv
<1>1. len \in Nat /\ len \in 1..Largest
  BY BucketSizes, MallocAssumption DEF Largest, Buckets
<1>2. free_bucket_desc \in Seq(Desc) /\ IsInjective(free_bucket_desc)
  BY DEF MallocTypes, DescriptorsApart
<1>3. /\ free_bucket_desc' \in Seq(Desc) /\ IsInjective(free_bucket_desc')
      /\ Range(free_bucket_desc') \subseteq Range(free_bucket_desc)
      /\ request'[t].at \in {"page", "descriptors"} /\ request'[t].len = len
      /\ request'[t] \in RequestsMade
      /\ request'[t].at = "page" => /\ request'[t].desc \in Range(free_bucket_desc)
                                    /\ request'[t].desc \notin Range(free_bucket_desc')
                                    /\ request'[t].desc \in Desc
      /\ \A u \in Callers : u # t => request'[u] = request[u]
      /\ request' \in [Callers -> RequestsMade]
  <2>1. CASE /\ free_bucket_desc # <<>>
             /\ request' = [request EXCEPT ![t] =
                             [at |-> "page", len |-> len, desc |-> Head(free_bucket_desc)]]
             /\ free_bucket_desc' = Tail(free_bucket_desc)
    <3> DEFINE d == Head(free_bucket_desc)
               r == [at |-> "page", len |-> len, desc |-> d]
    <3>1. /\ d \in Desc /\ d \in Range(free_bucket_desc)
          /\ Tail(free_bucket_desc) \in Seq(Desc) /\ IsInjective(Tail(free_bucket_desc))
          /\ Range(Tail(free_bucket_desc)) = Range(free_bucket_desc) \ {d}
      BY <1>2, <2>1, ListWithoutFirst
    <3> HIDE DEF d
    <3>2. r \in RequestsMade /\ r.at = "page" /\ r.len = len /\ r.desc = d
      BY <1>1, <3>1 DEF RequestsMade
    <3> HIDE DEF r
    <3>3. request' = [request EXCEPT ![t] = r]
      BY <2>1 DEF r, d
    <3>4. request'[t] = r /\ request' \in [Callers -> RequestsMade] /\ \A u \in Callers : u # t => request'[u] = request[u]
      BY <3>2, <3>3 DEF MallocTypes
    <3> QED BY <2>1, <3>1, <3>2, <3>4
  <2>2. CASE /\ request' = [request EXCEPT ![t] = [at |-> "descriptors", len |-> len, desc |-> <<>>]]
             /\ UNCHANGED free_bucket_desc
    <3> DEFINE r == [at |-> "descriptors", len |-> len, desc |-> <<>>]
    <3>1. r \in RequestsMade /\ r.at = "descriptors" /\ r.len = len
      BY <1>1 DEF RequestsMade
    <3> HIDE DEF r
    <3>2. request' = [request EXCEPT ![t] = r]
      BY <2>2 DEF r
    <3>3. request'[t] = r /\ request' \in [Callers -> RequestsMade] /\ \A u \in Callers : u # t => request'[u] = request[u]
      BY <3>1, <3>2 DEF MallocTypes
    <3> QED BY <1>2, <2>2, <3>1, <3>3
  <2> QED BY <2>1, <2>2
<1>4. \A b, d : Linked_at(b, d)' <=> Linked_at(b, d)
  BY DEF Linked_at
<1>5. \A u, d : u # t => (InHands(u, d)' <=> InHands(u, d))
  BY <1>3 DEF InHands
<1>6. \A d : ~InHands(t, d)
  BY DEF InHands, Idle
<1>7. \A d : InHands(t, d)' => d \in Range(free_bucket_desc) /\ d \notin Range(free_bucket_desc') /\ d \in Desc
  BY <1>3 DEF InHands
<1>8. \A d : Made(d)' => Made(d)
  BY <1>3, <1>4, <1>5, <1>7 DEF Made
<1>9. DescriptorsApart'
  <2>1. ASSUME NEW b \in Buckets, NEW d \in Desc, Linked_at(b, d)' PROVE d \notin Range(free_bucket_desc')
    BY <2>1, <1>3, <1>4 DEF DescriptorsApart
  <2>2. ASSUME NEW u \in Callers, NEW d \in Desc, InHands(u, d)'
        PROVE  /\ d \notin Range(free_bucket_desc')
               /\ \A b \in Buckets : ~Linked_at(b, d)'
               /\ \A w \in Callers : InHands(w, d)' => u = w
    <3>1. CASE u = t
      <4>1. d \in Range(free_bucket_desc) /\ d \notin Range(free_bucket_desc')
        BY <2>2, <3>1, <1>7
      <4>2. \A w \in Callers : InHands(w, d) => FALSE
        BY <4>1 DEF DescriptorsApart
      <4> QED BY <3>1, <4>1, <4>2, <1>4, <1>5 DEF DescriptorsApart
    <3>2. CASE u # t
      <4>1. InHands(u, d)
        BY <2>2, <3>2, <1>5
      <4>2. d \notin Range(free_bucket_desc) /\ \A w \in Callers : InHands(w, d) => u = w
        BY <4>1 DEF DescriptorsApart
      <4> QED BY <4>1, <4>2, <1>3, <1>4, <1>5, <1>7 DEF DescriptorsApart
    <3> QED BY <3>1, <3>2
  <2>3. \A u \in Callers : request'[u].at = "page" => request'[u].desc \in Desc
    BY <1>3 DEF DescriptorsApart
  <2>4. \A u \in Callers : request'[u] # Idle => request'[u].len \in 1..Largest
    BY <1>1, <1>3 DEF DescriptorsApart
  <2>5. \A b \in Buckets : IsInjective(chain'[b])
    BY DEF DescriptorsApart
  <2> QED BY <1>3, <2>1, <2>2, <2>3, <2>4, <2>5 DEF DescriptorsApart
<1>10. PagesApart'
  BY <1>4, <1>8 DEF PagesApart
<1>11. MallocTypes'
  BY <1>3 DEF MallocTypes
<1>12. PagesLaidOut' /\ ObjectsPlaced'
  BY <1>4 DEF PagesLaidOut, ObjectsPlaced
<1> QED BY <1>9, <1>10, <1>11, <1>12

(* init_bucket_desc has its page of descriptors, and malloc takes one.     *)
LEMMA DescriptorsMade ==
  ASSUME MallocIInv, NEW t \in Callers, init_bucket_desc(t)
  PROVE  MallocIInv'
<1> USE DEF MallocIInv
<1>1. PICK p \in frames : /\ frames' = frames \ {p} /\ free_bucket_desc' = Tail(NewList(p))
                          /\ request' = [request EXCEPT ![t].at = "page", ![t].desc = Head(NewList(p))]
  BY DEF init_bucket_desc, GetFreePage
<1>2. request[t].at = "descriptors" /\ UNCHANGED <<chain, desc, objects>>
  BY DEF init_bucket_desc
<1> DEFINE F == [i \in 1..DescPerPage |-> <<p, i>>]
<1>3. p \in Frames /\ DescPerPage \in Nat \ {0}
  BY MallocAssumption DEF MallocTypes
<1>4. F \in Seq(Desc) /\ IsInjective(F) /\ \A d \in Range(F) : d[1] = p
  BY <1>3 DEF Desc, IsInjective, Range
<1>5. F # <<>>
  BY <1>3
<1> HIDE DEF F
<1>6. free_bucket_desc \in Seq(Desc) /\ IsInjective(free_bucket_desc)
  BY DEF MallocTypes, DescriptorsApart
<1>7. \A d \in Desc : Made(d) => d[1] # p
  BY <1>1 DEF PagesApart
<1>8. \A d \in Range(F) : d \in Desc /\ d \notin Range(free_bucket_desc)
  <2>1. \A d \in Range(F) : d \in Desc
    BY <1>4 DEF Range
  <2> QED BY <2>1, <1>4, <1>7 DEF Made
<1>9. /\ NewList(p) \in Seq(Desc) /\ IsInjective(NewList(p)) /\ NewList(p) # <<>>
      /\ Range(NewList(p)) = Range(F) \cup Range(free_bucket_desc)
  <2>1. Range(F) \cap Range(free_bucket_desc) = {}
    BY <1>8
  <2>2. NewList(p) = F \o free_bucket_desc
    BY DEF NewList, F
  <2>3. F \o free_bucket_desc # <<>>
    BY <1>4, <1>5, <1>6
  <2> QED BY <1>4, <1>6, <2>1, <2>2, <2>3, ListOfBoth
<1>10. Head(NewList(p)) \in Range(F)
  <2>1. NewList(p) = F \o free_bucket_desc
    BY DEF NewList, F
  <2>2. Len(F) \in Nat /\ Len(F) # 0 /\ DOMAIN F = 1..Len(F)
    BY <1>4, <1>5
  <2>3. Head(NewList(p)) = F[1] /\ 1 \in DOMAIN F
    BY <1>4, <1>6, <2>1, <2>2
  <2> QED BY <2>3 DEF Range
<1>11. /\ Head(NewList(p)) \in Desc
       /\ free_bucket_desc' \in Seq(Desc) /\ IsInjective(free_bucket_desc')
       /\ Range(free_bucket_desc') = (Range(F) \cup Range(free_bucket_desc)) \ {Head(NewList(p))}
  BY <1>1, <1>9, ListWithoutFirst
<1> DEFINE d0 == Head(NewList(p))
<1>12. /\ request' \in [Callers -> RequestsMade]
       /\ \A u \in Callers : u # t => request'[u] = request[u]
       /\ request'[t].at = "page" /\ request'[t].desc = d0 /\ request'[t].len = request[t].len
  <2> DEFINE r == [request[t] EXCEPT !.at = "page", !.desc = d0]
  <2>1. d0 \in Desc
    BY <1>11
  <2> HIDE DEF d0
  <2>2. request[t] \in RequestsMade
    BY DEF MallocTypes
  <2>3. r \in RequestsMade /\ r.at = "page" /\ r.desc = d0 /\ r.len = request[t].len
    BY <2>1, <2>2 DEF RequestsMade
  <2>4. request' = [request EXCEPT ![t] = r]
    BY <1>1 DEF d0
  <2> HIDE DEF r
  <2> QED BY <2>3, <2>4 DEF MallocTypes
<1>13. d0 \in Range(F) /\ d0 \in Desc /\ d0[1] = p /\ d0 \notin Range(free_bucket_desc')
  BY <1>4, <1>10, <1>11
<1> HIDE DEF d0
<1>14. \A b, d : Linked_at(b, d)' <=> Linked_at(b, d)
  BY <1>2 DEF Linked_at
<1>15. \A u, d : InHands(u, d)' <=> (u = t /\ d = d0) \/ (u # t /\ InHands(u, d))
  BY <1>12 DEF InHands
<1>16. \A d \in Desc : Made(d)' => Made(d) \/ d[1] = p
  <2> SUFFICES ASSUME NEW d \in Desc, Made(d)', ~Made(d) PROVE d[1] = p
    OBVIOUS
  <2>1. CASE d \in Range(free_bucket_desc')
    BY <2>1, <1>4, <1>11 DEF Made
  <2>2. CASE \E b \in Buckets : Linked_at(b, d)'
    BY <2>2, <1>14 DEF Made
  <2>3. CASE \E u \in Callers : InHands(u, d)'
    BY <2>3, <1>13, <1>15 DEF Made
  <2> QED BY <2>1, <2>2, <2>3 DEF Made
<1>17. DescriptorsApart'
  <2>1. ASSUME NEW b \in Buckets, NEW d \in Desc, Linked_at(b, d) PROVE d \notin Range(F) /\ d # d0
    BY <2>1, <1>4, <1>7, <1>13 DEF Made
  <2>2. \A b \in Buckets, d \in Desc : Linked_at(b, d)' => d \notin Range(free_bucket_desc')
    BY <2>1, <1>11, <1>14 DEF DescriptorsApart
  <2>3. ASSUME NEW u \in Callers, NEW d \in Desc, InHands(u, d) PROVE d \notin Range(F) /\ d # d0
    BY <2>3, <1>4, <1>7, <1>13 DEF Made
  <2>4. ASSUME NEW u \in Callers, NEW d \in Desc, InHands(u, d)'
        PROVE  /\ d \notin Range(free_bucket_desc')
               /\ \A b \in Buckets : ~Linked_at(b, d)'
               /\ \A w \in Callers : InHands(w, d)' => u = w
    <3>1. CASE d = d0
      BY <3>1, <2>1, <2>3, <2>4, <1>13, <1>14, <1>15
    <3>2. CASE d # d0
      <4>1. InHands(u, d) /\ d \notin Range(F)
        BY <2>3, <2>4, <3>2, <1>15
      <4> QED BY <4>1, <3>2, <1>11, <1>14, <1>15 DEF DescriptorsApart
    <3> QED BY <3>1, <3>2
  <2>5. \A u \in Callers : request'[u].at = "page" => request'[u].desc \in Desc
    BY <1>12, <1>13 DEF DescriptorsApart
  <2>6. \A u \in Callers : request'[u] # Idle => request'[u].len \in 1..Largest
    <3>1. request[t] # Idle
      BY <1>2 DEF Idle
    <3> QED BY <3>1, <1>12 DEF DescriptorsApart
  <2>7. \A b \in Buckets : IsInjective(chain'[b])
    BY <1>2 DEF DescriptorsApart
  <2> QED BY <1>11, <2>2, <2>4, <2>5, <2>6, <2>7 DEF DescriptorsApart
<1>18. PagesApart'
  <2>1. \A d \in Desc : Made(d)' => d[1] \notin frames'
    BY <1>1, <1>16 DEF PagesApart
  <2>2. ASSUME NEW b \in Buckets, NEW d \in Desc, Linked_at(b, d)
        PROVE  /\ desc'[d].page \in Frames \ frames'
               /\ \A e \in Desc : Made(e)' => e[1] # desc'[d].page
               /\ \A c \in Buckets, e \in Desc : Linked_at(c, e)' /\ desc'[e].page = desc'[d].page => d = e
    <3>1. desc[d].page \in Frames \ frames /\ desc[d].page # p
      BY <2>2, <1>1 DEF PagesApart
    <3> QED BY <2>2, <3>1, <1>1, <1>2, <1>14, <1>16 DEF PagesApart
  <2> QED BY <2>1, <2>2, <1>14 DEF PagesApart
<1>19. MallocTypes'
  BY <1>1, <1>2, <1>11, <1>12 DEF MallocTypes
<1>20. PagesLaidOut' /\ ObjectsPlaced'
  BY <1>2, <1>14 DEF PagesLaidOut, ObjectsPlaced
<1> QED BY <1>17, <1>18, <1>19, <1>20

(* malloc has its page: it is cut, and the descriptor is linked in.        *)
LEMMA PageLinked ==
  ASSUME MallocIInv, NEW t \in Callers, LinkPage(t)
  PROVE  MallocIInv'
<1> USE DEF MallocIInv
<1> DEFINE d == request[t].desc
           len == request[t].len
           b == Bucket(len)
           n == BucketSize[b]
<1>1. PICK p \in frames :
        /\ frames' = frames \ {p}
        /\ Give(t, [desc EXCEPT ![d] = [page |-> p, free |-> Cut(n), refcnt |-> 0, size |-> n]], d, len)
        /\ chain' = [chain EXCEPT ![b] = <<d>> \o @]
        /\ request' = [request EXCEPT ![t] = Idle]
  BY DEF LinkPage, GetFreePage
<1>2. request[t].at = "page" /\ UNCHANGED free_bucket_desc
  BY DEF LinkPage
<1>3. d \in Desc /\ InHands(t, d) /\ len \in 1..Largest
  BY <1>2 DEF InHands, DescriptorsApart, Idle
<1>4. b \in Buckets /\ n >= len /\ n \in Nat \ {0} /\ n \in 1..PAGE_SIZE /\ len \in Nat
  <2>1. b \in Buckets /\ n >= len
    BY <1>3, BucketIs
  <2>2. Largest \in Nat
    BY MallocAssumption, BucketSizes DEF Largest, Buckets
  <2> QED BY <1>3, <2>1, <2>2, BucketSizes
<1>5. p \in Frames /\ p \in Nat /\ p \in frames
  BY MallocAssumption DEF MallocTypes
<1> DEFINE r == [page |-> p, free |-> Cut(n), refcnt |-> 0, size |-> n]
           D == [desc EXCEPT ![d] = r]
<1> HIDE DEF d, len, b, n
<1>6. /\ r \in Descriptors /\ r.page = p /\ r.free = Cut(n) /\ r.refcnt = 0 /\ r.size = n
      /\ r.free # <<>>
  BY <1>4, <1>5, PageCut DEF Descriptors
<1>7. \A h \in Callers \X Objects : h[2] \in objects[h[1]] => h[2].page # p
  <2> SUFFICES ASSUME NEW u \in Callers, NEW o \in Objects, o \in objects[u] PROVE o.page # p
    OBVIOUS
  <2>1. PICK c \in Buckets, e \in Desc : Linked_at(c, e) /\ desc[e].page = o.page
    BY DEF ObjectsPlaced
  <2> QED BY <1>5, <2>1 DEF PagesApart
<1>8. OnPage(objects, p) = {}
  BY <1>7 DEF OnPage
<1>9. Layout(r, {}, n)
  <2>1. IsFiniteSet({}) /\ Cardinality({}) = 0
    BY FS_EmptySet
  <2> QED BY <1>4, <1>6, <2>1, PageCut DEF Layout
<1> HIDE DEF r
<1>10. D \in [Desc -> Descriptors] /\ D[d] = r /\ \A e \in Desc : e # d => D[e] = desc[e]
  BY <1>3, <1>6 DEF MallocTypes
<1>11. Give(t, D, d, len)
  BY <1>1 DEF r, n, b, d, len
<1> HIDE DEF D
<1>12. /\ desc' \in [Desc -> Descriptors] /\ objects' \in [Callers -> SUBSET Objects]
       /\ \A e \in Desc : e # d => desc'[e] = D[e]
       /\ desc'[d].page = D[d].page /\ desc'[d].size = D[d].size
       /\ desc'[d].free = Tail(D[d].free) /\ desc'[d].refcnt = D[d].refcnt + 1
  BY <1>3, <1>4, <1>6, <1>10, <1>11, HasMore
<1>13. PICK h \in Callers \X Objects :
         /\ h[2].page = D[d].page /\ h[2].at = Head(D[d].free) /\ h[2].len = len
         /\ Gains(h, D[d].page)
  BY <1>3, <1>4, <1>6, <1>10, <1>11, HasMore
<1>14. /\ chain[b] \in Seq(Desc) /\ IsInjective(chain[b]) /\ d \notin Range(chain[b])
       /\ d \notin Range(free_bucket_desc)
  BY <1>3, <1>4 DEF MallocTypes, DescriptorsApart, Linked_at
<1>15. /\ <<d>> \o chain[b] \in Seq(Desc) /\ IsInjective(<<d>> \o chain[b])
       /\ Range(<<d>> \o chain[b]) = Range(chain[b]) \cup {d}
  BY <1>3, <1>14, ListWithFirst
<1>16. /\ chain' \in [Buckets -> Seq(Desc)] /\ chain'[b] = <<d>> \o chain[b]
       /\ \A c \in Buckets : c # b => chain'[c] = chain[c]
  <2> DEFINE q == <<d>> \o chain[b]
  <2>1. chain' = [chain EXCEPT ![b] = q] /\ q \in Seq(Desc)
    BY <1>1, <1>15 DEF b, d, len
  <2> HIDE DEF q
  <2>2. chain' \in [Buckets -> Seq(Desc)] /\ chain'[b] = q /\ \A c \in Buckets : c # b => chain'[c] = chain[c]
    BY <2>1, <1>4 DEF MallocTypes
  <2> QED BY <2>2 DEF q
<1>17. \A c, e : Linked_at(c, e)' <=> Linked_at(c, e) \/ (c = b /\ e = d)
  BY <1>4, <1>15, <1>16 DEF Linked_at
<1>18. /\ request' \in [Callers -> RequestsMade] /\ request'[t] = Idle
       /\ \A u \in Callers : u # t => request'[u] = request[u]
  <2>1. Idle \in RequestsMade
    BY DEF Idle, RequestsMade
  <2> QED BY <2>1, <1>1 DEF MallocTypes
<1>19. \A u, e : InHands(u, e)' <=> u # t /\ InHands(u, e)
  BY <1>18 DEF InHands, Idle
<1>20. \A e : Made(e)' => Made(e)
  BY <1>2, <1>3, <1>17, <1>19 DEF Made
<1>21. MallocTypes'
  BY <1>1, <1>2, <1>12, <1>16, <1>18 DEF MallocTypes
<1>22. DescriptorsApart'
  <2>1. \A c \in Buckets : IsInjective(chain'[c])
    BY <1>15, <1>16 DEF DescriptorsApart
  <2>2. \A c \in Buckets, e \in Desc : Linked_at(c, e)' => e \notin Range(free_bucket_desc')
    BY <1>2, <1>14, <1>17 DEF DescriptorsApart
  <2>3. \A u \in Callers : u # t => ~InHands(u, d)
    BY <1>3 DEF DescriptorsApart
  <2>4. \A u \in Callers, e \in Desc : InHands(u, e)' =>
          /\ e \notin Range(free_bucket_desc')
          /\ \A c \in Buckets : ~Linked_at(c, e)'
          /\ \A w \in Callers : InHands(w, e)' => u = w
    BY <1>2, <1>17, <1>19, <2>3 DEF DescriptorsApart
  <2>5. \A u \in Callers : request'[u].at = "page" => request'[u].desc \in Desc
    BY <1>18 DEF DescriptorsApart, Idle
  <2>6. \A u \in Callers : request'[u] # Idle => request'[u].len \in 1..Largest
    BY <1>18 DEF DescriptorsApart
  <2>7. IsInjective(free_bucket_desc')
    BY <1>2 DEF DescriptorsApart
  <2> QED BY <2>1, <2>2, <2>4, <2>5, <2>6, <2>7 DEF DescriptorsApart
<1>23. /\ desc'[d].page = p
       /\ \A c \in Buckets, e \in Desc : Linked_at(c, e) => e # d /\ desc'[e] = desc[e] /\ desc[e].page # p
  <2>1. \A c \in Buckets : ~Linked_at(c, d)
    BY <1>3 DEF DescriptorsApart
  <2> QED BY <2>1, <1>5, <1>6, <1>10, <1>12 DEF PagesApart
<1>24. PagesApart'
  <2>1. \A e \in Desc : Made(e) => e[1] # p /\ e[1] \notin frames
    BY <1>5 DEF PagesApart
  <2>2. \A e \in Desc : Made(e)' => e[1] \notin frames'
    BY <2>1, <1>1, <1>20
  <2>3. ASSUME NEW c \in Buckets, NEW e \in Desc, Linked_at(c, e)'
        PROVE  /\ desc'[e].page \in Frames \ frames'
               /\ \A f \in Desc : Made(f)' => f[1] # desc'[e].page
               /\ \A a \in Buckets, f \in Desc : Linked_at(a, f)' /\ desc'[f].page = desc'[e].page => e = f
    <3>1. CASE e = d
      <4>1. desc'[e].page = p
        BY <3>1, <1>23
      <4>2. \A a \in Buckets, f \in Desc : Linked_at(a, f)' /\ desc'[f].page = p => f = d
        BY <1>17, <1>23
      <4> QED BY <3>1, <4>1, <4>2, <2>1, <1>1, <1>5, <1>20
    <3>2. CASE e # d
      <4>1. Linked_at(c, e) /\ desc'[e] = desc[e] /\ desc[e].page # p
        BY <2>3, <3>2, <1>17, <1>23
      <4>2. desc[e].page \in Frames \ frames'
        BY <4>1, <1>1 DEF PagesApart
      <4>3. \A f \in Desc : Made(f)' => f[1] # desc[e].page
        BY <4>1, <1>20 DEF PagesApart
      <4>4. \A a \in Buckets, f \in Desc : Linked_at(a, f)' /\ desc'[f].page = desc[e].page => e = f
        BY <4>1, <1>17, <1>23 DEF PagesApart
      <4> QED BY <4>1, <4>2, <4>3, <4>4
    <3> QED BY <3>1, <3>2
  <2> QED BY <2>2, <2>3 DEF PagesApart
<1>25. PagesLaidOut'
  <2> SUFFICES ASSUME NEW c \in Buckets, NEW e \in Desc, Linked_at(c, e)'
               PROVE  Layout(desc'[e], OnPage(objects', desc'[e].page), BucketSize[c])
    BY DEF PagesLaidOut
  <2>1. CASE c = b /\ e = d
    <3>1. D[d] = r /\ desc'[d] \in Descriptors /\ {} \subseteq Callers \X Objects
      BY <1>3, <1>10, <1>12
    <3>2. h[2].len <= n
      BY <1>4, <1>13
    <3>3. Layout(desc'[d], {} \cup {h}, n)
      BY <1>4, <1>6, <1>9, <1>12, <1>13, <3>1, <3>2, ObjectGiven
    <3>4. OnPage(objects', p) = {} \cup {h}
      BY <1>6, <1>8, <1>13, <3>1 DEF Gains
    <3> QED BY <2>1, <3>3, <3>4, <1>23 DEF n
  <2>2. CASE Linked_at(c, e)
    <3>1. desc'[e] = desc[e] /\ desc[e].page # p
      BY <2>2, <1>23
    <3>2. OnPage(objects', desc[e].page) = OnPage(objects, desc[e].page)
      BY <3>1, <1>6, <1>10, <1>13 DEF Gains
    <3> QED BY <2>2, <3>1, <3>2 DEF PagesLaidOut
  <2> QED BY <2>1, <2>2, <1>17
<1>26. ObjectsPlaced'
  <2> SUFFICES ASSUME NEW u \in Callers, NEW o \in Objects, o \in objects'[u]
               PROVE  \E c \in Buckets, e \in Desc : Linked_at(c, e)' /\ desc'[e].page = o.page
    BY DEF ObjectsPlaced
  <2>1. CASE o \in objects[u]
    <3>1. PICK c \in Buckets, e \in Desc : Linked_at(c, e) /\ desc[e].page = o.page
      BY <2>1 DEF ObjectsPlaced
    <3> QED BY <3>1, <1>17, <1>23
  <2>2. CASE o = h[2]
    <3>1. o.page = p
      BY <2>2, <1>6, <1>10, <1>13
    <3> QED BY <3>1, <1>3, <1>4, <1>17, <1>23
  <2> QED BY <2>1, <2>2, <1>13 DEF Gains
<1> QED BY <1>21, <1>22, <1>24, <1>25, <1>26

(* The caller of free_s has one object less.                               *)
LEMMA HasLess ==
  ASSUME MallocTypes, NEW t \in Callers, NEW o \in objects[t],
         objects' = [objects EXCEPT ![t] = @ \ {o}]
  PROVE  /\ objects' \in [Callers -> SUBSET Objects]
         /\ o \in Objects /\ <<t, o>> \in OnPage(objects, o.page)
         /\ OnPage(objects', o.page) = OnPage(objects, o.page) \ {<<t, o>>}
         /\ \A p : p # o.page => OnPage(objects', p) = OnPage(objects, p)
         /\ \A u \in Callers : objects'[u] \subseteq objects[u]
<1>1. o \in Objects
  BY DEF MallocTypes
<1>2. /\ objects' \in [Callers -> SUBSET Objects] /\ objects'[t] = objects[t] \ {o}
      /\ \A u \in Callers : u # t => objects'[u] = objects[u]
  BY DEF MallocTypes
<1> DEFINE h == <<t, o>>
<1>3. h \in Callers \X Objects /\ h[1] = t /\ h[2] = o
  BY <1>1
<1>4. \A g \in Callers \X Objects : g[2] \in objects'[g[1]] <=> g[2] \in objects[g[1]] /\ g # h
  BY <1>2, <1>3
<1> HIDE DEF h
<1>5. h \in OnPage(objects, o.page) /\ OnPage(objects', o.page) = OnPage(objects, o.page) \ {h}
  BY <1>3, <1>4 DEF OnPage
<1>6. \A p : p # o.page => OnPage(objects', p) = OnPage(objects, p)
  BY <1>3, <1>4 DEF OnPage
<1> QED BY <1>1, <1>2, <1>5, <1>6 DEF h

(* free_s finds the page of the object, whatever size it is told.          *)
LEMMA FoundIs ==
  ASSUME MallocIInv, NEW t \in Callers, NEW o \in objects[t], NEW size \in {0, o.len},
         NEW i \in OfPage(Found(o, size), o.page)
  PROVE  LET b == Found(o, size) IN
         /\ b \in Buckets /\ i \in DOMAIN chain[b] /\ chain[b][i] \in Desc
         /\ Linked_at(b, chain[b][i]) /\ desc[chain[b][i]].page = o.page
<1> USE DEF MallocIInv
<1>1. o \in Objects /\ o.len \in Nat
  BY DEF MallocTypes, Objects
<1>2. PICK c \in Buckets, d \in Desc : Linked_at(c, d) /\ desc[d].page = o.page
  BY <1>1 DEF ObjectsPlaced
<1>3. <<t, o>> \in OnPage(objects, desc[d].page)
  BY <1>1, <1>2 DEF OnPage
<1>4. Layout(desc[d], OnPage(objects, desc[d].page), BucketSize[c])
  BY <1>2 DEF PagesLaidOut
<1>5. o.len <= BucketSize[c]
  BY <1>3, <1>4 DEF Layout
<1>6. BucketSize[c] >= size
  BY <1>1, <1>2, <1>5, BucketSizes
<1>7. OfPage(c, o.page) # {}
  <2>1. PICK j \in DOMAIN chain[c] : chain[c][j] = d
    BY <1>2 DEF Linked_at, Range
  <2> QED BY <2>1, <1>2 DEF OfPage
<1>8. \E b \in Buckets : BucketSize[b] >= size /\ OfPage(b, o.page) # {}
  BY <1>6, <1>7
<1>9. Found(o, size) \in Buckets
  BY <1>8 DEF Found
<1> DEFINE b == Found(o, size)
<1> HIDE DEF b
<1>10. i \in DOMAIN chain[b] /\ desc[chain[b][i]].page = o.page
  BY DEF OfPage, b
<1>11. chain[b] \in Seq(Desc) /\ b \in Buckets
  BY <1>9 DEF MallocTypes, b
<1>12. chain[b][i] \in Desc /\ Linked_at(b, chain[b][i])
  BY <1>10, <1>11 DEF Linked_at, Range
<1> QED BY <1>10, <1>11, <1>12 DEF b

(* free_s puts the object back on a page that has others.                  *)
LEMMA ObjectBack ==
  ASSUME MallocIInv, NEW t \in Callers, NEW o \in objects[t], NEW b \in Buckets, NEW d \in Desc,
         Linked_at(b, d), desc[d].page = o.page,
         objects' = [objects EXCEPT ![t] = @ \ {o}],
         desc' = [desc EXCEPT ![d].free = <<o.at>> \o @, ![d].refcnt = @ - 1],
         UNCHANGED <<chain, free_bucket_desc, frames, request>>
  PROVE  MallocIInv'
<1> USE DEF MallocIInv
<1> DEFINE r == desc[d]
           n == BucketSize[b]
           H == OnPage(objects, o.page)
           h == <<t, o>>
           f == <<o.at>> \o r.free
           k == r.refcnt - 1
           s == [r EXCEPT !.free = f, !.refcnt = k]
<1>1. /\ objects' \in [Callers -> SUBSET Objects] /\ o \in Objects /\ h \in H
      /\ OnPage(objects', o.page) = H \ {h}
      /\ \A p : p # o.page => OnPage(objects', p) = OnPage(objects, p)
      /\ \A u \in Callers : objects'[u] \subseteq objects[u]
  BY HasLess
<1>2. n \in Nat \ {0} /\ Layout(r, H, n) /\ H \subseteq Callers \X Objects /\ h[2] = o
  BY BucketSizes DEF PagesLaidOut, OnPage
<1>3. r \in Descriptors /\ r.free \in Seq(Nat) /\ r.refcnt \in Int /\ r.page \in Nat /\ r.size \in Nat /\ o.at \in Nat
  BY <1>1 DEF MallocTypes, Descriptors, Objects
<1>4. f \in Seq(Nat) /\ k \in Int
  BY <1>3
<1>5. desc' = [desc EXCEPT ![d] = s]
  OBVIOUS
<1>6. s \in Descriptors /\ s.page = r.page /\ s.size = r.size /\ s.free = f /\ s.refcnt = k
  <2> HIDE DEF f, k, r
  <2> QED BY <1>3, <1>4 DEF Descriptors
<1> HIDE DEF s
<1>7. desc' \in [Desc -> Descriptors] /\ desc'[d] = s /\ \A e \in Desc : e # d => desc'[e] = desc[e]
  BY <1>5, <1>6 DEF MallocTypes
<1>8. MallocTypes'
  BY <1>1, <1>7 DEF MallocTypes
<1>9. \A e \in Desc : desc'[e].page = desc[e].page
  BY <1>6, <1>7
<1>10. DescriptorsApart' /\ PagesApart' /\ \A c, e : Linked_at(c, e)' <=> Linked_at(c, e)
  <2>1. \A c, e : Linked_at(c, e)' <=> Linked_at(c, e)
    BY DEF Linked_at
  <2> QED BY <2>1, <1>9, NothingMoved
<1>11. PagesLaidOut'
  <2> SUFFICES ASSUME NEW c \in Buckets, NEW e \in Desc, Linked_at(c, e)
               PROVE  Layout(desc'[e], OnPage(objects', desc'[e].page), BucketSize[c])
    BY <1>10 DEF PagesLaidOut
  <2>1. Layout(desc[e], OnPage(objects, desc[e].page), BucketSize[c])
    BY DEF PagesLaidOut
  <2>2. CASE e = d
    <3>1. BucketSize[c] = n
      BY <2>1, <2>2, <1>2 DEF Layout
    <3>2. Layout(s, H \ {h}, n)
      <4> HIDE DEF r, n, H, h
      <4>1. s.free = <<h[2].at>> \o r.free /\ s.refcnt = r.refcnt - 1
        BY <1>2, <1>6
      <4> QED BY <4>1, <1>1, <1>2, <1>3, <1>6, ObjectTakenBack
    <3> QED BY <2>2, <3>1, <3>2, <1>1, <1>6, <1>7
  <2>3. CASE e # d
    <3>1. desc'[e] = desc[e] /\ desc[e].page # o.page
      BY <2>3, <1>7 DEF PagesApart
    <3> QED BY <3>1, <2>1, <1>1
  <2> QED BY <2>2, <2>3
<1>12. ObjectsPlaced'
  <2> SUFFICES ASSUME NEW u \in Callers, NEW q \in Objects, q \in objects'[u]
               PROVE  \E c \in Buckets, e \in Desc : Linked_at(c, e)' /\ desc'[e].page = q.page
    BY DEF ObjectsPlaced
  <2>1. PICK c \in Buckets, e \in Desc : Linked_at(c, e) /\ desc[e].page = q.page
    BY <1>1 DEF ObjectsPlaced
  <2> QED BY <2>1, <1>9, <1>10
<1> QED BY <1>8, <1>10, <1>11, <1>12

(* free_s gives the page back with its last object.                        *)
LEMMA PageBack ==
  ASSUME MallocIInv, NEW t \in Callers, NEW o \in objects[t], NEW b \in Buckets,
         NEW i \in DOMAIN chain[b], NEW d \in Desc, d = chain[b][i],
         Linked_at(b, d), desc[d].page = o.page, ~Kept(d),
         objects' = [objects EXCEPT ![t] = @ \ {o}],
         desc' = [desc EXCEPT ![d] = Unused],
         chain' = [chain EXCEPT ![b] = RemoveAt(@, i)],
         free_bucket_desc' = <<d>> \o free_bucket_desc,
         frames' = frames \cup {o.page}, UNCHANGED request
  PROVE  MallocIInv'
<1> USE DEF MallocIInv
<1> DEFINE H == OnPage(objects, o.page)
           h == <<t, o>>
<1>1. /\ objects' \in [Callers -> SUBSET Objects] /\ o \in Objects /\ h \in H
      /\ OnPage(objects', o.page) = H \ {h}
      /\ \A p : p # o.page => OnPage(objects', p) = OnPage(objects, p)
      /\ \A u \in Callers : objects'[u] \subseteq objects[u]
  BY HasLess
<1>2. IsFiniteSet(H) /\ desc[d].refcnt = Cardinality(H) /\ Cardinality(H) \in Nat
  BY FS_CardinalityType DEF PagesLaidOut, Layout
<1>3. OnPage(objects', o.page) = {}
  <2> HIDE DEF H, h
  <2>1. Cardinality(H) <= 1
    BY <1>2 DEF Kept
  <2>2. IsFiniteSet(H \ {h}) /\ Cardinality(H \ {h}) = Cardinality(H) - 1 /\ Cardinality(H \ {h}) \in Nat
    BY <1>1, <1>2, FS_RemoveElement, FS_CardinalityType
  <2>3. Cardinality(H \ {h}) = 0
    BY <2>1, <2>2, <1>2
  <2>4. H \ {h} = {}
    BY <2>2, <2>3, FS_EmptySet
  <2> QED BY <2>4, <1>1
<1>4. /\ o.page \in Frames \ frames /\ o.page \in Nat
      /\ \A e \in Desc : Made(e) => e[1] # o.page
      /\ \A c \in Buckets, e \in Desc : Linked_at(c, e) /\ desc[e].page = o.page => e = d
  BY <1>1 DEF PagesApart, Objects
<1>5. desc' \in [Desc -> Descriptors] /\ \A e \in Desc : e # d => desc'[e] = desc[e]
  <2>1. Unused \in Descriptors
    BY DEF Unused, Descriptors
  <2> QED BY <2>1 DEF MallocTypes
<1>6. chain[b] \in Seq(Desc) /\ IsInjective(chain[b])
  BY DEF MallocTypes, DescriptorsApart
<1>7. /\ RemoveAt(chain[b], i) \in Seq(Desc) /\ IsInjective(RemoveAt(chain[b], i))
      /\ Range(RemoveAt(chain[b], i)) = Range(chain[b]) \ {d}
  BY <1>6, ListWithout
<1>8. /\ chain' \in [Buckets -> Seq(Desc)] /\ chain'[b] = RemoveAt(chain[b], i)
      /\ \A c \in Buckets : c # b => chain'[c] = chain[c]
  <2> DEFINE q == RemoveAt(chain[b], i)
  <2>1. chain' = [chain EXCEPT ![b] = q] /\ q \in Seq(Desc)
    BY <1>7
  <2> HIDE DEF q
  <2>2. chain' \in [Buckets -> Seq(Desc)] /\ chain'[b] = q /\ \A c \in Buckets : c # b => chain'[c] = chain[c]
    BY <2>1 DEF MallocTypes
  <2> QED BY <2>2 DEF q
<1>9. \A c \in Buckets : Linked_at(c, d) => c = b
  <2> SUFFICES ASSUME NEW c \in Buckets, Linked_at(c, d) PROVE c = b
    OBVIOUS
  <2>1. desc[d].size = BucketSize[c] /\ desc[d].size = BucketSize[b]
    BY DEF PagesLaidOut, Layout
  <2> QED BY <2>1, BucketSizes
<1>10. \A c, e : Linked_at(c, e)' <=> Linked_at(c, e) /\ e # d
  <2>1. \A c, e : Linked_at(c, e)' => Linked_at(c, e) /\ e # d
    BY <1>7, <1>8, <1>9 DEF Linked_at
  <2>2. \A c, e : Linked_at(c, e) /\ e # d => Linked_at(c, e)'
    BY <1>7, <1>8 DEF Linked_at
  <2> QED BY <2>1, <2>2
<1>11. /\ free_bucket_desc' \in Seq(Desc) /\ IsInjective(free_bucket_desc')
       /\ Range(free_bucket_desc') = Range(free_bucket_desc) \cup {d}
  <2>1. free_bucket_desc \in Seq(Desc) /\ IsInjective(free_bucket_desc) /\ d \notin Range(free_bucket_desc)
    BY DEF MallocTypes, DescriptorsApart
  <2> QED BY <2>1, ListWithFirst
<1>12. \A u, e : InHands(u, e)' <=> InHands(u, e)
  BY DEF InHands
<1>13. \A e : Made(e)' => Made(e)
  BY <1>10, <1>11, <1>12 DEF Made
<1>14. MallocTypes'
  BY <1>1, <1>4, <1>5, <1>8, <1>11 DEF MallocTypes
<1>15. DescriptorsApart'
  <2>1. \A c \in Buckets : IsInjective(chain'[c])
    BY <1>7, <1>8 DEF DescriptorsApart
  <2>2. \A c \in Buckets, e \in Desc : Linked_at(c, e)' => e \notin Range(free_bucket_desc')
    BY <1>10, <1>11 DEF DescriptorsApart
  <2>3. \A u \in Callers : ~InHands(u, d)
    BY DEF DescriptorsApart
  <2>4. \A u \in Callers, e \in Desc : InHands(u, e)' =>
          /\ e \notin Range(free_bucket_desc')
          /\ \A c \in Buckets : ~Linked_at(c, e)'
          /\ \A w \in Callers : InHands(w, e)' => u = w
    BY <1>10, <1>11, <1>12, <2>3 DEF DescriptorsApart
  <2> QED BY <1>11, <2>1, <2>2, <2>4 DEF DescriptorsApart
<1>16. PagesApart'
  <2>1. \A e \in Desc : Made(e)' => e[1] \notin frames'
    BY <1>4, <1>13 DEF PagesApart
  <2>2. ASSUME NEW c \in Buckets, NEW e \in Desc, Linked_at(c, e)'
        PROVE  /\ desc'[e].page \in Frames \ frames'
               /\ \A f \in Desc : Made(f)' => f[1] # desc'[e].page
               /\ \A a \in Buckets, f \in Desc : Linked_at(a, f)' /\ desc'[f].page = desc'[e].page => e = f
    <3>1. Linked_at(c, e) /\ e # d /\ desc'[e] = desc[e] /\ desc[e].page # o.page
      BY <2>2, <1>4, <1>5, <1>10
    <3>2. desc[e].page \in Frames \ frames'
      BY <3>1 DEF PagesApart
    <3>3. \A f \in Desc : Made(f)' => f[1] # desc[e].page
      BY <3>1, <1>13 DEF PagesApart
    <3>4. \A a \in Buckets, f \in Desc : Linked_at(a, f)' /\ desc'[f].page = desc[e].page => e = f
      BY <3>1, <1>5, <1>10 DEF PagesApart
    <3> QED BY <3>1, <3>2, <3>3, <3>4
  <2> QED BY <2>1, <2>2 DEF PagesApart
<1>17. PagesLaidOut'
  <2> SUFFICES ASSUME NEW c \in Buckets, NEW e \in Desc, Linked_at(c, e)'
               PROVE  Layout(desc'[e], OnPage(objects', desc'[e].page), BucketSize[c])
    BY DEF PagesLaidOut
  <2>1. Linked_at(c, e) /\ desc'[e] = desc[e] /\ desc[e].page # o.page
    BY <1>4, <1>5, <1>10
  <2> QED BY <2>1, <1>1 DEF PagesLaidOut
<1>18. ObjectsPlaced'
  <2> SUFFICES ASSUME NEW u \in Callers, NEW q \in Objects, q \in objects'[u]
               PROVE  \E c \in Buckets, e \in Desc : Linked_at(c, e)' /\ desc'[e].page = q.page
    BY DEF ObjectsPlaced
  <2>1. PICK c \in Buckets, e \in Desc : Linked_at(c, e) /\ desc[e].page = q.page
    BY <1>1 DEF ObjectsPlaced
  <2>2. q.page # o.page
    <3>1. <<u, q>> \in OnPage(objects', q.page)
      BY DEF OnPage
    <3> QED BY <3>1, <1>3
  <2>3. e # d
    BY <2>1, <2>2
  <2> QED BY <2>1, <2>3, <1>5, <1>10
<1> QED BY <1>14, <1>15, <1>16, <1>17, <1>18

(* What free_s does with the descriptor at i of a chain.                   *)
PutBack(t, o, b, i) ==
  LET d == chain[b][i] IN
  /\ objects' = [objects EXCEPT ![t] = @ \ {o}]
  /\ IF Kept(d)
     THEN /\ desc' = [desc EXCEPT ![d].free = <<o.at>> \o @, ![d].refcnt = @ - 1]
          /\ UNCHANGED <<chain, free_bucket_desc, frames>>
     ELSE /\ desc' = [desc EXCEPT ![d] = Unused]
          /\ chain' = [chain EXCEPT ![b] = RemoveAt(@, i)]
          /\ free_bucket_desc' = <<d>> \o free_bucket_desc
          /\ frames' = frames \cup {o.page}

(* free_s, with either outcome.                                            *)
LEMMA ObjectFreed ==
  ASSUME MallocIInv, NEW t \in Callers, free_s(t)
  PROVE  MallocIInv'
<1>1. PICK o \in objects[t] : \E size \in {0, o.len} :
        \E i \in OfPage(Found(o, size), o.page) : PutBack(t, o, Found(o, size), i)
  BY DEF free_s, PutBack
<1>2. PICK size \in {0, o.len} :
        \E i \in OfPage(Found(o, size), o.page) : PutBack(t, o, Found(o, size), i)
  BY <1>1
<1> DEFINE b == Found(o, size)
<1>3. PICK i \in OfPage(b, o.page) : PutBack(t, o, b, i)
  BY <1>2
<1> DEFINE d == chain[b][i]
<1>4. /\ b \in Buckets /\ i \in DOMAIN chain[b] /\ d \in Desc
      /\ Linked_at(b, d) /\ desc[d].page = o.page
  BY FoundIs
<1> HIDE DEF b
<1>5. UNCHANGED request
  BY DEF free_s
<1>6. CASE Kept(d)
  BY <1>3, <1>4, <1>5, <1>6, ObjectBack DEF PutBack
<1>7. CASE ~Kept(d)
  BY <1>3, <1>4, <1>5, <1>7, PageBack DEF PutBack
<1> QED BY <1>6, <1>7

-----------------------------------------------------------------------------
(* At first everything is free.                                            *)
LEMMA MallocIInvAtFirst == MallocInit => MallocIInv
<1> SUFFICES ASSUME MallocInit PROVE MallocIInv
  OBVIOUS
<1> USE DEF MallocInit
<1>1. MallocTypes
  <2>1. Unused \in Descriptors /\ Idle \in RequestsMade
    BY DEF Unused, Descriptors, Idle, RequestsMade
  <2>2. <<>> \in Seq(Desc)
    OBVIOUS
  <2> QED BY <2>1, <2>2 DEF MallocTypes
<1>2. Range(free_bucket_desc) = {} /\ \A b \in Buckets : Range(chain[b]) = {}
  BY DEF Range
<1>3. (\A b, d : ~Linked_at(b, d)) /\ (\A t, d : ~InHands(t, d))
  BY <1>2 DEF Linked_at, InHands, Idle
<1>4. DescriptorsApart
  BY <1>2, <1>3 DEF DescriptorsApart, IsInjective, Idle
<1>5. PagesApart
  BY <1>2, <1>3 DEF PagesApart, Made
<1>6. PagesLaidOut /\ ObjectsPlaced
  BY <1>3 DEF PagesLaidOut, ObjectsPlaced
<1> QED BY <1>1, <1>4, <1>5, <1>6 DEF MallocIInv

(* Each step of a caller keeps descriptors, pages and objects apart.       *)
LEMMA MallocIInvKept == MallocIInv /\ [MallocNext]_mallocVars => MallocIInv'
<1> SUFFICES ASSUME MallocIInv, [MallocNext]_mallocVars PROVE MallocIInv'
  OBVIOUS
<1>1. ASSUME NEW t \in Callers, malloc(t) PROVE MallocIInv'
  <2>1. PICK len \in 1..Largest :
          \/ /\ \E i \in FirstFree(Bucket(len)) : Give(t, desc, chain[Bucket(len)][i], len)
             /\ UNCHANGED <<request, free_bucket_desc>>
          \/ /\ free_bucket_desc # <<>>
             /\ request' = [request EXCEPT ![t] =
                              [at |-> "page", len |-> len, desc |-> Head(free_bucket_desc)]]
             /\ free_bucket_desc' = Tail(free_bucket_desc)
             /\ UNCHANGED <<desc, objects>>
          \/ /\ request' = [request EXCEPT ![t] = [at |-> "descriptors", len |-> len, desc |-> <<>>]]
             /\ UNCHANGED <<desc, objects, free_bucket_desc>>
    BY <1>1 DEF malloc
  <2>2. request[t] = Idle /\ UNCHANGED <<chain, frames>>
    BY <1>1 DEF malloc
  <2>3. CASE /\ \E i \in FirstFree(Bucket(len)) : Give(t, desc, chain[Bucket(len)][i], len)
             /\ UNCHANGED <<request, free_bucket_desc>>
    BY <2>2, <2>3, ObjectFromPage
  <2>4. CASE ~(/\ \E i \in FirstFree(Bucket(len)) : Give(t, desc, chain[Bucket(len)][i], len)
               /\ UNCHANGED <<request, free_bucket_desc>>)
    BY <2>1, <2>2, <2>4, RequestMade
  <2> QED BY <2>3, <2>4
<1>2. ASSUME NEW t \in Callers, init_bucket_desc(t) PROVE MallocIInv'
  BY <1>2, DescriptorsMade
<1>3. ASSUME NEW t \in Callers, LinkPage(t) PROVE MallocIInv'
  BY <1>3, PageLinked
<1>4. ASSUME NEW t \in Callers, free_s(t) PROVE MallocIInv'
  BY <1>4, ObjectFreed
<1>5. CASE UNCHANGED mallocVars
  BY <1>5 DEF mallocVars, MallocIInv, MallocTypes, DescriptorsApart, PagesApart, PagesLaidOut, ObjectsPlaced,
              Made, Linked_at, InHands
<1> QED BY <1>1, <1>2, <1>3, <1>4, <1>5 DEF MallocNext

(* Two objects that do not overlap share no byte, and what is on a page    *)
(* has room there.                                                         *)
LEMMA ApartIfIInv == MallocIInv => ObjectsApart
<1> SUFFICES ASSUME MallocIInv PROVE ObjectsApart
  OBVIOUS
<1> USE DEF MallocIInv
<1>1. \A x \in Held : x \in Callers \X Objects /\ x[2] \in objects[x[1]]
  BY DEF Held, MallocTypes
<1>2. ASSUME NEW x \in Held
      PROVE  \E b \in Buckets, d \in Desc :
               /\ Linked_at(b, d) /\ desc[d].page = x[2].page
               /\ x \in OnPage(objects, desc[d].page)
               /\ Layout(desc[d], OnPage(objects, desc[d].page), BucketSize[b])
  <2>1. x[1] \in Callers /\ x[2] \in Objects /\ x[2] \in objects[x[1]]
    BY <1>1
  <2>2. PICK b \in Buckets, d \in Desc : Linked_at(b, d) /\ desc[d].page = x[2].page
    BY <2>1 DEF ObjectsPlaced
  <2> QED BY <1>1, <2>1, <2>2 DEF PagesLaidOut, OnPage
<1>3. ASSUME NEW x \in Held, NEW y \in Held, x # y PROVE Bytes(x[2]) \cap Bytes(y[2]) = {}
  <2>1. x[2] \in Objects /\ y[2] \in Objects
    BY <1>1
  <2>2. CASE x[2].page # y[2].page
    BY <2>2 DEF Bytes
  <2>3. CASE x[2].page = y[2].page
    <3>1. PICK b \in Buckets, d \in Desc :
               /\ desc[d].page = x[2].page
               /\ x \in OnPage(objects, desc[d].page)
               /\ Layout(desc[d], OnPage(objects, desc[d].page), BucketSize[b])
      BY <1>2
    <3>2. y \in OnPage(objects, desc[d].page)
      BY <1>1, <2>3, <3>1 DEF OnPage
    <3> DEFINE n == BucketSize[b]
    <3>3. n \in Nat
      BY BucketSizes
    <3>4. Clear(x[2].at, y[2].at, n) /\ x[2].len <= n /\ y[2].len <= n
      BY <1>3, <3>1, <3>2 DEF Layout
    <3>5. x[2].at \in Nat /\ x[2].len \in Nat /\ y[2].at \in Nat /\ y[2].len \in Nat
      BY <2>1 DEF Objects
    <3> HIDE DEF n
    <3>6. \A i \in x[2].at..(x[2].at + x[2].len - 1), j \in y[2].at..(y[2].at + y[2].len - 1) : i # j
      BY <3>3, <3>4, <3>5 DEF Clear
    <3> QED BY <3>6 DEF Bytes
  <2> QED BY <2>2, <2>3
<1>4. ASSUME NEW x \in Held
      PROVE  /\ x[2].page \notin frames
             /\ \E d \in Desc : /\ desc[d].page = x[2].page
                                /\ x[2].at \notin Range(desc[d].free)
                                /\ x[2].at + x[2].len <= PAGE_SIZE
  <2>1. PICK b \in Buckets, d \in Desc :
               /\ Linked_at(b, d) /\ desc[d].page = x[2].page
               /\ x \in OnPage(objects, desc[d].page)
               /\ Layout(desc[d], OnPage(objects, desc[d].page), BucketSize[b])
    BY <1>2
  <2>2. BucketSize[b] \in Nat \ {0} /\ x[2].at \in Nat /\ x[2].len \in Nat
    BY <1>1, BucketSizes DEF Objects
  <2>3. x[2].at \notin Range(desc[d].free)
    BY <2>1, <2>2 DEF Layout, Clear
  <2>4. x[2].at + x[2].len <= PAGE_SIZE
    BY <2>1, <2>2, MallocAssumption DEF Layout
  <2>5. x[2].page \notin frames
    BY <2>1 DEF PagesApart
  <2> QED BY <2>1, <2>3, <2>4, <2>5
<1> QED BY <1>3, <1>4 DEF ObjectsApart

(* No two objects that malloc has given overlap, and none is on a page that*)
(* is free or among the free objects of its page, however malloc and free_s*)
(* of several tasks alternate while get_free_page sleeps.                  *)
THEOREM ObjectsApartAlways == MallocSpec => []ObjectsApart
<1> QED BY MallocIInvAtFirst, MallocIInvKept, ApartIfIInv, PTL DEF MallocSpec
=============================================================================
