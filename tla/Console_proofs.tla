---------------------------- MODULE Console_proofs ----------------------------
(***************************************************************************)
(* What the people at a terminal touch and see.                            *)
(*                                                                         *)
(* The console, for any size of screen and memory, any scroll region and   *)
(* any characters: column and row, which the driver moves on their own,    *)
(* name the cell of its address.  Every operation of the driver keeps that *)
(* (the lemmas ...Placed); line feeds and scrolls keep it for any column,  *)
(* which a tab may have left past the end of the row (Roomy).              *)
(*                                                                         *)
(* The modifier keys, for any hands: what the driver thinks of them is     *)
(* what the fingers hold, but for the scan codes on their way.             *)
(***************************************************************************)
EXTENDS Console, Keyboard, SequenceTheorems, FiniteSetTheorems, WellFoundedInduction, TLAPS

Row(y) == y * Columns   \* where row y starts on the screen

(* The cursor of console k is in place; Roomy, but for its column.         *)
Fields == {"no", "x", "y", "pos", "origin", "end", "top", "bottom", "state", "par", "npar",
           "ques", "savedX", "savedY", "wrote"}
States == {"normal", "esc", "square", "pars", "skip"}
Roomy(k) ==
  /\ DOMAIN k = Fields
  /\ k.no \in Nat /\ k.origin \in Int /\ k.x \in Int /\ k.y \in 0..(Lines - 1)
  /\ k.pos = k.origin + Row(k.y) + k.x
  /\ k.top \in Nat /\ k.bottom \in Nat /\ k.top < k.bottom /\ k.bottom <= Lines
  /\ k.par \in [0..(NPAR - 1) -> Nat] /\ k.npar \in 0..(NPAR - 1) /\ k.state \in States
Placed(k) == Roomy(k) /\ k.x \in 0..Columns

(* The sizes of the screen; a row is Columns cells.                        *)
LEMMA Screen ==
  /\ Columns \in Nat /\ Columns > 0 /\ Lines \in Nat /\ Lines > 0
  /\ TabStop \in Nat /\ TabStop > 0 /\ TabStop <= Columns
  /\ NPAR \in Nat /\ NPAR > 1 /\ ConsoleMem \in Nat
BY ScreenFits

LEMMA Rows ==
  ASSUME NEW n \in Int
  PROVE  Row(n) \in Int
BY Screen DEF Row

LEMMA NextRow ==
  ASSUME NEW n \in Int, NEW m \in Int, m = n + 1
  PROVE  Row(m) = Row(n) + Columns
<1>1. (n + 1) * Columns = n * Columns + Columns
  BY Screen
<1> QED BY <1>1 DEF Row

LEMMA Starts ==
  ASSUME NEW n \in Int
  PROVE  Start0(n) \in Int
BY Screen DEF Start0

(* What is written, and the cursor sent to a place.                        *)
LEMMA TouchPlaced ==
  ASSUME NEW k, NEW start, NEW count
  PROVE  /\ Roomy(k) => Roomy(Touch(k, start, count)) /\ Touch(k, start, count).x = k.x
         /\ Placed(k) => Placed(Touch(k, start, count))
BY DEF Touch, Roomy, Placed, Fields

LEMMA GotoXYPlaced ==
  ASSUME NEW k, Placed(k), NEW nx, NEW ny
  PROVE  Placed(GotoXY(k, nx, ny))
<1>1. CASE nx \notin 0 .. Columns \/ ny \notin 0 .. Lines - 1
  BY <1>1 DEF GotoXY
<1>2. CASE nx \in 0 .. Columns /\ ny \in 0 .. Lines - 1
  <2> DEFINE p == k.origin + Row(ny) + nx
  <2>1. GotoXY(k, nx, ny) = [k EXCEPT !.x = nx, !.y = ny, !.pos = p]
    BY <1>2 DEF GotoXY, Row
  <2> HIDE DEF p
  <2>2. DOMAIN [k EXCEPT !.x = nx, !.y = ny, !.pos = p] = Fields
    BY DEF Placed, Roomy
  <2> QED BY <1>2, <2>1, <2>2 DEF Placed, Roomy, Fields, p
<1> QED BY <1>1, <1>2

(* scrup, with the origin moved or rewound to the start of the memory.     *)
LEMMA ScrollUpPlaced ==
  ASSUME NEW k, Roomy(k)
  PROVE  Roomy(ScrollUp(k)) /\ ScrollUp(k).x = k.x
<1> DEFINE down == [k EXCEPT !.origin = @ + Columns, !.pos = @ + Columns, !.end = @ + Columns]
<1>1. Roomy(down) /\ down.x = k.x
  <2>1. k.y \in Int /\ Row(k.y) \in Int
    <3>1. k.y \in Int
      BY Screen DEF Roomy
    <3> QED BY <3>1, Rows
  <2>2. k.origin \in Int /\ k.x \in Int /\ k.pos = k.origin + Row(k.y) + k.x /\ DOMAIN k = Fields
    BY DEF Roomy
  <2>3. /\ DOMAIN down = Fields /\ down.origin = k.origin + Columns /\ down.pos = k.pos + Columns
        /\ down.no = k.no /\ down.x = k.x /\ down.y = k.y /\ down.top = k.top /\ down.bottom = k.bottom
        /\ down.state = k.state /\ down.par = k.par /\ down.npar = k.npar
    BY <2>2 DEF Fields
  <2> HIDE DEF down
  <2>4. down.origin \in Int /\ down.pos = down.origin + Row(down.y) + down.x
    BY <2>1, <2>2, <2>3, Screen
  <2> QED BY <2>3, <2>4 DEF Roomy
<1> HIDE DEF down
<1>2. Roomy(Rewound(down)) /\ Rewound(down).x = down.x
  <2> DEFINE s == Start0(down.no)
  <2>1. s \in Int
    <3>1. down.no \in Int
      BY <1>1 DEF Roomy
    <3> QED BY <3>1, Starts
  <2> HIDE DEF s
  <2>2. Rewound(down) = [down EXCEPT !.end = @ - (down.origin - s), !.pos = @ - (down.origin - s), !.origin = s]
    BY DEF Rewound, s
  <2> DEFINE r == [down EXCEPT !.end = @ - (down.origin - s), !.pos = @ - (down.origin - s), !.origin = s]
  <2>3. r.pos = down.pos - (down.origin - s) /\ r.origin = s /\ DOMAIN r = Fields
    BY <1>1 DEF Roomy, Fields
  <2>4. \A f \in Fields \ {"end", "pos", "origin"} : r[f] = down[f]
    BY <1>1 DEF Roomy, Fields
  <2>5. /\ r.no = down.no /\ r.x = down.x /\ r.y = down.y /\ r.top = down.top /\ r.bottom = down.bottom
        /\ r.state = down.state /\ r.par = down.par /\ r.npar = down.npar
    BY <2>4 DEF Fields
  <2> HIDE DEF r
  <2>6. Row(r.y) \in Int
    <3>1. r.y \in Int
      BY <1>1, <2>5, Screen DEF Roomy
    <3> QED BY <3>1, Rows
  <2>7. r.pos = r.origin + Row(r.y) + r.x
    <3>1. /\ down.pos = down.origin + Row(r.y) + r.x /\ down.origin \in Int /\ r.x \in Int
      BY <1>1, <2>5 DEF Roomy
    <3> QED BY <2>1, <2>3, <2>6, <3>1
  <2>8. Roomy(r)
    BY <1>1, <2>1, <2>3, <2>5, <2>7 DEF Roomy
  <2> QED BY <2>2, <2>5, <2>8 DEF r
<1> QED BY <1>1, <1>2, TouchPlaced DEF ScrollUp, down

(* m is k with another cursor or another start of the screen.              *)
Elsewhere(m, k) ==
  /\ DOMAIN m = Fields /\ m.no = k.no /\ m.top = k.top /\ m.bottom = k.bottom
  /\ m.state = k.state /\ m.par = k.par /\ m.npar = k.npar

LEMMA MovedPlaced ==
  ASSUME NEW k, Roomy(k), NEW m, Elsewhere(m, k), m.origin = k.origin,
         NEW dx \in Int, m.x = k.x + dx,
         \/ m.y = k.y /\ m.pos = k.pos + dx
         \/ m.y = k.y + 1 /\ m.pos = k.pos + Columns + dx
         \/ m.y = k.y - 1 /\ m.pos = k.pos - Columns + dx,
         m.y \in 0..(Lines - 1)
  PROVE  Roomy(m)
<1>1. k.origin \in Int /\ k.x \in Int /\ k.pos = k.origin + Row(k.y) + k.x
  BY DEF Roomy
<1>2. k.y \in Int /\ m.y \in Int /\ Columns \in Int
  BY Screen DEF Roomy
<1>3. Row(k.y) \in Int /\ Row(m.y) \in Int
  BY <1>2, Rows
<1>4. m.y = k.y + 1 => Row(m.y) = Row(k.y) + Columns
  BY <1>2, NextRow
<1>5. m.y = k.y - 1 => Row(k.y) = Row(m.y) + Columns
  <2>1. m.y = k.y - 1 => k.y = m.y + 1
    BY <1>2
  <2> QED BY <1>2, <2>1, NextRow
<1>6. m.pos = m.origin + Row(m.y) + m.x /\ m.x \in Int
  BY <1>1, <1>2, <1>3, <1>4, <1>5
<1> QED BY <1>6 DEF Roomy, Elsewhere

LEMMA PosIsInt ==
  ASSUME NEW k, Roomy(k)
  PROVE  k.pos \in Int /\ k.x \in Int /\ k.y \in Nat
<1>1. k.y \in Nat /\ k.origin \in Int /\ k.x \in Int /\ k.pos = k.origin + Row(k.y) + k.x
  BY Screen DEF Roomy
<1>2. Row(k.y) \in Int
  BY <1>1, Rows
<1> QED BY <1>1, <1>2

LEMMA ScrollDownPlaced ==
  ASSUME NEW k, Placed(k)
  PROVE  Placed(ScrollDown(k))
BY TouchPlaced DEF ScrollDown

(* One row down or up: the region scrolls at its end.                      *)
LEMMA LineFeedPlaced ==
  ASSUME NEW k, Roomy(k)
  PROVE  Roomy(LineFeed(k)) /\ LineFeed(k).x = k.x
<1>1. CASE k.y + 1 < k.bottom
  <2> DEFINE m == [k EXCEPT !.y = @ + 1, !.pos = @ + Columns]
  <2>1. /\ Elsewhere(m, k) /\ m.origin = k.origin /\ m.x = k.x
        /\ m.y = k.y + 1 /\ m.pos = k.pos + Columns
    BY DEF Roomy, Fields, Elsewhere
  <2> HIDE DEF m
  <2>2. m.y \in 0..(Lines - 1)
    <3>1. k.bottom \in Nat /\ k.bottom <= Lines
      BY DEF Roomy
    <3> QED BY <1>1, <2>1, <3>1, PosIsInt, Screen
  <2>3. m.x = k.x + 0 /\ m.pos = k.pos + Columns + 0
    BY <2>1, PosIsInt, Screen
  <2>4. Roomy(m)
    BY <2>1, <2>2, <2>3, MovedPlaced
  <2> QED BY <1>1, <2>1, <2>4 DEF LineFeed, m
<1>2. CASE ~(k.y + 1 < k.bottom)
  BY <1>2, ScrollUpPlaced DEF LineFeed
<1> QED BY <1>1, <1>2

LEMMA ReverseIndexPlaced ==
  ASSUME NEW k, Placed(k)
  PROVE  Placed(ReverseIndex(k))
<1>1. CASE k.y > k.top
  <2> DEFINE m == [k EXCEPT !.y = @ - 1, !.pos = @ - Columns]
  <2>1. /\ Elsewhere(m, k) /\ m.origin = k.origin /\ m.x = k.x
        /\ m.y = k.y - 1 /\ m.pos = k.pos - Columns
    BY DEF Placed, Roomy, Fields, Elsewhere
  <2> HIDE DEF m
  <2>2. m.y \in 0..(Lines - 1)
    <3>1. k.y \in 0..(Lines - 1) /\ k.top \in Nat
      BY DEF Placed, Roomy
    <3> QED BY <1>1, <2>1, <3>1, Screen
  <2>3. m.x = k.x + 0 /\ m.pos = k.pos - Columns + 0
    BY <2>1, PosIsInt, Screen DEF Placed
  <2>4. Roomy(m)
    BY <2>1, <2>2, <2>3, MovedPlaced DEF Placed
  <2> QED BY <1>1, <2>1, <2>4 DEF ReverseIndex, Placed, m
<1>2. CASE ~(k.y > k.top)
  BY <1>2, ScrollDownPlaced DEF ReverseIndex
<1> QED BY <1>1, <1>2

(* Along the row.                                                          *)
Along(k, dx) == [k EXCEPT !.x = @ + dx, !.pos = @ + dx]
LEMMA AlongPlaced ==
  ASSUME NEW k, Roomy(k), NEW dx \in Int
  PROVE  Roomy(Along(k, dx)) /\ Along(k, dx).x = k.x + dx
<1> DEFINE m == Along(k, dx)
<1>1. /\ Elsewhere(m, k) /\ m.origin = k.origin /\ m.x = k.x + dx
      /\ m.y = k.y /\ m.pos = k.pos + dx
  BY DEF Roomy, Fields, Elsewhere, Along
<1> HIDE DEF m
<1>2. m.y \in 0..(Lines - 1)
  BY <1>1 DEF Roomy
<1>3. Roomy(m)
  BY <1>1, <1>2, MovedPlaced
<1> QED BY <1>1, <1>3 DEF m

LEMMA CarriageReturnPlaced ==
  ASSUME NEW k, Placed(k)
  PROVE  Placed(CarriageReturn(k))
<1> DEFINE m == [k EXCEPT !.pos = @ - k.x, !.x = 0]
<1>1. /\ Elsewhere(m, k) /\ m.origin = k.origin /\ m.x = 0
      /\ m.y = k.y /\ m.pos = k.pos - k.x
  BY DEF Placed, Roomy, Fields, Elsewhere
<1> HIDE DEF m
<1>2. m.y \in 0..(Lines - 1)
  BY <1>1 DEF Placed, Roomy
<1>3. -k.x \in Int /\ m.x = k.x + (-k.x) /\ m.pos = k.pos + (-k.x)
  BY <1>1, PosIsInt DEF Placed
<1>4. Roomy(m)
  BY <1>1, <1>2, <1>3, MovedPlaced DEF Placed
<1> QED BY <1>1, <1>4, Screen DEF CarriageReturn, Placed, m

LEMMA BackPlaced ==
  ASSUME NEW k, Placed(k)
  PROVE  Placed(Delete(k)) /\ Placed(BackSpace(k))
<1>1. CASE k.x = 0
  BY <1>1 DEF Delete, BackSpace
<1>2. CASE k.x # 0
  <2> DEFINE m == [k EXCEPT !.x = @ - 1, !.pos = @ - 1]
             n == Along(k, -1)
  <2>1. m = n
    BY PosIsInt DEF Placed, Along
  <2>2. Roomy(n) /\ n.x = k.x + (-1)
    <3>1. Roomy(k) /\ -1 \in Int
      BY DEF Placed
    <3> HIDE DEF m
    <3> QED BY <3>1, AlongPlaced
  <2>3. m = [k EXCEPT !.pos = @ - 1, !.x = @ - 1]
    BY DEF Placed, Roomy, Fields
  <2> HIDE DEF m, n
  <2>4. Placed(m)
    BY <1>2, <2>1, <2>2, Screen DEF Placed
  <2>5. Delete(k) = Touch(m, k.pos - 1, 1) /\ BackSpace(k) = m
    BY <1>2, <2>3 DEF Delete, BackSpace, m
  <2> QED BY <2>4, <2>5, TouchPlaced
<1> QED BY <1>1, <1>2

LEMMA WrappedPlaced ==
  ASSUME NEW k, Roomy(k)
  PROVE  Roomy(Wrapped(k)) /\ Wrapped(k).x = k.x - Columns
<1> DEFINE m == [k EXCEPT !.x = @ - Columns, !.pos = @ - Columns]
           n == Along(k, -Columns)
<1>1. m = n
  BY PosIsInt, Screen DEF Along
<1>2. Roomy(n) /\ n.x = k.x + (-Columns)
  BY AlongPlaced, Screen
<1> HIDE DEF m, n
<1>3. Roomy(LineFeed(m)) /\ LineFeed(m).x = k.x - Columns
  BY <1>1, <1>2, LineFeedPlaced, PosIsInt, Screen
<1> QED BY <1>3 DEF Wrapped, m

LEMMA HorizontalTabPlaced ==
  ASSUME NEW k, Placed(k)
  PROVE  Placed(HorizontalTab(k))
<1> DEFINE c == TabStop - (k.x % TabStop)
           moved == Along(k, c)
<1>1. c \in Int /\ c > 0 /\ c <= Columns
  BY Screen DEF Placed
<1>2. HorizontalTab(k) = IF moved.x > Columns THEN Wrapped(moved) ELSE moved
  BY DEF HorizontalTab, Along
<1> HIDE DEF c
<1>3. Roomy(moved) /\ moved.x = k.x + c
  BY <1>1, AlongPlaced DEF Placed
<1> HIDE DEF moved
<1>4. CASE moved.x > Columns
  BY <1>1, <1>2, <1>3, <1>4, WrappedPlaced, Screen DEF Placed
<1>5. CASE ~(moved.x > Columns)
  BY <1>1, <1>2, <1>3, <1>5, Screen DEF Placed
<1> QED BY <1>4, <1>5

(* A character: after a wrap if the row is full, and one cell along.       *)
LEMMA PutCharPlaced ==
  ASSUME NEW k, Placed(k)
  PROVE  Placed(PutChar(k))
<1> DEFINE at == IF k.x >= Columns THEN Wrapped(k) ELSE k
           w == Touch(at, at.pos, 1)
           m == Along(w, 1)
<1>1. Roomy(at) /\ at.x \in 0..(Columns - 1)
  BY WrappedPlaced, Screen DEF Placed
<1>2. Roomy(w) /\ w.x = at.x
  BY <1>1, TouchPlaced
<1>3. PutChar(k) = [w EXCEPT !.pos = @ + 1, !.x = @ + 1]
  BY DEF PutChar
<1> HIDE DEF at, w
<1>4. [w EXCEPT !.pos = @ + 1, !.x = @ + 1] = m
  BY <1>2 DEF Roomy, Fields, Along
<1>5. Roomy(m) /\ m.x = w.x + 1
  BY <1>2, AlongPlaced
<1> QED BY <1>1, <1>2, <1>3, <1>4, <1>5, Screen DEF Placed

LEMMA ErasePlaced ==
  ASSUME NEW k, Placed(k), NEW par
  PROVE  Placed(EraseDisplay(k, par)) /\ Placed(EraseLine(k, par)) /\ Placed(ShiftRow(k))
<1>1. Placed(EraseDisplay(k, par))
  BY TouchPlaced DEF EraseDisplay
<1>2. Placed(EraseLine(k, par))
  BY TouchPlaced DEF EraseLine
<1>3. Placed(ShiftRow(k))
  BY TouchPlaced DEF ShiftRow
<1> QED BY <1>1, <1>2, <1>3

(* insert_line and delete_line: the region is from the cursor on, and what *)
(* it was again.                                                           *)
LEMMA FromCursorPlaced ==
  ASSUME NEW k, Placed(k)
  PROVE  Placed(FromCursor(k))
<1>1. k.y \in Nat /\ k.y < Lines
  BY Screen DEF Placed, Roomy
<1>2. LET m == FromCursor(k) IN
      /\ DOMAIN m = Fields /\ m.no = k.no /\ m.x = k.x /\ m.y = k.y /\ m.pos = k.pos /\ m.origin = k.origin
      /\ m.top = k.y /\ m.bottom = Lines /\ m.state = k.state /\ m.par = k.par /\ m.npar = k.npar
  BY DEF FromCursor, Placed, Roomy, Fields
<1> QED BY <1>1, <1>2, Screen DEF Placed, Roomy

LEMMA RegionPlaced ==
  ASSUME NEW k, Placed(k), NEW m, Placed(m)
  PROVE  Placed(Region(m, k))
<1>1. LET r == Region(m, k) IN
      /\ DOMAIN r = Fields /\ r.no = m.no /\ r.x = m.x /\ r.y = m.y /\ r.pos = m.pos /\ r.origin = m.origin
      /\ r.top = k.top /\ r.bottom = k.bottom /\ r.state = m.state /\ r.par = m.par /\ r.npar = m.npar
  BY DEF Region, Placed, Roomy, Fields
<1> QED BY <1>1 DEF Placed, Roomy

LEMMA InsertLinesPlaced ==
  ASSUME NEW k, Placed(k), NEW n
  PROVE  Placed(InsertLines(k, n))
BY FromCursorPlaced, ScrollDownPlaced, RegionPlaced DEF InsertLines

LEMMA DeleteLinePlaced ==
  ASSUME NEW k, Placed(k)
  PROVE  Placed(DeleteLine(k))
<1>1. Placed(ScrollUp(FromCursor(k)))
  BY FromCursorPlaced, ScrollUpPlaced DEF Placed
<1> QED BY <1>1, RegionPlaced DEF DeleteLine

(* The least number of a set that has one.                                 *)
LEMMA LeastNumber ==
  ASSUME NEW n \in Nat, NEW T, T \subseteq 0..n, T # {}
  PROVE  \E x \in T : \A y \in T : x <= y
<1> DEFINE UpTo(x) == {y \in T : y <= x}
           R == StrictSubsetOrdering(T)
           Segments == {UpTo(x) : x \in T}
<1>1. IsFiniteSet(T)
  <2>1. IsFiniteSet(0..n)
    BY FS_Interval
  <2> QED BY <2>1, FS_Subset
<1>2. Segments \subseteq FiniteSubsetsOf(T)
  BY <1>1, FS_Subset DEF FiniteSubsetsOf
<1>3. IsWellFoundedOn(R, FiniteSubsetsOf(T))
  BY FS_StrictSubsetOrderingWellFounded
<1>4. PICK B \in Segments : \A C \in Segments : <<C, B>> \notin R
  <2> HIDE DEF R, Segments
  <2>1. Segments # {}
    BY DEF Segments
  <2> QED BY <1>2, <1>3, <2>1, WFMin
<1>5. PICK x \in T : B = UpTo(x)
  BY <1>4
<1>6. ASSUME NEW y \in T, ~(x <= y) PROVE FALSE
  <2>1. x \in Nat /\ y \in Nat /\ \A z \in T : z \in Nat
    OBVIOUS
  <2>2. UpTo(y) \subseteq UpTo(x) /\ x \in UpTo(x) /\ x \notin UpTo(y) /\ UpTo(x) \subseteq T
    <3> HIDE DEF R, Segments
    <3>1. \A z \in T : z <= y => z <= x
      BY <2>1, <1>6
    <3>2. x <= x
      BY <2>1
    <3> QED BY <1>6, <3>1, <3>2
  <2>3. <<UpTo(y), B>> \in R
    BY <2>2, <1>5 DEF StrictSubsetOrdering
  <2> QED BY <2>3, <1>4
<1> QED BY <1>6

(* A line deleted again and again: the consoles after none, one, two of    *)
(* them exist, and the last is the result.                                 *)
After(f, k, n) == f = [i \in 0..n |-> IF i = 0 THEN k ELSE DeleteLine(f[i - 1])]

(* By the least number of lines after which they would not: the record of  *)
(* the lines before it has one more.                                       *)
LEMMA DeletedExist ==
  ASSUME NEW k, NEW n \in Nat
  PROVE  \E f : After(f, k, n)
<1> DEFINE T == {m \in 0..n : ~ \E f : After(f, k, m)}
<1> SUFFICES ASSUME T # {} PROVE FALSE
  BY SMT
<1>1. PICK m \in T : \A l \in T : m <= l
  <2> HIDE DEF T
  <2>1. T \subseteq 0..n
    BY DEF T
  <2> QED BY <2>1, LeastNumber
<1>2. m \in Nat /\ m <= n /\ \A f : ~After(f, k, m)
  OBVIOUS
<1>3. CASE m = 0
  <2> DEFINE f == [i \in 0..0 |-> k]
  <2>1. f = [i \in 0..0 |-> IF i = 0 THEN k ELSE DeleteLine(f[i - 1])]
    OBVIOUS
  <2> HIDE DEF f
  <2>2. After(f, k, 0)
    BY <2>1 DEF After
  <2> QED BY <1>2, <1>3, <2>2
<1>4. CASE m # 0
  <2>1. m - 1 \in 0..n /\ m - 1 \notin T
    BY <1>1, <1>2, <1>4
  <2>2. PICK g : After(g, k, m - 1)
    BY <2>1
  <2> DEFINE last == DeleteLine(g[m - 1])
             f == [i \in 0..m |-> IF i < m THEN g[i] ELSE last]
  <2>3. \A i \in 0..(m - 1) : g[i] = IF i = 0 THEN k ELSE DeleteLine(g[i - 1])
    BY <2>2 DEF After
  <2> HIDE DEF T
  <2>4. \A i \in 0..m : f[i] = IF i = 0 THEN k ELSE DeleteLine(f[i - 1])
    <3> SUFFICES ASSUME NEW i \in 0..m PROVE f[i] = IF i = 0 THEN k ELSE DeleteLine(f[i - 1])
      OBVIOUS
    <3>1. CASE i < m
      <4>1. i \in 0..(m - 1) /\ (i # 0 => i - 1 \in 0..m /\ i - 1 < m)
        BY <3>1, <1>2
      <4> HIDE DEF last
      <4>2. f[i] = g[i] /\ (i # 0 => f[i - 1] = g[i - 1])
        BY <3>1, <4>1
      <4> QED BY <2>3, <4>1, <4>2
    <3>2. CASE i = m
      <4>1. i # 0 /\ m - 1 \in 0..m /\ m - 1 < m /\ ~(i < m)
        BY <3>2, <1>2, <1>4
      <4>2. f[i] = last /\ f[m - 1] = g[m - 1]
        BY <3>2, <4>1
      <4> QED BY <3>2, <4>1, <4>2
    <3> QED BY <3>1, <3>2, <1>2
  <2>5. f = [i \in 0..m |-> f[i]]
    OBVIOUS
  <2> HIDE DEF f
  <2>6. f = [i \in 0..m |-> IF i = 0 THEN k ELSE DeleteLine(f[i - 1])]
    BY <2>4, <2>5
  <2>7. After(f, k, m)
    BY <2>6 DEF After
  <2> QED BY <2>7, <1>2
<1> QED BY <1>3, <1>4

LEMMA DeleteLinesPlaced ==
  ASSUME NEW k, Placed(k), NEW n \in Nat
  PROVE  Placed(DeleteLines(k, n))
<1> DEFINE f == CHOOSE g : After(g, k, n)
<1>1. After(f, k, n)
  BY DeletedExist
<1>2. DeleteLines(k, n) = f[n]
  BY DEF DeleteLines, After
<1> HIDE DEF f
<1>3. \A i \in 0..n : f[i] = IF i = 0 THEN k ELSE DeleteLine(f[i - 1])
  BY <1>1 DEF After
<1> DEFINE T == {i \in 0..n : ~Placed(f[i])}
<1>4. T = {}
  <2> SUFFICES ASSUME T # {} PROVE FALSE
    OBVIOUS
  <2>1. PICK m \in T : \A l \in T : m <= l
    <3> HIDE DEF T
    <3>1. T \subseteq 0..n
      BY DEF T
    <3> QED BY <3>1, LeastNumber
  <2>2. m # 0
    BY <1>3
  <2>3. m - 1 \in 0..n /\ m - 1 \notin T
    BY <2>1, <2>2
  <2>4. Placed(f[m - 1]) /\ f[m] = DeleteLine(f[m - 1])
    BY <1>3, <2>2, <2>3
  <2> QED BY <2>4, DeleteLinePlaced
<1>5. Placed(f[n])
  BY <1>4
<1> QED BY <1>2, <1>5

-----------------------------------------------------------------------------
(* The parser keeps its parameters, and moves the cursor only by the       *)
(* operations above.                                                       *)
LEMMA NoParsIs == NoPars \in [0..(NPAR - 1) -> Nat] /\ 0 \in 0..(NPAR - 1) /\ 1 \in 0..(NPAR - 1)
BY Screen DEF NoPars

(* A change of the parser only.                                            *)
LEMMA ParsedPlaced ==
  ASSUME NEW k, Placed(k), NEW m, DOMAIN m = Fields,
         m.no = k.no, m.x = k.x, m.y = k.y, m.pos = k.pos, m.origin = k.origin,
         m.top = k.top, m.bottom = k.bottom,
         m.par = k.par \/ m.par \in [0..(NPAR - 1) -> Nat], m.state \in States,
         m.npar = k.npar \/ m.npar \in 0..(NPAR - 1)
  PROVE  Placed(m)
BY DEF Placed, Roomy

LEMMA StatePlaced ==
  ASSUME NEW k, Placed(k), NEW s \in States
  PROVE  Placed([k EXCEPT !.state = s])
BY DEF Placed, Roomy, Fields

(* save_cur, restore_cur and the scroll region.                            *)
LEMMA SavePlaced ==
  ASSUME NEW k, Placed(k)
  PROVE  Placed(SaveCursor(k)) /\ Placed(RestoreCursor(k))
<1>1. Placed(SaveCursor(k))
  BY DEF SaveCursor, Placed, Roomy, Fields
<1>2. Placed(RestoreCursor(k))
  BY GotoXYPlaced DEF RestoreCursor
<1> QED BY <1>1, <1>2

LEMMA SetRegionPlaced ==
  ASSUME NEW k, Placed(k), NEW first \in Nat, NEW last \in Nat
  PROVE  Placed(SetRegion(k, first, last))
<1> DEFINE t == IF first > 0 THEN first - 1 ELSE 0
           b == IF last = 0 THEN Lines ELSE last
<1>1. t \in Nat /\ b \in Nat
  BY Screen
<1>2. SetRegion(k, first, last) = IF t < b /\ b <= Lines THEN [k EXCEPT !.top = t, !.bottom = b] ELSE k
  BY DEF SetRegion
<1> HIDE DEF t, b
<1>3. CASE t < b /\ b <= Lines
  <2> DEFINE m == [k EXCEPT !.top = t, !.bottom = b]
  <2>1. /\ DOMAIN m = Fields /\ m.no = k.no /\ m.x = k.x /\ m.y = k.y /\ m.pos = k.pos /\ m.origin = k.origin
        /\ m.top = t /\ m.bottom = b /\ m.state = k.state /\ m.par = k.par /\ m.npar = k.npar
    BY DEF Placed, Roomy, Fields
  <2> HIDE DEF m
  <2>2. Placed(m)
    BY <1>1, <1>3, <2>1 DEF Placed, Roomy
  <2> QED BY <1>2, <1>3, <2>2 DEF m
<1>4. CASE ~(t < b /\ b <= Lines)
  BY <1>2, <1>4
<1> QED BY <1>3, <1>4

LEMMA ResetPlaced ==
  ASSUME NEW k, Placed(k)
  PROVE  Placed([k EXCEPT !.top = 0, !.bottom = Lines])
<1> DEFINE m == [k EXCEPT !.top = 0, !.bottom = Lines]
<1>1. /\ DOMAIN m = Fields /\ m.no = k.no /\ m.x = k.x /\ m.y = k.y /\ m.pos = k.pos /\ m.origin = k.origin
      /\ m.top = 0 /\ m.bottom = Lines /\ m.state = k.state /\ m.par = k.par /\ m.npar = k.npar
  BY DEF Placed, Roomy, Fields
<1> HIDE DEF m
<1>2. Placed(m)
  BY <1>1, Screen DEF Placed, Roomy
<1> QED BY <1>2 DEF m

(* The states of the parser, one by one.                                   *)
LEMMA NormalPlaced ==
  ASSUME NEW k, Placed(k), NEW c
  PROVE  Placed(Normal(k, c))
<1>1. Placed(LineFeed(k))
  BY LineFeedPlaced DEF Placed
<1> QED BY <1>1, PutCharPlaced, StatePlaced, CarriageReturnPlaced, BackPlaced, HorizontalTabPlaced
        DEF Normal, Controls8, States

LEMMA EscapePlaced ==
  ASSUME NEW k0, Placed(k0), NEW c
  PROVE  Placed(Escape(k0, c))
<1> DEFINE k == [k0 EXCEPT !.state = "normal"]
<1>1. Placed(k)
  BY StatePlaced DEF States
<1>2. Escape(k0, c) = CASE c = "[" -> [k EXCEPT !.state = "square"]
       [] c = "E" -> GotoXY(k, 0, k.y + 1)
       [] c = "M" -> ReverseIndex(k)
       [] c = "D" -> LineFeed(k)
       [] c = "7" -> SaveCursor(k)
       [] c = "8" -> RestoreCursor(k)
       [] c \in {"(", ")", "P", "#"} -> [k EXCEPT !.state = "skip"]
       [] c = "c" -> [k EXCEPT !.top = 0, !.bottom = Lines]
       [] OTHER -> k
  BY DEF Escape
<1> HIDE DEF k
<1>3. Placed(LineFeed(k))
  BY <1>1, LineFeedPlaced DEF Placed
<1>4. Placed([k EXCEPT !.top = 0, !.bottom = Lines])
  BY <1>1, ResetPlaced
<1>5. \A s \in States : Placed([k EXCEPT !.state = s])
  BY <1>1, StatePlaced
<1>6. \A nx, ny : Placed(GotoXY(k, nx, ny))
  BY <1>1, GotoXYPlaced
<1>7. Placed(ReverseIndex(k)) /\ Placed(SaveCursor(k)) /\ Placed(RestoreCursor(k))
  BY <1>1, ReverseIndexPlaced, SavePlaced
<1> QED BY <1>1, <1>2, <1>3, <1>4, <1>5, <1>6, <1>7 DEF States

(* The end of a sequence, with the parameters that came.                   *)
LEMMA FinalPlaced ==
  ASSUME NEW k, Placed(k), NEW c
  PROVE  Placed(Final(k, c))
<1> DEFINE p == k.par[0]
           q == k.par[1]
<1>1. p \in Nat /\ q \in Nat
  BY NoParsIs DEF Placed, Roomy
<1>2. Count(p, Lines) \in Nat
  BY <1>1, Screen DEF Count
<1>3. \A nx, ny : Placed(GotoXY(k, nx, ny))
  BY GotoXYPlaced
<1>4. Placed(EraseDisplay(k, p)) /\ Placed(EraseLine(k, p)) /\ Placed(ShiftRow(k))
  BY ErasePlaced
<1>5. Placed(InsertLines(k, Count(p, Lines))) /\ Placed(DeleteLines(k, Count(p, Lines)))
  BY <1>2, InsertLinesPlaced, DeleteLinesPlaced
<1>6. Placed(SetRegion(k, p, q)) /\ Placed(SaveCursor(k)) /\ Placed(RestoreCursor(k))
  BY <1>1, SetRegionPlaced, SavePlaced
<1> QED BY <1>3, <1>4, <1>5, <1>6 DEF Final

LEMMA ClearedPlaced ==
  ASSUME NEW k, Placed(k)
  PROVE  /\ Placed([k EXCEPT !.npar = 0, !.par = NoPars])
         /\ Placed([k EXCEPT !.state = "normal", !.ques = FALSE, !.npar = 0, !.par = NoPars])
         /\ \A v \in BOOLEAN : Placed([k EXCEPT !.par = NoPars, !.npar = 0, !.ques = v, !.state = "pars"])
<1>1. Placed([k EXCEPT !.npar = 0, !.par = NoPars])
  BY NoParsIs DEF Placed, Roomy, Fields, States
<1>2. Placed([k EXCEPT !.state = "normal", !.ques = FALSE, !.npar = 0, !.par = NoPars])
  BY NoParsIs DEF Placed, Roomy, Fields, States
<1>3. ASSUME NEW v \in BOOLEAN
      PROVE  Placed([k EXCEPT !.par = NoPars, !.npar = 0, !.ques = v, !.state = "pars"])
  BY NoParsIs DEF Placed, Roomy, Fields, States
<1> QED BY <1>1, <1>2, <1>3

LEMMA ParametersPlaced ==
  ASSUME NEW k, Placed(k), NEW c
  PROVE  Placed(Parameters(k, c))
<1>1. Digit(c) \in Int
  BY DEF Digit
<1>2. CASE c = ";" /\ k.npar < NPAR - 1
  <2>1. Placed([k EXCEPT !.npar = @ + 1])
    <3> DEFINE m == [k EXCEPT !.npar = @ + 1]
    <3>1. /\ DOMAIN m = Fields /\ m.no = k.no /\ m.x = k.x /\ m.y = k.y /\ m.pos = k.pos /\ m.origin = k.origin
          /\ m.top = k.top /\ m.bottom = k.bottom /\ m.state = k.state /\ m.par = k.par /\ m.npar = k.npar + 1
      BY DEF Placed, Roomy, Fields
    <3> HIDE DEF m
    <3>2. k.npar \in 0..(NPAR - 1) /\ k.state \in States
      BY DEF Placed, Roomy
    <3>3. m.npar \in 0..(NPAR - 1)
      <4> DEFINE i == k.npar
      <4>1. i \in 0..(NPAR - 1) /\ i < NPAR - 1 /\ m.npar = i + 1
        BY <1>2, <3>1, <3>2
      <4> HIDE DEF i
      <4>2. i + 1 \in 0..(NPAR - 1)
        BY <4>1, Screen
      <4> QED BY <4>1, <4>2
    <3> QED BY <3>1, <3>2, <3>3, ParsedPlaced DEF m
  <2>2. Parameters(k, c) = [k EXCEPT !.npar = @ + 1]
    <3>1. ~(Digit(c) >= 0)
      <4>1. Digit(";") = -1
        BY DEF Digit
      <4>2. Digit(c) = -1
        BY <1>2, <4>1
      <4> QED BY <4>2
    <3> DEFINE first == c = ";" /\ k.npar < NPAR - 1
               second == Digit(c) >= 0
    <3>2. first /\ ~second
      BY <1>2, <3>1
    <3> HIDE DEF first, second
    <3> QED BY <3>2 DEF Parameters, first, second
  <2> QED BY <2>1, <2>2
<1>3. CASE ~(c = ";" /\ k.npar < NPAR - 1) /\ Digit(c) >= 0
  <2>1. Placed([k EXCEPT !.par[k.npar] = 10 * @ + Digit(c)])
    <3> DEFINE v == 10 * k.par[k.npar] + Digit(c)
               P == [k.par EXCEPT ![k.npar] = v]
               m == [k EXCEPT !.par = P]
    <3>1. v \in Nat /\ k.par \in [0..(NPAR - 1) -> Nat]
      <4>1. k.par \in [0..(NPAR - 1) -> Nat] /\ k.npar \in 0..(NPAR - 1)
        BY DEF Placed, Roomy
      <4>2. k.par[k.npar] \in Nat
        BY <4>1
      <4> DEFINE a == k.par[k.npar]
                 d == Digit(c)
      <4>3. a \in Nat /\ d \in Int /\ d >= 0
        BY <4>2, <1>1, <1>3
      <4> HIDE DEF a, d
      <4>4. 10 * a + d \in Nat
        BY <4>3
      <4> QED BY <4>1, <4>4 DEF a, d
    <3> HIDE DEF v
    <3>2. P \in [0..(NPAR - 1) -> Nat]
      BY <3>1
    <3> HIDE DEF P
    <3>3. Placed(m)
      BY <3>2 DEF Placed, Roomy, Fields
    <3>4. [k EXCEPT !.par[k.npar] = 10 * @ + Digit(c)] = m
      BY DEF m, P, v
    <3> QED BY <3>3, <3>4
  <2> QED BY <1>3, <2>1 DEF Parameters
<1>4. CASE ~(c = ";" /\ k.npar < NPAR - 1) /\ ~(Digit(c) >= 0)
  <2> DEFINE f == Final([k EXCEPT !.state = "normal"], c)
  <2>1. Placed(f)
    BY StatePlaced, FinalPlaced DEF States
  <2>2. Parameters(k, c) = IF k.ques THEN [k EXCEPT !.state = "normal", !.ques = FALSE, !.npar = 0, !.par = NoPars]
                           ELSE [f EXCEPT !.npar = 0, !.par = NoPars]
    BY <1>4 DEF Parameters
  <2> HIDE DEF f
  <2> QED BY <2>1, <2>2, ClearedPlaced
<1> QED BY <1>2, <1>3, <1>4

(* con_write and console_print.                                            *)
LEMMA CharacterPlaced ==
  ASSUME NEW k0, Placed(k0), NEW c
  PROVE  Placed(Character(k0, c))
<1> DEFINE k == IF c = "can" THEN [k0 EXCEPT !.state = "normal"] ELSE k0
<1>1. Placed(k) /\ k.state \in States
  <2>1. Placed(k)
    BY StatePlaced DEF States
  <2> QED BY <2>1 DEF Placed, Roomy
<1>2. Character(k0, c) = CASE k.state = "normal" -> Normal(k, c)
       [] k.state = "esc" -> Escape(k, c)
       [] k.state = "square" -> Square(k, c)
       [] k.state = "pars" -> Parameters(k, c)
       [] k.state = "skip" -> [k EXCEPT !.state = "normal"]
  BY DEF Character
<1> HIDE DEF k
<1>3. Placed(Square(k, c))
  <2> DEFINE m == [k EXCEPT !.par = NoPars, !.npar = 0, !.ques = c = "?", !.state = "pars"]
  <2>1. Placed(m)
    BY <1>1, ClearedPlaced
  <2>2. Square(k, c) = CASE c = "[" -> [m EXCEPT !.state = "skip"] [] c = "?" -> m [] OTHER -> Parameters(m, c)
    BY DEF Square
  <2> HIDE DEF m
  <2>3. Placed([m EXCEPT !.state = "skip"])
    BY <2>1, StatePlaced DEF States
  <2>4. Placed(Parameters(m, c))
    BY <2>1, ParametersPlaced
  <2> QED BY <2>1, <2>2, <2>3, <2>4
<1> QED BY <1>1, <1>2, <1>3, NormalPlaced, EscapePlaced, ParametersPlaced, StatePlaced DEF States

LEMMA KernelPlaced ==
  ASSUME NEW k, Placed(k), NEW c
  PROVE  Placed(Kernel(k, c))
<1>1. Placed(CarriageReturn(k)) /\ Placed(PutChar(k))
  BY CarriageReturnPlaced, PutCharPlaced
<1>2. Placed(LineFeed(CarriageReturn(k)))
  BY <1>1, LineFeedPlaced DEF Placed
<1> QED BY <1>1, <1>2 DEF Kernel

-----------------------------------------------------------------------------
(* The consoles of the system, the one in front among them.                *)
ConsoleIInv ==
  /\ setup \in Setups /\ DOMAIN cons = 0..(setup.consoles - 1) /\ fg \in DOMAIN cons
  /\ \A n \in DOMAIN cons : Placed(cons[n])

LEMMA ConsoleIInvAtFirst == ConsoleInit => ConsoleIInv
<1> SUFFICES ASSUME ConsoleInit PROVE ConsoleIInv
  OBVIOUS
<1>1. setup \in Setups /\ setup.consoles \in Nat /\ setup.consoles > 0
  BY ScreenFits DEF ConsoleInit
<1>2. DOMAIN cons = 0..(setup.consoles - 1) /\ fg = 0
  BY DEF ConsoleInit
<1>3. ASSUME NEW n \in DOMAIN cons
      PROVE  Placed(cons[n])
  <2>1. n \in Nat /\ cons[n] = NewConsole(n)
    BY <1>1, <1>2, <1>3 DEF ConsoleInit
  <2>2. Start0(n) \in Int /\ Row(0) = 0
    BY <2>1, Starts, Screen DEF Row
  <2> DEFINE k == NewConsole(n)
  <2>3. /\ DOMAIN k = Fields /\ k.no = n /\ k.origin = Start0(n) /\ k.pos = Start0(n)
        /\ k.x = 0 /\ k.y = 0 /\ k.top = 0 /\ k.bottom = Lines
        /\ k.par = NoPars /\ k.npar = 0 /\ k.state = "normal"
    BY DEF NewConsole, Fields
  <2> HIDE DEF k
  <2>4. k.pos = k.origin + Row(k.y) + k.x
    BY <2>2, <2>3
  <2>5. Placed(k)
    BY <2>1, <2>2, <2>3, <2>4, NoParsIs, Screen DEF Placed, Roomy, States
  <2> QED BY <2>1, <2>5 DEF k
<1> QED BY <1>1, <1>2, <1>3 DEF ConsoleIInv

(* A console that becomes one in place leaves all in place.                *)
LEMMA BecomesPlaced ==
  ASSUME ConsoleIInv, NEW n \in DOMAIN cons, NEW k, Placed(k), Becomes(n, k)
  PROVE  ConsoleIInv'
<1>1. Placed([k EXCEPT !.wrote = {}])
  BY DEF Placed, Roomy, Fields
<1>2. DOMAIN cons' = DOMAIN cons /\ setup' = setup /\ fg' = fg
  BY DEF Becomes
<1>3. ASSUME NEW m \in DOMAIN cons
      PROVE  Placed(cons'[m])
  <2>1. CASE m = n
    BY <2>1, <1>1 DEF Becomes
  <2>2. CASE m # n
    BY <2>2 DEF Becomes, ConsoleIInv
  <2> QED BY <2>1, <2>2
<1> QED BY <1>2, <1>3 DEF ConsoleIInv

LEMMA ConsoleIInvKept == ConsoleIInv /\ [ConsoleNext]_consoleVars => ConsoleIInv'
<1> SUFFICES ASSUME ConsoleIInv, [ConsoleNext]_consoleVars
             PROVE  ConsoleIInv'
  OBVIOUS
<1>1. CASE ConWrite
  <2>1. PICK n \in DOMAIN cons, c \in setup.chars : Becomes(n, Character(cons[n], c))
    BY <1>1 DEF ConWrite
  <2>2. Placed(Character(cons[n], c))
    BY CharacterPlaced DEF ConsoleIInv
  <2> QED BY <2>1, <2>2, BecomesPlaced
<1>2. CASE ConsolePrint
  <2>1. PICK c \in setup.chars : Becomes(fg, Kernel(cons[fg], c))
    BY <1>2 DEF ConsolePrint
  <2>2. fg \in DOMAIN cons /\ Placed(Kernel(cons[fg], c))
    BY KernelPlaced DEF ConsoleIInv
  <2> QED BY <2>1, <2>2, BecomesPlaced
<1>3. CASE ChangeConsole
  <2>1. setup' = setup /\ cons' = cons /\ fg' \in DOMAIN cons
    BY <1>3 DEF ChangeConsole
  <2> QED BY <2>1 DEF ConsoleIInv
<1>4. CASE UNCHANGED consoleVars
  BY <1>4 DEF ConsoleIInv, consoleVars
<1> QED BY <1>1, <1>2, <1>3, <1>4 DEF ConsoleNext

LEMMA CursorPlaced == ConsoleIInv => CursorInPlace
<1> SUFFICES ASSUME ConsoleIInv, NEW n \in DOMAIN cons
             PROVE  LET k == cons[n]
                    IN /\ k.pos = k.origin + k.y * Columns + k.x
                       /\ k.x \in 0 .. Columns /\ k.y \in 0 .. Lines - 1
                       /\ k.top < k.bottom /\ k.bottom <= Lines
  BY DEF CursorInPlace
<1>1. Placed(cons[n])
  BY DEF ConsoleIInv
<1> QED BY <1>1 DEF Placed, Roomy, Row

(* The cursor of every console is where its column and row say, whatever   *)
(* is written: con_write moves its address and its coordinates apart.      *)
THEOREM CursorInPlaceAlways == ConsoleSpec => []CursorInPlace
<1>1. ConsoleInit => ConsoleIInv
  BY ConsoleIInvAtFirst
<1>2. ConsoleIInv /\ [ConsoleNext]_consoleVars => ConsoleIInv'
  BY ConsoleIInvKept
<1>3. ConsoleIInv => CursorInPlace
  BY CursorPlaced
<1> QED BY <1>1, <1>2, <1>3, PTL DEF ConsoleSpec

-----------------------------------------------------------------------------
(***************************************************************************)
(* The keyboard.  The scan codes on their way are the rest of what one key *)
(* sends, and e0 says whether its prefix has been seen (LastOf), or the    *)
(* rest of the six codes of Pause, which press and release a key that      *)
(* nobody touches (Pausing).                                               *)
(***************************************************************************)
Routines == {"e0", "e1", "ctrl", "alt", "cursor"} \cup Shift \cup OtherKeys
Scans == Routines \X BOOLEAN
Felt == mode \cap Modifiers
Turned(S, m, down) == IF down THEN S \cup ({m} \cap Modifiers) ELSE S \ {m}

LastOf(key, down) ==
  /\ coming[Len(coming)] = <<Routine(key), down>>
  /\ \/ Len(coming) = 1 /\ e0 = (IF key \in Prefixed THEN 1 ELSE 0)
     \/ Len(coming) = 2 /\ e0 = 0 /\ key \in Prefixed /\ coming[1][1] = "e0"
  /\ held \cap Modifiers = Turned(Felt, key, down)

Pausing ==
  LET n == Len(coming) IN
  /\ n \in 1..6 /\ \A i \in 1..n : coming[i] = PauseCodes[6 - n + i]
  /\ e0 = IF n \in {5, 2} THEN 2 ELSE 0
  /\ held \cap Ctrl = {}
  /\ Felt = (held \cap Modifiers) \cup (IF n \in 2..4 THEN {"rctrl"} ELSE {})

KeyTypes ==
  /\ keys \subseteq Modifiers \cup OtherKeys /\ held \subseteq keys
  /\ coming \in Seq(Scans)
OnItsWay ==
  \/ coming = <<>> /\ e0 = 0 /\ Felt = held \cap Modifiers
  \/ \E key \in keys \ {"pause"}, down \in BOOLEAN : LastOf(key, down)
  \/ Pausing
KInv == KeyTypes /\ OnItsWay

(* The modifier that a scan code means.                                    *)
Means(routine, down) ==
  IF routine = "ctrl" THEN Side("lctrl", "rctrl", down)
  ELSE IF routine = "alt" THEN Side("lalt", "ralt", down) ELSE routine

LEMMA Sends ==
  ASSUME NEW key \in Modifiers \cup OtherKeys, NEW down \in BOOLEAN
  PROVE  /\ Routine(key) \in Routines
         /\ Routine(key) \notin {"e0", "e1"}
BY DEF Modifiers, Shift, OtherKeys, Routine, Routines

LEMMA PauseSends ==
  /\ PauseCodes \in Seq(Scans) /\ Len(PauseCodes) = 6
  /\ PauseCodes[1][1] = "e1" /\ PauseCodes[4][1] = "e1"
  /\ PauseCodes[2] = <<"ctrl", TRUE>> /\ PauseCodes[3] = <<"num", TRUE>>
  /\ PauseCodes[5] = <<"ctrl", FALSE>> /\ PauseCodes[6] = <<"num", FALSE>>
<1> DEFINE a == <<"e1", TRUE>>  b == <<"ctrl", TRUE>>  c == <<"num", TRUE>>
           d == <<"ctrl", FALSE>>  e == <<"num", FALSE>>
<1>1. a \in Scans /\ b \in Scans /\ c \in Scans /\ d \in Scans /\ e \in Scans
  BY DEF Scans, Routines, OtherKeys
<1>2. PauseCodes = <<a, b, c, a, d, e>>
  BY DEF PauseCodes
<1>3. PauseCodes \in Seq(Scans) /\ Len(PauseCodes) = 6
  <2> HIDE DEF a, b, c, d, e
  <2> QED BY <1>1, <1>2
<1>4. PauseCodes[1] = a /\ PauseCodes[4] = a /\ PauseCodes[2] = b /\ PauseCodes[3] = c
      /\ PauseCodes[5] = d /\ PauseCodes[6] = e
  BY <1>2
<1> QED BY <1>3, <1>4

(* What a key sends is on its way: the invariant, with the fingers already *)
(* where they are and the driver still where it was.                       *)
LEMMA Sent ==
  ASSUME KInv, coming = <<>>, NEW key \in keys, NEW down \in BOOLEAN, keys' = keys, mode' = mode, e0' = e0,
         coming' = Codes(key, down), held' = IF down THEN held \cup {key} ELSE held \ {key},
         key = "pause" /\ down => held \cap Ctrl = {}
  PROVE  KInv'
<1>1. keys \subseteq Modifiers \cup OtherKeys /\ held \subseteq keys
  BY DEF KInv, KeyTypes
<1>2. e0 = 0 /\ Felt = held \cap Modifiers
  <2>1. Len(coming) = 0
    OBVIOUS
  <2>2. ~Pausing /\ \A k \in keys, d \in BOOLEAN : ~LastOf(k, d)
    BY <2>1 DEF Pausing, LastOf
  <2> QED BY <2>2 DEF KInv, OnItsWay
<1>3. Felt' = Felt
  BY DEF Felt
<1>4. CASE key = "pause" /\ down
  <2>1. coming' = PauseCodes
    BY <1>4 DEF Codes
  <2>2. KeyTypes'
    BY <1>1, <1>4, <2>1, PauseSends DEF KeyTypes
  <2>3. held' \cap Modifiers = held \cap Modifiers /\ held' \cap Ctrl = {}
    BY <1>4 DEF Modifiers, Ctrl
  <2>4. Len(coming') = 6
    BY <2>1, PauseSends
  <2>5. \A i \in 1..6 : coming'[i] = PauseCodes[6 - 6 + i]
    BY <2>1
  <2>6. Pausing'
    BY <1>2, <1>3, <2>3, <2>4, <2>5 DEF Pausing
  <2> QED BY <2>2, <2>6 DEF KInv, OnItsWay
<1>5. CASE key = "pause" /\ ~down
  <2>1. coming' = <<>>
    BY <1>5 DEF Codes
  <2>2. KeyTypes'
    <3>1. coming' \in Seq(Scans)
      BY <2>1
    <3> QED BY <1>1, <1>5, <3>1 DEF KeyTypes
  <2>3. held' \cap Modifiers = held \cap Modifiers
    BY <1>5 DEF Modifiers
  <2> QED BY <1>2, <1>3, <2>1, <2>2, <2>3 DEF KInv, OnItsWay
<1>6. CASE key # "pause"
  <2> DEFINE last == <<Routine(key), down>>  prefix == <<"e0", TRUE>>
  <2>1. last \in Scans /\ prefix \in Scans
    BY <1>1, Sends DEF Scans, Routines
  <2>2. held' \cap Modifiers = Turned(Felt', key, down)
    BY <1>2, <1>3 DEF Turned
  <2>3. CASE key \in Prefixed
    <3>1. coming' = <<prefix, last>>
      BY <1>6, <2>3 DEF Codes
    <3>2. coming' \in Seq(Scans) /\ Len(coming') = 2 /\ coming'[2] = last /\ coming'[1] = prefix
      <4> HIDE DEF last, prefix
      <4> QED BY <2>1, <3>1
    <3>3. LastOf(key, down)'
      BY <1>2, <2>2, <2>3, <3>2 DEF LastOf
    <3>4. KeyTypes'
      BY <1>1, <3>2 DEF KeyTypes
    <3> QED BY <1>6, <3>3, <3>4 DEF KInv, OnItsWay
  <2>4. CASE key \notin Prefixed
    <3>1. coming' = <<last>>
      BY <1>6, <2>4 DEF Codes
    <3>2. coming' \in Seq(Scans) /\ Len(coming') = 1 /\ coming'[1] = last
      <4> HIDE DEF last
      <4> QED BY <2>1, <3>1
    <3>3. LastOf(key, down)'
      BY <1>2, <2>2, <2>4, <3>2 DEF LastOf
    <3>4. KeyTypes'
      BY <1>1, <3>2 DEF KeyTypes
    <3> QED BY <1>6, <3>3, <3>4 DEF KInv, OnItsWay
  <2> QED BY <2>3, <2>4
<1> QED BY <1>4, <1>5, <1>6

(* A code changes at most the modifier it means.                           *)
LEMMA Handled ==
  ASSUME NEW routine \in Routines, NEW down \in BOOLEAN, Handle(routine, down)
  PROVE  Felt' = Turned(Felt, Means(routine, down), down)
<1> USE DEF Felt, Turned
<1>1. CASE routine \in {"ctrl", "alt"} \cup Shift
  <2>1. PICK m \in Modifiers : Modifier(m, down) /\ m = Means(routine, down)
    BY <1>1 DEF Handle, Means, Side, Modifiers, Shift
  <2> QED BY <2>1 DEF Modifier
<1>2. CASE routine \notin {"ctrl", "alt"} \cup Shift
  <2>2. Means(routine, down) \notin Modifiers
    BY <1>2 DEF Means, Modifiers, Shift, Routines, OtherKeys
  <2>3. CASE routine = "caps"
    <3>1. CapsLock(down)
      BY <2>3 DEF Handle, Shift
    <3> QED BY <3>1, <2>2 DEF CapsLock, Modifiers
  <2>4. CASE routine # "caps"
    <3>1. mode' = mode
      BY <1>2, <2>4 DEF Handle, Light, Cursor, Function, PutQueue
    <3> QED BY <3>1, <2>2
  <2> QED BY <2>3, <2>4
<1> QED BY <1>1, <1>2

(* The rest of what is on its way.                                         *)
LEMMA Rest ==
  ASSUME KeyTypes, coming # <<>>, coming' = Tail(coming)
  PROVE  /\ coming' \in Seq(Scans) /\ Len(coming') = Len(coming) - 1 /\ Len(coming) \in Nat \ {0}
         /\ Head(coming) = coming[1] /\ \A i \in 1..Len(coming) - 1 : coming'[i] = coming[i + 1]
         /\ coming[1] \in Scans
BY DEF KeyTypes

(* The interrupt of a prefix, and that of a key's routine.                 *)
LEMMA Prefixes ==
  ASSUME KeyTypes, Interrupt, NEW p \in {"e0", "e1"}, coming[1][1] = p
  PROVE  e0' = (IF p = "e0" THEN 1 ELSE 2) /\ mode' = mode
BY Rest DEF Interrupt

LEMMA Acts ==
  ASSUME KeyTypes, Interrupt, NEW routine \in Routines \ {"e0", "e1"}, NEW down \in BOOLEAN,
         coming[1] = <<routine, down>>
  PROVE  e0' = 0 /\ Felt' = Turned(Felt, Means(routine, down), down)
<1>1. Head(coming)[1] = routine /\ Head(coming)[2] = down
  BY Rest DEF Interrupt
<1>2. Handle(routine, down) /\ e0' = 0
  BY <1>1 DEF Interrupt
<1> QED BY <1>2, Handled

LEMMA LastCode ==
  ASSUME KInv, Interrupt, NEW key \in keys \ {"pause"}, NEW down \in BOOLEAN, LastOf(key, down)
  PROVE  KInv'
<1>1. KeyTypes /\ key \in Modifiers \cup OtherKeys /\ held' = held /\ keys' = keys
      /\ coming # <<>> /\ coming' = Tail(coming)
  BY DEF KInv, KeyTypes, Interrupt
<1>2. KeyTypes'
  BY <1>1, Rest DEF KeyTypes
<1>3. CASE Len(coming) = 1
  <2>1. coming[1] = <<Routine(key), down>> /\ e0 = IF key \in Prefixed THEN 1 ELSE 0
    BY <1>3 DEF LastOf
  <2>2. e0' = 0 /\ Felt' = Turned(Felt, Means(Routine(key), down), down)
    BY <1>1, <2>1, Acts, Sends
  <2>3. Turned(Felt, Means(Routine(key), down), down) = Turned(Felt, key, down)
    <3>1. key \in Modifiers => Means(Routine(key), down) = key
      BY <1>1, <2>1 DEF Modifiers, OtherKeys, Routine, Means, Side, Prefixed
    <3>2. key \notin Modifiers => Means(Routine(key), down) \notin Modifiers
      BY <1>1 DEF Modifiers, OtherKeys, Routine, Means, Side
    <3> QED BY <3>1, <3>2 DEF Turned, Felt
  <2>4. coming' = <<>>
    BY <1>1, <1>3, Rest
  <2>5. Felt' = held' \cap Modifiers
    BY <1>1, <2>2, <2>3 DEF LastOf
  <2> QED BY <1>2, <2>2, <2>4, <2>5 DEF KInv, OnItsWay
<1>4. CASE Len(coming) # 1
  <2>1. Len(coming) = 2 /\ e0 = 0 /\ key \in Prefixed /\ coming[1][1] = "e0"
    BY <1>4 DEF LastOf
  <2>2. e0' = 1 /\ mode' = mode
    BY <1>1, <2>1, Prefixes
  <2>3. Len(coming') = 1 /\ coming'[1] = coming[2]
    <3>1. Len(coming') = Len(coming) - 1 /\ \A i \in 1..Len(coming) - 1 : coming'[i] = coming[i + 1]
      BY <1>1, Rest
    <3>2. 1 \in 1..Len(coming) - 1
      BY <2>1
    <3> QED BY <2>1, <3>1, <3>2
  <2>4. coming'[Len(coming')] = <<Routine(key), down>>
    BY <2>1, <2>3 DEF LastOf
  <2>5. LastOf(key, down)'
    BY <1>1, <2>1, <2>2, <2>3, <2>4 DEF LastOf, Felt
  <2> QED BY <1>1, <1>2, <2>5 DEF KInv, OnItsWay
<1> QED BY <1>3, <1>4

LEMMA PauseGoesOn ==
  ASSUME KeyTypes', NEW n \in 2..6, Len(coming') = n - 1,
         \A i \in 1..n - 1 : coming'[i] = PauseCodes[7 - n + i],
         e0' = IF n \in {6, 3} THEN 2 ELSE 0, held' \cap Ctrl = {},
         Felt' = (held' \cap Modifiers) \cup (IF n \in 3..5 THEN {"rctrl"} ELSE {})
  PROVE  KInv'
<1>1. \A i \in 1..n - 1 : coming'[i] = PauseCodes[6 - (n - 1) + i]
  OBVIOUS
<1>2. Pausing'
  BY <1>1 DEF Pausing
<1> QED BY <1>2 DEF KInv, OnItsWay

LEMMA PauseCode ==
  ASSUME KInv, Interrupt, Pausing
  PROVE  KInv'
<1>1. KeyTypes /\ held' = held /\ keys' = keys /\ coming # <<>> /\ coming' = Tail(coming)
  BY DEF KInv, Interrupt
<1>2. KeyTypes'
  BY <1>1, Rest DEF KeyTypes
<1>3. PICK n \in 1..6 : n = Len(coming)
  BY DEF Pausing
<1>4. /\ \A i \in 1..n : coming[i] = PauseCodes[6 - n + i]
      /\ e0 = (IF n \in {5, 2} THEN 2 ELSE 0) /\ held \cap Ctrl = {}
      /\ Felt = (held \cap Modifiers) \cup (IF n \in 2..4 THEN {"rctrl"} ELSE {})
  BY <1>3 DEF Pausing
<1>5. Len(coming') = n - 1 /\ \A i \in 1..n - 1 : coming'[i] = coming[i + 1]
  BY <1>1, <1>3, Rest
<1>6. \A i \in 1..n - 1 : coming'[i] = PauseCodes[7 - n + i]
  <2> SUFFICES ASSUME NEW i \in 1..n - 1 PROVE coming'[i] = PauseCodes[7 - n + i]
    OBVIOUS
  <2>1. i + 1 \in 1..n /\ 6 - n + (i + 1) = 7 - n + i
    OBVIOUS
  <2> QED BY <1>4, <1>5, <2>1
<1>7. coming[1] = PauseCodes[7 - n]
  <2>1. 6 - n + 1 = 7 - n /\ 1 \in 1..n
    OBVIOUS
  <2> QED BY <1>4, <2>1
<1>8. CASE n \in {6, 3}
  <2>1. coming[1][1] = "e1"
    <3>1. 7 - n \in {1, 4}
      BY <1>8
    <3> QED BY <1>7, <3>1, PauseSends
  <2>2. e0' = 2 /\ Felt' = Felt
    BY <1>1, <2>1, Prefixes DEF Felt
  <2> QED BY <1>1, <1>2, <1>4, <1>5, <1>6, <1>8, <2>2, PauseGoesOn
<1>9. CASE n \in {5, 2}
  <2>1. coming[1] = <<"ctrl", n = 5>>
    <3>1. (n = 5 /\ 7 - n = 2) \/ (n = 2 /\ 7 - n = 5)
      BY <1>9
    <3> QED BY <1>7, <3>1, PauseSends
  <2>2. e0' = 0 /\ Felt' = Turned(Felt, Means("ctrl", n = 5), n = 5)
    BY <1>1, <2>1, Acts DEF Routines
  <2>3. Means("ctrl", n = 5) = "rctrl"
    BY <1>4, <1>9 DEF Means, Side
  <2>4. Felt' = (held \cap Modifiers) \cup (IF n = 5 THEN {"rctrl"} ELSE {})
    BY <1>4, <1>9, <2>2, <2>3 DEF Turned, Ctrl, Modifiers
  <2>5. Felt' = (held' \cap Modifiers) \cup (IF n \in 3..5 THEN {"rctrl"} ELSE {})
    BY <1>1, <1>9, <2>4
  <2>6. e0' = (IF n \in {6, 3} THEN 2 ELSE 0) /\ n \in 2..6
    BY <1>9, <2>2
  <2> QED BY <1>1, <1>2, <1>4, <1>5, <1>6, <2>5, <2>6, PauseGoesOn
<1>10. CASE n \in {4, 1}
  <2>1. coming[1] = <<"num", n = 4>>
    <3>1. (n = 4 /\ 7 - n = 3) \/ (n = 1 /\ 7 - n = 6)
      BY <1>10
    <3> QED BY <1>7, <3>1, PauseSends
  <2>2. e0' = 0 /\ Felt' = Felt
    <3>1. e0' = 0 /\ Felt' = Turned(Felt, "num", n = 4)
      BY <1>1, <2>1, Acts DEF Routines, OtherKeys, Means
    <3> QED BY <3>1 DEF Turned, Felt, Modifiers
  <2>3. CASE n = 4
    <3>1. Felt' = (held' \cap Modifiers) \cup (IF n \in 3..5 THEN {"rctrl"} ELSE {})
      BY <1>1, <1>4, <2>2, <2>3
    <3>2. e0' = (IF n \in {6, 3} THEN 2 ELSE 0) /\ n \in 2..6
      BY <2>2, <2>3
    <3> QED BY <1>1, <1>2, <1>4, <1>5, <1>6, <3>1, <3>2, PauseGoesOn
  <2>4. CASE n = 1
    <3>1. coming' = <<>>
      BY <1>2, <1>5, <2>4 DEF KeyTypes
    <3> QED BY <1>1, <1>2, <1>4, <2>2, <2>4, <3>1 DEF KInv, OnItsWay
  <2> QED BY <1>10, <2>3, <2>4
<1> QED BY <1>8, <1>9, <1>10

LEMMA KInvInit == KeyInit => KInv
<1> SUFFICES ASSUME KeyInit PROVE KInv
  OBVIOUS
<1>1. keys \subseteq Modifiers \cup OtherKeys
  BY HandsAssumption DEF KeyInit
<1>2. coming = <<>> /\ coming \in Seq(Scans)
  BY DEF KeyInit
<1> QED BY <1>1, <1>2 DEF KeyInit, KInv, KeyTypes, OnItsWay, Felt

LEMMA KInvNext == KInv /\ [KeyNext]_keyVars => KInv'
<1> SUFFICES ASSUME KInv, [KeyNext]_keyVars PROVE KInv'
  OBVIOUS
<1>1. CASE Press
  <2>1. PICK key \in keys :
          /\ coming = <<>> /\ coming' = Codes(key, TRUE) /\ held' = held \cup {key}
          /\ key = "pause" => held \cap Ctrl = {}
          /\ UNCHANGED <<keys, mode, e0>>
    BY <1>1 DEF Press
  <2> QED BY <2>1, Sent
<1>2. CASE Release
  <2>1. PICK key \in held :
          /\ coming = <<>> /\ coming' = Codes(key, FALSE) /\ held' = held \ {key}
          /\ UNCHANGED <<keys, mode, e0>>
    BY <1>2 DEF Release
  <2>2. key \in keys
    BY <2>1 DEF KInv, KeyTypes
  <2> QED BY <2>1, <2>2, Sent
<1>3. CASE Interrupt
  <2>1. coming # <<>>
    BY <1>3 DEF Interrupt
  <2>2. CASE Pausing
    BY <1>3, <2>2, PauseCode
  <2>3. CASE ~Pausing
    <3>1. PICK key \in keys \ {"pause"}, down \in BOOLEAN : LastOf(key, down)
      BY <2>1, <2>3 DEF KInv, OnItsWay
    <3> QED BY <1>3, <3>1, LastCode
  <2> QED BY <2>2, <2>3
<1>4. CASE Cook1 \/ UNCHANGED keyVars
  <2>1. UNCHANGED <<keys, mode, e0, held, coming>>
    BY <1>4 DEF Cook1, keyVars
  <2>2. KeyTypes'
    BY <2>1 DEF KInv, KeyTypes
  <2>3. OnItsWay'
    BY <2>1 DEF KInv, OnItsWay, LastOf, Pausing, Felt
  <2> QED BY <2>2, <2>3 DEF KInv
<1> QED BY <1>1, <1>2, <1>3, <1>4 DEF KeyNext

(* keyboard.S: when everything that was sent has been handled, Ctrl, Alt   *)
(* and Shift are down for the driver exactly if they are down, on each     *)
(* side, for any hands that use them in any order.                         *)
THEOREM ModifiersHeldAlways == KeySpec => []ModifiersHeld
<1>1. KInv => ModifiersHeld
  <2> SUFFICES ASSUME KInv, coming = <<>> PROVE mode \cap Modifiers = held \cap Modifiers
    BY DEF ModifiersHeld
  <2>1. Len(coming) = 0
    OBVIOUS
  <2>2. ~Pausing /\ \A k \in keys, d \in BOOLEAN : ~LastOf(k, d)
    BY <2>1 DEF Pausing, LastOf
  <2> QED BY <2>2 DEF KInv, OnItsWay, Felt
<1> QED BY <1>1, KInvInit, KInvNext, PTL DEF KeySpec
================================================================================
