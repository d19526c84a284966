------------------------------- MODULE Console -------------------------------
(* The console driver, kernel/chr_drv/console.c: the parser of con_write, what *)
(* its sequences do to the cursor, the scroll region and the video memory, the *)
(* kernel's own console_print, and the switch between virtual consoles.        *)
(*                                                                             *)
(* Every console owns ConsoleMem cells of the video memory.  The screen shows  *)
(* the Lines rows of Columns cells from origin on; on an EGA or VGA a scroll   *)
(* of the whole screen only moves the origin, until the end of the memory is   *)
(* reached and the screen is copied to the start.  Addresses count cells.      *)
(* What the cells hold is left out: touched is the set of cells the last       *)
(* character changed.  One character is one step.                              *)
EXTENDS Integers, Sequences, FiniteSets

CONSTANTS Columns, Lines,  \* video_num_columns, video_num_lines
          TabStop,         \* 8
          ConsoleMem,      \* the cells of a console
          NPAR,            \* the parameters a sequence may have
          MaxPar,          \* bound on a parameter, of the model
          Setups           \* [consoles, ega, chars]: systems to look at

ASSUME ScreenFits == /\ {Columns, Lines, TabStop, NPAR, MaxPar} \subseteq Nat \ {0}
                     /\ ConsoleMem \in Nat /\ ConsoleMem >= Lines * Columns
                     /\ TabStop <= Columns /\ NPAR > 1
                     /\ \A s \in Setups : s.consoles \in Nat \ {0}

VARIABLES setup,     \* the system: how many consoles, which adapter, which input
          cons,      \* vc_cons
          fg,        \* fg_console
          hwOrigin,  \* the registers of the controller: start of the screen
          hwCursor,  \* and place of the cursor
          touched    \* the cells the last step wrote, and whose they should be

consoleVars == <<setup, cons, fg, hwOrigin, hwCursor, touched>>

Start0(n) == n * ConsoleMem
MemEnd(n) == (n + 1) * ConsoleMem

NoPars == [i \in 0 .. NPAR - 1 |-> 0]

\* con_init, for one console.
NewConsole(n) ==
  [no |-> n, x |-> 0, y |-> 0, pos |-> Start0(n),
   origin |-> Start0(n), end |-> Start0(n) + Lines * Columns,
   top |-> 0, bottom |-> Lines, state |-> "normal", par |-> NoPars, npar |-> 0,
   ques |-> FALSE, savedX |-> 0, savedY |-> 0, wrote |-> {}]

ConsoleInit ==
  /\ setup \in Setups
  /\ cons = [n \in 0 .. setup.consoles - 1 |-> NewConsole(n)]
  /\ fg = 0
  /\ hwOrigin = 0 /\ hwCursor = 0
  /\ touched = [by |-> 0, cells |-> {}]

------------------------------------------------------------------------------
(* The cursor and the screen: k is a console, the results are consoles.        *)

\* rep stosw and rep movsl: a count below zero would go through all the memory.
Cells(start, count) ==
  IF count < 0 THEN {-1} ELSE start .. start + count - 1
Touch(k, start, count) == [k EXCEPT !.wrote = @ \cup Cells(start, count)]

\* gotoxy: its arguments are compared without a sign.
GotoXY(k, nx, ny) ==
  IF nx \notin 0 .. Columns \/ ny \notin 0 .. Lines - 1 THEN k
  ELSE [k EXCEPT !.x = nx, !.y = ny, !.pos = k.origin + ny * Columns + nx]

\* mutant: the cursor stays where it was when the screen is copied to the start
Rewound_cursor(k) ==
  [k EXCEPT !.end = @ - (k.origin - Start0(k.no)), !.origin = Start0(k.no)]
\* The screen, at the end of its memory, is copied to the start.
Rewound(k) ==
  [k EXCEPT !.end = @ - (k.origin - Start0(k.no)),
            !.pos = @ - (k.origin - Start0(k.no)),
            !.origin = Start0(k.no)]

Beyond(k) == k.end > MemEnd(k.no)

\* scrup: the whole screen of an EGA by its origin, anything else by copying.
ScrollUp(k) ==
  LET down == [k EXCEPT !.origin = @ + Columns, !.pos = @ + Columns, !.end = @ + Columns]
  IN IF k.bottom <= k.top THEN k
     ELSE IF setup.ega /\ k.top = 0 /\ k.bottom = Lines
          THEN IF Beyond(down)
               THEN Touch(Rewound(down), Start0(k.no), Lines * Columns)
               ELSE Touch(down, down.end - Columns, Columns)
     ELSE Touch(k, k.origin + k.top * Columns, (k.bottom - k.top) * Columns)

ScrollDown(k) ==
  IF k.bottom <= k.top THEN k
  ELSE Touch(k, k.origin + k.top * Columns, (k.bottom - k.top) * Columns)

LineFeed(k) ==
  IF k.y + 1 < k.bottom THEN [k EXCEPT !.y = @ + 1, !.pos = @ + Columns] ELSE ScrollUp(k)
ReverseIndex(k) ==
  IF k.y > k.top THEN [k EXCEPT !.y = @ - 1, !.pos = @ - Columns] ELSE ScrollDown(k)
CarriageReturn(k) == [k EXCEPT !.pos = @ - k.x, !.x = 0]
Delete(k) ==
  IF k.x = 0 THEN k
  ELSE Touch([k EXCEPT !.pos = @ - 1, !.x = @ - 1], k.pos - 1, 1)
BackSpace(k) == IF k.x = 0 THEN k ELSE [k EXCEPT !.x = @ - 1, !.pos = @ - 1]

\* The next line, with the cursor where it would be one row further.
Wrapped(k) == LineFeed([k EXCEPT !.x = @ - Columns, !.pos = @ - Columns])

\* A tab goes to the next tab stop.
HorizontalTab(k) ==
  LET c == TabStop - (k.x % TabStop)
      moved == [k EXCEPT !.x = @ + c, !.pos = @ + c]
  IN IF moved.x > Columns THEN Wrapped(moved) ELSE moved

PutChar(k) ==
  LET at == IF k.x >= Columns THEN Wrapped(k) ELSE k
  IN [Touch(at, at.pos, 1) EXCEPT !.pos = @ + 1, !.x = @ + 1]

EraseDisplay(k, par) ==
  CASE par = 0 -> Touch(k, k.pos, k.end - k.pos)
    [] par = 1 -> Touch(k, k.origin, k.pos - k.origin)
    [] par = 2 -> Touch(k, k.origin, Columns * Lines)
    [] OTHER -> k

EraseLine(k, par) ==
  CASE par = 0 -> IF k.x >= Columns THEN k ELSE Touch(k, k.pos, Columns - k.x)
    [] par = 1 -> Touch(k, k.pos - k.x, IF k.x < Columns THEN k.x ELSE Columns)
    [] par = 2 -> Touch(k, k.pos - k.x, Columns)
    [] OTHER -> k

\* The count of a repeated operation, at most max and at least one.
Count(par, max) == IF par > max THEN max ELSE IF par = 0 THEN 1 ELSE par

\* insert_line and delete_line scroll the part of the screen from the cursor on.
FromCursor(k) == [k EXCEPT !.top = k.y, !.bottom = Lines]
Region(k, old) == [k EXCEPT !.top = old.top, !.bottom = old.bottom]
InsertLines(k, n) == Region(ScrollDown(FromCursor(k)), k)
DeleteLine(k) == Region(ScrollUp(FromCursor(k)), k)
DeleteLines(k, n) ==
  LET after[i \in 0 .. n] == IF i = 0 THEN k ELSE DeleteLine(after[i - 1]) IN after[n]
\* insert_char and delete_char move the rest of the cursor's row.
ShiftRow(k) == IF k.x >= Columns THEN k ELSE Touch(k, k.pos, Columns - k.x)

SaveCursor(k) == [k EXCEPT !.savedX = k.x, !.savedY = k.y]
RestoreCursor(k) == GotoXY(k, k.savedX, k.savedY)

\* CSI r: a region the screen has.
SetRegion(k, first, last) ==
  LET t == IF first > 0 THEN first - 1 ELSE 0
      b == IF last = 0 THEN Lines ELSE last
  IN IF t < b /\ b <= Lines THEN [k EXCEPT !.top = t, !.bottom = b] ELSE k

------------------------------------------------------------------------------
(* con_write, for one character of write_q.                                    *)

Controls8 == {"esc", "nl", "cr", "del", "bs", "tab", "can"}
Digit(c) == CASE c = "0" -> 0 [] c = "1" -> 1 [] c = "2" -> 2 [] c = "9" -> 9 [] OTHER -> -1

Normal(k, c) ==
  CASE c \notin Controls8 -> PutChar(k)
    [] c = "esc" -> [k EXCEPT !.state = "esc"]
    [] c = "nl" -> LineFeed(k)
    [] c = "cr" -> CarriageReturn(k)
    [] c = "del" -> Delete(k)
    [] c = "bs" -> BackSpace(k)
    [] c = "tab" -> HorizontalTab(k)
    [] c = "can" -> k

\* After ESC.  ESC Z answers into the terminal's read_q, without a look at its room.
Escape(k0, c) ==
  LET k == [k0 EXCEPT !.state = "normal"]
  IN CASE c = "[" -> [k EXCEPT !.state = "square"]
       [] c = "E" -> GotoXY(k, 0, k.y + 1)
       [] c = "M" -> ReverseIndex(k)
       [] c = "D" -> LineFeed(k)
       [] c = "7" -> SaveCursor(k)
       [] c = "8" -> RestoreCursor(k)
       [] c \in {"(", ")", "P", "#"} -> [k EXCEPT !.state = "skip"]
       [] c = "c" -> [k EXCEPT !.top = 0, !.bottom = Lines]
       [] OTHER -> k

\* The final character of a control sequence, with its first two parameters (the
\* code takes a backquote as it takes G).
Final(k, c) ==
  LET p == k.par[0]
      q == k.par[1]
      one == Count(p, MaxPar)
      from0(v) == IF v > 0 THEN v - 1 ELSE 0
  IN CASE c = "G" -> GotoXY(k, from0(p), k.y)
       [] c = "A" -> GotoXY(k, k.x, k.y - one)
       [] c \in {"B", "e"} -> GotoXY(k, k.x, k.y + one)
       [] c \in {"C", "a"} -> GotoXY(k, k.x + one, k.y)
       [] c = "D" -> GotoXY(k, k.x - one, k.y)
       [] c = "E" -> GotoXY(k, 0, k.y + one)
       [] c = "F" -> GotoXY(k, 0, k.y - one)
       [] c = "d" -> GotoXY(k, k.x, from0(p))
       [] c \in {"H", "f"} -> GotoXY(k, from0(q), from0(p))
       [] c = "J" -> EraseDisplay(k, p)
       [] c = "K" -> EraseLine(k, p)
       [] c = "L" -> InsertLines(k, Count(p, Lines))
       [] c = "M" -> DeleteLines(k, Count(p, Lines))
       [] c \in {"P", "@"} -> ShiftRow(k)
       [] c = "r" -> SetRegion(k, p, q)
       [] c = "s" -> SaveCursor(k)
       [] c = "u" -> RestoreCursor(k)
       [] OTHER -> k

Parameters(k, c) ==
  CASE c = ";" /\ k.npar < NPAR - 1 -> [k EXCEPT !.npar = @ + 1]
    [] Digit(c) >= 0 -> [k EXCEPT !.par[k.npar] = 10 * @ + Digit(c)]
    [] OTHER -> LET got == [k EXCEPT !.state = "normal", !.ques = FALSE,
                                     !.npar = 0, !.par = NoPars]
                IN IF k.ques THEN got
                   ELSE [Final([k EXCEPT !.state = "normal"], c)
                           EXCEPT !.npar = 0, !.par = NoPars]

\* After ESC [: clear the parameters, then a function key, a private sequence, or
\* the first character of the parameters.
Square(k0, c) ==
  LET k == [k0 EXCEPT !.par = NoPars, !.npar = 0, !.ques = c = "?", !.state = "pars"]
  IN CASE c = "[" -> [k EXCEPT !.state = "skip"]
       [] c = "?" -> k
       [] OTHER -> Parameters(k, c)

Character(k0, c) ==
  LET k == IF c = "can" THEN [k0 EXCEPT !.state = "normal"] ELSE k0
  IN CASE k.state = "normal" -> Normal(k, c)
       [] k.state = "esc" -> Escape(k, c)
       [] k.state = "square" -> Square(k, c)
       [] k.state = "pars" -> Parameters(k, c)
       [] k.state = "skip" -> [k EXCEPT !.state = "normal"]

\* console_print: the kernel's text, past the parser.
Kernel(k, c) ==
  CASE c = "nl" -> LineFeed(CarriageReturn(k))
    [] c = "cr" -> CarriageReturn(k)
    [] OTHER -> PutChar(k)

------------------------------------------------------------------------------
\* set_origin and set_cursor reach the controller for the console in front only.
Shown(n) == n = fg

\* Console n becomes k: what was written, and what the controller is told.
Becomes(n, k) ==
  /\ cons' = [cons EXCEPT ![n] = [k EXCEPT !.wrote = {}]]
  /\ touched' = [by |-> n, cells |-> k.wrote]
  /\ hwOrigin' = IF setup.ega /\ Shown(n) /\ k.origin # cons[n].origin
                 THEN k.origin ELSE hwOrigin
  /\ hwCursor' = IF Shown(n) THEN k.pos ELSE hwCursor
  /\ UNCHANGED <<setup, fg>>

ConWrite ==
  \E n \in DOMAIN cons : \E c \in setup.chars :
    /\ Digit(c) >= 0 => 10 * cons[n].par[cons[n].npar] + Digit(c) <= MaxPar
    /\ Becomes(n, Character(cons[n], c))

ConsolePrint ==
  \E c \in setup.chars \cap {"a", "nl", "cr"} : Becomes(fg, Kernel(cons[fg], c))

\* change_console, from the keyboard interrupt: update_screen.
ChangeConsole ==
  \E n \in DOMAIN cons \ {fg} :
    /\ fg' = n
    /\ hwOrigin' = IF setup.ega THEN cons[n].origin ELSE hwOrigin
    /\ hwCursor' = cons[n].pos
    /\ touched' = [by |-> n, cells |-> {}]
    /\ UNCHANGED <<setup, cons>>

ConsoleNext == ConWrite \/ ConsolePrint \/ ChangeConsole

ConsoleSpec == ConsoleInit /\ [][ConsoleNext]_consoleVars

------------------------------------------------------------------------------
(* Properties.                                                                 *)

\* The driver keeps the cursor twice, as column and row and as an address, and
\* moves them separately: they name the same cell whatever sequences came, and
\* the column is at most one past the last, the row on the screen.
CursorInPlace ==
  \A n \in DOMAIN cons :
    LET k == cons[n]
    IN /\ k.pos = k.origin + k.y * Columns + k.x
       /\ k.x \in 0 .. Columns /\ k.y \in 0 .. Lines - 1
       /\ k.top < k.bottom /\ k.bottom <= Lines

=============================================================================
