------------------------------- MODULE Keyboard ------------------------------
(* The keyboard interrupt, kernel/chr_drv/keyboard.S: one scan code at a time, *)
(* with the state of the modifier keys in mode, of the lights in leds, and the *)
(* prefix seen last in e0; and put_queue, which gives the terminal in front    *)
(* the characters of a key, up to eight of them, or none.                      *)
(*                                                                             *)
(* A scan code is a pair of the routine key_table names, "e0" and "e1" among   *)
(* them, and whether the key goes down.  Which letter a key gives is left out. *)
EXTENDS Integers, Sequences, FiniteSets

CONSTANTS Hands,       \* the sets of keys in use, see Codes
          MaxHeld,     \* bound on the keys that are down at once, of the model
          QueueSize,   \* TTY_BUF_SIZE
          ConsoleKeys  \* the consoles the function keys can bring to the front

ASSUME RoomForOne == QueueSize \in Nat \ {0} /\ 0 \in ConsoleKeys

VARIABLES keys,            \* the keys in use
          mode, leds, e0,  \* the three bytes of the driver
          held,            \* the keys that are down
          coming,          \* the scan codes on their way
          kq,              \* read_q of each console: [of, part] of every character
          front,           \* fg_console
          halted           \* the machine was told to start again

keyVars == <<keys, mode, leds, e0, held, coming, kq, front, halted>>

\* External: what the keyboard sends for a key.  Two keys with the same function
\* differ by the prefix e0; Pause sends a key it does not have after e1.
Prefixed == {"rctrl", "ralt", "arrow", "slash"}
Routine(key) ==
  CASE key \in {"lctrl", "rctrl"} -> "ctrl" [] key \in {"lalt", "ralt"} -> "alt"
    [] key = "arrow" -> "cursor" [] key = "slash" -> "minus" [] OTHER -> key
PauseCodes == <<<<"e1", TRUE>>, <<"ctrl", TRUE>>, <<"num", TRUE>>,
                <<"e1", TRUE>>, <<"ctrl", FALSE>>, <<"num", FALSE>>>>
Codes(key, down) ==
  IF key = "pause" THEN IF down THEN PauseCodes ELSE <<>>
  ELSE IF key \in Prefixed THEN <<<<"e0", TRUE>>, <<Routine(key), down>>>>
  ELSE <<<<Routine(key), down>>>>

Modifiers == {"lshift", "rshift", "lctrl", "rctrl", "lalt", "ralt"}
OtherKeys == {"self", "minus", "slash", "caps", "num", "scroll", "del", "arrow", "func", "pause"}
ASSUME HandsAssumption == Hands \subseteq SUBSET (Modifiers \cup OtherKeys)
Ctrl == {"lctrl", "rctrl"}
Alt == {"lalt", "ralt"}
Shift == {"lshift", "rshift"}

KeyInit ==
  /\ keys \in Hands
  /\ mode = {} /\ leds = {"num"} /\ e0 = 0
  /\ held = {} /\ coming = <<>>
  /\ kq = [c \in ConsoleKeys |-> <<>>]
  /\ front = 0 /\ halted = FALSE

------------------------------------------------------------------------------
(* The keyboard itself: keys go down, repeat and come up.                      *)

Press ==
  \E k \in keys :
    /\ coming = <<>>
    /\ k = "pause" => held \cap Ctrl = {}
    /\ held' = held \cup {k} /\ Cardinality(held') <= MaxHeld
    /\ coming' = Codes(k, TRUE)
    /\ UNCHANGED <<keys, mode, leds, e0, kq, front, halted>>

Release ==
  \E k \in held :
    /\ coming = <<>>
    /\ held' = held \ {k}
    /\ coming' = Codes(k, FALSE)
    /\ UNCHANGED <<keys, mode, leds, e0, kq, front, halted>>

------------------------------------------------------------------------------
(* The interrupt.                                                              *)

\* put_queue: head moves when all the characters are in, or not at all.
Queued(q, n) ==
  IF Len(q) + n <= QueueSize - 1 THEN q \o [i \in 1 .. n |-> [of |-> n, part |-> i]] ELSE q

PutQueue(n) ==
  /\ kq' = [kq EXCEPT ![front] = Queued(@, n)]
  /\ UNCHANGED <<mode, leds, front, halted>>

\* mutant: the prefix is forgotten when a key comes up
Side_left(left, right, down) == IF down /\ e0 # 0 THEN right ELSE left
\* ctrl, alt, unctrl and unalt: a prefix means the key on the right.
Side(left, right, down) == IF e0 # 0 THEN right ELSE left

Modifier(m, down) ==
  /\ mode' = IF down THEN mode \cup {m} ELSE mode \ {m}
  /\ UNCHANGED <<leds, kq, front, halted>>

\* caps: once for a press, however often the key repeats.
CapsLock(down) ==
  /\ mode' = IF ~down THEN mode \ {"capsDown"}
             ELSE IF "capsDown" \in mode THEN mode
             ELSE (IF "caps" \in mode THEN mode \ {"caps"} ELSE mode \cup {"caps"})
                    \cup {"capsDown"}
  /\ leds' = IF ~down \/ "capsDown" \in mode THEN leds
             ELSE IF "caps" \in leds THEN leds \ {"caps"} ELSE leds \cup {"caps"}
  /\ UNCHANGED <<kq, front, halted>>

\* num and scroll: every make code, repeats too, turns the light over.
Light(l) ==
  /\ leds' = IF l \in leds THEN leds \ {l} ELSE leds \cup {l}
  /\ UNCHANGED <<mode, kq, front, halted>>

\* A key of the keypad, or the grey key with the same code: a digit, or ESC [ and
\* a letter, and a tilde after Insert, Delete and the page keys.
Cursor(del) ==
  IF del /\ mode \cap Ctrl # {} /\ mode \cap Alt # {}
  THEN halted' = TRUE /\ UNCHANGED <<mode, leds, kq, front>>
  ELSE IF e0 = 1 \/ "num" \notin leds \/ mode \cap Shift # {}
  THEN PutQueue(IF del THEN 4 ELSE 3)
  ELSE PutQueue(1)

\* A function key: with the left Alt another console, else four characters if
\* there is room.  The room is looked up in a register nobody has loaded.
Function ==
  IF "lalt" \in mode
  THEN \E n \in ConsoleKeys : front' = n /\ UNCHANGED <<mode, leds, kq, halted>>
  ELSE PutQueue(4) \/ UNCHANGED <<mode, leds, kq, front, halted>>

\* key_table: the routine for a code; most do nothing when the key comes up.
Handle(routine, down) ==
  CASE routine = "ctrl" -> Modifier(Side("lctrl", "rctrl", down), down)
    [] routine = "alt" -> Modifier(Side("lalt", "ralt", down), down)
    [] routine \in Shift -> Modifier(routine, down)
    [] routine = "caps" -> CapsLock(down)
    [] routine \in {"num", "scroll"} /\ down -> Light(routine)
    [] routine = "cursor" /\ down -> Cursor(FALSE)
    [] routine = "del" /\ down -> Cursor(TRUE)
    [] routine = "func" /\ down -> Function
    [] routine \in {"self", "minus"} /\ down -> PutQueue(1)
    [] OTHER -> UNCHANGED <<mode, leds, kq, front, halted>>

Interrupt ==
  /\ coming # <<>> /\ ~halted
  /\ coming' = Tail(coming)
  /\ UNCHANGED <<keys, held>>
  /\ CASE Head(coming)[1] = "e0" -> e0' = 1 /\ UNCHANGED <<mode, leds, kq, front, halted>>
       [] Head(coming)[1] = "e1" -> e0' = 2 /\ UNCHANGED <<mode, leds, kq, front, halted>>
       [] OTHER -> e0' = 0 /\ Handle(Head(coming)[1], Head(coming)[2])

\* do_tty_interrupt takes characters out of read_q, as many as secondary has room
\* for: see Tty.
Cook1 ==
  \E c \in ConsoleKeys :
    /\ kq[c] # <<>>
    /\ kq' = [kq EXCEPT ![c] = Tail(@)]
    /\ UNCHANGED <<keys, mode, leds, e0, held, coming, front, halted>>

KeyNext == Press \/ Release \/ Interrupt \/ Cook1

KeySpec == KeyInit /\ [][KeyNext]_keyVars

------------------------------------------------------------------------------
(* Properties.                                                                 *)

\* Between two keys the driver has the same idea of the modifier keys as the
\* fingers: no Ctrl, Alt or Shift stays stuck, whichever of the two keys came
\* down or up first and whatever other keys with prefixes came in between.
ModifiersHeld ==
  coming = <<>> => mode \cap Modifiers = held \cap Modifiers

=============================================================================
