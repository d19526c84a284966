----------------------------- MODULE MCTerminals -----------------------------
(* The terminals, the console and the keyboard, each checked on its own: part  *)
(* says which of them a behaviour is about.                                    *)
EXTENDS Tty, Console, Keyboard

VARIABLE part

Names == {"ser", "mst", "slv", "con", "con2"}
WiringsDef == {{"con"}, {"con2"}, {"ser"}, {"mst", "slv"}}
DriverDef == [d \in Names |->
  CASE d = "ser" -> "serial" [] d \in {"con", "con2"} -> "console" [] OTHER -> "pty"]
OtherDef == [mst |-> "slv", slv |-> "mst"]
OpenedDef == [t \in Users |->
  {"ser", "con", "con2"} \cup IF t = "t1" THEN {"slv"} ELSE {"mst"}]
TextsDef == [d \in Names |->
  CASE d = "con" -> {} [] d \in {"con2", "mst"} -> {<<"nl">>} [] OTHER -> {<<"a">>}]
KeysDef == [d \in Names |->
  CASE d = "con" -> {"a", "nl", "erase", "kill"}
    [] d = "con2" -> {"eof", "intr", "stop", "start"}
    [] OTHER -> {"nl"}]
Canon == [flags |-> {"ICANON", "ISIG", "IXON"}, min |-> 0, time |-> FALSE]
Echo == [Canon EXCEPT !.flags = @ \cup {"ECHO", "ONLCR", "ICRNL"}]
Raw == [flags |-> {}, min |-> 2, time |-> TRUE]
Timed == [flags |-> {}, min |-> 0, time |-> TRUE]
SettingsDef == [d \in Names |->
  CASE d = "ser" -> {Canon, Raw}
    [] d = "mst" -> {Timed}
    [] d \in {"con", "con2"} -> {Echo}
    [] OTHER -> {Canon}]
GroupDef == [t \in Users |-> IF t = "t1" THEN 0 ELSE 1]
ControlTtyDef == [t \in Users |-> "con"]

All == {"a", "nl", "cr", "del", "bs", "tab", "can", "esc", "[", "?", ";", "2", "E", "M", "D",
        "7", "8", "#", "c", "A", "B", "C", "H", "J", "K", "L", "P", "r", "u"}
SetupsDef == {[consoles |-> 1, ega |-> TRUE, chars |-> All],
              [consoles |-> 1, ega |-> FALSE,
               chars |-> (All \ {"7", "u", "8", "c"}) \cup {"1", "9"}],
              [consoles |-> 2, ega |-> TRUE, chars |-> {"a", "nl"}]}

HandsDef == {{"lctrl", "rctrl", "lalt", "ralt", "del"},
             {"rctrl", "lalt", "func", "arrow"},
             {"rshift", "caps", "arrow", "pause", "self"}}

Init ==
  /\ part \in {"tty", "console", "keyboard"}
  /\ IF part = "tty" THEN TtyInit ELSE tty = <<>> /\ crFlag = FALSE /\ sig = {}
                                       /\ asleep = <<>> /\ call = <<>> /\ cpu = Lost
  /\ IF part = "console" THEN ConsoleInit
     ELSE /\ setup = CHOOSE s \in Setups : TRUE
          /\ cons = [n \in {0} |-> NewConsole(n)] /\ fg = 0
          /\ hwOrigin = 0 /\ hwCursor = 0 /\ touched = [by |-> 0, cells |-> {}]
  /\ IF part = "keyboard" THEN KeyInit
     ELSE /\ keys = {} /\ mode = {} /\ leds = {} /\ e0 = 0 /\ held = {} /\ coming = <<>>
          /\ kq = [c \in ConsoleKeys |-> <<>>] /\ front = 0 /\ halted = FALSE

Next ==
  /\ UNCHANGED part
  /\ \/ part = "tty" /\ TtyNext /\ UNCHANGED <<consoleVars, keyVars>>
     \/ part = "console" /\ ConsoleNext /\ UNCHANGED <<ttyVars, keyVars>>
     \/ part = "keyboard" /\ KeyNext /\ UNCHANGED <<ttyVars, consoleVars>>

Spec == Init /\ [][Next]_<<part, ttyVars, consoleVars, keyVars>>
==============================================================================
