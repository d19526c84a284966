--------------------------------- MODULE Tty ---------------------------------
(* The terminals: the line discipline of kernel/chr_drv/tty_io.c, its settings *)
(* in tty_ioctl.c, and the drivers below it: serial lines (serial.c, rs_io.s), *)
(* pseudo terminals (pty.c) and, as far as its queue goes, the console.        *)
(*                                                                             *)
(* A terminal has three ring buffers: read_q takes what the device sends,      *)
(* copy_to_cooked moves it into secondary, where tty_read finds it, and        *)
(* write_q holds what tty_write and the echo put there for the device.  A ring *)
(* of Size characters holds Size - 1; putting one more makes it look empty.    *)
(* The kernel runs one task at a time (cpu) until it sleeps or ends its call,  *)
(* and interrupts come between any two steps.                                  *)
EXTENDS Integers, Sequences, FiniteSets

CONSTANTS Users,      \* the tasks
          Opened,     \* the terminals each task has open
          Wirings,    \* the sets of terminals looked at, each a system of its own
          Driver,     \* "console", "serial" or "pty" of each terminal
          Other,      \* the other end of a pseudo terminal
          Slaves,     \* the pseudo terminals that are slaves
          Size,       \* TTY_BUF_SIZE
          Reserve,    \* the room a writer that found the queue full waits for (128)
          Restart,    \* a transmitter wakes the writer at so many characters (256)
          SmallRead,  \* a read of no more than this takes one character a time (10)
          Keys,       \* the characters the device of each terminal sends
          Texts,      \* what a task writes to each terminal
          Sizes,      \* the numbers of characters a task reads
          Settings,   \* the settings in use at each terminal: [flags, min, time]
          Controls,   \* the TCXONC arguments in use
          Group,      \* the process group of each task
          ControlTty, \* the controlling terminal of each task
          Orphaned    \* the process groups that are orphaned

ASSUME RingSizes == /\ {Size, Reserve, Restart} \subseteq Nat
                    /\ Reserve < Size /\ Restart + Reserve < Size

VARIABLES tty,     \* [terminal -> its queues and settings]
          crFlag,  \* the static cr_flag of tty_write
          sig,     \* the tasks with a signal that is not blocked
          asleep,  \* the queue each task sleeps on, or Awake
          call,    \* the call each task is in
          cpu      \* the task in the kernel, Nobody, or Lost

ttyVars == <<tty, crFlag, sig, asleep, call, cpu>>

Awake == <<>>
Nobody == "nobody"
Lost == "lost"
Outside == [op |-> "none"]
LineEnds == {"nl", "eof"}

Full(q) == Len(q) = Size - 1
Left(q) == Size - 1 - Len(q)
\* PUTCH does not look whether there is room: the head meets the tail.
PutCh(q, c) == IF Full(q) THEN <<>> ELSE Append(q, c)
RECURSIVE PutAll(_, _)
PutAll(q, s) == IF s = <<>> THEN q ELSE PutAll(PutCh(q, Head(s)), Tail(s))

Has(d, flag) == flag \in tty[d].set.flags

\* C_HUP of the master: its speed is zero.
HungUp(d) == d \in Slaves /\ Has(Other[d], "HUP")

Fresh(set) == [in |-> <<>>, cooked |-> <<>>, out |-> <<>>, lines |-> 0,
               stopped |-> FALSE, sending |-> FALSE, set |-> set, group |-> 0]

TtyInit ==
  /\ \E w \in Wirings :
       \E s \in {f \in [w -> UNION {Settings[d] : d \in w}] : \A d \in w : f[d] \in Settings[d]} :
         tty = [d \in w |-> Fresh(s[d])]
  /\ crFlag = FALSE
  /\ sig = {}
  /\ asleep = [t \in Users |-> Awake]
  /\ call = [t \in Users |-> Outside]
  /\ cpu = Nobody

------------------------------------------------------------------------------
(* The line discipline works on m, the terminals, the signals sent and the     *)
(* queues woken so far, on behalf of the task m.me.                            *)

Machine(t) == [tty |-> tty, sig |-> sig, woken |-> {}, me |-> t]

WakeUp(m, queue) == [m EXCEPT !.woken = @ \cup {queue}]

KillPg(m, g) == [m EXCEPT !.sig = @ \cup {t \in Users : Group[t] = g}]

\* The input translation, ICRNL, IGNCR and INLCR: what becomes of a character.
Translated(c, flags) ==
  CASE c = "cr" /\ "ICRNL" \in flags -> <<"nl">>
    [] c = "cr" /\ "IGNCR" \in flags -> <<>>
    [] c = "nl" /\ "INLCR" \in flags -> <<"cr">>
    [] OTHER -> <<c>>

Echoed(c) == CASE c = "nl" -> <<"nl", "cr">>
               [] c \in {"eof", "cr", "stop", "start", "intr"} -> <<"^", c>>
               [] OTHER -> <<c>>

RECURSIVE WriteOut(_, _), CopyToCooked(_, _), PtyCopy(_, _), KillLine(_, _)

Rubout(m, d) ==
  LET gone == IF Len(Echoed(m.tty[d].cooked[Len(m.tty[d].cooked)])) = 2
              THEN <<"del", "del">> ELSE <<"del">>
      shown == IF "ECHO" \in m.tty[d].set.flags
               THEN WriteOut([m EXCEPT !.tty[d].out = PutAll(@, gone)], d) ELSE m
  IN [shown EXCEPT !.tty[d].cooked = SubSeq(@, 1, Len(@) - 1)]

Erasable(q) == q # <<>> /\ q[Len(q)] \notin LineEnds

KillLine(m, d) ==
  IF Erasable(m.tty[d].cooked) THEN KillLine(Rubout(m, d), d) ELSE m

\* mutant: a line that ends with EOF is not counted
LineCount_eof(c) == IF c = "nl" THEN 1 ELSE 0
LineCount(c) == IF c \in LineEnds THEN 1 ELSE 0

\* A character that stands for itself is counted, echoed and put into secondary.
Keep(m, d, c) ==
  LET counted == [m EXCEPT !.tty[d].lines = @ + LineCount(c)]
      shown == IF "ECHO" \in m.tty[d].set.flags
               THEN WriteOut([counted EXCEPT !.tty[d].out = PutAll(@, Echoed(c))], d)
               ELSE counted
  IN [shown EXCEPT !.tty[d].cooked = PutCh(@, c)]

\* One round of the loop of copy_to_cooked, for character c of terminal d.
Cook(m, d, c) ==
  LET flags == m.tty[d].set.flags
  IN CASE c = "kill" /\ "ICANON" \in flags -> KillLine(m, d)
       [] c = "erase" /\ "ICANON" \in flags ->
            IF Erasable(m.tty[d].cooked) THEN Rubout(m, d) ELSE m
       [] c = "stop" /\ "IXON" \in flags ->
            WriteOut([m EXCEPT !.tty[d].stopped = TRUE], d)
       [] c = "start" /\ "IXON" \in flags ->
            WriteOut([m EXCEPT !.tty[d].stopped = FALSE], d)
       [] c \in {"intr", "quit"} /\ "ISIG" \in flags -> KillPg(m, m.tty[d].group)
       [] c = "susp" /\ "ISIG" \in flags ->
            IF m.tty[d].group \in Orphaned THEN m ELSE KillPg(m, m.tty[d].group)
       [] OTHER -> Keep(m, d, c)

\* mutant: nobody is told of the new characters
Cooked_silent(m, d) == m
Cooked(m, d) == WakeUp(m, <<d, "cooked">>)

CopyToCooked(m, d) ==
  LET q == m.tty[d].in
  IN IF q = <<>> \/ Full(m.tty[d].cooked) THEN Cooked(m, d)
     ELSE LET taken == [m EXCEPT !.tty[d].in = Tail(@)]
              new == Translated(Head(q), m.tty[d].set.flags)
          IN CopyToCooked(IF new = <<>> THEN taken ELSE Cook(taken, d, new[1]), d)

\* pty_copy: what one end has written becomes input of the other.
PtyCopy(m, d) ==
  LET to == Other[d]
      moved == [m EXCEPT !.tty[d].out = Tail(@),
                         !.tty[to].in = PutCh(@, Head(m.tty[d].out))]
      done(n) == WakeUp(CopyToCooked(n, to), <<d, "out">>)
  IN IF m.tty[d].stopped \/ m.tty[d].out = <<>> THEN done(m)
     ELSE IF Full(m.tty[to].in)
          THEN IF Full(m.tty[to].cooked) THEN done(m) ELSE PtyCopy(CopyToCooked(m, to), d)
     ELSE IF m.me \in m.sig THEN done(moved) ELSE PtyCopy(moved, d)

\* tty->write: con_write shows what is there, rs_write lets the transmitter ask
\* for it, a pseudo terminal passes it on.
WriteOut(m, d) ==
  CASE Driver[d] = "console" ->
         IF m.tty[d].stopped THEN m ELSE [m EXCEPT !.tty[d].out = <<>>]
    [] Driver[d] = "serial" ->
         [m EXCEPT !.tty[d].sending = @ \/ m.tty[d].out # <<>>]
    [] Driver[d] = "pty" -> PtyCopy(m, d)

\* The terminals, signals and sleepers after m.
Settle(m) ==
  /\ tty' = m.tty
  /\ sig' = m.sig
  /\ asleep' = [t \in Users |->
                  IF asleep[t] \in m.woken \/ t \in m.sig THEN Awake ELSE asleep[t]]

------------------------------------------------------------------------------
(* The devices.                                                                *)

\* A key, or a character of a serial line: dropped when read_q is full
\* (put_queue, read_char), then do_tty_interrupt.
Receive ==
  \E d \in DOMAIN tty : \E c \in Keys[d] :
    LET m == Machine(cpu)
        put == IF Full(tty[d].in) THEN m ELSE [m EXCEPT !.tty[d].in = Append(@, c)]
    IN /\ Driver[d] \in {"console", "serial"} /\ cpu # Lost
       /\ Settle(CopyToCooked(put, d))
       /\ UNCHANGED <<crFlag, call, cpu>>

\* mutant: an empty queue stops the transmitter and wakes nobody
Drained_silent(m, d) == [m EXCEPT !.tty[d].sending = FALSE]
Drained(m, d) == WakeUp([m EXCEPT !.tty[d].sending = FALSE], <<d, "out">>)

\* The transmitter is ready for the next character (write_char).
Transmit ==
  \E d \in DOMAIN tty :
    LET q == tty[d].out
        m == Machine(cpu)
        awake == IF Len(q) <= Restart THEN WakeUp(m, <<d, "out">>) ELSE m
        sent == [awake EXCEPT !.tty[d].out = Tail(@)]
    IN /\ Driver[d] = "serial" /\ tty[d].sending /\ cpu # Lost
       /\ Settle(IF q = <<>> THEN Drained(m, d)
                 ELSE IF Len(q) = 1 THEN Drained(sent, d) ELSE sent)
       /\ UNCHANGED <<crFlag, call, cpu>>

\* The time of a read is over: schedule clears the timeout and wakes the task.
Expire(t) ==
  /\ asleep[t] # Awake /\ cpu # Lost
  /\ call[t].op = "read" /\ call[t].timeout = "set"
  /\ asleep' = [asleep EXCEPT ![t] = Awake]
  /\ call' = [call EXCEPT ![t].timeout = "none"]
  /\ UNCHANGED <<tty, crFlag, sig, cpu>>

Dispatch(t) ==
  /\ cpu = Nobody /\ call[t] # Outside /\ asleep[t] = Awake
  /\ cpu' = t
  /\ UNCHANGED <<tty, crFlag, sig, asleep, call>>

\* The task returns to user mode, where do_signal takes its signal.
Return(t, m) ==
  /\ Settle([m EXCEPT !.sig = @ \ {t}])
  /\ call' = [call EXCEPT ![t] = Outside]
  /\ cpu' = Nobody

\* A task of a background group, and what its call does to the group.
Background(t, d) == ControlTty[t] = d /\ tty[d].group # Group[t]
TtySignal(t, m) == IF Group[t] \in Orphaned THEN m ELSE KillPg(m, Group[t])

------------------------------------------------------------------------------
(* tty_read.                                                                   *)

StartRead(t, d, nr) ==
  LET set == tty[d].set
      canon == "ICANON" \in set.flags
  IN /\ cpu = Nobody /\ call[t] = Outside
     /\ UNCHANGED crFlag
     /\ IF Background(t, d)
        THEN Return(t, TtySignal(t, Machine(t)))
        ELSE /\ cpu' = t
             /\ call' = [call EXCEPT ![t] =
                  [op |-> "read", at |-> "check", tty |-> d, nr |-> nr, got |-> 0,
                   min |-> IF canon \/ set.min = 0 \/ set.min > nr THEN nr ELSE set.min,
                   time |-> set.time /\ ~canon /\ set.min > 0,
                   timeout |-> IF canon \/ set.min > 0 THEN "never"
                               ELSE IF set.time THEN "set" ELSE "none"]]
             /\ UNCHANGED <<tty, sig, asleep>>

\* Nothing to read yet: with interrupts off, tty_io.c:469-471.
Nothing(q) ==
  \/ q.cooked = <<>>
  \/ "ICANON" \in q.set.flags /\ ~Full(q.in) /\ q.lines = 0

ReadCheck(t) ==
  LET c == call[t]
      d == c.tty
      m == IF Driver[d] = "pty" THEN WriteOut(Machine(t), Other[d]) ELSE Machine(t)
  IN /\ cpu = t /\ c.op = "read" /\ c.at = "check"
     /\ UNCHANGED crFlag
     /\ \/ /\ ~Nothing(m.tty[d])
           /\ Settle(m)
           /\ call' = [call EXCEPT ![t].at = "take"]
           /\ UNCHANGED cpu
        \/ /\ Nothing(m.tty[d])
           /\ c.timeout = "none" \/ t \in m.sig \/ HungUp(d)
           /\ Return(t, m)
        \/ /\ Nothing(m.tty[d])
           /\ c.timeout # "none" /\ t \notin m.sig /\ ~HungUp(d)
           /\ tty' = m.tty /\ sig' = m.sig
           /\ asleep' = [u \in Users |->
                IF u = t THEN <<d, "cooked">>
                ELSE IF asleep[u] \in m.woken \/ u \in m.sig THEN Awake ELSE asleep[u]]
           /\ cpu' = Nobody
           /\ UNCHANGED call

\* GETCH and put_fs_byte, which may sleep in a page fault: the cpu goes to others.
ReadTake(t) ==
  LET c == call[t]
      d == c.tty
      ch == Head(tty[d].cooked)
      eof == ch = "eof" /\ Has(d, "ICANON")
  IN /\ cpu = t /\ c.op = "read" /\ c.at = "take" /\ tty[d].cooked # <<>>
     /\ tty' = [tty EXCEPT ![d].cooked = Tail(@), ![d].lines = @ - LineCount(ch)]
     /\ call' = [call EXCEPT
          ![t].nr = IF eof THEN @ ELSE @ - 1,
          ![t].got = IF eof THEN @ ELSE @ + 1,
          ![t].at = IF eof \/ c.nr = 1 \/ (ch = "nl" /\ Has(d, "ICANON"))
                    THEN "taken" ELSE "more"]
     /\ cpu' \in IF eof THEN {t} ELSE {t, Nobody}
     /\ UNCHANGED <<crFlag, sig, asleep>>

\* An interrupt has rubbed out the last character since the look at the queue:
\* GETCH moves the tail past the head, and secondary seems to hold Size - 1 old
\* characters.  What follows is not modelled.
ReadCrossed(t) ==
  /\ cpu = t /\ call[t].op = "read" /\ call[t].at = "take"
  /\ tty[call[t].tty].cooked = <<>>
  /\ cpu' = Lost
  /\ UNCHANGED <<tty, crFlag, sig, asleep, call>>

\* The test of the inner loop, then what follows it: one more round or the end.
ReadMore(t) ==
  LET c == call[t]
      d == c.tty
  IN /\ cpu = t /\ c.op = "read" /\ c.at \in {"more", "taken"}
     /\ UNCHANGED crFlag
     /\ \/ /\ c.at = "more" /\ c.nr > SmallRead /\ tty[d].cooked # <<>>
           /\ call' = [call EXCEPT ![t].at = "take"]
           /\ UNCHANGED <<tty, sig, asleep, cpu>>
        \/ /\ c.at = "taken" \/ c.nr <= SmallRead \/ tty[d].cooked = <<>>
           /\ IF Has(d, "ICANON") \/ c.got >= c.min \/ c.nr = 0
              THEN Return(t, Machine(t))
              ELSE /\ call' = [call EXCEPT ![t].at = "check",
                                 ![t].timeout = IF c.time THEN "set" ELSE @]
                   /\ UNCHANGED <<tty, sig, asleep, cpu>>

------------------------------------------------------------------------------
(* tty_write.                                                                  *)

StartWrite(t, d, text) ==
  /\ cpu = Nobody /\ call[t] = Outside
  /\ UNCHANGED crFlag
  /\ IF Has(d, "TOSTOP") /\ Background(t, d)
     THEN Return(t, TtySignal(t, Machine(t)))
     ELSE /\ cpu' = t
          /\ call' = [call EXCEPT ![t] = [op |-> "write", at |-> "room", tty |-> d, text |-> text]]
          /\ UNCHANGED <<tty, sig, asleep>>

\* sleep_if_full, and the test for a signal after it.
WriteRoom(t) ==
  LET c == call[t]
      q == tty[c.tty].out
      short == IF c.at = "room" THEN Full(q) /\ Left(q) < Reserve ELSE Left(q) < Reserve
  IN /\ cpu = t /\ c.op = "write" /\ c.at \in {"room", "wait"}
     /\ UNCHANGED crFlag
     /\ \/ t \in sig /\ Return(t, Machine(t))
        \/ /\ t \notin sig /\ short
           /\ asleep' = [asleep EXCEPT ![t] = <<c.tty, "out">>]
           /\ call' = [call EXCEPT ![t].at = "wait"]
           /\ cpu' = Nobody
           /\ UNCHANGED <<tty, sig>>
        \/ /\ t \notin sig /\ ~short
           /\ call' = [call EXCEPT ![t].at = "put"]
           /\ UNCHANGED <<tty, sig, asleep, cpu>>

\* get_fs_byte may sleep in a page fault, after the look at the queue.
WriteFault(t) ==
  /\ cpu = t /\ call[t].op = "write" /\ call[t].at = "put"
  /\ call[t].text # <<>> /\ ~Full(tty[call[t].tty].out)
  /\ call' = [call EXCEPT ![t].at = "fetched"]
  /\ cpu' = Nobody
  /\ UNCHANGED <<tty, crFlag, sig, asleep>>

\* One round of the inner loop: a carriage return first, or the character.
WritePut(t) ==
  LET c == call[t]
      d == c.tty
      return == Head(c.text) = "nl" /\ ~crFlag /\ Has(d, "ONLCR")
  IN /\ cpu = t /\ c.op = "write"
     /\ \/ c.at = "put" /\ c.text # <<>> /\ ~Full(tty[d].out)
        \/ c.at = "fetched"
     /\ crFlag' = return
     /\ tty' = [tty EXCEPT ![d].out = PutCh(@, IF return THEN "cr" ELSE Head(c.text))]
     /\ call' = [call EXCEPT ![t].text = IF return THEN @ ELSE Tail(@), ![t].at = "put"]
     /\ UNCHANGED <<sig, asleep, cpu>>

\* tty->write, and the end or another round after a schedule.
WriteFlush(t) ==
  LET c == call[t]
      m == WriteOut(Machine(t), c.tty)
  IN /\ cpu = t /\ c.op = "write" /\ c.at = "put"
     /\ c.text = <<>> \/ Full(tty[c.tty].out)
     /\ UNCHANGED crFlag
     /\ \/ c.text = <<>> /\ Return(t, m)
        \/ /\ c.text # <<>>
           /\ Settle(m)
           /\ call' = [call EXCEPT ![t].at = "room"]
           /\ cpu' = Nobody

------------------------------------------------------------------------------
(* tty_ioctl: calls that do not sleep.                                         *)

\* set_termios and set_termio, for TCSETS, TCSETSF (flush) and their likes.
SetTermios(t, d) ==
  \E s \in Settings[d] : \E flush \in BOOLEAN :
    LET m == Machine(t)
        emptied == IF flush THEN [m EXCEPT !.tty[d].in = <<>>] ELSE m
        told == TtySignal(t, emptied)
    IN IF Background(t, d) /\ Group[t] \notin Orphaned
       THEN Return(t, told)
       ELSE Return(t, [emptied EXCEPT !.tty[d].set = s])

\* TCXONC: stop and start the output, or tell the other side to.
FlowControl(t, d) ==
  LET m == Machine(t)
      put(c) == [m EXCEPT !.tty[d].out = PutCh(@, c)]
  IN \E arg \in Controls :
       Return(t, CASE arg = "TCOOFF" -> WriteOut([m EXCEPT !.tty[d].stopped = TRUE], d)
                   [] arg = "TCOON" -> WriteOut([m EXCEPT !.tty[d].stopped = FALSE], d)
                   [] arg = "TCIOFF" -> put("stop")
                   [] arg = "TCION" -> put("start"))

\* TCFLSH: read_q, write_q or both look empty; secondary stays.
Flush(t, d) ==
  \E which \in SUBSET {"in", "out"} \ {{}} :
    Return(t, [Machine(t) EXCEPT !.tty[d].in = IF "in" \in which THEN <<>> ELSE @,
                                 !.tty[d].out = IF "out" \in which THEN <<>> ELSE @])

\* TIOCSPGRP: a task of the terminal's session names the foreground group.
SetGroup(t, d) ==
  /\ ControlTty[t] = d
  /\ \E u \in Users : Return(t, [Machine(t) EXCEPT !.tty[d].group = Group[u]])

Ioctl(t, d) ==
  /\ cpu = Nobody /\ call[t] = Outside
  /\ SetTermios(t, d) \/ FlowControl(t, d) \/ Flush(t, d) \/ SetGroup(t, d)
  /\ UNCHANGED crFlag

------------------------------------------------------------------------------
Start(t) ==
  \E d \in DOMAIN tty \cap Opened[t] :
    \/ \E nr \in Sizes : StartRead(t, d, nr)
    \/ \E text \in Texts[d] : StartWrite(t, d, text)
    \/ Ioctl(t, d)

TtyNext ==
  \/ Receive \/ Transmit
  \/ \E t \in Users :
       \/ Expire(t) \/ Dispatch(t) \/ Start(t)
       \/ ReadCheck(t) \/ ReadTake(t) \/ ReadCrossed(t) \/ ReadMore(t)
       \/ WriteRoom(t) \/ WriteFault(t) \/ WritePut(t) \/ WriteFlush(t)

TtySpec == TtyInit /\ [][TtyNext]_ttyVars

------------------------------------------------------------------------------
(* Properties.                                                                 *)

\* secondary.data counts the line ends in secondary, whatever the interrupts put
\* in and rub out while the readers take characters out: were it too high a
\* canonical read would return half a line, too low and it would sleep on a
\* whole one.
LinesCounted ==
  \A d \in DOMAIN tty :
    tty[d].lines = Cardinality({i \in DOMAIN tty[d].cooked : tty[d].cooked[i] \in LineEnds})

\* No reader of a canonical terminal sleeps while a whole line, or a read_q that
\* has no room for the rest of one, waits for it: every way characters arrive
\* wakes the readers, and the look at the queues and the sleep are one step.
NoLineWaits ==
  \A t \in Users : \A d \in DOMAIN tty :
    asleep[t] = <<d, "cooked">> /\ Has(d, "ICANON") => Nothing(tty[d])

\* A writer that sleeps for room in the queue of a serial line is not forgotten:
\* the transmitter is still running, or another task is on its way to start it.
OutputWillWake ==
  \A t \in Users : \A d \in DOMAIN tty :
    asleep[t] = <<d, "out">> /\ Driver[d] = "serial" =>
      \/ tty[d].sending
      \/ \E u \in Users : call[u].op = "write" /\ call[u].tty = d /\ asleep[u] = Awake
=============================================================================
