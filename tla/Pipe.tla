---------------------------------- MODULE Pipe ----------------------------------
(***************************************************************************)
(* Pipes (fs/pipe.c) and select (fs/select.c): a pipe that processes hand  *)
(* on by fork, a terminal as the other thing to select, and the wait       *)
(* queues of both with the two ways into them: __sleep_on, and add_wait    *)
(* and free_wait of select.                                                *)
(*                                                                         *)
(* A kernel call runs until it sleeps.  The bytes are numbered, modulo one *)
(* more than the pipe has places.                                          *)
(***************************************************************************)
EXTENDS Integers, Sequences, FiniteSets, FiniteSetsExt

CONSTANTS Procs,         \* as many processes as there can be
          PipeSetups,    \* of [procs, page, counts, inputs, outputs, events]: how many processes,
                         \* PAGE_SIZE, the counts that calls read and write, what a select
                         \* waits for, and what may happen
          NoProc         \* NULL

VARIABLES
  ends,          \* the ends of the pipe that each process has open
  pipe,          \* i_count, head and tail of the pipe's inode
  page,          \* the bytes in its page
  line,          \* the terminal has a line to read
  first, entry,  \* of each wait queue: the pointer, and the one that a sleeper keeps
  pstate,        \* "run", "int" or "unint"; "none" without a process
  todo,          \* the call of each process
  timer,         \* timeout: "off", "set", or "far" if none was asked for
  notice,        \* the processes with a signal
  runs,          \* the process that runs in the kernel
  pipes,         \* the setup
  sent, taken,   \* history: the numbers of the bytes that were written and read
  astray         \* history: a byte was read out of order

pipeVars == <<ends, pipe, page, line, first, entry, pstate, todo, timer, notice,
              runs, pipes, sent, taken, astray>>
history == <<sent, taken, astray>>
queues == <<first, entry, pstate>>

PIPE_PAGE == pipes.page
Happens(e) == e \in pipes.events

ASSUME PipeAssumption ==
  /\ NoProc \notin Procs
  /\ \A s \in PipeSetups : /\ s.page \in Nat \ {0, 1} /\ s.counts \subseteq Nat
                           /\ s.inputs \subseteq SUBSET {"pipe", "tty"}
                           /\ s.outputs \subseteq SUBSET {"pipe"}

Queues == {"i_wait", "i_wait2", "tty"}
NoQueue == [q \in Queues |-> NoProc]
User == [op |-> "user", at |-> "user", left |-> 0, from |-> 0, n |-> 0, byte |-> 0,
         in |-> {}, out |-> {}, table |-> {}, again |-> FALSE]

PipeInit ==
  /\ pipes \in PipeSetups
  /\ ends = [t \in Procs |-> {}]
  /\ pipe = [count |-> 0, head |-> 0, tail |-> 0]
  /\ page = [i \in 0..(PIPE_PAGE - 1) |-> 0]
  /\ line = FALSE
  /\ first = NoQueue /\ entry = [t \in Procs |-> NoQueue]
  /\ \E t \in Procs : pstate = [u \in Procs |-> IF u = t THEN "run" ELSE "none"]
  /\ todo = [t \in Procs |-> User] /\ timer = [t \in Procs |-> "off"]
  /\ notice = {} /\ runs = NoProc
  /\ sent = 0 /\ taken = 0 /\ astray = FALSE

-----------------------------------------------------------------------------
PIPE_SIZE == (pipe.head - pipe.tail) % PIPE_PAGE
PIPE_EMPTY == pipe.head = pipe.tail
Places == PIPE_PAGE - 1
ByteNr(n) == n % (PIPE_PAGE + 1)

(* wake_up, on the states S.                                               *)
Woken_up(S, q) == IF first[q] = NoProc THEN S ELSE [S EXCEPT ![first[q]] = "run"]

AtUser(t) == runs = NoProc /\ pstate[t] = "run" /\ todo[t].op = "user"
InCall(t, op, at) == runs = t /\ todo[t].op = op /\ todo[t].at = at
Goes_on(t, c) == todo' = [todo EXCEPT ![t] = c]

(* The call ends; a signal is dealt with on the way out.                   *)
Ends(t) == /\ Goes_on(t, User) /\ runs' = NoProc
           /\ timer' = [timer EXCEPT ![t] = "off"] /\ notice' = notice \ {t}

(* __sleep_on up to schedule(), on the states S.                           *)
Sleeps(t, q, S, st) ==
  /\ first' = [first EXCEPT ![q] = t]
  /\ entry' = [entry EXCEPT ![t][q] = first[q]]
  /\ pstate' = [S EXCEPT ![t] = st]
  /\ Goes_on(t, [todo[t] EXCEPT !.at = q]) /\ runs' = NoProc

(* ... and from there, for a task that is scheduled again.                 *)
HandedOn(t, q) ==
  /\ pstate' = [Woken_up(pstate, q) EXCEPT ![t] = "unint"]
  /\ UNCHANGED <<first, entry, todo, runs>>
Unqueued(t, q) == IF entry[t][q] = NoProc THEN pstate ELSE [pstate EXCEPT ![entry[t][q]] = "run"]
LeavesQueue(t, q) ==
  /\ first' = [first EXCEPT ![q] = entry[t][q]]
  /\ pstate' = Unqueued(t, q)
  /\ entry' = [entry EXCEPT ![t][q] = NoProc]
Resumes(t) ==
  /\ runs = NoProc /\ pstate[t] = "run" /\ todo[t].op \in {"read", "write"} /\ todo[t].at \in Queues
  /\ LET q == todo[t].at
     IN  IF first[q] \in {NoProc, t}
         THEN LeavesQueue(t, q) /\ runs' = t /\ Goes_on(t, [todo[t] EXCEPT !.at = "loop"])
         ELSE HandedOn(t, q)
  /\ UNCHANGED <<ends, pipe, page, line, timer, notice, pipes, history>>

-----------------------------------------------------------------------------
(* sys_pipe, with room for two files, two descriptors and the inode: else  *)
(* what it had taken is given back.                                        *)
sys_pipe(t) ==
  /\ AtUser(t) /\ pipe.count = 0
  /\ ends' = [ends EXCEPT ![t] = {"r", "w"}]
  /\ pipe' = [count |-> 2, head |-> 0, tail |-> 0]
  /\ sent' = 0 /\ taken' = 0
  /\ UNCHANGED <<page, line, queues, todo, timer, notice, runs, pipes, astray>>

Alive_procs == {t \in Procs : pstate[t] # "none"}
Fork_child(t, u) ==
  /\ AtUser(t) /\ pstate[u] = "none" /\ Cardinality(Alive_procs) < pipes.procs
  /\ ends' = [ends EXCEPT ![u] = ends[t]]
  /\ pstate' = [pstate EXCEPT ![u] = "run"]
  /\ UNCHANGED <<pipe, page, line, first, entry, todo, timer, notice, runs, pipes, history>>

(* sys_close, and the iput of a pipe when the file is used no more.        *)
LastUse(t, e) == \A u \in Procs \ {t} : e \notin ends[u]
BothWoken_writers(S) == Woken_up(S, "i_wait2")    \* mutant: only the writers are woken
BothWoken(S) == Woken_up(Woken_up(S, "i_wait"), "i_wait2")
sys_close(t) ==
  /\ AtUser(t)
  /\ \E e \in ends[t] :
       /\ ends' = [ends EXCEPT ![t] = @ \ {e}]
       /\ IF LastUse(t, e) THEN pipe' = [pipe EXCEPT !.count = @ - 1] /\ pstate' = BothWoken(pstate)
          ELSE UNCHANGED <<pipe, pstate>>
  /\ UNCHANGED <<page, line, first, entry, todo, timer, notice, runs, pipes, history>>
Dies(t) ==
  /\ AtUser(t) /\ ends[t] = {} /\ Alive_procs # {t}
  /\ pstate' = [pstate EXCEPT ![t] = "none"]
  /\ UNCHANGED <<ends, pipe, page, line, first, entry, todo, timer, notice, runs, pipes, history>>

-----------------------------------------------------------------------------
(* sys_read and sys_write of a pipe: only through the right end.           *)
Transfer(t) ==
  /\ AtUser(t)
  /\ \E op \in {"read", "write"}, n \in pipes.counts :
       /\ (IF op = "read" THEN "r" ELSE "w") \in ends[t]
       /\ Goes_on(t, [User EXCEPT !.op = op, !.at = "loop", !.left = n])
  /\ runs' = t
  /\ UNCHANGED <<ends, pipe, page, line, queues, timer, notice, pipes, history>>

(* read_pipe: it goes on until it has all it was asked for.                *)
ReadEmpty(t) ==
  /\ InCall(t, "read", "loop") /\ todo[t].left > 0 /\ PIPE_SIZE = 0
  /\ LET S == Woken_up(pstate, "i_wait2")
     IN  IF pipe.count # 2 \/ t \in notice
         THEN Ends(t) /\ pstate' = S /\ UNCHANGED <<first, entry>>
         ELSE Sleeps(t, "i_wait", S, "int") /\ UNCHANGED <<timer, notice>>
  /\ UNCHANGED <<ends, pipe, page, line, pipes, history>>

(* As many bytes as there are in one piece; the position moves first.      *)
Chars(t, pos, size) == Min({PIPE_PAGE - pos, todo[t].left, size})
ReadSome(t) ==
  /\ InCall(t, "read", "loop") /\ todo[t].left > 0 /\ PIPE_SIZE > 0
  /\ LET n == Chars(t, pipe.tail, PIPE_SIZE)
     IN  /\ pipe' = [pipe EXCEPT !.tail = (@ + n) % PIPE_PAGE]
         /\ taken' = ByteNr(taken + n)
         /\ Goes_on(t, [todo[t] EXCEPT !.at = "copy", !.left = @ - n, !.from = pipe.tail,
                                       !.n = n, !.byte = taken])
  /\ UNCHANGED <<ends, page, line, queues, timer, notice, runs, pipes, sent, astray>>

(* write_pipe.                                                             *)
Room_all == PIPE_PAGE - PIPE_SIZE    \* mutant: a full pipe looks like an empty one
Room == Places - PIPE_SIZE
WriteFull(t) ==
  /\ InCall(t, "write", "loop") /\ todo[t].left > 0 /\ Room = 0
  /\ LET S == Woken_up(pstate, "i_wait")
     IN  IF pipe.count # 2      \* SIGPIPE
         THEN Ends(t) /\ pstate' = S /\ UNCHANGED <<first, entry>>
         ELSE Sleeps(t, "i_wait2", S, "unint") /\ UNCHANGED <<timer, notice>>
  /\ UNCHANGED <<ends, pipe, page, line, pipes, history>>
WriteSome(t) ==
  /\ InCall(t, "write", "loop") /\ todo[t].left > 0 /\ Room > 0
  /\ LET n == Chars(t, pipe.head, Room)
     IN  /\ pipe' = [pipe EXCEPT !.head = (@ + n) % PIPE_PAGE]
         /\ sent' = ByteNr(sent + n)
         /\ Goes_on(t, [todo[t] EXCEPT !.at = "copy", !.left = @ - n, !.from = pipe.head,
                                       !.n = n, !.byte = sent])
  /\ UNCHANGED <<ends, page, line, queues, timer, notice, runs, pipes, taken, astray>>

TransferEnds(t) ==
  /\ runs = t /\ todo[t].at = "loop" /\ todo[t].left = 0
  /\ pstate' = Woken_up(pstate, IF todo[t].op = "read" THEN "i_wait2" ELSE "i_wait")
  /\ Ends(t)
  /\ UNCHANGED <<ends, pipe, page, line, first, entry, pipes, history>>

(* put_fs_byte and get_fs_byte may have to wait for the page; the bytes    *)
(* are copied after that.                                                  *)
PageFault(t) ==
  /\ Happens("fault") /\ runs = t /\ todo[t].at = "copy"
  /\ pstate' = [pstate EXCEPT ![t] = "unint"]
  /\ Goes_on(t, [todo[t] EXCEPT !.at = "fault"]) /\ runs' = NoProc
  /\ UNCHANGED <<ends, pipe, page, line, first, entry, timer, notice, pipes, history>>
Piece(t) == todo[t].from .. (todo[t].from + todo[t].n - 1)
Number(t, i) == ByteNr(todo[t].byte + i - todo[t].from)
CopyBytes(t) ==
  /\ \/ runs = t /\ todo[t].at = "copy"
     \/ runs = NoProc /\ todo[t].at = "fault"
  /\ IF todo[t].op = "read"
     THEN /\ astray' = (astray \/ \E i \in Piece(t) : page[i] # Number(t, i))
          /\ UNCHANGED page
     ELSE /\ page' = [i \in DOMAIN page |-> IF i \in Piece(t) THEN Number(t, i) ELSE page[i]]
          /\ UNCHANGED astray
  /\ pstate' = [pstate EXCEPT ![t] = "run"] /\ runs' = t
  /\ Goes_on(t, [todo[t] EXCEPT !.at = "loop", !.from = 0, !.n = 0, !.byte = 0])
  /\ UNCHANGED <<ends, pipe, line, first, entry, timer, notice, pipes, sent, taken>>

-----------------------------------------------------------------------------
(* sys_select: what is waited for is the pipe and the terminal, for input, *)
(* and the pipe for output.                                                *)
sys_select(t) ==
  /\ AtUser(t) /\ Happens("select")
  /\ \E in \in pipes.inputs, out \in pipes.outputs, tm \in {"far", "set"} :
       /\ in \cup out # {} /\ (tm = "set" => Happens("time"))
       /\ "pipe" \in in => "r" \in ends[t]
       /\ "pipe" \in out => "w" \in ends[t]
       /\ Goes_on(t, [User EXCEPT !.op = "select", !.at = "look", !.in = in, !.out = out])
       /\ timer' = [timer EXCEPT ![t] = tm]
  /\ runs' = t
  /\ UNCHANGED <<ends, pipe, page, line, queues, notice, pipes, history>>

(* check_in and check_out: what is ready, and the queues of what is not.   *)
(* Output waits in the queue of the readers.                               *)
ReadyIn == {x \in {"pipe", "tty"} : IF x = "pipe" THEN ~PIPE_EMPTY ELSE line}
ReadyOut == {x \in {"pipe"} : PIPE_SIZE # Places}
QueueOf_writers(x) == IF x = "pipe" THEN "i_wait2" ELSE "tty"    \* mutant: in the writers' queue
QueueOf(x) == IF x = "pipe" THEN "i_wait" ELSE "tty"
Look(t) ==
  /\ InCall(t, "select", "look")
  /\ LET in == todo[t].in  out == todo[t].out
         count == Cardinality(in \cap ReadyIn) + Cardinality(out \cap ReadyOut)
         table == {QueueOf(x) : x \in (in \ ReadyIn) \cup (out \ ReadyOut)}
         waits == t \notin notice /\ (table # {} \/ timer[t] # "off") /\ count = 0
     IN  /\ first' = [q \in Queues |-> IF q \in table THEN t ELSE first[q]]
         /\ entry' = [entry EXCEPT ![t] = [q \in Queues |-> IF q \in table THEN first[q] ELSE @[q]]]
         /\ pstate' = IF waits THEN [pstate EXCEPT ![t] = "int"] ELSE pstate
         /\ runs' = IF waits THEN NoProc ELSE t
         /\ Goes_on(t, [todo[t] EXCEPT !.at = "free", !.table = table, !.again = waits])
  /\ UNCHANGED <<ends, pipe, page, line, timer, notice, pipes, history>>

(* free_wait: whoever came later to the queue has to leave it first.       *)
free_wait(t) ==
  /\ todo[t].op = "select" /\ todo[t].at = "free"
  /\ runs \in {t, NoProc} /\ pstate[t] = "run"
  /\ IF todo[t].table = {}
     THEN /\ IF todo[t].again
             THEN runs' = t /\ Goes_on(t, [todo[t] EXCEPT !.at = "look"]) /\ UNCHANGED <<timer, notice>>
             ELSE Ends(t)
          /\ UNCHANGED queues
     ELSE /\ \E q \in todo[t].table :
               IF first[q] \in {NoProc, t}
               THEN LeavesQueue(t, q) /\ runs' = t /\ Goes_on(t, [todo[t] EXCEPT !.table = @ \ {q}])
               ELSE /\ pstate' = [Woken_up(pstate, q) EXCEPT ![t] = "unint"]
                    /\ runs' = NoProc /\ UNCHANGED <<first, entry, todo>>
          /\ UNCHANGED <<timer, notice>>
  /\ UNCHANGED <<ends, pipe, page, line, pipes, history>>

-----------------------------------------------------------------------------
(* A line is typed or read; interrupts are off in select.                  *)
Typed == /\ Happens("select") /\ ~line /\ runs = NoProc /\ line' = TRUE
         /\ pstate' = Woken_up(pstate, "tty")
         /\ UNCHANGED <<ends, pipe, page, first, entry, todo, timer, notice, runs, pipes, history>>
LineRead(t) == /\ line /\ AtUser(t) /\ line' = FALSE
               /\ UNCHANGED <<ends, pipe, page, queues, todo, timer, notice, runs, pipes, history>>

(* The first loop of schedule().                                           *)
Interrupted(t) == pstate' = IF pstate[t] = "int" THEN [pstate EXCEPT ![t] = "run"] ELSE pstate
TimeIsOut(t) ==
  /\ runs = NoProc /\ timer[t] = "set" /\ timer' = [timer EXCEPT ![t] = "off"]
  /\ Interrupted(t)
  /\ UNCHANGED <<ends, pipe, page, line, first, entry, todo, notice, runs, pipes, history>>
SignalSent(t) ==
  /\ Happens("signal") /\ runs = NoProc /\ t \notin notice /\ todo[t].op # "user" /\ notice' = notice \cup {t}
  /\ Interrupted(t)
  /\ UNCHANGED <<ends, pipe, page, line, first, entry, todo, timer, runs, pipes, history>>

KernelStep(t) ==
  \/ Resumes(t) \/ ReadEmpty(t) \/ ReadSome(t) \/ WriteFull(t) \/ WriteSome(t) \/ TransferEnds(t)
  \/ CopyBytes(t) \/ Look(t) \/ free_wait(t)
PipeNext ==
  \/ Typed
  \/ \E t \in Procs :
       \/ KernelStep(t) \/ TimeIsOut(t)
       \/ sys_pipe(t) \/ sys_close(t) \/ Dies(t) \/ (\E u \in Procs : Fork_child(t, u))
       \/ Transfer(t) \/ PageFault(t) \/ sys_select(t) \/ LineRead(t) \/ SignalSent(t)
PipeSpec == PipeInit /\ [][PipeNext]_pipeVars

-----------------------------------------------------------------------------
(* Nobody is inside the kernel but those who are asleep for want of bytes, *)
(* of room or of a descriptor that is ready.                               *)
Waiting(t) == pstate[t] # "run" /\ todo[t].at # "fault"
Quiet == runs = NoProc /\ \A t \in Procs : todo[t].op # "user" => Waiting(t)

(* When nothing runs in the kernel, a reader sleeps only before an empty   *)
(* pipe and a writer only before a full one, and only while the other end  *)
(* is open: the waits of read_pipe and write_pipe, the wake_ups there and  *)
(* in iput, and a queue that select puts its own entries in.               *)
PipeNotStuck ==
  Quiet => \A t \in Procs :
    /\ todo[t].op = "read" => PIPE_EMPTY /\ pipe.count = 2
    /\ todo[t].op = "write" => PIPE_SIZE = Places /\ pipe.count = 2

(* A select that sleeps has nothing to read: check_in, add_wait and        *)
(* free_wait ("free of race-conditions") against what writes to the pipe   *)
(* and types at the terminal.                                              *)
SelectSeesInput == Quiet => \A t \in Procs : todo[t].op = "select" => todo[t].in \cap ReadyIn = {}

(* While user memory is resident, the bytes come out of a pipe in the      *)
(* order in which they went in, each of them once (the two positions and   *)
(* the copies of read_pipe and write_pipe, with several readers and        *)
(* writers, and the page used in a ring).                                  *)
InOrder == ~Happens("fault") => ~astray

(* A select with a time to wait comes to an end ("sleeps, and goes on      *)
(* when the time is over", fs/select.c:228).                               *)
TimedSelectEnds == \A t \in Procs : todo[t].op = "select" /\ timer[t] = "set" ~> todo[t].op # "select"
=============================================================================
