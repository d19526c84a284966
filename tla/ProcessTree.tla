----------------------------- MODULE ProcessTree -----------------------------
(***************************************************************************)
(* The family of tasks: fork (kernel/fork.c), exit, waitpid and kill       *)
(* (kernel/exit.c), the default actions of signals (kernel/signal.c),      *)
(* process groups and sessions (kernel/sys.c).                             *)
(*                                                                         *)
(* A task is the page its task_struct lives in; task[] names the pages.    *)
(* Nobody catches, blocks or ignores signals and all tasks but init have   *)
(* the same user.  A step runs until the task can lose the CPU.  In fork   *)
(* that is while get_free_page swaps: only when MemoryFull.                *)
(***************************************************************************)
EXTENDS Integers, FiniteSets, Sequences, SequencesExt

CONSTANTS NR_TASKS,      \* the slots of task[], slot 0 included
          TaskPages,         \* the pages task_structs can live in
          InitTask,      \* the page of task[1], which runs init/main.c
          MaxPid,        \* the largest pid, after which last_pid starts again at 1
          LastFork,      \* bound: no fork after the one with this pid, 0 for no bound
          Sent,          \* the signals that tasks send each other
          WaitsFor,      \* what waitpid is called for, by tasks other than init
          MemoryFull     \* get_free_page may have to swap, and sleeps

VARIABLES
  task,       \* task[1..]: the page of each slot, or NoPtr
  proc,       \* the task_struct in each page
  last_pid,   \* the number of the last fork
  forking,    \* per task: where it is in fork
  waiting     \* per task: the waitpid it sleeps in

procVars == <<task, proc, last_pid, forking, waiting>>

NoPtr == 0
Slots == 1..(NR_TASKS - 1)

HUP == 1
KILL == 9
CHLD == 17
CONT == 18
STOP == 19

Pids == 1..MaxPid
InitPid == 1

ASSUME ProcessAssumption ==
  /\ NR_TASKS \in Nat \ {0, 1} /\ TaskPages \subseteq Nat \ {NoPtr} /\ InitTask \in TaskPages
  /\ MaxPid \in Nat \ {0} /\ LastFork \in 0..MaxPid
  /\ Sent \subseteq {HUP, KILL, CONT, STOP} /\ MemoryFull \in BOOLEAN

States == {"free", "running", "sleeping", "copied", "stopped", "zombie"}

Free == [pid |-> 0, pgrp |-> 0, session |-> 0, leader |-> FALSE, state |-> "free",
         signal |-> {}, exit_code |-> 0,
         pptr |-> NoPtr, cptr |-> NoPtr, ysptr |-> NoPtr, osptr |-> NoPtr]

NoFork == [at |-> "not in fork", child |-> NoPtr, nr |-> 0]
NoWait == [kind |-> "none", id |-> 0, untraced |-> FALSE]

(* When init is alone: group and session 0, no father but task 0.          *)
ProcInit ==
        /\ task = [s \in Slots |-> IF s = 1 THEN InitTask ELSE NoPtr]
        /\ proc = [p \in TaskPages |-> IF p = InitTask
                     THEN [Free EXCEPT !.pid = InitPid, !.state = "running"] ELSE Free]
        /\ last_pid = InitPid
        /\ forking = [p \in TaskPages |-> NoFork]
        /\ waiting = [p \in TaskPages |-> NoWait]

Table == Range(task) \ {NoPtr}
Others == Table \ {InitTask}
Alive(T, p) == T[p].state # "zombie"

-----------------------------------------------------------------------------
(* Signals.  T is the state of all task_structs, before or inside a step.  *)

Posted(T, p, sig) ==
  LET q == [T[p] EXCEPT !.signal = @ \cup {sig}]
  IN  IF sig \in {KILL, CONT}
      THEN [q EXCEPT !.state = IF @ = "stopped" THEN "running" ELSE @,
                     !.exit_code = 0, !.signal = @ \ {STOP}]
      ELSE IF sig = STOP THEN [q EXCEPT !.signal = @ \ {CONT}] ELSE q

send_sig(T, p, sig) == [T EXCEPT ![p] = Posted(T, p, sig)]

(* Group 0 has no number that kill_pg accepts.                             *)
Members(T, g) == {p \in Table : T[p].pgrp = g}
kill_pg(T, g, sig) ==
  [p \in TaskPages |-> IF g # 0 /\ T[p].pgrp = g /\ p \in Table THEN Posted(T, p, sig) ELSE T[p]]

(* Task 0, the father of init, has pid, group and session 0 like Free.     *)
Father(T, p) == IF T[p].pptr = NoPtr THEN Free ELSE T[T[p].pptr]

is_orphaned_pgrp(T, g) ==
  \A p \in Members(T, g) :
    Alive(T, p) /\ Father(T, p).pid # InitPid =>
      Father(T, p).pgrp = g \/ Father(T, p).session # T[p].session

has_stopped_jobs(T, g) == \E p \in Members(T, g) : T[p].state = "stopped"

(* What do_exit does when q, of the group of p's relatives, may have been  *)
(* the last link of p's group to the rest of its session.                  *)
Resume_ungrouped(T, p, q) == T    \* mutant: no orphan check

Resume(T, p, q) ==
  LET g == T[p].pgrp
  IN  IF /\ T[q].pgrp # g /\ T[q].session = T[p].session
         /\ is_orphaned_pgrp(T, g) /\ has_stopped_jobs(T, g)
      THEN kill_pg(kill_pg(T, g, HUP), g, CONT)
      ELSE T

-----------------------------------------------------------------------------
(* The links between tasks.                                                *)

(* The children of p, the youngest first: p_cptr, then along p_osptr.      *)
Children(T, p) ==
  LET from[q \in TaskPages \cup {NoPtr}] == IF q = NoPtr THEN <<>> ELSE <<q>> \o from[T[q].osptr]
  IN  from[T[p].cptr]

NewsToInit_not(T, p) == T     \* mutant: init is not told of an adopted zombie
NewsToInit(T, p) ==
  IF T[p].state = "zombie" THEN [T EXCEPT ![InitTask].signal = @ \cup {CHLD}] ELSE T

Inherit(T, p, dead) == Resume(NewsToInit([T EXCEPT ![p].pptr = InitTask], p), p, dead)

SetYs(T, p, y) == IF p = NoPtr THEN T ELSE [T EXCEPT ![p].ysptr = y]
SetOs(T, p, o) == IF p = NoPtr THEN T ELSE [T EXCEPT ![p].osptr = o]

Linked_noYs(T, dead, oldest) ==     \* mutant: task[1]->p_cptr->p_ysptr is not set
  [T EXCEPT ![oldest].osptr = T[InitTask].cptr,
            ![InitTask].cptr = T[dead].cptr, ![dead].cptr = NoPtr]

Linked(T, dead, oldest) ==
  [SetYs(T, T[InitTask].cptr, oldest) EXCEPT
     ![oldest].osptr = T[InitTask].cptr,
     ![InitTask].cptr = T[dead].cptr, ![dead].cptr = NoPtr]

(* ProcInit inherits the children of dead, in front of its own.                *)
Adopt(T, dead) ==
  LET kids == Children(T, dead)
      Next1(U, p) == Inherit(U, p, dead)
  IN  IF kids = <<>> THEN T ELSE Linked(FoldLeft(Next1, T, kids), dead, Last(kids))

(* do_exit from where the task becomes a zombie.  tty is the group in the  *)
(* foreground of the session leader's terminal, 0 if there is none.        *)
do_exit(T, p, code, tty) ==
  LET dead    == [T EXCEPT ![p].state = "zombie", ![p].exit_code = code]
      resumed == Resume(dead, p, T[p].pptr)
      told    == [resumed EXCEPT ![T[p].pptr].signal = @ \cup {CHLD}]
  IN  kill_pg(Adopt(told, p), tty, HUP)

Ttys(p) == IF proc[p].leader THEN {0} \cup {proc[q].pgrp : q \in Table} ELSE {0}

(* release: the slot and the page of a zombie are given back.              *)
Unlinked(T, p) ==
  [SetYs(SetOs(T, T[p].ysptr, T[p].osptr), T[p].osptr, T[p].ysptr) EXCEPT
     ![T[p].pptr].cptr = IF T[p].ysptr = NoPtr THEN T[p].osptr ELSE @,
     ![p] = Free]

-----------------------------------------------------------------------------
(* In the middle of a fork the CPU is lost only when memory is full.       *)
OnCpu(p) == /\ proc[p].state = "running" /\ waiting[p] = NoWait
            /\ p \in Table
            /\ MemoryFull \/ \A q \in TaskPages \ {p} : forking[q] = NoFork

(* A task runs user code only after it has handled its signals.            *)
InUser(p) == OnCpu(p) /\ forking[p] = NoFork /\ proc[p].signal = {}

(* The first number after last_pid that is neither a pid nor a group; the  *)
(* scan starts again at 1 when last_pid overflows.                         *)
HeldNumbers(n) == \E p \in Table : proc[p].pid = n \/ proc[p].pgrp = n
NextPid ==
  LET after(k) == 1 + ((last_pid + k - 1) % MaxPid)
      first    == CHOOSE k \in Pids : /\ ~HeldNumbers(after(k))
                                      /\ \A j \in 1..(k - 1) : HeldNumbers(after(j))
  IN  after(first)
EmptySlots == {s \in Slots : task[s] = NoPtr}

(* find_empty_process.  With every number in use it would loop for ever:   *)
(* MaxPid is much larger than twice NR_TASKS, or the bound of a run.       *)
FindEmptyProcess(p) ==
  /\ InUser(p)
  /\ last_pid # LastFork /\ \E n \in Pids : ~HeldNumbers(n)
  /\ last_pid' = NextPid
  /\ forking' = IF EmptySlots = {} THEN forking
                ELSE [forking EXCEPT ![p] = [at |-> "get page", child |-> NoPtr,
                        nr |-> CHOOSE s \in EmptySlots : \A r \in EmptySlots : s <= r]]
  /\ UNCHANGED <<task, proc, waiting>>

(* copy_process up to copy_mem: the child is a copy, links included.       *)
CopyTask(p) ==
  /\ forking[p].at = "get page" /\ OnCpu(p)
  /\ \E c \in TaskPages :
       /\ proc[c].state = "free"
       /\ task' = [task EXCEPT ![forking[p].nr] = c]
       /\ proc' = [proc EXCEPT ![c] = [proc[p] EXCEPT !.state = "copied", !.pid = last_pid,
                                                      !.signal = {}, !.leader = FALSE]]
       /\ forking' = [forking EXCEPT ![p].at = "copy mem", ![p].child = c]
  /\ UNCHANGED <<last_pid, waiting>>

ForkFails(p) ==
  /\ forking[p].at = "get page" /\ OnCpu(p)
  /\ forking' = [forking EXCEPT ![p] = NoFork]
  /\ UNCHANGED <<task, proc, last_pid, waiting>>

Emptied(s) == [task EXCEPT ![s] = NoPtr]

CopyMem(p) ==
  LET c == forking[p].child
  IN  /\ forking[p].at = "copy mem"
      /\ forking' = [forking EXCEPT ![p] = NoFork]
      /\ \/ /\ proc' = [SetYs(proc, proc[p].cptr, c) EXCEPT
                 ![c].pptr = p, ![c].cptr = NoPtr, ![c].ysptr = NoPtr,
                 ![c].osptr = proc[p].cptr, ![c].state = "running",
                 ![p].cptr = c]
            /\ UNCHANGED task
         \/ /\ task' = Emptied(forking[p].nr)
            /\ proc' = [proc EXCEPT ![c] = Free]
      /\ UNCHANGED <<last_pid, waiting>>

-----------------------------------------------------------------------------
(* sys_exit with a non-zero status; init never exits.                      *)
sys_exit(p) ==
  /\ InUser(p) /\ p # InitTask
  /\ \E tty \in Ttys(p) : proc' = do_exit(proc, p, 256, tty)
  /\ UNCHANGED <<task, last_pid, forking, waiting>>

(* ret_from_sys_call: the pending signal with the lowest number.           *)
Stopped(T, p) == [T EXCEPT ![p].state = "stopped", ![p].exit_code = STOP,
                           ![T[p].pptr].signal = @ \cup {CHLD}]

DoSignal(p) ==
  LET sig == CHOOSE s \in proc[p].signal : \A r \in proc[p].signal : s <= r
      T   == [proc EXCEPT ![p].signal = @ \ {sig}]
  IN  /\ OnCpu(p) /\ forking[p] = NoFork /\ proc[p].signal # {}
      /\ \/ sig \in {CHLD, CONT} /\ proc' = T
         \/ sig = STOP /\ proc' = Stopped(T, p)
         \/ sig \in {HUP, KILL} /\ \E tty \in Ttys(p) : proc' = do_exit(T, p, sig, tty)
      /\ UNCHANGED <<task, last_pid, forking, waiting>>

(* kill of one task, of a group and of everybody.                          *)
Kill(p) ==
  /\ InUser(p) /\ p # InitTask
  /\ \E sig \in Sent :
       \/ \E q \in Others : proc' = send_sig(proc, q, sig)
       \/ \E g \in {proc[q].pgrp : q \in Others} : proc' = kill_pg(proc, g, sig)
       \/ proc' = [q \in TaskPages |-> IF q \in Others THEN Posted(proc, q, sig) ELSE proc[q]]
  /\ UNCHANGED <<task, last_pid, forking, waiting>>

-----------------------------------------------------------------------------
Matches(T, p, q, w) ==
  \/ w.kind = "any"
  \/ w.kind = "pid" /\ T[q].pid = w.id
  \/ w.kind = "pgrp" /\ T[q].pgrp = w.id
  \/ w.kind = "own pgrp" /\ T[q].pgrp = T[p].pgrp

News(T, q, untraced) == \/ T[q].state = "zombie"
                        \/ T[q].state = "stopped" /\ untraced /\ T[q].exit_code # 0

(* The loop of sys_waitpid over the children: the first one there is news  *)
(* of is reported and a zombie released; else the task goes to sleep if a  *)
(* child it waits for is neither stopped nor a zombie.                     *)
Wait(p, w) ==
  LET kids    == SelectSeq(Children(proc, p), LAMBDA q : Matches(proc, p, q, w))
      news    == SelectSeq(kids, LAMBDA q : News(proc, q, w.untraced))
      q       == Head(news)
      others  == {k \in Range(kids) : proc[k].state \notin {"stopped", "zombie"}}
      T       == [proc EXCEPT ![p].state = "running"]
  IN  /\ UNCHANGED <<last_pid, forking>>
      /\ \/ /\ news # <<>> /\ proc[q].state = "zombie"
            /\ task' = [s \in Slots |-> IF task[s] = q THEN NoPtr ELSE task[s]]
            /\ proc' = Unlinked(T, q)
            /\ waiting' = [waiting EXCEPT ![p] = NoWait]
         \/ /\ news # <<>> /\ proc[q].state = "stopped"
            /\ proc' = [T EXCEPT ![q].exit_code = 0]
            /\ waiting' = [waiting EXCEPT ![p] = NoWait]
            /\ UNCHANGED task
         \/ /\ news = <<>> /\ others # {}
            /\ proc' = [proc EXCEPT ![p].state = "sleeping"]
            /\ waiting' = [waiting EXCEPT ![p] = w]
            /\ UNCHANGED task
         \/ /\ news = <<>> /\ others = {}
            /\ proc' = T
            /\ waiting' = [waiting EXCEPT ![p] = NoWait]
            /\ UNCHANGED task

(* init/main.c calls wait(), the others what WaitsFor allows.              *)
Calls(p) == IF p = InitTask THEN {[kind |-> "any", id |-> 0, untraced |-> FALSE]}
                            ELSE WaitsFor
Waitpid(p) == InUser(p) /\ \E w \in Calls(p) : Wait(p, w)

(* schedule() has made the sleeper runnable: it looks at its children      *)
(* again, unless it has got another signal than SIGCHLD.                   *)
WaitAgain(p) ==
  /\ waiting[p] # NoWait /\ proc[p].signal # {} /\ p \in Table
  /\ MemoryFull \/ \A q \in TaskPages : forking[q] = NoFork
  /\ IF proc[p].signal = {CHLD}
     THEN Wait(p, waiting[p])
     ELSE /\ proc' = [proc EXCEPT ![p].state = "running"]
          /\ waiting' = [waiting EXCEPT ![p] = NoWait]
          /\ UNCHANGED <<task, last_pid, forking>>

-----------------------------------------------------------------------------
session_of_pgrp(g) ==
  LET at == {s \in Slots : task[s] # NoPtr /\ proc[task[s]].pgrp = g}
  IN  IF at = {} THEN -1
      ELSE proc[task[CHOOSE s \in at : \A r \in at : r <= s]].session

SetPgid(p) ==
  /\ InUser(p) /\ p # InitTask
  /\ \E q \in Table, g \in Pids :
       /\ q = p \/ proc[q].pptr = p
       /\ ~proc[q].leader /\ proc[q].session = proc[p].session
       /\ g = proc[q].pid \/ session_of_pgrp(g) = proc[p].session
       /\ proc' = [proc EXCEPT ![q].pgrp = g]
  /\ UNCHANGED <<task, last_pid, forking, waiting>>

SetSid(p) ==
  /\ InUser(p) /\ p # InitTask /\ ~proc[p].leader
  /\ proc' = [proc EXCEPT ![p].leader = TRUE, ![p].session = proc[p].pid,
                          ![p].pgrp = proc[p].pid]
  /\ UNCHANGED <<task, last_pid, forking, waiting>>

ProcNext == \E p \in TaskPages :
          \/ FindEmptyProcess(p) \/ CopyTask(p) \/ ForkFails(p) \/ CopyMem(p)
          \/ sys_exit(p) \/ DoSignal(p) \/ Kill(p) \/ Waitpid(p) \/ WaitAgain(p)
          \/ SetPgid(p) \/ SetSid(p)

ProcSpec == ProcInit /\ [][ProcNext]_procVars

-----------------------------------------------------------------------------

(* audit_ptree (exit.c:93): the links of every task that is not just being *)
(* made agree with those of its relatives.  And what do_exit counts on:    *)
(* nobody's father is dead, and all descend from init, so that init has a  *)
(* child while others can exit (exit.c:458).                               *)
Made == {p \in Table : proc[p].state # "copied"}

Family ==
  \A p \in Made :
    LET f == proc[p].pptr  c == proc[p].cptr  y == proc[p].ysptr  o == proc[p].osptr
    IN  /\ {f, c, y, o} \subseteq Made \cup {NoPtr} /\ p \notin {f, c, y, o}
        /\ o # NoPtr => proc[o].pptr = f /\ proc[o].ysptr = p
        /\ y # NoPtr => proc[y].pptr = f /\ proc[y].osptr = p
        /\ c # NoPtr => proc[c].pptr = p /\ proc[c].ysptr = NoPtr
        /\ p # InitTask => /\ f # NoPtr /\ Alive(proc, f) /\ p \in Range(Children(proc, f))
                           /\ proc[InitTask].cptr # NoPtr

(* fork.c, above find_empty_process: the pid of a new task is its own.     *)
UniquePids == \A p, q \in Table : proc[p].pid = proc[q].pid => p = q

(* Whoever sleeps in waitpid while there is news for it has been sent a    *)
(* signal: no death or stop of a child goes unnoticed, be it adopted.      *)
NewsIsSignalled ==
  \A p, q \in Made :
    waiting[p] # NoWait /\ proc[q].pptr = p /\ proc[p].signal = {} =>
      ~(Matches(proc, p, q, waiting[p]) /\ News(proc, q, waiting[p].untraced))

(* exit.c:295: a process group that becomes orphaned by an exit gets       *)
(* SIGHUP and SIGCONT: none of its members stays stopped.                  *)
Dies == \E p \in Table : Alive(proc, p) /\ ~Alive(proc', p)
OrphansResumed ==
  [][Dies => \A g \in Pids :
       is_orphaned_pgrp(proc, g) \/ ~is_orphaned_pgrp(proc', g) \/ ~has_stopped_jobs(proc', g)]_procVars
=============================================================================
