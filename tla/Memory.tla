-------------------------------- MODULE Memory --------------------------------
(***************************************************************************)
(* Demand-paged memory: page faults, copy on write, shared and swapped     *)
(* pages, fork and exit (mm/memory.c, mm/swap.c).                          *)
(*                                                                         *)
(* A task has one page table, itself in a page.  The kernel is not         *)
(* preempted: a task keeps the CPU until it sleeps for the disk.  Swap     *)
(* requests are carried out in the order they are made.  swap_out takes    *)
(* any page it may take: where its search stands is left out.              *)
(***************************************************************************)
EXTENDS Integers, FiniteSets, FiniteSetsExt

CONSTANTS Tasks,       \* the tasks, numbers above File
          Running,     \* those that run at first, with no pages yet
          Pages,       \* the page numbers of mem_map[] that mem_init leaves free
          Code, Data,  \* the pages of a task: from its executable, and new ones
          SwapPages,   \* the free pages of the swap device, {} without one
          SwapInCow    \* a task may have to swap while it looks at a shared page

VARIABLES
  mem_map,    \* the use count of each page
  content,    \* what is in each page
  dir,        \* pg_dir: the page with the table of each task, or NULL
  pte,        \* the page tables
  swap_bitmap,\* the swap pages that are free
  swap,       \* what is in each swap page
  fault,      \* per task: where it is in the kernel
  cpu,        \* the task that runs in the kernel, NULL when none does
  want        \* history: what each task has stored in its pages

memVars == <<mem_map, content, dir, pte, swap_bitmap, swap, fault, cpu, want>>

NULL == 0
Zero == 0
File == 1
Virtual == Code \cup Data

ASSUME MemoryAssumption ==
  /\ Tasks \subseteq Nat \ {NULL, File} /\ Running \subseteq Tasks
  /\ Pages \subseteq Nat \ {NULL} /\ SwapPages \subseteq Nat \ {NULL}
  /\ Virtual \subseteq Nat \ {NULL} /\ Code \cap Data = {}
  /\ \A S \in {Tasks, Pages, SwapPages, Virtual} : IsFiniteSet(S)
  /\ SwapInCow \in BOOLEAN

NotMapped == [page |-> NULL, nr |-> NULL, rw |-> FALSE, dirty |-> FALSE]
Mapped(p) == [NotMapped EXCEPT !.page = p, !.rw = TRUE]
MappedDirty(p) == [Mapped(p) EXCEPT !.dirty = TRUE]
Swapped(n) == [NotMapped EXCEPT !.nr = n]
Present(t, v) == pte[t][v].page # NULL

User == [at |-> "user", goal |-> "none", v |-> NULL, held |-> NULL, out |-> NULL, other |-> NULL]
Gone == [User EXCEPT !.at = "gone"]

First(v) == IF v \in Code THEN File ELSE Zero
NoPages == [v \in Virtual |-> NotMapped]

MemInit ==
  /\ mem_map = [p \in Pages |-> 0]
  /\ content = [p \in Pages |-> Zero]
  /\ dir = [t \in Tasks |-> NULL]
  /\ pte = [t \in Tasks |-> NoPages]
  /\ swap_bitmap = SwapPages
  /\ swap = [n \in SwapPages |-> Zero]
  /\ fault = [t \in Tasks |-> IF t \in Running THEN User ELSE Gone]
  /\ cpu = NULL
  /\ want = [t \in Tasks |-> [v \in Virtual |-> First(v)]]

InUserMode(t) == cpu = NULL /\ fault[t].at = "user"
Awake(t, at) == cpu = NULL /\ fault[t].at = at

Enter(t, f) == cpu' = t /\ fault' = [fault EXCEPT ![t] = f]
Return(t) == cpu' = NULL /\ fault' = [fault EXCEPT ![t] = User]
Call(t, goal, v, other) ==
  Enter(t, [fault[t] EXCEPT !.at = "alloc", !.goal = goal, !.v = v, !.other = other])
Sleep(t, f) == cpu' = NULL /\ fault' = [fault EXCEPT ![t] = f]

-----------------------------------------------------------------------------
(* get_free_page: the last free page, filled with zeros.                   *)
FreePages == {p \in Pages : mem_map[p] = 0}
Allocating(t, goal) == cpu = t /\ fault[t].at = "alloc" /\ fault[t].goal = goal
Gets(t, goal) == Allocating(t, goal) /\ FreePages # {}
NewPage == Max(FreePages)
Taken == [mem_map EXCEPT ![NewPage] = 1]
Zeroed == [content EXCEPT ![NewPage] = Zero]

(* try_to_swap_out: a clean page is dropped, it is in the file or empty.   *)
Droppable(t, v) == Present(t, v) /\ ~pte[t][v].dirty
Writable(t, v) == /\ Present(t, v) /\ pte[t][v].dirty
                  /\ mem_map[pte[t][v].page] = 1 /\ swap_bitmap # {}

Drop(t) ==
  /\ cpu = t /\ fault[t].at = "alloc" /\ FreePages = {}
  /\ \E u \in Tasks, v \in Virtual :
       /\ Droppable(u, v)
       /\ pte' = [pte EXCEPT ![u][v] = NotMapped]
       /\ mem_map' = [mem_map EXCEPT ![pte[u][v].page] = @ - 1]
  /\ UNCHANGED <<content, dir, swap_bitmap, swap, fault, cpu, want>>

WriteOut(t) ==
  /\ cpu = t /\ fault[t].at = "alloc" /\ FreePages = {}
  /\ \E u \in Tasks, v \in Virtual :
       LET n == Min(swap_bitmap) IN
       /\ Writable(u, v)
       /\ pte' = [pte EXCEPT ![u][v] = Swapped(n)]
       /\ swap_bitmap' = swap_bitmap \ {n}
       /\ swap' = [swap EXCEPT ![n] = content[pte[u][v].page]]
       /\ Sleep(t, [fault[t] EXCEPT !.at = "writing", !.out = pte[u][v].page])
  /\ UNCHANGED <<mem_map, content, dir, want>>

WrittenOut(t) ==
  /\ Awake(t, "writing")
  /\ mem_map' = [mem_map EXCEPT ![fault[t].out] = @ - 1]
  /\ Enter(t, [fault[t] EXCEPT !.at = "alloc", !.out = NULL])
  /\ UNCHANGED <<content, dir, pte, swap_bitmap, swap, want>>

-----------------------------------------------------------------------------
(* The places where a task may have a page: the entries of its table, that *)
(* of the table itself, its hands, and the disk request for a page on its  *)
(* way out.                                                                *)
Dir == -1
InHand == -2
Outgoing == -3
Places == Virtual \cup {Dir, InHand, Outgoing}
PageAt(t, place) == CASE place = Dir -> dir[t]
                      [] place = InHand -> fault[t].held
                      [] place = Outgoing -> fault[t].out
                      [] OTHER -> pte[t][place].page

(* free_page_tables, with the page in the hands of a task that dies.       *)
InTables == Virtual \cup {Dir}
FreeTables(t, places) ==
  /\ mem_map' = [p \in Pages |-> mem_map[p] - Cardinality({w \in places : PageAt(t, w) = p})]
  /\ swap_bitmap' = swap_bitmap \cup ({pte[t][v].nr : v \in Virtual} \ {NULL})
  /\ pte' = [pte EXCEPT ![t] = NoPages]
  /\ dir' = [dir EXCEPT ![t] = NULL]
  /\ UNCHANGED <<content, swap>>

Exit(t) == /\ InUserMode(t)
           /\ FreeTables(t, InTables)
           /\ fault' = [fault EXCEPT ![t] = Gone]
           /\ UNCHANGED <<cpu, want>>

(* The same when do_execve gives up the pages of the old program.          *)
Exec(t) == /\ InUserMode(t)
           /\ FreeTables(t, InTables)
           /\ want' = [want EXCEPT ![t] = [v \in Virtual |-> First(v)]]
           /\ UNCHANGED <<cpu, fault>>

(* oom: the task that gets no page dies; fork only fails.                  *)
NoVictim == \A u \in Tasks, v \in Virtual : ~Droppable(u, v) /\ ~Writable(u, v)
OutOfMemory(t) ==
  /\ cpu = t /\ fault[t].at = "alloc" /\ FreePages = {} /\ NoVictim
  /\ IF fault[t].goal \in {"fork", "fork in"}
     THEN FreeTables(fault[t].other, InTables) /\ Return(t)
     ELSE /\ FreeTables(t, InTables \cup {InHand})
          /\ cpu' = NULL /\ fault' = [fault EXCEPT ![t] = Gone]
  /\ UNCHANGED want

-----------------------------------------------------------------------------
(* un_wp_page, for an instruction that stores in a page that is read only. *)
Alone(e) == mem_map[e.page] = 1
WriteFault(t, v) ==
  LET e == pte[t][v] IN
  /\ InUserMode(t) /\ Present(t, v) /\ ~e.rw
  /\ \/ /\ Alone(e)
        /\ pte' = [pte EXCEPT ![t][v].rw = TRUE]
        /\ UNCHANGED <<fault, cpu>>
     \/ /\ ~Alone(e) /\ (FreePages # {} \/ SwapInCow)
        /\ Call(t, "cow", v, e.page)
        /\ UNCHANGED pte
  /\ UNCHANGED <<mem_map, content, dir, swap_bitmap, swap, want>>

(* The instruction is repeated before another task gets the CPU.           *)
Given_up_not(t) == Taken      \* mutant: the shared page is still counted for t
Given_up(t) == [Taken EXCEPT ![fault[t].other] = @ - 1]
CopyOnWrite(t) ==
  LET v == fault[t].v IN
  /\ Gets(t, "cow")
  /\ mem_map' = Given_up(t)
  /\ content' = [content EXCEPT ![NewPage] = t]
  /\ pte' = [pte EXCEPT ![t][v] = MappedDirty(NewPage)]
  /\ want' = [want EXCEPT ![t][v] = t]
  /\ Return(t)
  /\ UNCHANGED <<dir, swap_bitmap, swap>>

Store(t, v) ==
  /\ InUserMode(t) /\ Present(t, v) /\ pte[t][v].rw
  /\ content' = [content EXCEPT ![pte[t][v].page] = t]
  /\ pte' = [pte EXCEPT ![t][v].dirty = TRUE]
  /\ want' = [want EXCEPT ![t][v] = t]
  /\ UNCHANGED <<mem_map, dir, swap_bitmap, swap, fault, cpu>>

-----------------------------------------------------------------------------
(* share_page, try_to_share: another task that runs the same program has   *)
(* the page, unchanged.  Sharing needs a table in which to enter the page. *)
Sharers_dirty(t, v) ==       \* mutant: the dirty bit is not looked at
  IF v \in Data THEN {} ELSE {u \in Tasks \ {t} : Present(u, v)}
Sharers(t, v) ==
  IF v \in Data THEN {} ELSE {u \in Tasks \ {t} : Present(u, v) /\ ~pte[u][v].dirty}

Share(t, u, v, M) ==
  /\ pte' = [pte EXCEPT ![u][v].rw = FALSE, ![t][v] = [pte[u][v] EXCEPT !.rw = FALSE]]
  /\ mem_map' = [M EXCEPT ![pte[u][v].page] = @ + 1]

(* do_no_page.                                                             *)
NoPage(t, v) ==
  LET e == pte[t][v] IN
  /\ InUserMode(t) /\ ~Present(t, v)
  /\ \/ /\ e.nr # NULL
        /\ Call(t, "swap in", v, NULL)
        /\ UNCHANGED <<mem_map, pte>>
     \/ /\ e.nr = NULL /\ Sharers(t, v) = {}
        /\ Call(t, "new", v, NULL)
        /\ UNCHANGED <<mem_map, pte>>
     \/ /\ e.nr = NULL
        /\ \E u \in Sharers(t, v) :
             \/ dir[t] # NULL /\ Share(t, u, v, mem_map) /\ UNCHANGED <<fault, cpu>>
             \/ /\ dir[t] = NULL /\ (FreePages # {} \/ SwapInCow)
                /\ Call(t, "share", v, u)
                /\ UNCHANGED <<mem_map, pte>>
  /\ UNCHANGED <<content, dir, swap_bitmap, swap, want>>

ShareInTable(t) ==
  /\ Gets(t, "share")
  /\ dir' = [dir EXCEPT ![t] = NewPage]
  /\ Share(t, fault[t].other, fault[t].v, Taken)
  /\ Return(t)
  /\ UNCHANGED <<content, swap_bitmap, swap, want>>

(* swap_in, its two halves around the read.                                *)
ReadSwap(t) ==
  /\ Gets(t, "swap in")
  /\ mem_map' = Taken
  /\ content' = [content EXCEPT ![NewPage] = swap[pte[t][fault[t].v].nr]]
  /\ Sleep(t, [fault[t] EXCEPT !.at = "reading swap", !.held = NewPage])
  /\ UNCHANGED <<dir, pte, swap_bitmap, swap, want>>

Released_not(n) == swap_bitmap          \* mutant: setbit is left out
Released(n) == swap_bitmap \cup {n}

SwapIn(t) ==
  LET v == fault[t].v IN
  /\ Awake(t, "reading swap")
  /\ swap_bitmap' = Released(pte[t][v].nr)
  /\ pte' = [pte EXCEPT ![t][v] = MappedDirty(fault[t].held)]
  /\ Return(t)
  /\ UNCHANGED <<mem_map, content, dir, swap, want>>

(* get_empty_page, or bread_page, and put_page; for a task without a table *)
(* put_page gets one first.                                                *)
NewOrRead(t) ==
  LET v == fault[t].v  f == [fault[t] EXCEPT !.held = NewPage] IN
  /\ Gets(t, "new")
  /\ mem_map' = Taken
  /\ content' = [Zeroed EXCEPT ![NewPage] = First(v)]
  /\ IF v \in Code THEN Sleep(t, [f EXCEPT !.at = "reading file"])
                   ELSE Enter(t, [f EXCEPT !.at = "put"])
  /\ UNCHANGED <<dir, pte, swap_bitmap, swap, want>>

PutPage(t) ==
  /\ Awake(t, "reading file") \/ (cpu = t /\ fault[t].at = "put")
  /\ IF dir[t] = NULL
     THEN Enter(t, [fault[t] EXCEPT !.at = "alloc", !.goal = "table"]) /\ UNCHANGED pte
     ELSE pte' = [pte EXCEPT ![t][fault[t].v] = Mapped(fault[t].held)] /\ Return(t)
  /\ UNCHANGED <<mem_map, content, dir, swap_bitmap, swap, want>>

PutInTable(t) ==
  /\ Gets(t, "table")
  /\ mem_map' = Taken
  /\ dir' = [dir EXCEPT ![t] = NewPage]
  /\ pte' = [pte EXCEPT ![t][fault[t].v] = Mapped(fault[t].held)]
  /\ Return(t)
  /\ UNCHANGED <<content, swap_bitmap, swap, want>>

-----------------------------------------------------------------------------
(* copy_page_tables.                                                       *)
Fork(t) ==
  /\ InUserMode(t) /\ dir[t] # NULL
  /\ \E c \in Tasks :
       /\ fault[c].at = "gone" /\ \A u \in Tasks : fault[u].other # c
       /\ Call(t, "fork", NULL, c)
  /\ UNCHANGED <<mem_map, content, dir, pte, swap_bitmap, swap, want>>

ForkTable(t) ==
  /\ Gets(t, "fork")
  /\ mem_map' = Taken
  /\ dir' = [dir EXCEPT ![fault[t].other] = NewPage]
  /\ Enter(t, [fault[t] EXCEPT !.at = "copy", !.v = 1])
  /\ UNCHANGED <<content, pte, swap_bitmap, swap, want>>

(* From v up to the next entry that is swapped out, or to the end.         *)
NextSwapped(t, v) == {w \in Virtual : w >= v /\ pte[t][w].nr # NULL}
Copied(t, v) == {w \in Virtual : /\ w >= v /\ Present(t, w)
                                 /\ \A s \in NextSwapped(t, v) : w < s}
Protected(e) == [e EXCEPT !.rw = FALSE]

CopyEntries(t) ==
  LET c == fault[t].other  v == fault[t].v  done == Copied(t, v) IN
  /\ cpu = t /\ fault[t].at = "copy"
  /\ pte' = [u \in Tasks |-> [w \in Virtual |->
               IF u \in {t, c} /\ w \in done THEN Protected(pte[t][w]) ELSE pte[u][w]]]
  /\ mem_map' = [p \in Pages |-> mem_map[p] + Cardinality({w \in done : pte[t][w].page = p})]
  /\ IF NextSwapped(t, v) # {}
     THEN Call(t, "fork in", Min(NextSwapped(t, v)), c) /\ UNCHANGED want
     ELSE /\ cpu' = NULL /\ fault' = [fault EXCEPT ![t] = User, ![c] = User]
          /\ want' = [want EXCEPT ![c] = want[t]]
  /\ UNCHANGED <<content, dir, swap_bitmap, swap>>

ForkRead(t) ==
  /\ Gets(t, "fork in")
  /\ mem_map' = Taken
  /\ content' = [content EXCEPT ![NewPage] = swap[pte[t][fault[t].v].nr]]
  /\ Sleep(t, [fault[t] EXCEPT !.at = "reading fork", !.held = NewPage])
  /\ UNCHANGED <<dir, pte, swap_bitmap, swap, want>>

(* The child keeps the swap page, the father gets the page that was read.  *)
ForkSwapped(t) ==
  LET v == fault[t].v IN
  /\ Awake(t, "reading fork")
  /\ pte' = [pte EXCEPT ![fault[t].other][v] = pte[t][v], ![t][v] = MappedDirty(fault[t].held)]
  /\ Enter(t, [fault[t] EXCEPT !.at = "copy", !.v = v + 1, !.held = NULL])
  /\ UNCHANGED <<mem_map, content, dir, swap_bitmap, swap, want>>

-----------------------------------------------------------------------------
MemNext ==
  \E t \in Tasks :
    \/ Drop(t) \/ WriteOut(t) \/ WrittenOut(t) \/ Exit(t) \/ Exec(t) \/ OutOfMemory(t)
    \/ \E v \in Virtual : WriteFault(t, v) \/ Store(t, v) \/ NoPage(t, v)
    \/ CopyOnWrite(t) \/ ShareInTable(t) \/ ReadSwap(t) \/ SwapIn(t)
    \/ NewOrRead(t) \/ PutPage(t) \/ PutInTable(t)
    \/ Fork(t) \/ ForkTable(t) \/ CopyEntries(t) \/ ForkRead(t) \/ ForkSwapped(t)

MemSpec == MemInit /\ [][MemNext]_memVars

-----------------------------------------------------------------------------
(* put_page's "mem_map disagrees" and free_page's panic: the count of a    *)
(* page is the number of the places it is in.                              *)
UsesOf(p) == {x \in Tasks \X Places : PageAt(x[1], x[2]) = p}
CountsMappings == \A p \in Pages : mem_map[p] = Cardinality(UsesOf(p))

(* "swapping in multiply from same page": a swap page is free, or it is    *)
(* the place of exactly one page of one task.                              *)
SwapAccounted ==
  \A n \in SwapPages :
    Cardinality({tv \in Tasks \X Virtual : pte[tv[1]][tv[2]].nr = n})
      = (IF n \in swap_bitmap THEN 0 ELSE 1)

(* However its pages are shared, copied, dropped, swapped and read again,  *)
(* a task finds in them what it has stored, and nobody else's data.        *)
Seen(t, v) == LET e == pte[t][v] IN
              IF Present(t, v) THEN content[e.page]
              ELSE IF e.nr # NULL THEN swap[e.nr] ELSE First(v)
OwnContents == \A t \in Tasks, v \in Virtual : fault[t].at # "gone" => Seen(t, v) = want[t][v]
=============================================================================
