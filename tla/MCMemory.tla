------------------------------- MODULE MCMemory -------------------------------
(* Paging, malloc and the family of tasks share nothing but the free       *)
(* pages, of which each is given its own: one of them is chosen at first   *)
(* and runs alone.                                                         *)
EXTENDS Memory, Malloc, ProcessTree

VARIABLE part

Sizes == <<1, 2>>
Init == part \in {"paging", "malloc", "family"} /\ MemInit /\ MallocInit /\ ProcInit
Next == /\ UNCHANGED part
        /\ \/ part = "paging" /\ MemNext /\ UNCHANGED <<mallocVars, procVars>>
           \/ part = "malloc" /\ MallocNext /\ UNCHANGED <<memVars, procVars>>
           \/ part = "family" /\ ProcNext /\ UNCHANGED <<memVars, mallocVars>>
Spec == Init /\ [][Next]_<<part, memVars, mallocVars, procVars>>

(* The others wait for any child, and to hear of stopped ones too.         *)
AnyNews == {[kind |-> "any", id |-> 0, untraced |-> TRUE]}

(* The page of a task is named like its pid: which page get_free_page      *)
(* returns makes no difference.                                            *)
PageIsPid == \A p \in Range(task') \ {NoPtr} : proc'[p].pid = p

(* Which page is which makes no difference, nor what is in a free one.     *)
PageUse(p) ==
  [count |-> mem_map[p], content |-> content[p],
   entries |-> {tv \in Tasks \X Virtual : pte[tv[1]][tv[2]].page = p},
   tables |-> {t \in Tasks : dir[t] = p}, held |-> {t \in Tasks : fault[t].held = p},
   cow |-> {t \in Tasks : fault[t].goal = "cow" /\ fault[t].other = p}]
SwapUse(n) == [content |-> swap[n], entries |-> {tv \in Tasks \X Virtual : pte[tv[1]][tv[2]].nr = n}]
Entry(e) == <<e.page # NULL, e.nr # NULL, e.rw, e.dirty>>
Where(t) == [fault[t] EXCEPT !.held = NULL, !.out = NULL, !.other = IF fault[t].goal = "cow" THEN NULL ELSE @]
(* The signals and the exit code of a zombie have no effect.               *)
Seen_proc(p) == IF proc[p].state = "zombie" THEN [proc[p] EXCEPT !.signal = {}, !.exit_code = 0]
                                            ELSE proc[p]
Family_seen == <<task, [p \in TaskPages |-> Seen_proc(p)], last_pid, forking, waiting>>
Paging_seen == <<{PageUse(p) : p \in Pages \ FreePages}, Cardinality(FreePages),
                 {SwapUse(n) : n \in SwapPages \ swap_bitmap}, Cardinality(swap_bitmap),
                 [t \in Tasks |-> <<[v \in Virtual |-> Entry(pte[t][v])], Where(t), want[t], dir[t] # NULL>>], cpu>>
View == CASE part = "paging" -> <<part, Paging_seen, mallocVars, procVars>>
          [] part = "malloc" -> <<part, memVars, mallocVars, procVars>>
          [] part = "family" -> <<part, memVars, mallocVars, Family_seen>>
=============================================================================
