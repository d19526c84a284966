----------------------------- MODULE MCFileSystem -----------------------------
(* The inodes in memory and the blocks of files, which two tasks use: part *)
(* says which.                                                             *)
EXTENDS InodeCache, FileBlocks, TLC

VARIABLE part

ToSyncOrToUnlink == {{"sync"}, {"unlink"}}
Of(blocks, pressed, shared) == [blocks |-> blocks, pressed |-> pressed, shared |-> shared]
BlockCasesDef == {Of({0, 1}, TRUE, FALSE), Of({3}, TRUE, FALSE), Of({0, 1}, FALSE, TRUE)}
Symmetry == Permutations(Workers) \cup Permutations(Owners)

(* The part that stands still has one initial state.                       *)
Init == /\ part \in {"inodes", "blocks"}
        /\ InodesRest /\ (part # "inodes" => uses = {"sync"} /\ linked = {})
        /\ BlocksRest /\ (part # "blocks" => pressing.blocks = {3})
Next == /\ UNCHANGED part
        /\ \/ part = "inodes" /\ InodeNext /\ UNCHANGED blockVars
           \/ part = "blocks" /\ BlocksNext /\ UNCHANGED inodeVars
Spec == Init /\ [][Next]_<<part, inodeVars, blockVars>>
===============================================================================
