------------------------------- MODULE MCFiles -------------------------------
(* Path names with open files, and pipes with select: part says which.     *)
EXTENDS Files, Pipe, TLC

VARIABLE part

(* A root with a directory d, a link l to it, a block device b that is     *)
(* also a mount point, and m, the root of the device that can be mounted.  *)
Kinds == [r |-> "dir", d |-> "dir", l |-> "link", b |-> "blk", p |-> "blk", m |-> "dir", n |-> "free"]
Devices == [r |-> 1, d |-> 1, l |-> 1, b |-> 1, p |-> 1, m |-> 2, n |-> 1]
Nothing == <<>>
Contents == [r |-> ("." :> "r") @@ (".." :> "r") @@ [d |-> "d", l |-> "l", b |-> "b"],
             d |-> ("." :> "d") @@ (".." :> "r") @@ [g |-> "p"],
             l |-> Nothing, b |-> Nothing, p |-> Nothing, n |-> Nothing,
             m |-> ("." :> "m") @@ (".." :> "m")]
ToDir == <<"d">>
SomePaths == {<<"d", "g">>, <<"l", "g">>, <<"l">>, <<"b">>, <<"d", "g", "">>, <<"..", "d">>}
OtherPaths == {<<"b">>}

With(procs, size, counts, inputs, outputs, events) ==
  [procs |-> procs, page |-> size, counts |-> counts,
   inputs |-> inputs, outputs |-> outputs, events |-> events]
PipeSetupsDef ==
  {With(3, 2, {2}, {}, {}, {"signal"}),
   With(2, 4, {3, 4}, {}, {}, {}),
   With(2, 2, {1, 2}, {}, {}, {"fault"}),
   With(2, 2, {2}, SUBSET {"pipe", "tty"}, {{}}, {"select", "time"}),
   With(3, 2, {1}, {{"pipe"}}, {{}}, {"select"}),
   With(2, 2, {1}, {{"pipe"}}, {{}, {"pipe"}}, {"select", "signal"})}
Symmetry == Permutations(Procs)

Init == /\ part \in {"files", "pipes"} /\ FilesInit
        /\ PipeInit /\ (part = "files" => pipes.page = 4)
Next == /\ UNCHANGED part
        /\ \/ part = "files" /\ FilesNext /\ UNCHANGED pipeVars
           \/ part = "pipes" /\ PipeNext /\ UNCHANGED filesVars
Spec == Init /\ [][Next]_<<part, filesVars, pipeVars>>

(* A task that is runnable runs, and ticks go on.                          *)
OneSelect == {With(2, 2, {2}, {{"pipe"}, {"tty"}}, {{}}, {"select", "time"})}
TicksAndTasks ==
  \A t \in Procs : /\ WF_pipeVars(part = "pipes" /\ KernelStep(t))
                  /\ WF_pipeVars(part = "pipes" /\ TimeIsOut(t))
FairSpec == Spec /\ TicksAndTasks
==============================================================================
