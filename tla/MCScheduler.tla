----------------------------- MODULE MCScheduler -----------------------------
(* The scheduler, the kernel timers, the request queue of a block device   *)
(* and the driver of the hard disk, what the kernel does on interrupts:    *)
(* part says which of them runs.                                           *)
EXTENDS Scheduler, KernelTimer, BlockRequest, HardDisk

VARIABLE part

(* Two tasks with two buffers and a page, which fill the queue; and one    *)
(* that keeps three buffers moving.                                        *)
FillsQueue == [tasks |-> Submitters, sectors |-> {1, 2, 4}]
LoadsDef == {FillsQueue, [tasks |-> {CHOOSE t \in Submitters : TRUE}, sectors |-> Buffers]}

(* Where the scheduler is left out, the one task has the processor.        *)
Init == /\ part \in {"scheduler", "timers", "queue", "disk"} /\ TimerInit /\ HdInit
        /\ RequestsInit /\ (part # "queue" => load = FillsQueue)
        /\ IF part = "scheduler" THEN SchedInit
           ELSE OneTask /\ current = 1 /\ priority = [t \in Tasks |-> 1]
Next ==
  /\ UNCHANGED part
  /\ \/ part = "scheduler" /\ SchedNext /\ UNCHANGED <<timerVars, requestVars, hdVars>>
     \/ part = "timers" /\ TimerNext /\ UNCHANGED <<schedVars, requestVars, hdVars>>
     \/ part = "queue" /\ RequestsNext /\ UNCHANGED <<schedVars, timerVars, hdVars>>
     \/ part = "disk" /\ HdNext /\ UNCHANGED <<schedVars, timerVars, requestVars>>

(* The clock ticks, the idle task loops, and a task in kernel mode goes    *)
(* back to user mode if it does nothing else: no system call loops.        *)
TasksGoOn ==
  /\ WF_schedVars(part = "scheduler" /\ IdlePause)
  /\ WF_schedVars(part = "scheduler" /\ Tick)
  /\ \A t \in Tasks : WF_schedVars(part = "scheduler" /\ ReturnToUser(t))
(* Ticks keep coming and do_timer finishes its loop.                       *)
TicksGoOn == WF_timerVars(part = "timers" /\ (TimerTick \/ TickEnds \/ \E f \in Fns : Fire(f)))
(* Requests end, and a task that is not asleep goes on.                    *)
RequestsGoOn ==
  /\ WF_requestVars(part = "queue" /\ (\E ok \in BOOLEAN : EndRequest(ok)) /\ UNCHANGED load)
  /\ \A t \in Submitters : WF_requestVars(part = "queue" /\ Goes(t) /\ UNCHANGED load)
(* A handler runs on, pending interrupts come, and the clock ticks; the    *)
(* drive need not do anything.                                             *)
HandlersGoOn ==
  /\ WF_hdVars(part = "disk" /\ Handler)
  /\ WF_hdVars(part = "disk" /\ HdInterrupt)
  /\ WF_hdVars(part = "disk" /\ HdTimesOut)

Spec == /\ Init /\ [][Next]_<<part, schedVars, timerVars, requestVars, hdVars>>
        /\ TasksGoOn /\ TicksGoOn /\ RequestsGoOn /\ HandlersGoOn
==============================================================================
