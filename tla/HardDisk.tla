------------------------------- MODULE HardDisk -------------------------------
(***************************************************************************)
(* The driver of the hard disk (kernel/blk_drv/hd.c) with its drive.       *)
(*                                                                         *)
(* An interrupt handler runs to its end; what it calls last is named by    *)
(* call and is the next step.  The drive works on beside it: it finishes a *)
(* command in time, too late, or never, and its interrupt may be pending   *)
(* when the driver has given it another command.                           *)
(***************************************************************************)
EXTENDS Integers, Sequences, SequencesExt, FiniteSets

CONSTANTS Requests,      \* the requests that come in, each once
          Sectors,       \* the length of a request; 2 in the kernel
          MAX_ERRORS,    \* 7 in the kernel
          NR_HD          \* the number of drives

VARIABLES
  queued,        \* the queue, CURRENT first
  do_hd,         \* the handler of the next interrupt
  hd_timeout,    \* the timeout is running
  recalibrate,
  reset,
  specified,     \* the drive that reset_hd sends parameters to
  call,          \* what the handler that runs does next
  drive,         \* the command of the drive, and how far it is
  irq,           \* the drive's interrupt is pending
  moved,         \* history: the sectors moved, per request
  ended          \* history: how requests have been ended

hdVars == <<queued, do_hd, hd_timeout, recalibrate, reset, specified, call, drive, irq, moved, ended>>

HD_READ == "read"
HD_WRITE == "write"
None == "none"

ASSUME HardDiskAssumption == Sectors \in Nat \ {0} /\ MAX_ERRORS \in Nat /\ NR_HD \in Nat \ {0}

Resting == [at |-> "idle", cmd |-> None, id |-> None, sector |-> 0]

HdInit ==
  /\ queued = <<>> /\ do_hd = None /\ hd_timeout = FALSE
  /\ recalibrate = FALSE /\ reset = FALSE /\ specified = 0 /\ call = None
  /\ drive = Resting /\ irq = FALSE
  /\ moved = [r \in Requests |-> {}]
  /\ ended = [r \in Requests |-> <<>>]

CURRENT == Head(queued)

(* add_request: an idle device is started, else the request waits.  The    *)
(* order of the others is of no interest to the driver.                    *)
Known == {r \in Requests : ended[r] # <<>> \/ \E i \in DOMAIN queued : queued[i].id = r}
NewRequest(r) ==
  /\ call = None /\ r \notin Known
  /\ \E cmd \in {HD_READ, HD_WRITE}, inside \in BOOLEAN :
       queued' = Append(queued, [id |-> r, cmd |-> cmd, inside |-> inside,
                                 sector |-> 1, left |-> Sectors, errors |-> 0])
  /\ call' = IF queued = <<>> THEN "do_hd_request" ELSE None
  /\ UNCHANGED <<do_hd, hd_timeout, recalibrate, reset, specified, drive, irq, moved, ended>>

end_request(how) == /\ queued' = Tail(queued)
                    /\ ended' = [ended EXCEPT ![CURRENT.id] = Append(@, how)]

(* One more error of CURRENT, which may be the last one it can have.       *)
GivesUp == CURRENT.errors + 1 >= MAX_ERRORS
Failed == IF GivesUp THEN Tail(queued) ELSE [queued EXCEPT ![1].errors = @ + 1]
CountError == /\ queued' = Failed
              /\ ended' = IF GivesUp THEN [ended EXCEPT ![CURRENT.id] = Append(@, "error")] ELSE ended

(* bad_rw_intr then looks at the errors of the request that is CURRENT now *)
(* or, when there is none, at those of address 0, which are many.          *)
ManyErrors == Failed = <<>> \/ Failed[1].errors > MAX_ERRORS \div 2
bad_rw_intr == CountError /\ reset' = (reset \/ ManyErrors)

(* hd_out waits until the drive is ready: a command under way is finished  *)
(* first, and its interrupt is pending then.                               *)
Busy == drive.at = "busy"
hd_out(cmd, handler) ==
  /\ do_hd' = handler /\ hd_timeout' = TRUE
  /\ irq' = (irq \/ Busy)
  /\ drive' = [at |-> "busy", cmd |-> cmd,
               id |-> IF cmd \in {HD_READ, HD_WRITE} THEN CURRENT.id ELSE None,
               sector |-> IF cmd \in {HD_READ, HD_WRITE} THEN CURRENT.sector ELSE 0]

(* win_result.                                                             *)
WinOk_busy == drive.at # "error"    \* mutant: BUSY_STAT is not tested
WinOk == drive.at \in {"idle", "ready"}

-----------------------------------------------------------------------------
(* The drive finishes a command, or a sector of it.                        *)
DriveDone ==
  /\ Busy
  /\ \E result \in {"ready", "error"} : drive' = [drive EXCEPT !.at = result]
  /\ irq' = TRUE
  /\ UNCHANGED <<queued, do_hd, hd_timeout, recalibrate, reset, specified, call, moved, ended>>

(* hd_interrupt (kernel/sys_call.s).                                       *)
HdInterrupt ==
  /\ call = None /\ irq
  /\ irq' = FALSE
  /\ hd_timeout' = FALSE
  /\ do_hd' = None
  /\ call' = IF do_hd = None THEN "unexpected" ELSE do_hd
  /\ UNCHANGED <<queued, recalibrate, reset, specified, drive, moved, ended>>

Unexpected == /\ call = "unexpected"
              /\ reset' = TRUE /\ call' = "do_hd_request"
              /\ UNCHANGED <<queued, do_hd, hd_timeout, recalibrate, specified, drive, irq, moved, ended>>

(* do_timer counts hd_timeout down to 0 and calls hd_times_out.            *)
TimeOutError_free == UNCHANGED <<queued, ended>>   \* mutant: a timeout counts as no error
TimeOutError == CountError
HdTimesOut ==
  /\ call = None /\ hd_timeout
  /\ IF queued = <<>>
     THEN hd_timeout' = FALSE /\ UNCHANGED <<queued, ended, do_hd, reset, call>>
     ELSE /\ TimeOutError
          /\ do_hd' = None /\ hd_timeout' = TRUE
          /\ reset' = TRUE
          /\ call' = "do_hd_request"
  /\ UNCHANGED <<recalibrate, specified, drive, irq, moved>>

-----------------------------------------------------------------------------
(* do_hd_request.                                                          *)
NoRequest ==
  /\ call = "do_hd_request" /\ queued = <<>>
  /\ do_hd' = None /\ hd_timeout' = FALSE /\ call' = None
  /\ UNCHANGED <<queued, recalibrate, reset, specified, drive, irq, moved, ended>>

Asked == call = "do_hd_request" /\ queued # <<>>

BadSector ==
  /\ Asked /\ ~CURRENT.inside
  /\ end_request("error")
  /\ UNCHANGED <<do_hd, hd_timeout, recalibrate, reset, specified, call, drive, irq, moved>>

StartReset ==
  /\ Asked /\ CURRENT.inside /\ reset
  /\ recalibrate' = TRUE /\ call' = "reset_hd"
  /\ UNCHANGED <<queued, do_hd, hd_timeout, reset, specified, drive, irq, moved, ended>>

Recalibrate ==
  /\ Asked /\ CURRENT.inside /\ ~reset /\ recalibrate
  /\ recalibrate' = FALSE /\ call' = None
  /\ hd_out("restore", "recal_intr")
  /\ UNCHANGED <<queued, reset, specified, moved, ended>>

Ready == Asked /\ CURRENT.inside /\ ~reset /\ ~recalibrate
Read == /\ Ready /\ CURRENT.cmd = HD_READ
        /\ call' = None
        /\ hd_out(HD_READ, "read_intr")
        /\ UNCHANGED <<queued, recalibrate, reset, specified, moved, ended>>

(* The drive asks for the first sector, or does not for 10000 tries.       *)
Write == /\ Ready /\ CURRENT.cmd = HD_WRITE
         /\ \/ /\ call' = None
               /\ hd_out(HD_WRITE, "write_intr")
               /\ UNCHANGED <<queued, reset, ended>>
            \/ /\ bad_rw_intr
               /\ do_hd' = "write_intr" /\ hd_timeout' = TRUE
               /\ irq' = (irq \/ Busy)
               /\ drive' = [Resting EXCEPT !.at = "error"]
               /\ UNCHANGED call
         /\ UNCHANGED <<recalibrate, specified, moved>>

-----------------------------------------------------------------------------
(* reset_hd: after a reset of the controller, parameters for every drive.  *)
Specify(i) ==
  /\ specified' = i
  /\ IF i < NR_HD
     THEN hd_out("specify", "reset_hd") /\ call' = None
     ELSE call' = "do_hd_request" /\ UNCHANGED <<do_hd, hd_timeout, drive, irq>>

ResetController ==
  /\ call = "reset_hd" /\ reset
  /\ reset' = FALSE /\ specified' = 0
  /\ do_hd' = "reset_hd" /\ hd_timeout' = TRUE /\ call' = None
  /\ drive' = [Resting EXCEPT !.at = "busy", !.cmd = "specify"]
  /\ UNCHANGED <<queued, recalibrate, irq, moved, ended>>

Specified ==
  /\ call = "reset_hd" /\ ~reset /\ WinOk
  /\ Specify(specified + 1)
  /\ UNCHANGED <<queued, recalibrate, reset, moved, ended>>

(* Without a CURRENT bad_rw_intr counts errors at address 0, in the page   *)
(* directory, and ends a request that is not one: the model stops there.   *)
NotSpecified ==
  /\ call = "reset_hd" /\ ~reset /\ ~WinOk
  /\ IF queued = <<>> THEN call' = "null pointer" /\ UNCHANGED <<queued, ended, reset, do_hd, hd_timeout, drive, irq, specified>>
     ELSE /\ bad_rw_intr
          /\ IF reset' THEN UNCHANGED <<call, do_hd, hd_timeout, drive, irq, specified>>
                       ELSE Specify(specified + 1)
  /\ UNCHANGED <<recalibrate, moved>>

(* read_intr and write_intr for one sector.  What is moved is what CURRENT *)
(* asks for if the drive is at that sector of it.                          *)
Moved == IF drive.at = "ready" /\ drive.cmd = CURRENT.cmd /\ drive.id = CURRENT.id
         THEN [moved EXCEPT ![CURRENT.id] = @ \cup {drive.sector}] ELSE moved
Fails(c) ==
  /\ call = c /\ ~WinOk
  /\ bad_rw_intr /\ call' = "do_hd_request"
  /\ UNCHANGED <<do_hd, hd_timeout, recalibrate, specified, drive, irq, moved>>

NextSector(errors) ==
  [queued EXCEPT ![1].errors = errors, ![1].sector = @ + 1, ![1].left = @ - 1]

SectorDone(c, errors) ==
  /\ call = c /\ WinOk
  /\ moved' = Moved
  /\ \/ /\ CURRENT.left > 1
        /\ queued' = NextSector(errors)
        /\ do_hd' = c /\ hd_timeout' = TRUE /\ call' = None
        /\ drive' = [drive EXCEPT !.at = "busy", !.sector = @ + 1]
        /\ UNCHANGED ended
     \/ /\ CURRENT.left = 1
        /\ end_request("ok")
        /\ call' = "do_hd_request"
        /\ drive' = Resting
        /\ UNCHANGED <<do_hd, hd_timeout>>
  /\ UNCHANGED <<recalibrate, reset, specified, irq>>

read_intr == Fails("read_intr") \/ SectorDone("read_intr", 0)
write_intr == Fails("write_intr") \/ SectorDone("write_intr", CURRENT.errors)
recal_intr ==
  \/ Fails("recal_intr")
  \/ /\ call = "recal_intr" /\ WinOk
     /\ call' = "do_hd_request"
     /\ UNCHANGED <<queued, do_hd, hd_timeout, recalibrate, reset, specified, drive, irq, moved, ended>>

Handler == \/ Unexpected \/ NoRequest \/ BadSector \/ StartReset \/ Recalibrate \/ Read \/ Write
           \/ ResetController \/ Specified \/ NotSpecified
           \/ read_intr \/ write_intr \/ recal_intr

HdNext == Handler \/ DriveDone \/ HdInterrupt \/ HdTimesOut \/ \E r \in Requests : NewRequest(r)

HdSpec == HdInit /\ [][HdNext]_hdVars

-----------------------------------------------------------------------------
(* A request that is ended well has been moved, every sector of it, by its *)
(* own command, however late or early the interrupts come; and no request  *)
(* is ended twice.                                                         *)
OkIsMoved ==
  \A r \in Requests : /\ Len(ended[r]) <= 1
                      /\ ended[r] = <<"ok">> => moved[r] = 1..Sectors

(* Every request is ended, even by a drive that never answers.             *)
EveryRequestEnds == \A r \in Requests : r \in Known ~> ended[r] # <<>>
=============================================================================
