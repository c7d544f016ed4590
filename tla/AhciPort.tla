------------------------------ MODULE AhciPort ------------------------------
(***************************************************************************)
(* One AHCI port as SATAPort drives it (src/sys/sata_port.cpp): the        *)
(* constructor's Configure and IdentifyDevice, and every DiskReadWrite,    *)
(* with the GetDiskCapacity command it issues while max_lba_ is -1.        *)
(* Each command goes through the same handshake with the controller:       *)
(* wait for the device to be idle (IsBusy), ActivateCommands (wait for CR  *)
(* to drop, set FRE and ST), IssueCommand, poll until the slot's CI bit    *)
(* clears or OpFailed, then SuspendCommands (clear ST and FRE, wait for    *)
(* FR and CR to drop).                                                     *)
(*                                                                         *)
(* The host is one thread (Panix is cooperative); the controller and the   *)
(* drive run beside it.  A polling loop is an action guarded by the        *)
(* condition it waits for; the straight-line code between two loops is     *)
(* one action.  The controller's side is the AHCI 1.3 register contract:   *)
(* CR follows ST, FR follows FRE, writing ST from 1 to 0 clears PxCI, a    *)
(* command runs only while CR is set, a task-file error sets PxIS.TFES and *)
(* posts a D2H FIS with ERR and halts the list until ST is cleared.        *)
(* Software only ever reads PxIS and PxSERR.                               *)
(*                                                                         *)
(* NCQCapable() returns false, so commands are non-NCQ, and one command    *)
(* is in flight at a time: FirstFreeSlot always finds slot 0 and the port  *)
(* is one slot.  Data, FIS layouts and PRDTs are not modelled: a command   *)
(* is the sector range its table names.                                    *)
(***************************************************************************)
EXTENDS Integers

CONSTANTS NSectors,  \* IDENTIFY words 100..103: the drive's sector count
          Requests,  \* [lba, n] of the DiskReadWrite calls
          Junk,      \* what *(uint64_t*)&dev_info_[100] may hold when
                     \* IDENTIFY failed (dev_info_ is not initialised)
          MaxErrors  \* transient drive errors the model allows

VARIABLES phase,    \* the host's operation: "configure", "identify",
                    \* "capacity" (GetDiskCapacity in DiskReadWrite), "rw",
                    \* or "idle" between calls
          step,     \* where in the handshake the host is
          req,      \* the current DiskReadWrite's [lba, n]
          maxLba,   \* max_lba_
          status,   \* ! OpFailed() as read after the poll loop
          ret,      \* what the last IdentifyDevice / DiskReadWrite returned
          st, fre,  \* PxCMD.ST and PxCMD.FRE (written by the host)
          cr, fr,   \* PxCMD.CR and PxCMD.FR (set by the controller)
          ci,       \* PxCI bit of slot 0
          tab,      \* the command table of slot 0: a sector range, or NoLba
          busy,     \* PxTFD.STS BSY | DRQ
          isErr,    \* PxIS.TFES (DISK_ERR)
          fisErr,   \* received_fis_->reg_fis_.status_ & STATUS_ERR
          dev,      \* the controller's work on slot 0: "idle", "busy", "halted"
          outcome,  \* how the drive ended the command last issued
          errors    \* transient errors so far

hostVars == <<phase, step, req, maxLba, status, ret>>
hbaVars == <<st, fre, cr, fr, ci, tab, busy, isErr, fisErr, dev, outcome, errors>>
vars == <<hostVars, hbaVars>>

UNSET == -1
NoLba == [lba |-> -1, n |-> 0]

(* The sectors a command asks for lie on the disk (IDENTIFY and GET MAX   *)
(* ADDRESS name none).                                                     *)
InRange(t) == t = NoLba \/ t.lba + t.n <= NSectors

----------------------------------------------------------------------------
(* Host side: the SATAPort methods.                                       *)

IsBusy == busy

OpInProgress == ci

(* OpFailed also reads PxSERR; the modelled drive fails a command through *)
(* the task file only, so the SATA error register stays 0 and is left out. *)
OpFailed == fisErr \/ isErr

(* The uint64_t disk_addr > max_lba_ test: max_lba_ = -1 converts to      *)
(* 2^64 - 1, which no address exceeds.                                     *)
ExceedsMaxLba(lba) == maxLba # UNSET /\ lba > maxLba

(* SuspendCommands' register writes: clear ST, then FRE.  Writing ST from *)
(* 1 to 0 makes the controller clear PxCI.                                 *)
SuspendWrites ==
    /\ st' = FALSE /\ fre' = FALSE
    /\ ci' = IF st THEN FALSE ELSE ci

(* Configure: SuspendCommands, then the command list, FIS area and command *)
(* tables are allocated and installed (not modelled).                      *)
Configure ==
    /\ phase = "configure" /\ step = "start"
    /\ SuspendWrites
    /\ step' = "suspend"
    /\ UNCHANGED <<phase, req, maxLba, status, ret, cr, fr, tab, busy, isErr,
                   fisErr, dev, outcome, errors>>

(* Faulty variant of SetupReadWrite: the sector count written in the     *)
(* 0-based encoding of the PRDT's byte count, one short.                  *)
SetupReadWriteCountMinusOne == IF phase = "rw" THEN [req EXCEPT !.n = @ - 1] ELSE NoLba

(* The table SetupReadWrite (or IdentifyDevice, GetDiskCapacity) fills.   *)
SetupReadWrite == IF phase = "rw" THEN req ELSE NoLba

(* while(IsBusy());                                                        *)
BusyWait ==
    /\ step = "busywait" /\ ~IsBusy
    /\ step' = "crwait"
    /\ UNCHANGED <<phase, req, maxLba, status, ret>> /\ UNCHANGED hbaVars

(* Faulty variant of ActivateCommands: ST is never set.                  *)
ActivateCommandsWithoutST == fre' = TRUE /\ st' = st

(* ActivateCommands, after its while(CR): set FRE, then set ST.           *)
ActivateCommands == fre' = TRUE /\ st' = TRUE

(* IssueCommand(slot): cmd_issue_ = 1 << slot; the port has one slot.     *)
IssueCommand == ci' = TRUE

(* ActivateCommands (its wait for CR to drop is the guard) and            *)
(* IssueCommand, on the table just set up.                                 *)
ActivateAndIssue ==
    /\ step = "crwait" /\ ~cr
    /\ ActivateCommands /\ IssueCommand
    /\ tab' = SetupReadWrite /\ outcome' = "none"
    /\ step' = "poll"
    /\ UNCHANGED <<phase, req, maxLba, status, ret, cr, fr, busy, isErr, fisErr,
                   dev, errors>>

(* Faulty variant of Poll: the status ignores OpFailed.                  *)
PollIgnoringFailure ==
    /\ step = "poll" /\ (~OpInProgress \/ OpFailed)
    /\ status' = TRUE
    /\ SuspendWrites
    /\ step' = "suspend"
    /\ UNCHANGED <<phase, req, maxLba, ret, cr, fr, tab, busy, isErr, fisErr, dev,
                   outcome, errors>>

(* while(OpInProgress(slot) && ! OpFailed()); then the status is read and *)
(* SuspendCommands writes ST and FRE.                                      *)
Poll ==
    /\ step = "poll" /\ (~OpInProgress \/ OpFailed)
    /\ status' = ~OpFailed
    /\ SuspendWrites
    /\ step' = "suspend"
    /\ UNCHANGED <<phase, req, maxLba, ret, cr, fr, tab, busy, isErr, fisErr, dev,
                   outcome, errors>>

(* DiskReadWrite after GetDiskCapacity: reject disk_addr > max_lba_, or   *)
(* go on to the read or write command.                                     *)
CheckThenIssue(r) ==
    IF ExceedsMaxLba(r.lba)
    THEN phase' = "idle" /\ ret' = FALSE /\ step' = "start"
    ELSE phase' = "rw" /\ step' = "busywait" /\ UNCHANGED ret

(* The constructor calls IdentifyDevice after Configure: it fills slot 0  *)
(* with IDENTIFY DEVICE and reaches while(IsBusy()).                       *)
IdentifyDevice ==
    phase' = "identify" /\ step' = "busywait" /\ UNCHANGED <<maxLba, ret>>

(* The end of IdentifyDevice: max_lba_ is read from words 100-103 of      *)
(* dev_info_ whether or not the command failed. They hold the sector count *)
(* after a good IDENTIFY, and whatever the buffer held before otherwise.   *)
IdentifyDone ==
    /\ maxLba' \in IF outcome = "ok" THEN {NSectors} ELSE Junk
    /\ ret' = status /\ phase' = "idle" /\ step' = "start"

(* The end of GetDiskCapacity: its result (or NullOpt) only feeds a log    *)
(* line and max_lba_ is not set; DiskReadWrite goes on to its check.       *)
CapacityDone == CheckThenIssue(req) /\ UNCHANGED maxLba

(* The end of DiskReadWrite: return status.                                *)
ReadWriteDone ==
    ret' = status /\ phase' = "idle" /\ step' = "start" /\ UNCHANGED maxLba

(* What follows SuspendCommands in each of its callers.                   *)
AfterSuspend ==
    CASE phase = "configure" -> IdentifyDevice
      [] phase = "identify"  -> IdentifyDone
      [] phase = "capacity"  -> CapacityDone
      [] phase = "rw"        -> ReadWriteDone

(* Faulty variant of SuspendWait: the loop waits for FR only.            *)
SuspendWaitFrOnly ==
    /\ step = "suspend" /\ ~fr
    /\ AfterSuspend
    /\ UNCHANGED <<req, status>> /\ UNCHANGED hbaVars

(* The end of SuspendCommands, while(FR || CR), and the caller's next step.*)
SuspendWait ==
    /\ step = "suspend" /\ ~fr /\ ~cr
    /\ AfterSuspend
    /\ UNCHANGED <<req, status>> /\ UNCHANGED hbaVars

(* GetDiskCapacity returns max_lba_ at once unless it is still -1; then   *)
(* it issues GET MAX ADDRESS.                                              *)
GetDiskCapacity(r) ==
    IF maxLba = UNSET
    THEN phase' = "capacity" /\ step' = "busywait" /\ UNCHANGED ret
    ELSE CheckThenIssue(r)

(* A caller (CacheReadWrite, HandleEviction) calls DiskReadWrite.         *)
DiskReadWrite(r) ==
    /\ phase = "idle"
    /\ req' = r
    /\ GetDiskCapacity(r)
    /\ UNCHANGED <<maxLba, status>> /\ UNCHANGED hbaVars

----------------------------------------------------------------------------
(* Controller and drive (AHCI 1.3, ATA): not code of this repository.     *)

HbaStart ==
    /\ st /\ ~cr /\ cr' = TRUE
    /\ UNCHANGED hostVars
    /\ UNCHANGED <<st, fre, fr, ci, tab, busy, isErr, fisErr, dev, outcome, errors>>

(* ST cleared: the list stops and a command in progress is abandoned.     *)
HbaStop ==
    /\ ~st /\ cr /\ cr' = FALSE /\ dev' = "idle"
    /\ UNCHANGED hostVars
    /\ UNCHANGED <<st, fre, fr, ci, tab, busy, isErr, fisErr, outcome, errors>>

FisOn ==
    /\ fre /\ ~fr /\ fr' = TRUE
    /\ UNCHANGED hostVars
    /\ UNCHANGED <<st, fre, cr, ci, tab, busy, isErr, fisErr, dev, outcome, errors>>

FisOff ==
    /\ ~fre /\ fr /\ fr' = FALSE
    /\ UNCHANGED hostVars
    /\ UNCHANGED <<st, fre, cr, ci, tab, busy, isErr, fisErr, dev, outcome, errors>>

(* The drive settles (power-on, or after an abandoned command).           *)
DevReady ==
    /\ busy /\ dev = "idle" /\ busy' = FALSE
    /\ UNCHANGED hostVars
    /\ UNCHANGED <<st, fre, cr, fr, ci, tab, isErr, fisErr, dev, outcome, errors>>

(* The controller sends the command FIS of an issued slot.                *)
Fetch ==
    /\ cr /\ ci /\ dev = "idle" /\ ~busy
    /\ dev' = "busy" /\ busy' = TRUE
    /\ UNCHANGED hostVars
    /\ UNCHANGED <<st, fre, cr, fr, ci, tab, isErr, fisErr, outcome, errors>>

(* The drive finishes without error: D2H FIS with a clean status, CI bit  *)
(* cleared.                                                                *)
CompleteOk ==
    /\ dev = "busy" /\ fr /\ InRange(tab)
    /\ dev' = "idle" /\ busy' = FALSE /\ ci' = FALSE /\ fisErr' = FALSE
    /\ outcome' = "ok"
    /\ UNCHANGED hostVars
    /\ UNCHANGED <<st, fre, cr, fr, tab, isErr, errors>>

(* The drive fails the command (always for sectors past its end; else a   *)
(* transient error): TFES, D2H FIS with ERR, the list halts with CI set.   *)
CompleteErr ==
    /\ dev = "busy" /\ fr
    /\ (~InRange(tab) \/ errors < MaxErrors)
    /\ dev' = "halted" /\ busy' = FALSE /\ isErr' = TRUE /\ fisErr' = TRUE
    /\ outcome' = "err"
    /\ errors' = IF InRange(tab) THEN errors + 1 ELSE errors
    /\ UNCHANGED hostVars
    /\ UNCHANGED <<st, fre, cr, fr, ci, tab>>

----------------------------------------------------------------------------
(* The port as SATAPort's constructor leaves the firmware's state: the    *)
(* list and FIS engines may be running and the drive busy.                *)
Init ==
    /\ phase = "configure" /\ step = "start" /\ req = NoLba
    /\ maxLba = UNSET /\ status = FALSE /\ ret = FALSE
    /\ st \in BOOLEAN /\ fre \in BOOLEAN /\ cr = st /\ fr = fre
    /\ ci = FALSE /\ tab = NoLba /\ busy \in BOOLEAN
    /\ isErr = FALSE /\ fisErr = FALSE /\ dev = "idle" /\ outcome = "none"
    /\ errors = 0

Host ==
    \/ Configure \/ BusyWait \/ ActivateAndIssue \/ Poll \/ SuspendWait
    \/ \E r \in Requests : DiskReadWrite(r)

Hba ==
    \/ HbaStart \/ HbaStop \/ FisOn \/ FisOff \/ DevReady \/ Fetch
    \/ CompleteOk \/ CompleteErr

Next == Host \/ Hba

(* The CPU runs the polling loops without preemption, and the controller  *)
(* and drive make progress; callers need not call DiskReadWrite again.     *)
Fairness ==
    /\ WF_vars(Configure) /\ WF_vars(BusyWait) /\ WF_vars(ActivateAndIssue)
    /\ WF_vars(Poll) /\ WF_vars(SuspendWait)
    /\ WF_vars(HbaStart) /\ WF_vars(HbaStop) /\ WF_vars(FisOn) /\ WF_vars(FisOff)
    /\ WF_vars(DevReady) /\ WF_vars(Fetch) /\ WF_vars(CompleteOk \/ CompleteErr)

Spec == Init /\ [][Next]_vars /\ Fairness

-----------------------------------------------------------------------------
(* Properties, checked by the configurations of this module.             *)

(***************************************************************************)
(* Model-checking harness for AhciPort: the port's handshake with the      *)
(* controller, what DiskReadWrite reports, and that every call returns.    *)
(***************************************************************************)

(* Requests inside the disk, across its end, and past it.                 *)
MCRequests == {[lba |-> 0, n |-> 1], [lba |-> 1, n |-> 2], [lba |-> 2, n |-> 1]}

(* After a failed IDENTIFY: -1 (GetDiskCapacity then issues a command on  *)
(* every call), a value that rejects every request, or the true count.    *)
MCJunk == {UNSET, 0, NSectors}

(* Every variable holds a value of its type; the command table names one *)
(* of the requested ranges, or none.                                      *)
TypeOK ==
    /\ phase \in {"configure", "identify", "capacity", "rw", "idle"}
    /\ step \in {"start", "busywait", "crwait", "poll", "suspend"}
    /\ req \in Requests \cup {NoLba}
    /\ maxLba \in {UNSET} \cup Nat \cup Junk
    /\ {status, ret, st, fre, cr, fr, ci, busy, isErr, fisErr} \subseteq BOOLEAN
    /\ tab \in Requests \cup {NoLba}
    /\ dev \in {"idle", "busy", "halted"}
    /\ outcome \in {"none", "ok", "err"}
    /\ errors \in 0 .. MaxErrors

(* A DiskReadWrite or IdentifyDevice that returns true had its command    *)
(* completed by the drive without error: the poll loop's exit and the     *)
(* OpFailed read after it never take an abandoned or failed command, or   *)
(* a clear CI bit left from before, for a success.                        *)
SuccessIsReal ==
    phase = "idle" /\ ret => outcome = "ok"

(* Between calls no command is in flight: the caller's buffer, which the  *)
(* drive writes by DMA, is not touched after DiskReadWrite returns, even  *)
(* when the poll loop left early on a failure while the command was still *)
(* running (SuspendCommands must wait for the list to stop).              *)
NothingInFlightWhenIdle ==
    phase = "idle" => ~ci /\ dev # "busy"

(* Every command the host starts returns: the loops on BSY/DRQ, CR, the   *)
(* CI bit and FR/CR all end, under the progress of the controller.        *)
CallsReturn ==
    phase # "idle" ~> phase = "idle"

(* A DiskReadWrite whose command the drive completed without error        *)
(* returns true (spec 4.4: a hardware error fails the current operation). *)
DeviceSuccessReported ==
    [][phase = "rw" /\ phase' = "idle" /\ outcome = "ok" => ret']_vars

(* The drive is never asked for a sector past its end (spec 4.4: reject   *)
(* requests whose top LBA exceeds max-LBA).                               *)
RequestsInRange ==
    dev = "busy" => InRange(tab)
====
