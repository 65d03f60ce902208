----------------------------- MODULE SystemInfo -----------------------------
(***************************************************************************)
(* The System Information page (ConfApp/SystemInfo.c): prints firmware     *)
(* versions once, then refreshes the clock each time the key poll times    *)
(* out, until ESC.                                                         *)
(***************************************************************************)
EXTENDS ConfAppBase

CONSTANTS
  MaxFmps       \* bound on the number of firmware management protocols installed

ASSUME FmpAssumption == MaxFmps \in Nat

VARIABLES
  mSysInfoState,
  mEnd          \* the cursor was saved below the clock (mEndCol, mEndRow are not zero)

sysInfoVars == <<mSysInfoState, mEnd>>

SysInfoStates == {"SysInfoInit", "SysInfoWait", "SysInfoExit"}

SysInfoStateOptions == << [key |-> "ESC", EndState |-> "SysInfoExit"] >>

SysInfoTypeOK ==
  /\ mSysInfoState \in SysInfoStates
  /\ mEnd \in BOOLEAN

SysInfoInit ==
  /\ mSysInfoState = "SysInfoInit"
  /\ mEnd = FALSE

-----------------------------------------------------------------------------

(***************************************************************************)
(* One firmware management protocol leaves Status at: an error of the size *)
(* query, BUFFER_TOO_SMALL when the descriptor buffer cannot be allocated, *)
(* an error of the second query, or a success.  The loop goes on in every  *)
(* case, so the status of the last one is PrintVersion's.  Every error is  *)
(* "DEVICE_ERROR" here: the caller only asks whether it is one.            *)
(***************************************************************************)
FmpStatus == {"SUCCESS", "DEVICE_ERROR"}

PrintVersion(fmps) == IF fmps = << >> THEN "SUCCESS" ELSE fmps[Len(fmps)]

PrintDateTime(timeOk) == IF timeOk THEN "SUCCESS" ELSE "DEVICE_ERROR"

PrintSysInfoOptions(fmps, timeOk) ==
  IF EFI_ERROR(PrintVersion(fmps)) THEN PrintVersion(fmps) ELSE PrintDateTime(timeOk)

FmpLists == UNION {[1..n -> FmpStatus] : n \in 0..MaxFmps}

SysInfoPrint ==
  /\ OnPage("SystemInfo") /\ mSysInfoState = "SysInfoInit"
  /\ \E fmps \in FmpLists, timeOk \in BOOLEAN :
       LET Status == PrintSysInfoOptions(fmps, timeOk)
       IN  /\ mSysInfoState' = IF EFI_ERROR(Status) THEN mSysInfoState ELSE "SysInfoWait"
           /\ mEnd' = ~EFI_ERROR(Status)
           /\ EndIteration(Status)
  /\ UNCHANGED mConfState

(***************************************************************************)
(* A timeout prints the clock.  NOT_READY is left in Status.               *)
(***************************************************************************)
SysInfoPoll ==
  /\ OnPage("SystemInfo") /\ mSysInfoState = "SysInfoWait"
  /\ \E poll \in PollKeyStroke(TRUE), timeOk \in BOOLEAN :
       /\ mSysInfoState' \in CheckSupportedOptions(poll.Key, SysInfoStateOptions, mSysInfoState)
       /\ EndIteration(IF poll.Status = "TIMEOUT" THEN PrintDateTime(timeOk) ELSE poll.Status)
  /\ UNCHANGED <<mConfState, mEnd>>

SysInfoResetGlobals ==
  /\ mSysInfoState' = "SysInfoInit"
  /\ mEnd' = FALSE

SysInfoLeave ==
  /\ OnPage("SystemInfo") /\ mSysInfoState = "SysInfoExit"
  /\ SysInfoResetGlobals
  /\ ExitSubRoutine
  /\ UNCHANGED <<machine, resetCause>>

SysInfoMgr == SysInfoPrint \/ SysInfoPoll \/ SysInfoLeave
=============================================================================
