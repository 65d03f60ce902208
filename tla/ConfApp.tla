------------------------------ MODULE ConfApp ------------------------------
(***************************************************************************)
(* The ConfApp application (ConfApp/ConfApp.c): the main menu, the three   *)
(* pages behind it, and the power of the machine they run on.  One action  *)
(* is one iteration of the main loop of ConfAppEntry, except that an       *)
(* update is taken apart into its writes (SvdApply).                       *)
(***************************************************************************)
EXTENDS SystemInfo, BootOptions, SetupConf

vars == <<baseVars, sysInfoVars, bootOptVars, setupConfVars>>

\* The globals of the pages and the update keep their types.
TypeOK ==
  /\ BaseTypeOK
  /\ SysInfoTypeOK
  /\ BootOptTypeOK
  /\ SetupConfTypeOK

Init ==
  /\ BaseInit
  /\ SysInfoInit
  /\ BootOptInit
  /\ SetupConfInit
  /\ machine = "off"
  /\ resetCause = "none"
  /\ store \in [Vars -> Values]
  /\ before = store

-----------------------------------------------------------------------------
(* The main menu.                                                          *)

\* Mutant: the exit line of another page's table copied into this one.
MainStateOptionsWrongExit ==
  << [key |-> "1", EndState |-> "SystemInfo"],
     [key |-> "2", EndState |-> "BootOption"],
     [key |-> "3", EndState |-> "SetupConf"],
     [key |-> "h", EndState |-> "MainInit"],
     [key |-> "ESC", EndState |-> "SetupConfExit"] >>

MainStateOptions ==
  << [key |-> "1", EndState |-> "SystemInfo"],
     [key |-> "2", EndState |-> "BootOption"],
     [key |-> "3", EndState |-> "SetupConf"],
     [key |-> "h", EndState |-> "MainInit"],
     [key |-> "ESC", EndState |-> "MainExit"] >>

\* ConfAppEntry up to its loop: without a console it returns.
ConfAppEntry ==
  /\ machine \in {"off", "reset"}
  /\ machine' \in {"running", "exited"}
  /\ resetCause' = "none"
  /\ mConfState' = "MainInit"
  /\ SysInfoResetGlobals
  /\ BootOptResetGlobals
  /\ ResetGlobals
  /\ mPolicyProtocol' = FALSE
  /\ mfgSeen' = FALSE
  /\ ApplyLoaded

MainPrint ==
  /\ OnPage("MainInit")
  /\ mConfState' = "MainWait"
  /\ UNCHANGED <<machine, resetCause>>

MainPoll ==
  /\ OnPage("MainWait")
  /\ \E poll \in PollKeyStroke(FALSE) :
       /\ mConfState' \in CheckSupportedOptions(poll.Key, MainStateOptions, mConfState)
       /\ EndIteration(IF poll.Status = "NOT_READY" THEN "SUCCESS" ELSE poll.Status)

\* The confirmation: NOT_READY is left in Status, every key but y and Y goes back.
MainConfirm ==
  /\ OnPage("MainExit")
  /\ \E poll \in PollKeyStroke(FALSE) :
       CASE EFI_ERROR(poll.Status) ->
              EndIteration(poll.Status) /\ UNCHANGED mConfState
         [] poll.Key \in {"y", "Y"} ->
              ResetSystem("confirmed") /\ UNCHANGED mConfState
         [] OTHER ->
              mConfState' = "MainInit" /\ UNCHANGED <<machine, resetCause>>

MainMenu ==
  /\ MainPrint \/ MainPoll \/ MainConfirm
  /\ UNCHANGED <<sysInfoVars, bootOptVars, setupConfVars>>

-----------------------------------------------------------------------------

\* Power may be lost at any time; only the variable store survives it.
PowerLoss ==
  /\ machine # "off"
  /\ machine' = "off"
  /\ UNCHANGED <<mConfState, resetCause, sysInfoVars, bootOptVars, setupConfVars>>

SystemInfoPage == SysInfoMgr /\ UNCHANGED <<bootOptVars, setupConfVars>>
BootOptionPage == BootOptionMgr /\ UNCHANGED <<sysInfoVars, setupConfVars>>
SetupConfPage == SetupConfMgr /\ UNCHANGED <<sysInfoVars, bootOptVars>>

Next ==
  \/ ConfAppEntry
  \/ MainMenu
  \/ SystemInfoPage
  \/ BootOptionPage
  \/ SetupConfPage
  \/ PowerLoss

(***************************************************************************)
(* Fairness: an update in progress runs without waiting for anybody, so    *)
(* its steps and its return are taken as long as power stays on.           *)
(***************************************************************************)
UpdateStep ==
  /\ SetupConfApply \/ UsbApplied \/ SerialApplied
  /\ UNCHANGED <<sysInfoVars, bootOptVars>>

Spec == Init /\ [][Next]_vars

FairSpec == Spec /\ WF_vars(UpdateStep)

-----------------------------------------------------------------------------
(* Safety of the pages.                                                    *)

(***************************************************************************)
(* No residue: a page that is not open has the globals it was loaded with, *)
(* whatever keys, failures and aborted updates came before.  ConfAppEntry  *)
(* relies on it when it opens a page again: each page expects to start in  *)
(* its Init state, and SetupConf with both update options on offer and no  *)
(* pasted text left over.                                                  *)
(***************************************************************************)
NoResidue ==
  machine = "running" =>
    /\ mConfState # "SystemInfo" => mSysInfoState = "SysInfoInit" /\ ~mEnd
    /\ mConfState # "BootOption" =>
         /\ mBootOptState = "BootOptInit"
         /\ mInputBuffer = << >>
         /\ ~mKeyOptions
    /\ mConfState # "SetupConf" =>
         /\ mSetupConfState = "SetupConfInit"
         /\ updateEnabled
         /\ ~mConfDataBuffer
         /\ applyPc = "idle"

(***************************************************************************)
(* The option handed to EfiBootManagerBoot is one of the list that was     *)
(* printed, and the list and its key names are still allocated: the index  *)
(* is typed digit by digit, edited, range checked and cut to 16 bits       *)
(* before it is used.                                                      *)
(***************************************************************************)
BootTargetListed ==
  mBootOptState = "BootOptBootNow" => mOpCandidate < mBootOptionCount /\ mKeyOptions

(***************************************************************************)
(* The serial buffer always has room for the next character before it is   *)
(* stored: ProcessSvdSerialInput doubles it in time, so the out of         *)
(* boundary branch and its ASSERT are never taken.                         *)
(***************************************************************************)
SerialInBounds == InSerial => WriteOffset < GrownSize

(***************************************************************************)
(* The text handed to ApplySettings is what was pasted after the last      *)
(* prompt, nothing of an earlier attempt or an earlier visit of the page.  *)
(***************************************************************************)
PasteIsFresh == InSerial => Received = PastedSoFar

-----------------------------------------------------------------------------
(* Safety of the update.                                                   *)

(***************************************************************************)
(* A step changes the variable store only inside an update of the          *)
(* SetupConf page whose menu was last printed in manufacturing mode.       *)
(***************************************************************************)
UpdateIsGated ==
  [][store' # store =>
       /\ OnPage("SetupConf")
       /\ mSetupConfState \in UpdateStates
       /\ mfgSeen]_vars

\* The writes of variable v a payload asks for, as <<setting, entry>> positions
WritesOf(p, v) ==
  {w \in (DOMAIN p.settings) \X UNION {DOMAIN p.settings[i].list : i \in DOMAIN p.settings} :
     /\ p.settings[w[1]].kind = "list"
     /\ w[2] \in DOMAIN p.settings[w[1]].list
     /\ p.settings[w[1]].list[w[2]].var = v}

ValueOf(p, w) == p.settings[w[1]].list[w[2]].value

LastWrite(p, v) ==
  CHOOSE w \in WritesOf(p, v) :
    \A u \in WritesOf(p, v) : u[1] < w[1] \/ (u[1] = w[1] /\ u[2] <= w[2])

(***************************************************************************)
(* When the system resets after an applied payload, every variable the     *)
(* payload names holds the last value it gives it, unless SetVariable      *)
(* refused that write, and no other variable changed.                      *)
(***************************************************************************)
AppliedInFull ==
  machine = "reset" /\ resetCause = "applied" =>
    \A v \in Vars :
      IF WritesOf(packet, v) = {}
      THEN store[v] = before[v]
      ELSE v \in failed \/ store[v] = ValueOf(packet, LastWrite(packet, v))

(***************************************************************************)
(* At every moment of an update, and after a power loss in the middle of   *)
(* it, a variable holds what it held before, or is missing, or holds a     *)
(* value the payload gives it; the last two only if the payload names it.  *)
(***************************************************************************)
TornUpdateIsBounded ==
  \A v \in Vars :
    \/ store[v] = before[v]
    \/ /\ WritesOf(packet, v) # {}
       /\ store[v] \in {Missing} \union {ValueOf(packet, w) : w \in WritesOf(packet, v)}

(***************************************************************************)
(* Once a variable was written, no other page is reached before the system *)
(* resets.                                                                 *)
(***************************************************************************)
NoMenuAfterWrite == machine = "running" /\ dirty => mConfState = "SetupConf"

-----------------------------------------------------------------------------
(* ConfApp implements ConfigUpdate.                                        *)

absPhase ==
  CASE machine # "running" -> "down"
    [] OnPage("SetupConf") /\ applyPc = "idle" -> "page"
    [] OnPage("SetupConf") /\ applyPc = "return" /\ applyStatus = "SUCCESS" -> "complete"
    [] OnPage("SetupConf") /\ applyPc # "idle"
         /\ ~(applyPc = "return" /\ applyStatus = "SUCCESS") -> "session"
    [] OTHER -> "menu"

\* Permission is what the menu shows, once it has been printed.
absAllowed ==
  /\ OnPage("SetupConf")
  /\ mSetupConfState # "SetupConfInit"
  /\ updateEnabled
  /\ mfgSeen

Abs == INSTANCE ConfigUpdate WITH phase <- absPhase, allowed <- absAllowed

(***************************************************************************)
(* Refinement: whatever the pages, the console, the payloads and the power *)
(* do, ConfApp's steps are steps of ConfigUpdate.  Permission is the       *)
(* answer IsSystemInManufacturingMode gave when the menu was printed and   *)
(* is gone as soon as the page is left.                                    *)
(***************************************************************************)
ImplementsConfigUpdate == Abs!AbsSpec

-----------------------------------------------------------------------------
(* Liveness.                                                               *)

(***************************************************************************)
(* An accepted payload is dealt with: ApplySettings returns and the page   *)
(* resets the system, prompts again or gives up, unless power is lost.     *)
(***************************************************************************)
UpdateEnds ==
  applyPc # "idle" ~> (machine # "running" \/ mSetupConfState = "SetupConfUpdateSerialHint")
=============================================================================
