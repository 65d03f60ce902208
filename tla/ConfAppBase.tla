---------------------------- MODULE ConfAppBase ----------------------------
(***************************************************************************)
(* What the pages of ConfApp share: status codes, keystrokes, the key      *)
(* option tables, the polling of the console, and the two ways every page  *)
(* leaves an iteration of the main loop: it returns a status to            *)
(* ConfAppEntry, which goes on or resets the system, or it resets the      *)
(* system itself and never comes back (CpuDeadLoop).                       *)
(***************************************************************************)
EXTENDS Naturals, Sequences, FiniteSets

CONSTANTS
  Keys,       \* the keystrokes the console can deliver, see AllKeys
  ConsoleMayFail  \* whether ReadKeyStrokeEx and WaitForEvent may report a device error

(***************************************************************************)
(* A keystroke is named by its UnicodeChar, or by its ScanCode when the    *)
(* UnicodeChar is CHAR_NULL ("ESC").  "x" stands for every printable       *)
(* character that no menu reacts to.                                       *)
(***************************************************************************)
DigitKeys == {"0", "1", "2", "3", "4", "5", "6", "7", "8", "9"}

AllKeys == DigitKeys \union {"h", "y", "Y", "x", "ESC", "CR", "LF", "BS"}

ASSUME KeysAssumption == Keys \subseteq AllKeys

ASSUME ConsoleAssumption == ConsoleMayFail \in BOOLEAN

Errors == {"NOT_FOUND", "NOT_READY", "NO_MAPPING", "ABORTED", "TIMEOUT",
           "INVALID_PARAMETER", "DEVICE_ERROR"}

EFI_ERROR(Status) == Status \in Errors

MainStates == {"MainInit", "MainWait", "SystemInfo", "BootOption", "SetupConf",
               "MainExit"}

VARIABLES
  mConfState,   \* which page the main loop runs
  machine,      \* what the machine does, see MachineStates
  resetCause    \* why it was reset last (history)

baseVars == <<mConfState, machine, resetCause>>

(***************************************************************************)
(* "off": no power.  "running": the main loop runs.  "booted": control is  *)
(* with the boot option.  "reset": ResetSystemWithSubtype was called.      *)
(* "exited": ConfAppEntry returned.  "fault": a call through a NULL        *)
(* pointer.                                                                *)
(***************************************************************************)
MachineStates == {"off", "running", "booted", "reset", "exited", "fault"}

ResetCauses == {"none", "confirmed", "applied", "bootReturned"} \union Errors

BaseTypeOK ==
  /\ mConfState \in MainStates
  /\ machine \in MachineStates
  /\ resetCause \in ResetCauses

BaseInit == mConfState = "MainInit"

OnPage(page) == machine = "running" /\ mConfState = page

-----------------------------------------------------------------------------

(***************************************************************************)
(* What PollKeyStroke can return: a key, no key although the event fired   *)
(* (NOT_READY: a terminal's ack characters), the expired timer when one    *)
(* was asked for, or a failure of the console or of the timer event.       *)
(***************************************************************************)
PollFailures(EnableTimeOut) ==
  {"NOT_READY"} \union (IF EnableTimeOut THEN {"TIMEOUT"} ELSE {})
                \union (IF ConsoleMayFail THEN {"DEVICE_ERROR"} ELSE {})

PollKeyStroke(EnableTimeOut) ==
  [Status : {"SUCCESS"}, Key : Keys]
    \union [Status : PollFailures(EnableTimeOut), Key : {"none"}]

(***************************************************************************)
(* CheckSupportedOptions: the first line of the table that lists the key   *)
(* gives the next state of the menu; without a key, or for a key the table *)
(* does not list, the menu stays where it is.  A placeholder line has the  *)
(* key "placeholder", which no keystroke is.  Only one state is possible.  *)
(***************************************************************************)
FirstMatch(key, KeyOptions) ==
  {i \in DOMAIN KeyOptions :
     /\ KeyOptions[i].key = key
     /\ \A j \in DOMAIN KeyOptions : j < i => KeyOptions[j].key # key}

CheckSupportedOptions(key, KeyOptions, State) ==
  IF FirstMatch(key, KeyOptions) = {}
  THEN {State}
  ELSE {KeyOptions[i].EndState : i \in FirstMatch(key, KeyOptions)}

-----------------------------------------------------------------------------

ResetSystem(cause) ==
  /\ machine' = "reset"
  /\ resetCause' = cause

\* Mutant: the status a page leaves is not looked at.
EndIterationIgnoring(Status) == UNCHANGED <<machine, resetCause>>

(***************************************************************************)
(* The end of one iteration of the main loop: an error left by the page    *)
(* resets the system.                                                      *)
(***************************************************************************)
EndIteration(Status) ==
  IF EFI_ERROR(Status)
  THEN ResetSystem(Status)
  ELSE UNCHANGED <<machine, resetCause>>

ExitSubRoutine == mConfState' = "MainInit"
=============================================================================
