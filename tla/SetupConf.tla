------------------------------ MODULE SetupConf ------------------------------
(***************************************************************************)
(* The Setup Configuration page (ConfApp/SetupConf.c): updates the         *)
(* configuration variables from an SVD file on a USB drive or pasted into  *)
(* the serial console, and dumps the current configuration.                *)
(***************************************************************************)
EXTENDS SvdApply

CONSTANTS
  EFI_PAGE_SIZE,  \* first size of the serial buffer, in characters
  MaxInput        \* bound on the characters pasted between two prompts

ASSUME PageAssumption == EFI_PAGE_SIZE \in Nat \ {0, 1} /\ MaxInput \in Nat

VARIABLES
  mSetupConfState,
  updateEnabled,     \* EndState of options 1 and 2 is an update, not SetupConfError
  mPolicyProtocol,   \* the policy protocol has been located
  mfgSeen,           \* history: the last answer of IsSystemInManufacturingMode
  mConfDataBuffer,   \* the serial buffer is allocated
  confData,          \* the characters in it
  mConfDataOffset,
  mConfDataSize,
  typed              \* history: the characters pasted since the last prompt

pageVars == <<mSetupConfState, updateEnabled, mPolicyProtocol, mfgSeen>>
serialVars == <<mConfDataBuffer, confData, mConfDataOffset, mConfDataSize, typed>>
setupConfVars == <<pageVars, serialVars, applyVars>>

SetupConfStates ==
  {"SetupConfInit", "SetupConfWait", "SetupConfUpdateUsb", "SetupConfUpdateSerialHint",
   "SetupConfUpdateSerial", "SetupConfDumpSerial", "SetupConfDumpComplete",
   "SetupConfExit", "SetupConfError"}

UpdateStates ==
  {"SetupConfUpdateUsb", "SetupConfUpdateSerialHint", "SetupConfUpdateSerial"}

SetupConfTypeOK ==
  /\ mSetupConfState \in SetupConfStates
  /\ updateEnabled \in BOOLEAN
  /\ mPolicyProtocol \in BOOLEAN
  /\ mfgSeen \in BOOLEAN
  /\ mConfDataBuffer \in BOOLEAN
  /\ confData \in Seq(Keys)
  /\ typed \in Seq(Keys)
  /\ mConfDataOffset \in Nat
  /\ mConfDataSize \in Nat
  /\ ApplyTypeOK

SerialInit ==
  /\ mConfDataBuffer = FALSE
  /\ confData = << >>
  /\ mConfDataOffset = 0
  /\ mConfDataSize = 0
  /\ typed = << >>

SetupConfInit ==
  /\ mSetupConfState = "SetupConfInit"
  /\ updateEnabled = TRUE
  /\ mPolicyProtocol = FALSE
  /\ mfgSeen = FALSE
  /\ SerialInit
  /\ ApplyInit

InState(s) == OnPage("SetupConf") /\ mSetupConfState = s /\ applyPc = "idle"

-----------------------------------------------------------------------------
(* The menu.                                                               *)

\* The sixth line of the table is not initialised: it is a placeholder.
SetupConfStateOptions ==
  << [key |-> "1", EndState |-> IF updateEnabled THEN "SetupConfUpdateUsb"
                                                 ELSE "SetupConfError"],
     [key |-> "2", EndState |-> IF updateEnabled THEN "SetupConfUpdateSerialHint"
                                                 ELSE "SetupConfError"],
     [key |-> "3", EndState |-> "SetupConfDumpSerial"],
     [key |-> "h", EndState |-> "SetupConfInit"],
     [key |-> "ESC", EndState |-> "SetupConfExit"],
     [key |-> "placeholder", EndState |-> "SetupConfInit"] >>

(***************************************************************************)
(* Outside manufacturing mode the two update options are turned off; only  *)
(* ResetGlobals turns them on again.  A failure to locate the policy       *)
(* protocol is overwritten by the status of PrintOptions.                  *)
(***************************************************************************)
PrintOptions(inManufacturingMode) ==
  /\ mfgSeen' = inManufacturingMode
  /\ updateEnabled' = (updateEnabled /\ inManufacturingMode)

SetupConfPrint ==
  /\ InState("SetupConfInit")
  /\ \E inManufacturingMode \in BOOLEAN : PrintOptions(inManufacturingMode)
  /\ \E located \in BOOLEAN : mPolicyProtocol' = (mPolicyProtocol \/ located)
  /\ mSetupConfState' = "SetupConfWait"
  /\ UNCHANGED <<serialVars, applyVars, baseVars>>

SetupConfWait ==
  /\ InState("SetupConfWait")
  /\ \E poll \in PollKeyStroke(FALSE) :
       /\ mSetupConfState' \in
            CheckSupportedOptions(poll.Key, SetupConfStateOptions, mSetupConfState)
       /\ EndIteration(poll.Status)
  /\ UNCHANGED <<mConfState, updateEnabled, mPolicyProtocol, mfgSeen, serialVars, applyVars>>

SetupConfError ==
  /\ InState("SetupConfError")
  /\ mSetupConfState' = "SetupConfWait"
  /\ UNCHANGED <<updateEnabled, mPolicyProtocol, mfgSeen, serialVars, applyVars, baseVars>>

\* Mutant: the update options stay turned off.
ResetGlobalsKeepOptions ==
  /\ mSetupConfState' = "SetupConfInit"
  /\ mConfDataBuffer' = FALSE
  /\ confData' = << >>
  /\ mConfDataOffset' = 0
  /\ mConfDataSize' = 0
  /\ typed' = << >>
  /\ UNCHANGED updateEnabled

ResetGlobals ==
  /\ mSetupConfState' = "SetupConfInit"
  /\ updateEnabled' = TRUE
  /\ mConfDataBuffer' = FALSE
  /\ confData' = << >>
  /\ mConfDataOffset' = 0
  /\ mConfDataSize' = 0
  /\ typed' = << >>

SetupConfLeave ==
  /\ InState("SetupConfExit")
  /\ ResetGlobals
  /\ ExitSubRoutine
  /\ UNCHANGED <<mPolicyProtocol, mfgSeen, applyVars, machine, resetCause>>

-----------------------------------------------------------------------------
(* Update from USB.                                                        *)

(***************************************************************************)
(* SvdRequestXmlFromUSB ends without a file (NOT_FOUND, also when there is *)
(* no pool for the file name), with another error, or with a file.         *)
(***************************************************************************)
UsbNoFile ==
  /\ InState("SetupConfUpdateUsb")
  /\ mSetupConfState' = "SetupConfWait"
  /\ UNCHANGED <<updateEnabled, mPolicyProtocol, mfgSeen, serialVars, applyVars, baseVars>>

UsbError ==
  /\ InState("SetupConfUpdateUsb")
  /\ mSetupConfState' = "SetupConfExit"
  /\ EndIteration("DEVICE_ERROR")
  /\ UNCHANGED <<mConfState, updateEnabled, mPolicyProtocol, mfgSeen, serialVars, applyVars>>

UsbFile ==
  /\ InState("SetupConfUpdateUsb")
  /\ \E p \in Packets : ApplyCall(p)
  /\ UNCHANGED <<pageVars, serialVars, baseVars>>

(***************************************************************************)
(* The search can also report success without having read a file (see      *)
(* SvdUsb).  XmlString is then a pointer nobody set: the machine faults,   *)
(* or what it points at is taken for a payload, which UsbFile covers.      *)
(***************************************************************************)
UsbNoData ==
  /\ InState("SetupConfUpdateUsb")
  /\ machine' = "fault"
  /\ UNCHANGED <<pageVars, serialVars, applyVars, mConfState, resetCause>>

\* Mutant: the page is left without a reset.
UsbAppliedNoReset ==
  /\ OnPage("SetupConf") /\ mSetupConfState = "SetupConfUpdateUsb" /\ applyPc = "return"
  /\ mSetupConfState' = "SetupConfExit"
  /\ EndIteration(applyStatus)
  /\ applyPc' = "idle"
  /\ UNCHANGED <<mConfState, updateEnabled, mPolicyProtocol, mfgSeen, serialVars,
                 applyStatus, packet, index, iter, storeVars>>

\* ProcessSvdUsbInput after ApplySettings: reset, or give up with the error.
UsbApplied ==
  /\ OnPage("SetupConf") /\ mSetupConfState = "SetupConfUpdateUsb" /\ applyPc = "return"
  /\ IF EFI_ERROR(applyStatus)
     THEN /\ mSetupConfState' = "SetupConfExit"
          /\ EndIteration(applyStatus)
     ELSE /\ ResetSystem("applied")
          /\ UNCHANGED mSetupConfState
  /\ applyPc' = "idle"
  /\ UNCHANGED <<mConfState, updateEnabled, mPolicyProtocol, mfgSeen, serialVars,
                 applyStatus, packet, index, iter, storeVars>>

-----------------------------------------------------------------------------
(* Update from the serial console.                                         *)

InSerial ==
  \/ InState("SetupConfUpdateSerialHint")
  \/ InState("SetupConfUpdateSerial")

\* The prompt is printed and the first read follows in the same iteration.
AtHint == mSetupConfState = "SetupConfUpdateSerialHint"

PastedSoFar == IF AtHint THEN << >> ELSE typed

SerialNoKey ==
  /\ InSerial
  /\ \E poll \in PollKeyStroke(FALSE) :
       /\ poll.Status # "SUCCESS"
       /\ EndIteration(IF poll.Status = "NOT_READY" THEN "SUCCESS" ELSE poll.Status)
  /\ mSetupConfState' = "SetupConfUpdateSerial"
  /\ typed' = PastedSoFar
  /\ UNCHANGED <<mConfState, updateEnabled, mPolicyProtocol, mfgSeen, mConfDataBuffer,
                 confData, mConfDataOffset, mConfDataSize, applyVars>>

SerialEscape ==
  /\ InSerial
  /\ "ESC" \in Keys
  /\ mSetupConfState' = "SetupConfExit"
  /\ typed' = PastedSoFar
  /\ UNCHANGED <<updateEnabled, mPolicyProtocol, mfgSeen, mConfDataBuffer, confData,
                 mConfDataOffset, mConfDataSize, applyVars, baseVars>>

(***************************************************************************)
(* Where the next character goes, and the size of the buffer by then: it   *)
(* is allocated for the first one and doubled once it is half full.        *)
(***************************************************************************)
WriteOffset == IF mConfDataBuffer THEN mConfDataOffset ELSE 0

\* Mutant: the buffer is doubled when it is full and one character later.
GrownSizeLate ==
  CASE ~mConfDataBuffer -> EFI_PAGE_SIZE
    [] mConfDataBuffer /\ mConfDataOffset > mConfDataSize -> 2 * mConfDataSize
    [] OTHER -> mConfDataSize

GrownSize ==
  CASE ~mConfDataBuffer -> EFI_PAGE_SIZE
    [] mConfDataBuffer /\ mConfDataOffset >= mConfDataSize \div 2 -> 2 * mConfDataSize
    [] OTHER -> mConfDataSize

Received == IF mConfDataBuffer THEN confData ELSE << >>

SerialBuffered ==
  /\ mConfDataBuffer' = TRUE
  /\ mConfDataSize' = GrownSize
  /\ mConfDataOffset' = WriteOffset + 1

\* No pool for the first buffer or for a larger one: the store goes through NULL.
SerialNoPool ==
  /\ InSerial
  /\ ~mConfDataBuffer \/ GrownSize # mConfDataSize
  /\ machine' = "fault"
  /\ UNCHANGED <<pageVars, serialVars, applyVars, mConfState, resetCause>>

SerialChar ==
  /\ InSerial
  /\ \E key \in Keys \ {"ESC", "CR", "LF"} :
       /\ Len(PastedSoFar) < MaxInput
       /\ SerialBuffered
       /\ confData' = Append(Received, key)
       /\ typed' = Append(PastedSoFar, key)
  /\ mSetupConfState' = "SetupConfUpdateSerial"
  /\ UNCHANGED <<updateEnabled, mPolicyProtocol, mfgSeen, applyVars, baseVars>>

(***************************************************************************)
(* Enter: the terminator is stored like a character, the text is converted *)
(* to ASCII (the destination has room for it, so only a missing one fails, *)
(* see SerialNoAscii) and handed to ApplySettings.  What the text says is  *)
(* the user's business: any payload.                                       *)
(***************************************************************************)
SerialEnter ==
  /\ InSerial
  /\ {"CR", "LF"} \intersect Keys # {}
  /\ SerialBuffered
  /\ confData' = Received
  /\ typed' = PastedSoFar
  /\ mSetupConfState' = "SetupConfUpdateSerial"
  /\ \E p \in Packets : ApplyCall(p)
  /\ UNCHANGED <<updateEnabled, mPolicyProtocol, mfgSeen, baseVars>>

\* Enter, but there is no pool for the ASCII text: the conversion refuses NULL.
SerialNoAscii ==
  /\ InSerial
  /\ {"CR", "LF"} \intersect Keys # {}
  /\ SerialBuffered
  /\ confData' = Received
  /\ typed' = PastedSoFar
  /\ mSetupConfState' = "SetupConfExit"
  /\ EndIteration("INVALID_PARAMETER")
  /\ UNCHANGED <<mConfState, updateEnabled, mPolicyProtocol, mfgSeen, applyVars>>

\* Mutant: the buffer survives a refused payload.
SerialAppliedKeepBuffer ==
  /\ OnPage("SetupConf") /\ mSetupConfState = "SetupConfUpdateSerial" /\ applyPc = "return"
  /\ CASE applyStatus = "SUCCESS" ->
            /\ ResetSystem("applied")
            /\ UNCHANGED <<mSetupConfState, mConfDataBuffer>>
       [] applyStatus = "NO_MAPPING" ->
            /\ mConfDataBuffer' = mConfDataBuffer
            /\ mSetupConfState' = "SetupConfUpdateSerialHint"
            /\ UNCHANGED <<machine, resetCause>>
       [] OTHER ->
            /\ mSetupConfState' = "SetupConfExit"
            /\ EndIteration(applyStatus)
            /\ UNCHANGED mConfDataBuffer
  /\ applyPc' = "idle"
  /\ UNCHANGED <<mConfState, updateEnabled, mPolicyProtocol, mfgSeen, confData,
                 mConfDataOffset, mConfDataSize, typed,
                 applyStatus, packet, index, iter, storeVars>>

\* Mutant: back to the menu after an applied payload.
SerialAppliedNoReset ==
  /\ OnPage("SetupConf") /\ mSetupConfState = "SetupConfUpdateSerial" /\ applyPc = "return"
  /\ CASE applyStatus = "SUCCESS" ->
            /\ mSetupConfState' = "SetupConfInit"
            /\ mConfDataBuffer' = FALSE
            /\ UNCHANGED <<machine, resetCause>>
       [] applyStatus = "NO_MAPPING" ->
            /\ mConfDataBuffer' = FALSE
            /\ mSetupConfState' = "SetupConfUpdateSerialHint"
            /\ UNCHANGED <<machine, resetCause>>
       [] OTHER ->
            /\ mSetupConfState' = "SetupConfExit"
            /\ EndIteration(applyStatus)
            /\ UNCHANGED mConfDataBuffer
  /\ applyPc' = "idle"
  /\ UNCHANGED <<mConfState, updateEnabled, mPolicyProtocol, mfgSeen, confData,
                 mConfDataOffset, mConfDataSize, typed,
                 applyStatus, packet, index, iter, storeVars>>

(***************************************************************************)
(* ProcessSvdSerialInput after ApplySettings: reset; or drop the buffer    *)
(* and prompt again (NO_MAPPING); or give up with the error.               *)
(***************************************************************************)
SerialApplied ==
  /\ OnPage("SetupConf") /\ mSetupConfState = "SetupConfUpdateSerial" /\ applyPc = "return"
  /\ CASE applyStatus = "SUCCESS" ->
            /\ ResetSystem("applied")
            /\ UNCHANGED <<mSetupConfState, mConfDataBuffer>>
       [] applyStatus = "NO_MAPPING" ->
            /\ mConfDataBuffer' = FALSE
            /\ mSetupConfState' = "SetupConfUpdateSerialHint"
            /\ UNCHANGED <<machine, resetCause>>
       [] OTHER ->
            /\ mSetupConfState' = "SetupConfExit"
            /\ EndIteration(applyStatus)
            /\ UNCHANGED mConfDataBuffer
  /\ applyPc' = "idle"
  /\ UNCHANGED <<mConfState, updateEnabled, mPolicyProtocol, mfgSeen, confData,
                 mConfDataOffset, mConfDataSize, typed,
                 applyStatus, packet, index, iter, storeVars>>

-----------------------------------------------------------------------------
(* Dump of the current configuration.                                      *)

(***************************************************************************)
(* Whether the XML can be made or not the page goes on to wait for ESC;    *)
(* only text that fails the inspection leaves it here for another try.     *)
(* Without the policy protocol the first GetPolicy is a call through NULL, *)
(* unless CreateXmlStringFromCurrentSettings fails before it gets there.   *)
(***************************************************************************)
SetupConfDump ==
  /\ InState("SetupConfDumpSerial")
  /\ \/ /\ \E created, inspected \in BOOLEAN :
             /\ created => mPolicyProtocol
             /\ mSetupConfState' = IF created /\ ~inspected THEN mSetupConfState
                                                           ELSE "SetupConfDumpComplete"
        /\ UNCHANGED machine
     \/ /\ ~mPolicyProtocol
        /\ machine' = "fault"
        /\ UNCHANGED mSetupConfState
  /\ UNCHANGED <<updateEnabled, mPolicyProtocol, mfgSeen, serialVars, applyVars,
                 mConfState, resetCause>>

SetupConfDumpComplete ==
  /\ InState("SetupConfDumpComplete")
  /\ \E poll \in PollKeyStroke(FALSE) :
       /\ mSetupConfState' = IF poll.Key = "ESC" THEN "SetupConfInit" ELSE mSetupConfState
       /\ EndIteration(poll.Status)
  /\ UNCHANGED <<mConfState, updateEnabled, mPolicyProtocol, mfgSeen, serialVars, applyVars>>

-----------------------------------------------------------------------------

SetupConfApply ==
  /\ ApplySettings
  /\ UNCHANGED <<pageVars, serialVars>>

SetupConfMgr ==
  \/ SetupConfPrint
  \/ SetupConfWait
  \/ SetupConfError
  \/ SetupConfLeave
  \/ UsbNoFile
  \/ UsbError
  \/ UsbFile
  \/ UsbNoData
  \/ UsbApplied
  \/ SerialNoKey
  \/ SerialEscape
  \/ SerialNoPool
  \/ SerialChar
  \/ SerialEnter
  \/ SerialNoAscii
  \/ SerialApplied
  \/ SetupConfDump
  \/ SetupConfDumpComplete
  \/ SetupConfApply
=============================================================================
