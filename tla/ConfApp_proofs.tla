--------------------------- MODULE ConfApp_proofs ---------------------------
(***************************************************************************)
(* Proofs about ConfApp, for every set of keys, variables and payloads,    *)
(* every buffer size and every number of load options.                     *)
(*                                                                         *)
(* None of the properties is inductive by itself.  IInv adds to the types  *)
(* where the walk over a payload is, what a closed page looks like, where  *)
(* an update can be in progress, what the menu promised when it was        *)
(* printed, how full the serial buffer is and who owns it.                 *)
(***************************************************************************)
EXTENDS ConfApp, TLAPS

-----------------------------------------------------------------------------
(* The inductive invariant.                                                *)

\* A page that is not open is as it was loaded, whatever the machine does.
PagesClosed ==
  /\ mConfState # "SystemInfo" => mSysInfoState = "SysInfoInit" /\ mEnd = FALSE
  /\ mConfState # "BootOption" =>
       mBootOptState = "BootOptInit" /\ mInputBuffer = << >> /\ mKeyOptions = FALSE
  /\ mConfState # "SetupConf" =>
       /\ mSetupConfState = "SetupConfInit"
       /\ updateEnabled = TRUE
       /\ mConfDataBuffer = FALSE
       /\ applyPc = "idle"

\* An update in progress belongs to one of two states, and stands at one of its settings.
UpdateOnPage ==
  /\ applyPc # "idle" =>
       /\ mSetupConfState \in {"SetupConfUpdateUsb", "SetupConfUpdateSerial"}
       /\ packet \in Packets
  /\ applyPc = "next" => index >= 1
  /\ applyPc \in {"delete", "write"} =>
       /\ index \in DOMAIN packet.settings
       /\ CurrentSetting.kind = "list"

\* Once the menu is printed, an update is on offer only if the mode allowed it.
PermissionSeen ==
  /\ mSetupConfState # "SetupConfInit" /\ updateEnabled => mfgSeen
  /\ mSetupConfState \in UpdateStates => updateEnabled

\* The serial buffer is at most half full before a character is added.
BufferFits ==
  mConfDataBuffer => mConfDataSize >= 2 /\ mConfDataOffset <= mConfDataSize \div 2

\* It exists only while text is pasted or on the way out, and holds that text.
BufferFresh ==
  /\ mConfDataBuffer => mSetupConfState \in {"SetupConfUpdateSerial", "SetupConfExit"}
  /\ mSetupConfState = "SetupConfUpdateSerial" => Received = typed

\* A boot target was checked against the list that is still there.
BootChecked ==
  /\ mBootOptState = "BootOptBootNow" => mOpCandidate < mBootOptionCount
  /\ mBootOptState # "BootOptInit" => mKeyOptions = TRUE

IInv ==
  /\ TypeOK
  /\ PagesClosed
  /\ UpdateOnPage
  /\ PermissionSeen
  /\ BufferFits
  /\ BufferFresh
  /\ BootChecked

-----------------------------------------------------------------------------
(* The key option tables.                                                  *)

\* CheckSupportedOptions stays where it is or goes to a state of the table.
LEMMA OptionTable ==
  ASSUME NEW S, NEW State \in S, NEW key, NEW KeyOptions,
         \A i \in DOMAIN KeyOptions : KeyOptions[i].EndState \in S,
         NEW s \in CheckSupportedOptions(key, KeyOptions, State)
  PROVE  s \in S
  BY Zenon DEF CheckSupportedOptions, FirstMatch

\* The main menu leads to the main states.
LEMMA MainTable ==
  ASSUME NEW key, NEW State \in MainStates,
         NEW s \in CheckSupportedOptions(key, MainStateOptions, State)
  PROVE  s \in MainStates
<1>1. \A i \in DOMAIN MainStateOptions : MainStateOptions[i].EndState \in MainStates
  BY DEF MainStateOptions, MainStates
<1> QED
  BY <1>1, OptionTable, Zenon

\* The System Information page only reacts to ESC.
LEMMA SysInfoTable ==
  ASSUME NEW key, NEW State \in SysInfoStates,
         NEW s \in CheckSupportedOptions(key, SysInfoStateOptions, State)
  PROVE  s \in SysInfoStates
<1>1. \A i \in DOMAIN SysInfoStateOptions : SysInfoStateOptions[i].EndState \in SysInfoStates
  BY DEF SysInfoStateOptions, SysInfoStates
<1> QED
  BY <1>1, OptionTable, Zenon

\* The SetupConf menu leads to an update only while updates are on offer.
MenuTargets ==
  {s \in SetupConfStates \ {"SetupConfUpdateSerial"} : s \in UpdateStates => updateEnabled}

\* Whatever key is pressed, the SetupConf menu stays or goes to one of its targets.
LEMMA SetupConfTable ==
  ASSUME NEW key, updateEnabled \in BOOLEAN,
         NEW s \in CheckSupportedOptions(key, SetupConfStateOptions, "SetupConfWait")
  PROVE  s \in MenuTargets
<1>1. \A i \in DOMAIN SetupConfStateOptions : SetupConfStateOptions[i].EndState \in MenuTargets
  BY DEF SetupConfStateOptions, MenuTargets, SetupConfStates, UpdateStates
<1>2. "SetupConfWait" \in MenuTargets
  BY DEF MenuTargets, SetupConfStates, UpdateStates
<1> QED
  BY <1>1, <1>2, OptionTable, Zenon

-----------------------------------------------------------------------------
(* Init and the main menu.                                                 *)

\* A machine that is off, with the globals as the image has them, satisfies the invariant.
LEMMA InitEstablishes ==
  Init => IInv
<1> SUFFICES ASSUME Init PROVE IInv
  OBVIOUS
<1>0. /\ mEnd \in BOOLEAN /\ mKeyOptions \in BOOLEAN /\ dirty \in BOOLEAN
      /\ updateEnabled \in BOOLEAN /\ mPolicyProtocol \in BOOLEAN /\ mfgSeen \in BOOLEAN
      /\ mConfDataBuffer \in BOOLEAN
  BY Zenon DEF Init, SysInfoInit, BootOptInit, SetupConfInit, SerialInit, ApplyInit
<1>1. BaseTypeOK /\ SysInfoTypeOK
  BY <1>0 DEF Init, BaseInit, BaseTypeOK, MainStates, MachineStates, ResetCauses,
              SysInfoInit, SysInfoTypeOK, SysInfoStates
<1>2. BootOptTypeOK
  BY <1>0, BootOptionsAssumption DEF Init, BootOptInit, BootOptTypeOK, BootOptStates
<1>3. ApplyTypeOK
  BY <1>0 DEF Init, SetupConfInit, ApplyInit, ApplyIdle, ApplyTypeOK, ApplyPcs, StoreValues
<1>4. SetupConfTypeOK
  BY <1>0, <1>3 DEF Init, SetupConfInit, SerialInit, SetupConfTypeOK, SetupConfStates
<1>5. PagesClosed /\ UpdateOnPage
  BY DEF Init, BaseInit, SysInfoInit, BootOptInit, SetupConfInit, SerialInit, ApplyInit,
         ApplyIdle, PagesClosed, UpdateOnPage
<1>6. PermissionSeen /\ BufferFits /\ BufferFresh /\ BootChecked
  BY DEF Init, BootOptInit, SetupConfInit, SerialInit, PermissionSeen, BufferFits,
         BufferFresh, BootChecked, UpdateStates
<1> QED
  BY <1>1, <1>2, <1>3, <1>4, <1>5, <1>6 DEF IInv, TypeOK

\* ConfAppEntry starts from freshly loaded globals.
LEMMA EntryPreserves ==
  IInv /\ ConfAppEntry => IInv'
<1> SUFFICES ASSUME IInv, ConfAppEntry PROVE IInv'
  OBVIOUS
<1>0. /\ mEnd' \in BOOLEAN /\ mKeyOptions' \in BOOLEAN /\ dirty' \in BOOLEAN
      /\ updateEnabled' \in BOOLEAN /\ mPolicyProtocol' \in BOOLEAN /\ mfgSeen' \in BOOLEAN
      /\ mConfDataBuffer' \in BOOLEAN
  BY Zenon DEF ConfAppEntry, SysInfoResetGlobals, BootOptResetGlobals, ResetGlobals, ApplyLoaded
<1>1. BaseTypeOK' /\ SysInfoTypeOK'
  BY <1>0 DEF ConfAppEntry, BaseTypeOK, MainStates, MachineStates, ResetCauses,
              SysInfoResetGlobals, SysInfoTypeOK, SysInfoStates
<1>2. BootOptTypeOK'
  BY <1>0, BootOptionsAssumption
     DEF ConfAppEntry, BootOptResetGlobals, BootOptTypeOK, BootOptStates
<1>3. ApplyTypeOK'
  BY <1>0 DEF IInv, TypeOK, SetupConfTypeOK, ConfAppEntry, ApplyLoaded, ApplyTypeOK, ApplyPcs
<1>4. SetupConfTypeOK'
  BY <1>0, <1>3 DEF ConfAppEntry, ResetGlobals, SetupConfTypeOK, SetupConfStates
<1>5. PagesClosed' /\ UpdateOnPage'
  BY DEF ConfAppEntry, SysInfoResetGlobals, BootOptResetGlobals, ResetGlobals, ApplyLoaded,
         PagesClosed, UpdateOnPage
<1>6. PermissionSeen' /\ BufferFits' /\ BufferFresh' /\ BootChecked'
  BY DEF ConfAppEntry, BootOptResetGlobals, ResetGlobals, PermissionSeen, BufferFits,
         BufferFresh, BootChecked, UpdateStates
<1> QED
  BY <1>1, <1>2, <1>3, <1>4, <1>5, <1>6 DEF IInv, TypeOK

-----------------------------------------------------------------------------
(* What a step keeps that leaves the variables of a page alone.            *)

\* A step that leaves the globals of SystemInfo.c alone leaves its types alone.
LEMMA SysInfoUntouched ==
  IInv /\ UNCHANGED sysInfoVars => SysInfoTypeOK'
BY DEF IInv, TypeOK, SysInfoTypeOK, sysInfoVars

\* The same for BootOptions.c.
LEMMA BootOptUntouched ==
  IInv /\ UNCHANGED bootOptVars => BootOptTypeOK' /\ BootChecked'
BY DEF IInv, TypeOK, BootOptTypeOK, BootChecked, bootOptVars

\* The same for SetupConf.c, with all that is known of the update and the serial buffer.
LEMMA SetupConfUntouched ==
  IInv /\ UNCHANGED setupConfVars =>
    SetupConfTypeOK' /\ UpdateOnPage' /\ PermissionSeen' /\ BufferFits' /\ BufferFresh'
<1> SUFFICES ASSUME IInv, UNCHANGED setupConfVars
             PROVE  SetupConfTypeOK' /\ UpdateOnPage' /\ PermissionSeen' /\ BufferFits'
                      /\ BufferFresh'
  OBVIOUS
<1>1. SetupConfTypeOK'
  BY DEF IInv, TypeOK, SetupConfTypeOK, ApplyTypeOK, setupConfVars, pageVars, serialVars,
         applyVars, callVars, storeVars
<1>2. UpdateOnPage' /\ PermissionSeen'
  BY DEF IInv, UpdateOnPage, PermissionSeen, CurrentSetting, setupConfVars, pageVars,
         serialVars, applyVars, callVars
<1>3. BufferFits' /\ BufferFresh'
  BY DEF IInv, BufferFits, BufferFresh, Received, setupConfVars, pageVars, serialVars
<1> QED
  BY <1>1, <1>2, <1>3

-----------------------------------------------------------------------------
(* The steps outside the SetupConf page.                                   *)

\* The main menu opens pages that are closed and as they were loaded.
LEMMA MainPreserves ==
  IInv /\ MainMenu => IInv'
<1> SUFFICES ASSUME IInv, MainMenu PROVE IInv'
  OBVIOUS
<1>1. BaseTypeOK' /\ mConfState \in {"MainInit", "MainWait", "MainExit"}
  <2>1. CASE MainPrint
    BY <2>1 DEF IInv, TypeOK, BaseTypeOK, MainPrint, OnPage, MainStates
  <2>2. CASE MainPoll
    <3>1. mConfState' \in MainStates
      BY <2>2, MainTable DEF IInv, TypeOK, BaseTypeOK, MainPoll
    <3> QED
      BY <2>2, <3>1 DEF IInv, TypeOK, BaseTypeOK, MainPoll, OnPage, EndIteration,
                        EFI_ERROR, ResetSystem, MachineStates, ResetCauses
  <2>3. CASE MainConfirm
    BY <2>3 DEF IInv, TypeOK, BaseTypeOK, MainConfirm, OnPage, EndIteration, EFI_ERROR,
                ResetSystem, MainStates, MachineStates, ResetCauses
  <2> QED
    BY <2>1, <2>2, <2>3 DEF MainMenu
<1>2. PagesClosed'
  BY <1>1 DEF IInv, MainMenu, PagesClosed, sysInfoVars, bootOptVars, setupConfVars,
              pageVars, serialVars, applyVars, callVars
<1> QED
  BY <1>1, <1>2, SysInfoUntouched, BootOptUntouched, SetupConfUntouched
     DEF IInv, TypeOK, MainMenu

\* Power loss changes no variable but the machine.
LEMMA PowerPreserves ==
  IInv /\ PowerLoss => IInv'
<1> SUFFICES ASSUME IInv, PowerLoss PROVE IInv'
  OBVIOUS
<1>1. BaseTypeOK' /\ PagesClosed'
  BY DEF IInv, TypeOK, BaseTypeOK, PowerLoss, PagesClosed, MachineStates, sysInfoVars,
         bootOptVars, setupConfVars, pageVars, serialVars, applyVars, callVars
<1> QED
  BY <1>1, SysInfoUntouched, BootOptUntouched, SetupConfUntouched DEF IInv, TypeOK, PowerLoss

\* SysInfoMgr leaves its page only through ResetGlobals.
LEMMA SystemInfoPreserves ==
  IInv /\ SystemInfoPage => IInv'
<1> SUFFICES ASSUME IInv, SystemInfoPage PROVE IInv'
  OBVIOUS
<1>1. BaseTypeOK' /\ SysInfoTypeOK' /\ PagesClosed'
  <2>1. CASE SysInfoPrint
    <3>1. mEnd' \in BOOLEAN
      BY <2>1, Zenon DEF SysInfoPrint
    <3>2. mConfState' = "SystemInfo" /\ mConfState = "SystemInfo"
      BY <2>1 DEF SysInfoPrint, OnPage
    <3>3. mSysInfoState' \in SysInfoStates
      BY <2>1 DEF IInv, TypeOK, SysInfoTypeOK, SysInfoPrint, SysInfoStates
    <3>4. BaseTypeOK'
      BY <2>1 DEF IInv, TypeOK, BaseTypeOK, SysInfoPrint, EndIteration, EFI_ERROR,
                  ResetSystem, MainStates, MachineStates, ResetCauses
    <3>5. PagesClosed'
      BY <3>2 DEF IInv, PagesClosed, SystemInfoPage, bootOptVars, setupConfVars, pageVars,
                  serialVars, applyVars, callVars
    <3> QED
      BY <3>1, <3>3, <3>4, <3>5 DEF SysInfoTypeOK
  <2>2. CASE SysInfoPoll
    <3>1. mSysInfoState' \in SysInfoStates
      BY <2>2, SysInfoTable DEF IInv, TypeOK, SysInfoTypeOK, SysInfoPoll
    <3>2. BaseTypeOK' /\ mEnd' = mEnd /\ mConfState' = "SystemInfo"
      BY <2>2 DEF IInv, TypeOK, BaseTypeOK, SysInfoPoll, OnPage, EndIteration, EFI_ERROR,
                  ResetSystem, MainStates, MachineStates, ResetCauses
    <3>3. PagesClosed'
      BY <2>2, <3>2 DEF IInv, PagesClosed, SystemInfoPage, SysInfoPoll, OnPage, bootOptVars,
                  setupConfVars, pageVars, serialVars, applyVars, callVars
    <3> QED
      BY <3>1, <3>2, <3>3 DEF IInv, TypeOK, SysInfoTypeOK
  <2>3. CASE SysInfoLeave
    <3>1. mEnd' \in BOOLEAN
      BY <2>3, Zenon DEF SysInfoLeave, SysInfoResetGlobals
    <3> QED
      BY <2>3, <3>1 DEF IInv, TypeOK, BaseTypeOK, SysInfoTypeOK, SysInfoStates, SysInfoLeave,
         SysInfoResetGlobals, ExitSubRoutine, OnPage, MainStates, PagesClosed,
         SystemInfoPage, bootOptVars, setupConfVars, pageVars, serialVars, applyVars, callVars
  <2> QED
    BY <2>1, <2>2, <2>3 DEF SystemInfoPage, SysInfoMgr
<1> QED
  BY <1>1, BootOptUntouched, SetupConfUntouched DEF IInv, TypeOK, SystemInfoPage

-----------------------------------------------------------------------------
(* The Boot Options page.                                                  *)

\* A digit key has a digit's value.
LEMMA DigitInRange ==
  ASSUME NEW key \in DigitKeys PROVE DigitValue(key) \in Digits
BY DEF DigitKeys, DigitValue, Digits

\* Each key keeps the page's types; only a checked index leads to BootNow.
LEMMA BootOptKeyPreserves ==
  IInv /\ BootOptKey => BootOptTypeOK' /\ BootChecked'
<1> SUFFICES ASSUME IInv, BootOptKey PROVE BootOptTypeOK' /\ BootChecked'
  OBVIOUS
<1>1. PICK key \in Keys :
        \/ key = "ESC" /\ BootOptEscape
        \/ key = "CR" /\ BootOptEnter
        \/ key = "BS" /\ mInputBuffer # << >> /\ BootOptBackspace
        \/ key \in DigitKeys /\ BootOptDigit(key)
  BY DEF BootOptKey
<1>2. /\ mBootOptState = "BootOptWait" /\ BootOptTypeOK
      /\ mKeyOptions = TRUE /\ mKeyOptions' = TRUE
      /\ mBootOptionCount' = mBootOptionCount
  BY DEF IInv, TypeOK, BootChecked, BootOptKey
<1>3. CASE BootOptEscape
  BY <1>2, <1>3 DEF BootOptEscape, BootOptTypeOK, BootOptStates, BootChecked
<1>4. CASE BootOptEnter
  <2>1. CASE mInputBuffer # << >> /\ Selection(mInputBuffer) \in 1..mBootOptionCount
    <3>1. PICK n \in 1..mBootOptionCount : mOpCandidate' = (n - 1) % 65536
      BY <1>4, <2>1 DEF BootOptEnter
    <3>2. mOpCandidate' = n - 1 /\ n - 1 < 65536
      BY <1>2, <3>1, BootOptionsAssumption DEF BootOptTypeOK
    <3>3. mBootOptState' = "BootOptBootNow" /\ mInputBuffer' = << >>
      BY <1>4, <2>1 DEF BootOptEnter
    <3> QED
      BY <1>2, <3>2, <3>3, BootOptionsAssumption
         DEF BootOptTypeOK, BootOptStates, BootChecked
  <2>2. CASE ~(mInputBuffer # << >> /\ Selection(mInputBuffer) \in 1..mBootOptionCount)
    <3>1. mInputBuffer' = << >> /\ mOpCandidate' = mOpCandidate /\ mBootOptState' = mBootOptState
      BY <1>4, <2>2 DEF BootOptEnter
    <3> QED
      BY <1>2, <3>1 DEF BootOptTypeOK, BootOptStates, BootChecked
  <2> QED
    BY <2>1, <2>2
<1>5. CASE mInputBuffer # << >> /\ BootOptBackspace
  <2>1. mInputBuffer' \in Seq(Digits)
    BY <1>2, <1>5 DEF BootOptBackspace, BootOptTypeOK
  <2> QED
    BY <1>2, <1>5, <2>1 DEF BootOptBackspace, BootOptTypeOK, BootOptStates, BootChecked
<1>6. CASE key \in DigitKeys /\ BootOptDigit(key)
  <2>1. mInputBuffer' \in Seq(Digits)
    <3>1. DigitValue(key) \in Digits
      BY <1>6, DigitInRange
    <3>2. Append(mInputBuffer, DigitValue(key)) \in Seq(Digits)
      BY <1>2, <3>1 DEF BootOptTypeOK
    <3> QED
      BY <1>2, <1>6, <3>2 DEF BootOptDigit, BootOptTypeOK
  <2> QED
    BY <1>2, <1>6, <2>1 DEF BootOptDigit, BootOptTypeOK, BootOptStates, BootChecked
<1> QED
  BY <1>1, <1>3, <1>4, <1>5, <1>6

\* BootOptionMgr leaves its page only through ResetGlobals; it boots what BootOptEnter checked.
LEMMA BootOptionPreserves ==
  IInv /\ BootOptionPage => IInv'
<1> SUFFICES ASSUME IInv, BootOptionPage PROVE IInv'
  OBVIOUS
<1>1. BaseTypeOK' /\ BootOptTypeOK' /\ BootChecked' /\ PagesClosed'
  <2>0. USE DEF BootOptionPage, sysInfoVars, setupConfVars, pageVars, serialVars, applyVars,
                callVars
  <2>1. CASE PrintBootOptions
    BY <2>1 DEF IInv, TypeOK, BaseTypeOK, BootOptTypeOK, BootOptStates, BootChecked,
                PagesClosed, PrintBootOptions, OnPage, baseVars
  <2>2. CASE BootOptNoKey
    <3>1. BaseTypeOK' /\ PagesClosed'
      BY <2>2 DEF IInv, TypeOK, BaseTypeOK, PagesClosed, BootOptNoKey, OnPage, EndIteration,
                  EFI_ERROR, ResetSystem, MachineStates, ResetCauses
    <3> QED
      BY <2>2, <3>1, BootOptUntouched DEF BootOptNoKey
  <2>3. CASE BootOptKey
    BY <2>3, BootOptKeyPreserves
       DEF IInv, TypeOK, BaseTypeOK, PagesClosed, BootOptKey, OnPage, baseVars
  <2>4. CASE BootOptBootNow
    <3>1. BaseTypeOK' /\ PagesClosed'
      BY <2>4 DEF IInv, TypeOK, BaseTypeOK, PagesClosed, BootOptBootNow, OnPage, MachineStates
    <3> QED
      BY <2>4, <3>1, BootOptUntouched DEF BootOptBootNow
  <2>5. CASE BootOptReturned
    <3>1. BaseTypeOK' /\ PagesClosed'
      BY <2>5 DEF IInv, TypeOK, BaseTypeOK, PagesClosed, BootOptReturned, ResetSystem,
                  MachineStates, ResetCauses, bootOptVars
    <3> QED
      BY <2>5, <3>1, BootOptUntouched DEF BootOptReturned
  <2>6. CASE BootOptLeave
    <3>1. mKeyOptions' \in BOOLEAN
      BY <2>6, Zenon DEF BootOptLeave, BootOptResetGlobals
    <3>2. BootOptTypeOK' /\ BootChecked'
      BY <2>6, <3>1, BootOptionsAssumption
         DEF BootOptTypeOK, BootOptStates, BootChecked, BootOptLeave, BootOptResetGlobals
    <3>3. BaseTypeOK' /\ PagesClosed'
      BY <2>6 DEF IInv, TypeOK, BaseTypeOK, PagesClosed, BootOptLeave, BootOptResetGlobals,
                  ExitSubRoutine, OnPage, MainStates
    <3> QED
      BY <3>2, <3>3
  <2> QED
    BY <2>1, <2>2, <2>3, <2>4, <2>5, <2>6 DEF BootOptionMgr
<1> QED
  BY <1>1, SysInfoUntouched, SetupConfUntouched DEF IInv, TypeOK, BootOptionPage

-----------------------------------------------------------------------------
(* The SetupConf page.                                                     *)

SetupInv == SetupConfTypeOK /\ UpdateOnPage /\ PermissionSeen /\ BufferFits /\ BufferFresh

\* A step that leaves the walk over the payload alone leaves its types alone.
LEMMA ApplyUntouched ==
  IInv /\ UNCHANGED applyVars => ApplyTypeOK'
BY DEF IInv, TypeOK, SetupConfTypeOK, ApplyTypeOK, applyVars, callVars, storeVars

\* EndIteration only goes on or resets.
LEMMA EndIterationTypes ==
  ASSUME IInv, NEW Status, EndIteration(Status), mConfState' = mConfState
  PROVE  BaseTypeOK'
BY DEF IInv, TypeOK, BaseTypeOK, EndIteration, EFI_ERROR, ResetSystem, MachineStates,
       ResetCauses

\* Steps of the menu, of the search for a file and of the dump: no update is in progress
\* before or after, and the serial buffer is left alone.
LEMMA QuietStep ==
  ASSUME IInv, applyPc = "idle", UNCHANGED <<serialVars, applyVars>>,
         mSetupConfState' \in SetupConfStates \ {"SetupConfUpdateSerial"},
         updateEnabled' \in BOOLEAN, mPolicyProtocol' \in BOOLEAN, mfgSeen' \in BOOLEAN,
         PermissionSeen',
         mConfDataBuffer => mSetupConfState' = "SetupConfExit"
  PROVE  SetupInv'
<1>1. ApplyTypeOK'
  BY ApplyUntouched
<1>2. SetupConfTypeOK'
  BY <1>1 DEF IInv, TypeOK, SetupConfTypeOK, serialVars
<1>3. UpdateOnPage'
  BY DEF UpdateOnPage, applyVars, callVars
<1>4. BufferFits' /\ BufferFresh'
  BY DEF IInv, BufferFits, BufferFresh, serialVars
<1> QED
  BY <1>2, <1>3, <1>4 DEF SetupInv

\* Printing the menu records the mode and can only withdraw the update options.
LEMMA PrintPreserves ==
  IInv /\ SetupConfPrint => SetupInv' /\ BaseTypeOK'
<1> SUFFICES ASSUME IInv, SetupConfPrint PROVE SetupInv' /\ BaseTypeOK'
  OBVIOUS
<1>1. updateEnabled' \in BOOLEAN /\ mPolicyProtocol' \in BOOLEAN /\ mfgSeen' \in BOOLEAN
  BY Zenon DEF SetupConfPrint, PrintOptions
<1>2. PermissionSeen'
  BY DEF SetupConfPrint, PrintOptions, PermissionSeen, UpdateStates
<1>3. mConfDataBuffer = FALSE
  BY DEF IInv, TypeOK, SetupConfTypeOK, BufferFresh, SetupConfPrint, InState
<1>4. SetupInv'
  BY <1>1, <1>2, <1>3, QuietStep DEF SetupConfPrint, InState, SetupConfStates
<1>5. BaseTypeOK'
  BY DEF IInv, TypeOK, BaseTypeOK, SetupConfPrint, baseVars
<1> QED
  BY <1>4, <1>5

\* The menu leads to an update only while the options are on offer.
LEMMA MenuPreserves ==
  IInv /\ SetupConfWait => SetupInv' /\ BaseTypeOK'
<1> SUFFICES ASSUME IInv, SetupConfWait PROVE SetupInv' /\ BaseTypeOK'
  OBVIOUS
<1>1. /\ updateEnabled \in BOOLEAN /\ mPolicyProtocol \in BOOLEAN /\ mfgSeen \in BOOLEAN
      /\ UNCHANGED <<updateEnabled, mPolicyProtocol, mfgSeen>>
      /\ mSetupConfState = "SetupConfWait"
  BY DEF IInv, TypeOK, SetupConfTypeOK, SetupConfWait, InState
<1>2. mSetupConfState' \in MenuTargets
  BY <1>1, SetupConfTable DEF SetupConfWait
<1>3. PermissionSeen'
  BY <1>1, <1>2 DEF IInv, PermissionSeen, MenuTargets
<1>4. ~mConfDataBuffer
  BY <1>1 DEF IInv, BufferFresh
<1>5. SetupInv'
  BY <1>1, <1>2, <1>3, <1>4, QuietStep DEF SetupConfWait, InState, MenuTargets
<1>6. BaseTypeOK'
  BY EndIterationTypes DEF SetupConfWait
<1> QED
  BY <1>5, <1>6

\* The other steps that leave what the menu shows alone.
LEMMA QuietPreserves ==
  IInv /\ (SetupConfError \/ UsbNoFile \/ UsbError \/ SetupConfDump \/ SetupConfDumpComplete)
    => SetupInv' /\ BaseTypeOK'
<1> SUFFICES ASSUME IInv, SetupConfError \/ UsbNoFile \/ UsbError \/ SetupConfDump
                            \/ SetupConfDumpComplete
             PROVE  SetupInv' /\ BaseTypeOK'
  OBVIOUS
<1>1. /\ applyPc = "idle"
      /\ UNCHANGED <<serialVars, applyVars>>
      /\ UNCHANGED <<updateEnabled, mPolicyProtocol, mfgSeen>>
  BY DEF SetupConfError, UsbNoFile, UsbError, SetupConfDump, SetupConfDumpComplete, InState
<1>2. /\ mSetupConfState \in {"SetupConfError", "SetupConfUpdateUsb", "SetupConfDumpSerial",
                              "SetupConfDumpComplete"}
      /\ mSetupConfState' \in {"SetupConfWait", "SetupConfExit", "SetupConfInit",
                               "SetupConfDumpSerial", "SetupConfDumpComplete"}
  BY DEF SetupConfError, UsbNoFile, UsbError, SetupConfDump, SetupConfDumpComplete, InState
<1>3. updateEnabled \in BOOLEAN /\ mPolicyProtocol \in BOOLEAN /\ mfgSeen \in BOOLEAN
  BY DEF IInv, TypeOK, SetupConfTypeOK
<1>4. PermissionSeen'
  BY <1>1, <1>2, <1>3 DEF IInv, PermissionSeen, UpdateStates
<1>5. ~mConfDataBuffer
  BY <1>2 DEF IInv, BufferFresh
<1>6. SetupInv'
  BY <1>1, <1>2, <1>3, <1>4, <1>5, QuietStep DEF SetupConfStates
<1>7. BaseTypeOK'
  <2>1. CASE UsbError \/ SetupConfDumpComplete
    BY <2>1, EndIterationTypes DEF UsbError, SetupConfDumpComplete
  <2>2. CASE SetupConfError \/ UsbNoFile \/ SetupConfDump
    BY <2>2 DEF IInv, TypeOK, BaseTypeOK, SetupConfError, UsbNoFile, SetupConfDump, baseVars,
                MachineStates
  <2> QED
    BY <2>1, <2>2
<1> QED
  BY <1>6, <1>7

\* A payload is taken up: it is one of the payloads, and the store is not touched yet.
LEMMA CallPreserves ==
  ASSUME IInv, NEW p \in Packets, ApplyCall(p)
  PROVE  /\ ApplyTypeOK'
         /\ mSetupConfState' \in {"SetupConfUpdateUsb", "SetupConfUpdateSerial"} => UpdateOnPage'
<1>1. ApplyTypeOK'
  BY DEF IInv, TypeOK, SetupConfTypeOK, ApplyTypeOK, ApplyCall, ApplyPcs
<1>2. mSetupConfState' \in {"SetupConfUpdateUsb", "SetupConfUpdateSerial"} => UpdateOnPage'
  BY DEF UpdateOnPage, ApplyCall
<1> QED
  BY <1>1, <1>2

\* A file found on a USB drive is taken up in the USB state.
LEMMA UsbFilePreserves ==
  IInv /\ UsbFile => SetupInv' /\ BaseTypeOK'
<1> SUFFICES ASSUME IInv, UsbFile PROVE SetupInv' /\ BaseTypeOK'
  OBVIOUS
<1>1. ApplyTypeOK' /\ UpdateOnPage'
  BY CallPreserves DEF UsbFile, InState, pageVars
<1>2. SetupConfTypeOK'
  BY <1>1 DEF IInv, TypeOK, SetupConfTypeOK, UsbFile, pageVars, serialVars
<1>3. PermissionSeen' /\ BufferFits' /\ BufferFresh'
  BY DEF IInv, PermissionSeen, BufferFits, BufferFresh, Received, UsbFile, pageVars, serialVars
<1>4. BaseTypeOK'
  BY DEF IInv, TypeOK, BaseTypeOK, UsbFile, baseVars
<1> QED
  BY <1>1, <1>2, <1>3, <1>4 DEF SetupInv

\* After a USB update the system resets or the page is left.
LEMMA UsbAppliedPreserves ==
  IInv /\ UsbApplied => SetupInv' /\ BaseTypeOK'
<1> SUFFICES ASSUME IInv, UsbApplied PROVE SetupInv' /\ BaseTypeOK'
  OBVIOUS
<1>1. /\ mSetupConfState = "SetupConfUpdateUsb"
      /\ mSetupConfState' \in {"SetupConfUpdateUsb", "SetupConfExit"}
      /\ applyPc' = "idle"
      /\ UNCHANGED <<mConfState, updateEnabled, mPolicyProtocol, mfgSeen, serialVars,
                     applyStatus, packet, index, iter, storeVars>>
  BY DEF UsbApplied
<1>2. ApplyTypeOK' /\ UpdateOnPage'
  BY <1>1 DEF IInv, TypeOK, SetupConfTypeOK, ApplyTypeOK, ApplyPcs, UpdateOnPage, storeVars
<1>3. SetupConfTypeOK'
  BY <1>1, <1>2 DEF IInv, TypeOK, SetupConfTypeOK, SetupConfStates, serialVars
<1>4. PermissionSeen' /\ BufferFits' /\ BufferFresh'
  BY <1>1 DEF IInv, PermissionSeen, UpdateStates, BufferFits, BufferFresh, serialVars
<1>5. BaseTypeOK'
  BY DEF IInv, TypeOK, BaseTypeOK, UsbApplied, EndIteration, ResetSystem, EFI_ERROR,
         MachineStates, ResetCauses
<1> QED
  BY <1>2, <1>3, <1>4, <1>5 DEF SetupInv

\* What is in the buffer is what was pasted since the prompt.
LEMMA FreshPaste ==
  IInv /\ InSerial => Received = PastedSoFar /\ updateEnabled /\ (AtHint => ~mConfDataBuffer)
BY DEF IInv, InSerial, InState, BufferFresh, Received, PastedSoFar, AtHint, PermissionSeen,
       UpdateStates

\* Polls without a key and ESC leave the pasted text as it is.
LEMMA SerialKeepPreserves ==
  IInv /\ (SerialNoKey \/ SerialEscape) => SetupInv' /\ BaseTypeOK'
<1> SUFFICES ASSUME IInv, SerialNoKey \/ SerialEscape PROVE SetupInv' /\ BaseTypeOK'
  OBVIOUS
<1>1. /\ InSerial
      /\ applyPc = "idle"
      /\ mSetupConfState' \in {"SetupConfUpdateSerial", "SetupConfExit"}
      /\ typed' = PastedSoFar
      /\ UNCHANGED <<updateEnabled, mPolicyProtocol, mfgSeen, mConfDataBuffer, confData,
                     mConfDataOffset, mConfDataSize, applyVars>>
  BY DEF SerialNoKey, SerialEscape, InSerial, InState
<1>2. Received' = typed'
  BY <1>1, FreshPaste DEF Received
<1>3. PastedSoFar \in Seq(Keys)
  BY DEF IInv, TypeOK, SetupConfTypeOK, PastedSoFar
<1>4. SetupConfTypeOK'
  BY <1>1, <1>3, ApplyUntouched DEF IInv, TypeOK, SetupConfTypeOK, SetupConfStates
<1>5. UpdateOnPage'
  BY <1>1 DEF UpdateOnPage, applyVars, callVars
<1>6. PermissionSeen'
  BY <1>1, FreshPaste DEF IInv, PermissionSeen, InSerial, InState
<1>7. BufferFits' /\ BufferFresh'
  BY <1>1, <1>2 DEF IInv, BufferFits, BufferFresh
<1>8. BaseTypeOK'
  <2>1. CASE SerialNoKey
    BY <2>1, EndIterationTypes DEF SerialNoKey
  <2>2. CASE SerialEscape
    BY <2>2 DEF IInv, TypeOK, BaseTypeOK, SerialEscape, baseVars
  <2> QED
    BY <2>1, <2>2
<1> QED
  BY <1>4, <1>5, <1>6, <1>7, <1>8 DEF SetupInv

\* Doubling the buffer when it is half full leaves at least half of it free.
LEMMA BufferGrows ==
  IInv /\ SerialBuffered =>
    /\ BufferFits'
    /\ mConfDataBuffer' = TRUE /\ mConfDataOffset' \in Nat /\ mConfDataSize' \in Nat
<1> SUFFICES ASSUME IInv, SerialBuffered
             PROVE  /\ BufferFits'
                    /\ mConfDataBuffer' = TRUE /\ mConfDataOffset' \in Nat
                    /\ mConfDataSize' \in Nat
  OBVIOUS
<1>1. mConfDataOffset \in Nat /\ mConfDataSize \in Nat /\ mConfDataBuffer \in BOOLEAN
  BY DEF IInv, TypeOK, SetupConfTypeOK
<1>2. CASE mConfDataBuffer
  BY <1>1, <1>2 DEF IInv, SerialBuffered, WriteOffset, GrownSize, BufferFits
<1>3. CASE ~mConfDataBuffer
  BY <1>1, <1>3, PageAssumption DEF SerialBuffered, WriteOffset, GrownSize, BufferFits
<1> QED
  BY <1>1, <1>2, <1>3

\* A pasted character goes into the buffer and into the history alike.
LEMMA SerialCharPreserves ==
  IInv /\ SerialChar => SetupInv' /\ BaseTypeOK'
<1> SUFFICES ASSUME IInv, SerialChar PROVE SetupInv' /\ BaseTypeOK'
  OBVIOUS
<1>1. PICK key \in Keys : /\ SerialBuffered
                          /\ confData' = Append(Received, key)
                          /\ typed' = Append(PastedSoFar, key)
  BY DEF SerialChar
<1>2. /\ InSerial /\ applyPc = "idle"
      /\ mSetupConfState' = "SetupConfUpdateSerial"
      /\ UNCHANGED <<updateEnabled, mPolicyProtocol, mfgSeen, applyVars, baseVars>>
  BY DEF SerialChar, InSerial, InState
<1>3. /\ BufferFits'
      /\ mConfDataBuffer' = TRUE /\ mConfDataOffset' \in Nat /\ mConfDataSize' \in Nat
  BY <1>1, BufferGrows
<1>4. PastedSoFar \in Seq(Keys) /\ Received = PastedSoFar
  BY <1>2, FreshPaste DEF IInv, TypeOK, SetupConfTypeOK, PastedSoFar
<1>5. confData' \in Seq(Keys) /\ typed' \in Seq(Keys) /\ confData' = typed'
  BY <1>1, <1>4
<1>6. SetupConfTypeOK'
  BY <1>2, <1>3, <1>5, ApplyUntouched DEF IInv, TypeOK, SetupConfTypeOK, SetupConfStates
<1>7. UpdateOnPage'
  BY <1>2 DEF UpdateOnPage, applyVars, callVars
<1>8. PermissionSeen'
  BY <1>2, FreshPaste DEF IInv, PermissionSeen, InSerial, InState
<1>9. BufferFresh'
  BY <1>2, <1>3, <1>5 DEF BufferFresh, Received
<1> QED
  BY <1>2, <1>3, <1>6, <1>7, <1>8, <1>9 DEF SetupInv, IInv, TypeOK, BaseTypeOK, baseVars

\* Enter stores its terminator and hands the pasted text to ApplySettings.
LEMMA SerialEnterPreserves ==
  IInv /\ SerialEnter => SetupInv' /\ BaseTypeOK'
<1> SUFFICES ASSUME IInv, SerialEnter PROVE SetupInv' /\ BaseTypeOK'
  OBVIOUS
<1>1. /\ InSerial
      /\ mSetupConfState' = "SetupConfUpdateSerial"
      /\ confData' = Received /\ typed' = PastedSoFar
      /\ UNCHANGED <<updateEnabled, mPolicyProtocol, mfgSeen, baseVars>>
  BY DEF SerialEnter
<1>2. /\ BufferFits'
      /\ mConfDataBuffer' = TRUE /\ mConfDataOffset' \in Nat /\ mConfDataSize' \in Nat
  BY BufferGrows DEF SerialEnter
<1>3. PastedSoFar \in Seq(Keys) /\ Received = PastedSoFar
  BY <1>1, FreshPaste DEF IInv, TypeOK, SetupConfTypeOK, PastedSoFar
<1>4. ApplyTypeOK' /\ UpdateOnPage'
  BY <1>1, CallPreserves DEF SerialEnter
<1>5. SetupConfTypeOK'
  BY <1>1, <1>2, <1>3, <1>4 DEF IInv, TypeOK, SetupConfTypeOK, SetupConfStates
<1>6. PermissionSeen'
  BY <1>1, FreshPaste DEF IInv, PermissionSeen, InSerial, InState
<1>7. BufferFresh'
  BY <1>1, <1>2, <1>3 DEF BufferFresh, Received
<1> QED
  BY <1>1, <1>2, <1>4, <1>5, <1>6, <1>7 DEF SetupInv, IInv, TypeOK, BaseTypeOK, baseVars

\* Without pool for the ASCII text, the page is left with the buffer still owned.
LEMMA SerialNoAsciiPreserves ==
  IInv /\ SerialNoAscii => SetupInv' /\ BaseTypeOK'
<1> SUFFICES ASSUME IInv, SerialNoAscii PROVE SetupInv' /\ BaseTypeOK'
  OBVIOUS
<1>1. /\ InSerial /\ applyPc = "idle"
      /\ mSetupConfState' = "SetupConfExit"
      /\ confData' = Received /\ typed' = PastedSoFar
      /\ UNCHANGED <<mConfState, updateEnabled, mPolicyProtocol, mfgSeen, applyVars>>
  BY DEF SerialNoAscii, InSerial, InState
<1>2. /\ BufferFits'
      /\ mConfDataBuffer' = TRUE /\ mConfDataOffset' \in Nat /\ mConfDataSize' \in Nat
  BY BufferGrows DEF SerialNoAscii
<1>3. PastedSoFar \in Seq(Keys) /\ Received = PastedSoFar
  BY <1>1, FreshPaste DEF IInv, TypeOK, SetupConfTypeOK, PastedSoFar
<1>4. SetupConfTypeOK'
  BY <1>1, <1>2, <1>3, ApplyUntouched DEF IInv, TypeOK, SetupConfTypeOK, SetupConfStates
<1>5. UpdateOnPage' /\ BufferFresh'
  BY <1>1 DEF UpdateOnPage, BufferFresh, applyVars, callVars
<1>6. PermissionSeen'
  BY <1>1, FreshPaste DEF IInv, PermissionSeen, InSerial, InState, UpdateStates
<1>7. BaseTypeOK'
  BY EndIterationTypes DEF SerialNoAscii
<1> QED
  BY <1>2, <1>4, <1>5, <1>6, <1>7 DEF SetupInv

\* A fault stops the machine and changes nothing else.
LEMMA FaultPreserves ==
  IInv /\ (UsbNoData \/ SerialNoPool) => SetupInv' /\ BaseTypeOK'
<1> SUFFICES ASSUME IInv, UsbNoData \/ SerialNoPool PROVE SetupInv' /\ BaseTypeOK'
  OBVIOUS
<1>1. machine' = "fault" /\ UNCHANGED <<setupConfVars, mConfState, resetCause>>
  BY DEF UsbNoData, SerialNoPool, setupConfVars
<1> QED
  BY <1>1, SetupConfUntouched DEF SetupInv, IInv, TypeOK, BaseTypeOK, MachineStates

\* After a serial update: a reset, a prompt without a buffer, or the way out.
LEMMA SerialAppliedPreserves ==
  IInv /\ SerialApplied => SetupInv' /\ BaseTypeOK'
<1> SUFFICES ASSUME IInv, SerialApplied PROVE SetupInv' /\ BaseTypeOK'
  OBVIOUS
<1>1. /\ mSetupConfState = "SetupConfUpdateSerial"
      /\ applyPc' = "idle"
      /\ UNCHANGED <<mConfState, updateEnabled, mPolicyProtocol, mfgSeen, confData,
                     mConfDataOffset, mConfDataSize, typed,
                     applyStatus, packet, index, iter, storeVars>>
  BY DEF SerialApplied
<1>2. \/ /\ mSetupConfState' \in {"SetupConfUpdateSerial", "SetupConfExit"}
         /\ mConfDataBuffer' = mConfDataBuffer
      \/ /\ mSetupConfState' = "SetupConfUpdateSerialHint"
         /\ mConfDataBuffer' = FALSE
  BY <1>1 DEF SerialApplied
<1>3. mConfDataBuffer' \in BOOLEAN
  BY <1>2, Zenon DEF IInv, TypeOK, SetupConfTypeOK
<1>4. ApplyTypeOK' /\ UpdateOnPage'
  BY <1>1 DEF IInv, TypeOK, SetupConfTypeOK, ApplyTypeOK, ApplyPcs, UpdateOnPage, storeVars
<1>5. SetupConfTypeOK'
  BY <1>1, <1>2, <1>3, <1>4 DEF IInv, TypeOK, SetupConfTypeOK, SetupConfStates
<1>6. PermissionSeen'
  BY <1>1, <1>2 DEF IInv, PermissionSeen, UpdateStates
<1>7. BufferFits' /\ BufferFresh'
  BY <1>1, <1>2 DEF IInv, BufferFits, BufferFresh, Received
<1>8. BaseTypeOK'
  BY DEF IInv, TypeOK, BaseTypeOK, SerialApplied, EndIteration, ResetSystem, EFI_ERROR,
         MachineStates, ResetCauses
<1> QED
  BY <1>4, <1>5, <1>6, <1>7, <1>8 DEF SetupInv

-----------------------------------------------------------------------------
(* The walk over a payload.                                                *)

\* While a variable list is written, its first entry exists and has its types.
LEMMA EntryTypes ==
  IInv /\ applyPc \in {"delete", "write"} =>
    /\ packet \in Packets /\ index \in Nat /\ iter \in Nat
    /\ CurrentList \in Seq(VarEntry)
    /\ WrittenEntry.var \in Vars /\ WrittenEntry.value \in Values
<1> SUFFICES ASSUME IInv, applyPc \in {"delete", "write"}
             PROVE  /\ packet \in Packets /\ index \in Nat /\ iter \in Nat
                    /\ CurrentList \in Seq(VarEntry)
                    /\ WrittenEntry.var \in Vars /\ WrittenEntry.value \in Values
  OBVIOUS
<1>1. /\ packet \in Packets /\ index \in Nat /\ iter \in Nat
      /\ index \in DOMAIN packet.settings /\ packet.settings[index].kind = "list"
  BY DEF IInv, TypeOK, SetupConfTypeOK, ApplyTypeOK, UpdateOnPage, CurrentSetting
<1>2. packet.settings \in Seq(Setting)
  BY <1>1, PacketsAssumption DEF PacketType
<1>3. packet.settings[index] \in Setting
  BY <1>1, <1>2
<1>4. CurrentList \in Seq(VarEntry) /\ CurrentList # << >>
  BY <1>1, <1>3, PacketsAssumption DEF CurrentList, CurrentSetting, Setting
<1>5. WrittenEntry \in VarEntry
  BY <1>4 DEF WrittenEntry
<1> QED
  BY <1>1, <1>4, <1>5 DEF VarEntry

\* The walk over the payload stays at one of its settings and writes values of the right type.
LEMMA ApplyPreserves ==
  IInv /\ SetupConfApply => SetupInv' /\ BaseTypeOK'
<1> SUFFICES ASSUME IInv, SetupConfApply PROVE SetupInv' /\ BaseTypeOK'
  OBVIOUS
<1>1. /\ applyPc # "idle"
      /\ UNCHANGED <<pageVars, serialVars, baseVars>>
  BY DEF SetupConfApply, ApplySettings, ApplyHeader, ApplyNext, WriteDelete, WriteValue
<1>2. ApplyTypeOK
  BY DEF IInv, TypeOK, SetupConfTypeOK
<1>3. ApplyTypeOK' /\ UpdateOnPage'
  <2>1. CASE ApplyHeader
    BY <1>1, <1>2, <2>1
       DEF IInv, UpdateOnPage, ApplyTypeOK, ApplyPcs, ApplyHeader, ApplyReturn, EFI_ERROR,
           storeVars, pageVars
  <2>2. CASE ApplyNext
    <3>0. /\ packet \in Packets /\ index >= 1 /\ index \in Nat
          /\ mSetupConfState \in {"SetupConfUpdateUsb", "SetupConfUpdateSerial"}
          /\ mSetupConfState' = mSetupConfState
      BY <1>1, <1>2, <2>2 DEF IInv, UpdateOnPage, ApplyTypeOK, ApplyNext, pageVars
    <3>1. packet.settings \in Seq(Setting)
      BY <3>0, PacketsAssumption DEF PacketType
    <3>2. /\ UNCHANGED <<packet, storeVars>>
          /\ \/ /\ applyPc' = "return" /\ UNCHANGED <<index, iter>>
                /\ applyStatus' \in {"SUCCESS"} \union Errors
             \/ index' = index + 1 /\ UNCHANGED <<applyPc, applyStatus, iter>>
             \/ /\ applyPc' = "delete" /\ iter' = 1 /\ UNCHANGED <<applyStatus, index>>
                /\ index <= Len(packet.settings) /\ CurrentSetting.kind = "list"
      BY <2>2 DEF ApplyNext, ApplyReturn, Errors
    <3>3. ApplyTypeOK'
      BY <1>2, <2>2, <3>0, <3>2 DEF ApplyTypeOK, ApplyPcs, ApplyNext, storeVars
    <3>4. UpdateOnPage'
      BY <2>2, <3>0, <3>1, <3>2 DEF UpdateOnPage, ApplyNext, CurrentSetting
    <3> QED
      BY <3>3, <3>4
  <2>3. CASE WriteDelete
    BY <1>1, <1>2, <2>3, EntryTypes
       DEF IInv, UpdateOnPage, ApplyTypeOK, ApplyPcs, WriteDelete, StoreValues,
           CurrentSetting, pageVars
  <2>4. CASE WriteValue
    <3>1. /\ packet \in Packets /\ index \in Nat /\ iter \in Nat
          /\ WrittenEntry.var \in Vars /\ WrittenEntry.value \in Values
      BY <2>4, EntryTypes DEF WriteValue
    <3>2. /\ store' \in [Vars -> StoreValues]
          /\ failed' \in SUBSET Vars
          /\ dirty' \in BOOLEAN
          /\ UNCHANGED <<applyStatus, packet, before>>
      BY <1>2, <2>4, <3>1 DEF ApplyTypeOK, WriteValue, StoreValues
    <3>3. \/ iter' = iter + 1 /\ applyPc' = "delete" /\ index' = index
          \/ iter' = 0 /\ applyPc' = "next" /\ index' = index + 1
      BY <2>4 DEF WriteValue
    <3>4. ApplyTypeOK'
      BY <1>2, <3>1, <3>2, <3>3 DEF ApplyTypeOK, ApplyPcs
    <3>5. UpdateOnPage'
      BY <1>1, <2>4, <3>1, <3>2, <3>3
         DEF IInv, UpdateOnPage, WriteValue, CurrentSetting, pageVars
    <3> QED
      BY <3>4, <3>5
  <2> QED
    BY <2>1, <2>2, <2>3, <2>4 DEF SetupConfApply, ApplySettings
<1>4. SetupConfTypeOK'
  BY <1>1, <1>3 DEF IInv, TypeOK, SetupConfTypeOK, pageVars, serialVars
<1>5. PermissionSeen' /\ BufferFits' /\ BufferFresh'
  BY <1>1 DEF IInv, PermissionSeen, BufferFits, BufferFresh, Received, pageVars, serialVars
<1> QED
  BY <1>1, <1>3, <1>4, <1>5 DEF SetupInv, IInv, TypeOK, BaseTypeOK, baseVars

\* Leaving the page restores every global it may have changed.
LEMMA LeavePreserves ==
  IInv /\ SetupConfLeave => SetupInv' /\ BaseTypeOK'
<1> SUFFICES ASSUME IInv, SetupConfLeave PROVE SetupInv' /\ BaseTypeOK'
  OBVIOUS
<1>1. updateEnabled' \in BOOLEAN /\ mConfDataBuffer' \in BOOLEAN
  BY Zenon DEF SetupConfLeave, ResetGlobals
<1>2. SetupConfTypeOK'
  BY <1>1, ApplyUntouched
     DEF IInv, TypeOK, SetupConfTypeOK, SetupConfStates, SetupConfLeave, ResetGlobals
<1>3. UpdateOnPage'
  BY DEF SetupConfLeave, InState, UpdateOnPage, applyVars, callVars
<1>4. PermissionSeen' /\ BufferFits' /\ BufferFresh'
  BY DEF SetupConfLeave, ResetGlobals, PermissionSeen, UpdateStates, BufferFits, BufferFresh
<1>5. BaseTypeOK'
  BY DEF IInv, TypeOK, BaseTypeOK, SetupConfLeave, ExitSubRoutine, MainStates
<1> QED
  BY <1>2, <1>3, <1>4, <1>5 DEF SetupInv

\* A step of the page starts on it; only SetupConfLeave ends elsewhere.
LEMMA SetupConfStays ==
  IInv /\ SetupConfMgr => mConfState = "SetupConf" /\ (SetupConfLeave \/ mConfState' = mConfState)
<1> SUFFICES ASSUME IInv, SetupConfMgr
             PROVE  mConfState = "SetupConf" /\ (SetupConfLeave \/ mConfState' = mConfState)
  OBVIOUS
<1>1. CASE SetupConfApply
  <2>1. applyPc # "idle" /\ mConfState' = mConfState
    BY <1>1 DEF SetupConfApply, ApplySettings, ApplyHeader, ApplyNext, WriteDelete, WriteValue,
                baseVars
  <2> QED
    BY <2>1 DEF IInv, PagesClosed
<1>2. CASE ~SetupConfApply
  BY <1>2 DEF SetupConfMgr, SetupConfPrint, SetupConfWait, SetupConfError, SetupConfLeave,
     UsbNoFile, UsbError, UsbFile, UsbApplied, SerialNoKey, SerialEscape, SerialChar,
     SerialEnter, SerialApplied, SerialNoPool, SerialNoAscii, UsbNoData, SetupConfDump,
     SetupConfDumpComplete, InSerial, InState,
     OnPage, baseVars
<1> QED
  BY <1>1, <1>2

\* All steps of SetupConfMgr together.
LEMMA SetupConfPreserves ==
  IInv /\ SetupConfPage => IInv'
<1> SUFFICES ASSUME IInv, SetupConfPage PROVE IInv'
  OBVIOUS
<1>1. SetupInv' /\ BaseTypeOK'
  BY PrintPreserves, MenuPreserves, QuietPreserves, LeavePreserves, UsbFilePreserves,
     UsbAppliedPreserves, SerialKeepPreserves, SerialCharPreserves, SerialEnterPreserves,
     SerialAppliedPreserves, SerialNoAsciiPreserves, FaultPreserves, ApplyPreserves, Zenon
     DEF SetupConfPage, SetupConfMgr
<1>2. PagesClosed'
  <2>1. mConfState = "SetupConf" /\ (SetupConfLeave \/ mConfState' = mConfState)
    BY SetupConfStays DEF SetupConfPage
  <2> QED
    BY <2>1 DEF IInv, PagesClosed, SetupConfPage, SetupConfLeave, ResetGlobals, ExitSubRoutine,
                InState, sysInfoVars, bootOptVars, applyVars, callVars
<1> QED
  BY <1>1, <1>2, SysInfoUntouched, BootOptUntouched DEF IInv, TypeOK, SetupInv, SetupConfPage

\* Every step, and every stuttering step, preserves the invariant.
LEMMA NextPreserves ==
  IInv /\ [Next]_vars => IInv'
<1> SUFFICES ASSUME IInv, [Next]_vars PROVE IInv'
  OBVIOUS
<1>1. CASE Next
  BY <1>1, EntryPreserves, MainPreserves, SystemInfoPreserves, BootOptionPreserves,
     SetupConfPreserves, PowerPreserves, Zenon DEF Next
<1>2. CASE UNCHANGED vars
  <2>1. BaseTypeOK' /\ PagesClosed'
    BY <1>2 DEF IInv, TypeOK, BaseTypeOK, PagesClosed, vars, baseVars, sysInfoVars,
                bootOptVars, setupConfVars, pageVars, serialVars, applyVars, callVars
  <2> QED
    BY <1>2, <2>1, SysInfoUntouched, BootOptUntouched, SetupConfUntouched DEF IInv, TypeOK, vars
<1> QED
  BY <1>1, <1>2

-----------------------------------------------------------------------------
(* The theorems.                                                           *)

\* The conjunction the other theorems rest on holds in every reachable state of ConfApp.
THEOREM Inductive == Spec => []IInv
BY InitEstablishes, NextPreserves, PTL DEF Spec

\* Every variable of ConfApp keeps its type, whatever keys, payloads and failures occur.
THEOREM TypeCorrect == Spec => []TypeOK
<1>1. IInv => TypeOK
  BY DEF IInv
<1> QED
  BY <1>1, Inductive, PTL

\* No page leaves anything behind for the next visit (ResetGlobals of the three pages).
THEOREM PagesLeaveNothing == Spec => []NoResidue
<1>1. IInv => NoResidue
  BY DEF IInv, PagesClosed, NoResidue
<1> QED
  BY <1>1, Inductive, PTL

\* BootOptionMgr never boots an option beyond the list it printed.
THEOREM BootsListedOption == Spec => []BootTargetListed
<1>1. IInv => BootTargetListed
  BY DEF IInv, BootChecked, BootTargetListed
<1> QED
  BY <1>1, Inductive, PTL

\* ProcessSvdSerialInput never writes beyond its buffer, for every buffer size from 2 on
\* and every length of the pasted text.
THEOREM SerialNeverOverflows == Spec => []SerialInBounds
<1>1. ASSUME IInv PROVE SerialInBounds
  <2>1. /\ mConfDataOffset \in Nat /\ mConfDataSize \in Nat /\ mConfDataBuffer \in BOOLEAN
        /\ mConfDataBuffer => mConfDataSize >= 2 /\ mConfDataOffset <= mConfDataSize \div 2
    BY <1>1 DEF IInv, TypeOK, SetupConfTypeOK, BufferFits
  <2>2. CASE mConfDataBuffer
    BY <2>1, <2>2 DEF SerialInBounds, WriteOffset, GrownSize
  <2>3. CASE ~mConfDataBuffer
    BY <2>1, <2>3, PageAssumption DEF SerialInBounds, WriteOffset, GrownSize
  <2> QED
    BY <2>1, <2>2, <2>3
<1> QED
  BY <1>1, Inductive, PTL

\* ApplySettings is given what was pasted after the last prompt and nothing else.
THEOREM PasteStaysFresh == Spec => []PasteIsFresh
<1>1. IInv => PasteIsFresh
  BY FreshPaste DEF PasteIsFresh
<1> QED
  BY <1>1, Inductive, PTL

-----------------------------------------------------------------------------
(* Who writes the variable store.                                          *)

\* Only the two writing steps of an update change the store.
LEMMA OnlyUpdatesWrite ==
  [Next]_vars => UNCHANGED store \/ (SetupConfPage /\ (WriteDelete \/ WriteValue))
<1> SUFFICES ASSUME [Next]_vars
             PROVE  UNCHANGED store \/ (SetupConfPage /\ (WriteDelete \/ WriteValue))
  OBVIOUS
<1>1. CASE SetupConfPage
  <2>1. CASE SetupConfApply
    BY <1>1, <2>1 DEF SetupConfApply, ApplySettings, ApplyHeader, ApplyNext, ApplyReturn, storeVars
  <2>2. CASE ~SetupConfApply
    BY <1>1, <2>2 DEF SetupConfPage, SetupConfMgr, SetupConfPrint, SetupConfWait,
       SetupConfError, SetupConfLeave, UsbNoFile, UsbError, UsbFile, UsbApplied, SerialNoKey,
       SerialEscape, SerialChar, SerialEnter, SerialApplied,
       SerialNoPool, SerialNoAscii, UsbNoData, SetupConfDump,
       SetupConfDumpComplete, ApplyCall, applyVars, storeVars
  <2> QED
    BY <2>1, <2>2
<1>2. CASE ConfAppEntry
  BY <1>2 DEF ConfAppEntry, ApplyLoaded
<1>3. CASE MainMenu \/ SystemInfoPage \/ BootOptionPage \/ PowerLoss \/ UNCHANGED vars
  BY <1>3 DEF MainMenu, SystemInfoPage, BootOptionPage, PowerLoss, vars, setupConfVars,
              applyVars, storeVars
<1> QED
  BY <1>1, <1>2, <1>3 DEF Next

\* Where an update is in progress the menu was printed in manufacturing mode.
LEMMA UpdateIsPermitted ==
  IInv /\ applyPc # "idle" =>
    /\ mConfState = "SetupConf"
    /\ mSetupConfState \in {"SetupConfUpdateUsb", "SetupConfUpdateSerial"}
    /\ updateEnabled /\ mfgSeen
BY DEF IInv, PagesClosed, UpdateOnPage, PermissionSeen, UpdateStates

\* The store is written only by an update the SetupConf menu offered in manufacturing mode.
THEOREM WritesAreGated == Spec => UpdateIsGated
<1>1. ASSUME IInv, [Next]_vars, store' # store
      PROVE  OnPage("SetupConf") /\ mSetupConfState \in UpdateStates /\ mfgSeen
  <2>1. machine = "running" /\ applyPc # "idle"
    BY <1>1, OnlyUpdatesWrite DEF WriteDelete, WriteValue
  <2> QED
    BY <1>1, <2>1, UpdateIsPermitted DEF OnPage, UpdateStates
<1>2. IInv /\ [Next]_vars =>
        [store' # store =>
           /\ OnPage("SetupConf")
           /\ mSetupConfState \in UpdateStates
           /\ mfgSeen]_vars
  BY <1>1
<1> QED
  BY <1>2, Inductive, PTL DEF Spec, UpdateIsGated

-----------------------------------------------------------------------------
(* Refinement.                                                             *)

\* Off the SetupConf page there is no permission, and the phase is down or menu.
LEMMA PhaseOffPage ==
  mConfState # "SetupConf" \/ machine # "running" =>
    /\ absAllowed = FALSE
    /\ absPhase = IF machine = "running" THEN "menu" ELSE "down"
BY DEF absAllowed, absPhase, OnPage

\* On it, the phase is that of the walk over the payload.
LEMMA PhaseOnPage ==
  OnPage("SetupConf") =>
    absPhase = IF applyPc = "idle" THEN "page"
               ELSE IF applyPc = "return" /\ applyStatus = "SUCCESS" THEN "complete"
               ELSE "session"
BY DEF absPhase, OnPage

\* Permission is a Boolean; within an update it is given, and it depends on four variables.
LEMMA AllowedOnPage ==
  /\ absAllowed \in BOOLEAN
  /\ IInv /\ machine = "running" /\ mSetupConfState \in UpdateStates => absAllowed = TRUE
  /\ UNCHANGED <<machine, mConfState, pageVars>> => absAllowed' = absAllowed
<1>1. absAllowed \in BOOLEAN
  BY DEF absAllowed
<1>2. ASSUME IInv, machine = "running", mSetupConfState \in UpdateStates
      PROVE  absAllowed = TRUE
  <2>1. mConfState = "SetupConf" /\ updateEnabled /\ mfgSeen /\ mSetupConfState # "SetupConfInit"
    BY <1>2 DEF IInv, PagesClosed, PermissionSeen, UpdateStates
  <2> QED
    BY <1>1, <1>2, <2>1 DEF absAllowed, OnPage
<1>3. UNCHANGED <<machine, mConfState, pageVars>> => absAllowed' = absAllowed
  BY DEF absAllowed, OnPage, pageVars
<1> QED
  BY <1>1, <1>2, <1>3

\* Everything that ends the run of the application is a Stop.
LEMMA StopRefines ==
  ASSUME IInv, [Next]_vars, machine' # "running"
  PROVE  Abs!Stop
<1>1. absPhase' = "down" /\ absAllowed' = FALSE
  BY DEF absPhase, absAllowed, OnPage
<1>2. UNCHANGED store
  BY OnlyUpdatesWrite DEF WriteDelete, WriteValue, baseVars
<1> QED
  BY <1>1, <1>2 DEF Abs!Stop

\* The application starts in the main menu.
LEMMA StartRefines ==
  ASSUME IInv, [Next]_vars, machine # "running", machine' = "running"
  PROVE  Abs!Start
<1>1. ConfAppEntry
  <2>1. CASE SetupConfPage
    BY <2>1, SetupConfStays DEF SetupConfPage, SetupConfMgr, SetupConfApply, ApplySettings,
       ApplyHeader, ApplyNext, WriteDelete, WriteValue, SetupConfPrint, SetupConfWait,
       SetupConfError, SetupConfLeave, UsbNoFile, UsbError, UsbFile, UsbApplied, SerialNoKey,
       SerialEscape, SerialChar, SerialEnter, SerialApplied,
       SerialNoPool, SerialNoAscii, UsbNoData, SetupConfDump,
       SetupConfDumpComplete, InSerial, InState, OnPage
  <2>2. CASE MainMenu \/ SystemInfoPage \/ BootOptionPage \/ PowerLoss
    BY <2>2 DEF MainMenu, MainPrint, MainPoll, MainConfirm, SystemInfoPage, SysInfoMgr,
       SysInfoPrint, SysInfoPoll, SysInfoLeave, BootOptionPage, BootOptionMgr, PrintBootOptions,
       BootOptNoKey, BootOptKey, BootOptBootNow, BootOptReturned, BootOptLeave, ResetSystem,
       PowerLoss, OnPage
  <2>3. CASE UNCHANGED vars
    BY <2>3 DEF vars, baseVars
  <2> QED
    BY <2>1, <2>2, <2>3 DEF Next
<1>2. mConfState' = "MainInit" /\ UNCHANGED store
  BY <1>1 DEF ConfAppEntry, ApplyLoaded
<1>3. absPhase = "down" /\ absAllowed = FALSE /\ absPhase' = "menu" /\ absAllowed' = FALSE
  BY <1>2 DEF absPhase, absAllowed, OnPage
<1> QED
  BY <1>2, <1>3 DEF Abs!Start

\* Away from the SetupConf page nothing happens but its opening.
LEMMA MenuRefines ==
  ASSUME IInv, IInv', [Next]_vars, machine = "running", machine' = "running",
         mConfState # "SetupConf"
  PROVE  Abs!OpenPage \/ UNCHANGED Abs!absVars
<1>1. MainMenu \/ SystemInfoPage \/ BootOptionPage \/ UNCHANGED vars
  BY SetupConfStays DEF Next, ConfAppEntry, PowerLoss, SetupConfPage
<1>2. UNCHANGED setupConfVars
  BY <1>1 DEF MainMenu, SystemInfoPage, BootOptionPage, vars
<1>3. applyPc' = "idle" /\ mSetupConfState' = "SetupConfInit" /\ UNCHANGED store
  BY <1>2 DEF IInv, PagesClosed, setupConfVars, pageVars, applyVars, callVars, storeVars
<1>4. absPhase = "menu" /\ absAllowed = FALSE /\ absAllowed' = FALSE
  BY <1>3 DEF absPhase, absAllowed, OnPage
<1>5. absPhase' \in {"menu", "page"}
  BY <1>3 DEF absPhase, OnPage
<1> QED
  BY <1>3, <1>4, <1>5 DEF Abs!OpenPage, Abs!absVars

\* On the page without an update: permission may change, an update may begin, or the page
\* is closed.
LEMMA PageRefines ==
  ASSUME IInv, IInv', SetupConfPage, machine = "running", machine' = "running",
         applyPc = "idle"
  PROVE  Abs!Decide \/ Abs!Begin \/ Abs!ClosePage
<1>1. mConfState = "SetupConf" /\ (SetupConfLeave \/ mConfState' = "SetupConf")
  BY SetupConfStays DEF SetupConfPage
<1>2. absPhase = "page" /\ absAllowed \in BOOLEAN /\ absAllowed' \in BOOLEAN
  BY <1>1, PhaseOnPage DEF OnPage, absAllowed
<1>3. UNCHANGED store
  BY OnlyUpdatesWrite DEF Next, WriteDelete, WriteValue
<1>4. CASE SetupConfLeave
  <2>1. mConfState' = "MainInit"
    BY <1>4 DEF SetupConfLeave, ExitSubRoutine
  <2>2. absPhase' = "menu" /\ absAllowed' = FALSE
    BY <2>1 DEF absPhase, absAllowed, OnPage
  <2> QED
    BY <1>2, <1>3, <2>2 DEF Abs!ClosePage
<1>5. CASE UsbFile \/ SerialEnter
  <2>1. /\ applyPc' = "header" /\ mConfState' = "SetupConf"
        /\ mSetupConfState \in UpdateStates /\ mSetupConfState' \in UpdateStates
    BY <1>1, <1>5 DEF UsbFile, SerialEnter, ApplyCall, InSerial, InState, UpdateStates, pageVars,
                      baseVars
  <2>2. absPhase' = "session"
    BY <2>1 DEF absPhase, OnPage
  <2>3. absAllowed = TRUE
    BY <2>1, AllowedOnPage
  <2>4. absAllowed' = TRUE
    <3>1. updateEnabled' /\ mfgSeen' /\ mSetupConfState' # "SetupConfInit"
      BY <2>1 DEF IInv, PermissionSeen, UpdateStates
    <3> QED
      BY <1>2, <2>1, <3>1 DEF absAllowed, OnPage
  <2> QED
    BY <1>2, <1>3, <2>2, <2>3, <2>4 DEF Abs!Begin
<1>6. CASE ~(SetupConfLeave \/ UsbFile \/ SerialEnter)
  <2>1. applyPc' = "idle"
    BY <1>6 DEF SetupConfPage, SetupConfMgr, SetupConfPrint, SetupConfWait, SetupConfError,
       UsbNoFile, UsbError, UsbApplied, SerialNoKey, SerialEscape, SerialChar, SerialApplied,
       SerialNoPool, SerialNoAscii, UsbNoData, SetupConfDump, SetupConfDumpComplete,
       SetupConfApply, ApplySettings, ApplyHeader,
       ApplyNext, WriteDelete, WriteValue, applyVars, callVars
  <2>2. absPhase' = "page"
    BY <1>1, <1>6, <2>1 DEF absPhase, OnPage
  <2> QED
    BY <1>2, <1>3, <2>2 DEF Abs!Decide
<1> QED
  BY <1>4, <1>5, <1>6

\* During an update: a write, its end, or its return to the page.
LEMMA SessionRefines ==
  ASSUME IInv, IInv', SetupConfPage, machine = "running", machine' = "running",
         applyPc # "idle"
  PROVE  Abs!Write \/ Abs!Complete \/ Abs!Reject \/ UNCHANGED Abs!absVars
<1>1. /\ mConfState = "SetupConf" /\ absAllowed = TRUE
      /\ mSetupConfState \in {"SetupConfUpdateUsb", "SetupConfUpdateSerial"}
  BY UpdateIsPermitted, AllowedOnPage DEF UpdateStates
<1>2. SetupConfApply \/ UsbApplied \/ SerialApplied
  BY DEF SetupConfPage, SetupConfMgr, SetupConfPrint, SetupConfWait, SetupConfError,
     SetupConfLeave, UsbNoFile, UsbError, UsbFile, SerialNoKey, SerialEscape, SerialChar,
     SerialEnter, SerialNoPool, SerialNoAscii, UsbNoData, SetupConfDump,
     SetupConfDumpComplete, InSerial, InState
<1>3. CASE SetupConfApply
  <2>1. /\ applyPc # "return" /\ applyPc' # "idle"
        /\ UNCHANGED <<pageVars, machine, mConfState>>
    BY <1>3 DEF SetupConfApply, ApplySettings, ApplyHeader, ApplyNext, ApplyReturn,
                WriteDelete, WriteValue, baseVars
  <2>2. absPhase = "session" /\ absPhase' \in {"session", "complete"} /\ absAllowed' = absAllowed
    BY <1>1, <2>1, AllowedOnPage DEF absPhase, OnPage
  <2>3. CASE UNCHANGED store
    BY <2>2, <2>3 DEF Abs!Complete, Abs!absVars
  <2>4. CASE ~UNCHANGED store
    <3>1. WriteDelete \/ WriteValue
      BY <2>4, OnlyUpdatesWrite DEF Next
    <3>2. absPhase' = "session"
      BY <1>1, <2>1, <3>1 DEF absPhase, OnPage, WriteDelete, WriteValue
    <3>3. \E v \in Vars, x \in StoreValues : store' = [store EXCEPT ![v] = x]
      <4>1. WrittenEntry.var \in Vars /\ WrittenEntry.value \in Values
        BY <3>1, EntryTypes DEF WriteDelete, WriteValue
      <4>2. \E x \in StoreValues : store' = [store EXCEPT ![WrittenEntry.var] = x]
        BY <2>4, <3>1, <4>1 DEF WriteDelete, WriteValue, StoreValues
      <4> QED
        BY <4>1, <4>2
    <3> QED
      BY <1>1, <2>2, <3>2, <3>3 DEF Abs!Write
  <2> QED
    BY <2>3, <2>4
<1>4. CASE UsbApplied \/ SerialApplied
  <2>1. /\ applyStatus = "NO_MAPPING" /\ mSetupConfState' = "SetupConfUpdateSerialHint"
        /\ applyPc = "return" /\ applyPc' = "idle"
        /\ UNCHANGED <<mConfState, updateEnabled, mfgSeen, store>>
    BY <1>4 DEF IInv, TypeOK, SetupConfTypeOK, ApplyTypeOK, UsbApplied, SerialApplied,
                EndIteration, EFI_ERROR, Errors, ResetSystem, storeVars
  <2>2. absPhase = "session" /\ absPhase' = "page"
    BY <1>1, <2>1 DEF absPhase, OnPage
  <2>3. absAllowed' = TRUE
    <3>1. mSetupConfState' # "SetupConfInit" /\ updateEnabled' /\ mfgSeen'
      BY <2>1, UpdateIsPermitted
    <3> QED
      BY <1>1, <2>1, <3>1 DEF absAllowed, OnPage
  <2> QED
    BY <1>1, <2>1, <2>2, <2>3 DEF Abs!Reject
<1> QED
  BY <1>2, <1>3, <1>4

\* Every step of ConfApp is a step of ConfigUpdate or changes nothing it sees.
LEMMA StepRefines ==
  IInv /\ IInv' /\ [Next]_vars => [Abs!AbsNext]_(Abs!absVars)
<1> SUFFICES ASSUME IInv, IInv', [Next]_vars PROVE [Abs!AbsNext]_(Abs!absVars)
  OBVIOUS
<1>1. CASE machine' # "running"
  BY <1>1, StopRefines DEF Abs!AbsNext
<1>2. CASE machine # "running" /\ machine' = "running"
  BY <1>2, StartRefines DEF Abs!AbsNext
<1>3. CASE machine = "running" /\ machine' = "running" /\ mConfState # "SetupConf"
  BY <1>3, MenuRefines DEF Abs!AbsNext
<1>4. CASE machine = "running" /\ machine' = "running" /\ mConfState = "SetupConf"
  <2>1. SetupConfPage \/ UNCHANGED vars
    BY <1>4 DEF Next, ConfAppEntry, MainMenu, MainPrint, MainPoll, MainConfirm, SystemInfoPage,
       SysInfoMgr, SysInfoPrint, SysInfoPoll, SysInfoLeave, BootOptionPage, BootOptionMgr,
       PrintBootOptions, BootOptNoKey, BootOptKey, BootOptBootNow, BootOptReturned,
       BootOptLeave, PowerLoss, OnPage
  <2>2. CASE SetupConfPage
    BY <1>4, <2>2, PageRefines, SessionRefines DEF Abs!AbsNext
  <2>3. CASE UNCHANGED vars
    BY <2>3 DEF vars, baseVars, setupConfVars, pageVars, applyVars, callVars, storeVars,
                absPhase, absAllowed, OnPage, Abs!absVars
  <2> QED
    BY <2>1, <2>2, <2>3
<1> QED
  BY <1>1, <1>2, <1>3, <1>4

\* ConfApp implements ConfigUpdate: variables change only inside an update that was
\* permitted on this visit of the page, and a completed update takes the system down.
THEOREM Refinement == Spec => ImplementsConfigUpdate
<1>1. Init => Abs!AbsInit
  <2>1. ASSUME Init PROVE absPhase = "down" /\ absAllowed = FALSE /\ store \in [Vars -> StoreValues]
    BY <2>1 DEF Init, absPhase, absAllowed, OnPage, StoreValues
  <2> QED
    BY <2>1 DEF Abs!AbsInit
<1> QED
  BY <1>1, StepRefines, Inductive, PTL DEF Spec, ImplementsConfigUpdate, Abs!AbsSpec

-----------------------------------------------------------------------------
(***************************************************************************)
(* What an update leaves in the variable store, for payloads in which a    *)
(* setting is a list of one variable, as the tools write them, whichever   *)
(* writes are refused and whenever power is lost.  With two variables in a *)
(* setting none of it holds: WriteSVDSetting writes the first one twice,   *)
(* the second time from memory it has freed.                               *)
(***************************************************************************)

\* Every setting that decodes holds one variable.
OneEntry ==
  \A p \in Packets : \A i \in DOMAIN p.settings :
    p.settings[i].kind = "list" => Len(p.settings[i].list) = 1

-----------------------------------------------------------------------------
(* What a step of ConfApp does to the update.                              *)

\* The application is loaded: the last update is forgotten.
Loaded ==
  /\ applyPc' = "idle" /\ packet' = NoPacket /\ index' = 0
  /\ before' = store /\ store' = store /\ failed' = {} /\ dirty' = FALSE
  /\ machine' # "reset"

\* A payload is accepted.
Accepted ==
  /\ applyPc = "idle" /\ applyPc' = "header"
  /\ packet' \in Packets /\ index' = 0
  /\ before' = store /\ store' = store /\ failed' = {} /\ dirty' = dirty
  /\ machine = "running" /\ UNCHANGED <<machine, mConfState>>

\* ApplySettings has returned: the system is reset exactly if it succeeded.
Finished ==
  /\ machine = "running" /\ applyPc = "return" /\ applyPc' = "idle"
  /\ UNCHANGED <<applyStatus, packet, index, iter, storeVars, mConfState>>
  /\ applyStatus = "SUCCESS" => machine' = "reset"
  /\ machine' = "reset" /\ resetCause' = "applied" => applyStatus = "SUCCESS"

\* A step of the walk over the payload.
Walked == ApplySettings /\ machine = "running" /\ applyPc # "idle" /\ UNCHANGED baseVars

\* Everything else, which leaves the update alone; while one is in progress it can only
\* be the loss of power.
Elsewhere ==
  /\ UNCHANGED applyVars
  /\ machine' = "running" => machine = "running"
  /\ machine' = "reset" /\ resetCause' = "applied" =>
       machine = "reset" /\ resetCause = "applied"
  /\ applyPc # "idle" => UNCHANGED mConfState

\* SetupConfMgr is one of these.
LEMMA PageStepKinds ==
  IInv /\ SetupConfPage => Accepted \/ Finished \/ Walked \/ Elsewhere
<1> SUFFICES ASSUME IInv, SetupConfPage
             PROVE  Accepted \/ Finished \/ Walked \/ Elsewhere
  OBVIOUS
<1>0. applyStatus \in {"SUCCESS"} \union Errors
  BY DEF IInv, TypeOK, SetupConfTypeOK, ApplyTypeOK
<1>1. CASE SetupConfApply
  BY <1>1 DEF SetupConfApply, ApplySettings, ApplyHeader, ApplyNext, WriteDelete, WriteValue,
              Walked
<1>2. CASE UsbFile \/ SerialEnter
  BY <1>2 DEF UsbFile, SerialEnter, InSerial, InState, OnPage, ApplyCall, Accepted, baseVars
<1>3. CASE UsbApplied
  BY <1>0, <1>3 DEF UsbApplied, EndIteration, EFI_ERROR, ResetSystem, OnPage, Errors, Finished
<1>4. CASE SerialApplied
  BY <1>0, <1>4 DEF SerialApplied, EndIteration, EFI_ERROR, ResetSystem, OnPage, Errors, Finished
<1>5. CASE SetupConfPrint \/ SetupConfWait \/ SetupConfError \/ SetupConfLeave \/ UsbNoFile
             \/ UsbError \/ UsbNoData
  BY <1>5 DEF SetupConfPrint, SetupConfWait, SetupConfError, SetupConfLeave, UsbNoFile,
     UsbError, UsbNoData, InState, OnPage, EndIteration, EFI_ERROR, ResetSystem, Errors,
     baseVars, Elsewhere
<1>6. CASE SerialNoKey \/ SerialEscape \/ SerialNoPool \/ SerialChar \/ SerialNoAscii
             \/ SetupConfDump \/ SetupConfDumpComplete
  BY <1>6 DEF SerialNoKey, SerialEscape, SerialNoPool, SerialChar, SerialNoAscii,
     SetupConfDump, SetupConfDumpComplete, InSerial, InState, OnPage, EndIteration,
     EFI_ERROR, ResetSystem, Errors, baseVars, Elsewhere
<1> QED
  BY <1>1, <1>2, <1>3, <1>4, <1>5, <1>6 DEF SetupConfPage, SetupConfMgr

\* And so is every step of ConfApp.
LEMMA StepKinds ==
  IInv /\ [Next]_vars => Loaded \/ Accepted \/ Finished \/ Walked \/ Elsewhere
<1> SUFFICES ASSUME IInv, [Next]_vars
             PROVE  Loaded \/ Accepted \/ Finished \/ Walked \/ Elsewhere
  OBVIOUS
<1>1. CASE ConfAppEntry
  BY <1>1 DEF ConfAppEntry, ApplyLoaded, Loaded
<1>2. CASE SetupConfPage
  BY <1>2, PageStepKinds
<1>3. CASE MainMenu
  BY <1>3 DEF IInv, PagesClosed, MainMenu, MainPrint, MainPoll, MainConfirm, OnPage,
     EndIteration, EFI_ERROR, ResetSystem, Errors, setupConfVars, Elsewhere
<1>4. CASE SystemInfoPage
  BY <1>4 DEF IInv, PagesClosed, SystemInfoPage, SysInfoMgr, SysInfoPrint, SysInfoPoll,
     SysInfoLeave, OnPage, EndIteration, EFI_ERROR, ResetSystem, Errors, setupConfVars,
     Elsewhere
<1>5. CASE BootOptionPage
  BY <1>5 DEF BootOptionPage, BootOptionMgr, PrintBootOptions, BootOptNoKey, BootOptKey,
     BootOptBootNow, BootOptReturned, BootOptLeave, IInv, PagesClosed, OnPage,
     EndIteration, EFI_ERROR, ResetSystem, Errors, baseVars, setupConfVars, Elsewhere
<1>6. CASE PowerLoss \/ UNCHANGED vars
  BY <1>6 DEF PowerLoss, vars, baseVars, setupConfVars, Elsewhere
<1> QED
  BY <1>1, <1>2, <1>3, <1>4, <1>5, <1>6 DEF Next

-----------------------------------------------------------------------------
(* A torn update.                                                          *)

\* WriteSVDSetting is in its first iteration, in which nothing was freed yet.
FirstIteration == applyPc \in {"delete", "write"} => iter = 1

\* The property with what it rests on.
TornInv == FirstIteration /\ TornUpdateIsBounded

\* What a step of the walk does to the store and where it stands, if a setting is a list of
\* one variable.
LEMMA WalkSteps ==
  ASSUME OneEntry, IInv, FirstIteration, Walked
  PROVE  /\ UNCHANGED <<packet, before>>
         /\ \/ /\ applyPc = "header" /\ applyPc' \in {"next", "return"}
               /\ applyPc' = "next" => index' = 1
               /\ applyPc' = "return" => applyStatus' # "SUCCESS" /\ index' = index
               /\ UNCHANGED <<store, failed, dirty>>
            \/ /\ applyPc = "next" /\ applyPc' \in {"next", "return", "delete"}
               /\ applyPc' = "next" =>
                    /\ index' = index + 1 /\ index <= Len(packet.settings)
                    /\ CurrentSetting.kind = "corrupt"
               /\ applyPc' = "return" =>
                    /\ index' = index
                    /\ applyStatus' = "SUCCESS" => index > Len(packet.settings)
               /\ applyPc' = "delete" =>
                    /\ index' = index /\ iter' = 1
               /\ UNCHANGED <<store, failed, dirty>>
            \/ /\ applyPc = "delete" /\ applyPc' = "write" /\ iter' = 1
               /\ index' = index /\ failed' = failed
               /\ store' \in {store, [store EXCEPT ![WrittenEntry.var] = Missing]}
            \/ /\ applyPc = "write" /\ applyPc' = "next" /\ index' = index + 1
               /\ \/ /\ store' = [store EXCEPT ![WrittenEntry.var] = WrittenEntry.value]
                     /\ failed' = failed \ {WrittenEntry.var}
                  \/ /\ store' = store
                     /\ failed' = failed \union {WrittenEntry.var}
<1>1. CASE ApplyHeader
  <2>1. HeaderStatus(packet, TRUE) \in {"SUCCESS", "NO_MAPPING"}
        /\ HeaderStatus(packet, FALSE) \in {"SUCCESS", "NO_MAPPING", "ABORTED"}
    BY DEF HeaderStatus
  <2> QED
    BY <1>1, <2>1 DEF ApplyHeader, ApplyReturn, EFI_ERROR, Errors, storeVars
<1>2. CASE ApplyNext
  BY <1>2 DEF ApplyNext, ApplyReturn, storeVars
<1>3. CASE WriteDelete
  BY <1>3 DEF WriteDelete, FirstIteration
<1>4. CASE WriteValue
  <2>1. iter = 1 /\ applyPc = "write"
    BY <1>4 DEF WriteValue, FirstIteration
  <2>2. Len(CurrentList) = 1
    BY <2>1 DEF IInv, UpdateOnPage, OneEntry, CurrentList, CurrentSetting
  <2> QED
    BY <1>4, <2>1, <2>2 DEF WriteValue, MemoryOutcomes
<1> QED
  BY <1>1, <1>2, <1>3, <1>4 DEF Walked, ApplySettings

\* The entry that is written is one the payload asks for.
LEMMA CurrentIsAsked ==
  ASSUME OneEntry, IInv, applyPc \in {"delete", "write"}
  PROVE  /\ <<index, 1>> \in WritesOf(packet, WrittenEntry.var)
         /\ ValueOf(packet, <<index, 1>>) = WrittenEntry.value
<1>1. /\ index \in DOMAIN packet.settings /\ packet.settings[index].kind = "list"
      /\ packet \in Packets
  BY DEF IInv, UpdateOnPage, CurrentSetting
<1>2. packet.settings[index].list \in Seq(VarEntry)
  BY EntryTypes DEF CurrentList, CurrentSetting
<1>3. Len(packet.settings[index].list) = 1
  BY <1>1 DEF OneEntry
<1>4. 1 \in DOMAIN packet.settings[index].list
  BY <1>2, <1>3
<1> QED
  BY <1>1, <1>4 DEF WritesOf, ValueOf, WrittenEntry, CurrentList, CurrentSetting

\* A step deletes or writes only what the payload asks for.
LEMMA TornPreserved ==
  ASSUME OneEntry, IInv, TornInv, [Next]_vars
  PROVE  TornInv'
<1>1. CASE Loaded \/ Accepted
  BY <1>1 DEF Loaded, Accepted, TornInv, FirstIteration, TornUpdateIsBounded
<1>2. CASE Finished
  <2>1. TornUpdateIsBounded'
    BY <1>2 DEF Finished, storeVars, TornInv, TornUpdateIsBounded
  <2> QED
    BY <1>2, <2>1 DEF Finished, TornInv, FirstIteration
<1>3. CASE Elsewhere
  <2>1. TornUpdateIsBounded'
    BY <1>3 DEF Elsewhere, applyVars, callVars, storeVars, TornInv, TornUpdateIsBounded
  <2> QED
    BY <1>3, <2>1 DEF Elsewhere, applyVars, callVars, TornInv, FirstIteration
<1>4. CASE Walked
  <2>1. FirstIteration'
    BY <1>4, WalkSteps DEF TornInv, FirstIteration
  <2>2. UNCHANGED <<packet, before>>
    BY <1>4, WalkSteps DEF TornInv
  <2>3. CASE store' = store
    BY <2>1, <2>2, <2>3 DEF TornInv, TornUpdateIsBounded
  <2>4. CASE store' # store
    <3>1. /\ applyPc \in {"delete", "write"}
          /\ store' \in {[store EXCEPT ![WrittenEntry.var] = x] : x \in {Missing, WrittenEntry.value}}
      BY <1>4, <2>4, WalkSteps DEF TornInv
    <3>2. store \in [Vars -> StoreValues]
      BY DEF IInv, TypeOK, SetupConfTypeOK, ApplyTypeOK
    <3>3. WrittenEntry.value \in {ValueOf(packet, w) : w \in WritesOf(packet, WrittenEntry.var)}
      BY <3>1, CurrentIsAsked
    <3>4. ASSUME NEW v \in Vars
          PROVE  \/ store'[v] = before[v]
                 \/ /\ WritesOf(packet, v) # {}
                    /\ store'[v] \in {Missing} \union {ValueOf(packet, w) : w \in WritesOf(packet, v)}
      <4>1. CASE v = WrittenEntry.var
        <5>1. store'[v] \in {Missing, WrittenEntry.value}
          BY <3>1, <3>2, <4>1
        <5> QED
          BY <3>1, <3>3, <4>1, <5>1, CurrentIsAsked
      <4>2. CASE v # WrittenEntry.var
        <5>1. store'[v] = store[v]
          BY <3>1, <3>2, <4>2
        <5> QED
          BY <5>1 DEF TornInv, TornUpdateIsBounded
      <4> QED
        BY <4>1, <4>2
    <3> QED
      BY <2>1, <2>2, <3>4 DEF TornInv, TornUpdateIsBounded
  <2> QED
    BY <2>3, <2>4
<1> QED
  BY <1>1, <1>2, <1>3, <1>4, StepKinds

\* At every moment of an update, and after a power loss in the middle of it, a variable
\* holds what it held before, is missing, or has a value the payload gives it.
THEOREM TornUpdateHolds ==
  ASSUME OneEntry
  PROVE  Spec => []TornUpdateIsBounded
<1>1. Init => TornInv
  BY DEF Init, SetupConfInit, ApplyInit, ApplyIdle, TornInv, FirstIteration,
         TornUpdateIsBounded
<1>2. IInv /\ TornInv /\ [Next]_vars => TornInv'
  BY TornPreserved
<1>3. TornInv => TornUpdateIsBounded
  BY DEF TornInv
<1> QED
  BY <1>1, <1>2, <1>3, Inductive, PTL DEF Spec

-----------------------------------------------------------------------------
(* An applied update.                                                      *)

\* The settings of payload p before position n that write variable v.
Passed(p, n, v) ==
  {i \in DOMAIN p.settings :
     i < n /\ p.settings[i].kind = "list" /\ p.settings[i].list[1].var = v}

\* After these, v is what it was before, or the last of them was refused or is in the store.
Settled(p, n, st, bf, fl, v) ==
  IF Passed(p, n, v) = {}
  THEN st[v] = bf[v]
  ELSE \E i \in Passed(p, n, v) :
         /\ \A j \in Passed(p, n, v) : j <= i
         /\ v \in fl \/ st[v] = p.settings[i].list[1].value

\* Only the variable that is being written, between its deletion and its write, is not settled.
AllSettled ==
  \A v \in Vars :
    \/ Settled(packet, index, store, before, failed, v)
    \/ applyPc = "write" /\ v = WrittenEntry.var

\* A walk that succeeds has gone to the end.
WalkedToEnd ==
  /\ applyPc = "header" => index = 0
  /\ applyPc = "return" /\ applyStatus = "SUCCESS" => index > Len(packet.settings)
  /\ machine = "reset" /\ resetCause = "applied" =>
       applyPc = "idle" /\ index > Len(packet.settings)

\* The inductive form of AppliedInFull.
AppliedInv == FirstIteration /\ WalkedToEnd /\ AllSettled

\* What the payload in hand is made of.
LEMMA PacketShape ==
  ASSUME OneEntry, IInv
  PROVE  /\ packet.settings \in Seq(Setting)
         /\ \A i \in DOMAIN packet.settings :
              packet.settings[i].kind = "list" =>
                packet.settings[i].list \in Seq(VarEntry) /\ Len(packet.settings[i].list) = 1
<1>1. packet \in Packets \union {NoPacket}
  BY DEF IInv, TypeOK, SetupConfTypeOK, ApplyTypeOK
<1>2. CASE packet \in Packets
  <2>1. packet.settings \in Seq(Setting)
    BY <1>2, PacketsAssumption DEF PacketType
  <2>2. ASSUME NEW i \in DOMAIN packet.settings, packet.settings[i].kind = "list"
        PROVE  packet.settings[i].list \in Seq(VarEntry) /\ Len(packet.settings[i].list) = 1
    <3>1. packet.settings[i] \in Setting
      BY <2>1, <2>2
    <3> QED
      BY <1>2, <2>2, <3>1 DEF Setting, OneEntry
  <2> QED
    BY <2>1, <2>2
<1>3. CASE packet = NoPacket
  BY <1>3 DEF NoPacket
<1> QED
  BY <1>1, <1>2, <1>3

\* A walk settles one variable after the other.
LEMMA WalkSettles ==
  ASSUME OneEntry, IInv, AppliedInv, Walked
  PROVE  AllSettled'
<1>1. packet.settings \in Seq(Setting) /\ index \in Nat
  BY PacketShape DEF IInv, TypeOK, SetupConfTypeOK, ApplyTypeOK
<1>2. UNCHANGED <<packet, before>> /\ applyPc # "idle"
  BY WalkSteps DEF AppliedInv, Walked
<1>3. CASE applyPc = "header"
  <2>1. index = 0 /\ index' \in {0, 1} /\ UNCHANGED <<store, failed>>
    BY <1>3, WalkSteps DEF AppliedInv, WalkedToEnd
  <2>2. ASSUME NEW v \in Vars PROVE Passed(packet, index', v) = Passed(packet, index, v)
    BY <1>1, <2>1 DEF Passed
  <2>3. ASSUME NEW v \in Vars PROVE Settled(packet, index, store, before, failed, v)
    BY <1>3 DEF AppliedInv, AllSettled
  <2> QED
    BY <1>2, <2>1, <2>2, <2>3 DEF AllSettled, Settled
<1>4. CASE applyPc = "next"
  <2>1. /\ UNCHANGED <<store, failed>>
        /\ \/ index' = index
           \/ /\ index' = index + 1 /\ index <= Len(packet.settings)
              /\ packet.settings[index].kind = "corrupt"
    BY <1>4, WalkSteps DEF AppliedInv, CurrentSetting
  <2>2. ASSUME NEW v \in Vars PROVE Passed(packet, index', v) = Passed(packet, index, v)
    BY <1>1, <2>1 DEF Passed
  <2>3. ASSUME NEW v \in Vars PROVE Settled(packet, index, store, before, failed, v)
    BY <1>4 DEF AppliedInv, AllSettled
  <2> QED
    BY <1>2, <2>1, <2>2, <2>3 DEF AllSettled, Settled
<1>5. store \in [Vars -> StoreValues] /\ failed \subseteq Vars
  BY DEF IInv, TypeOK, SetupConfTypeOK, ApplyTypeOK
<1>6. CASE applyPc = "delete"
  <2>1. /\ applyPc' = "write" /\ index' = index /\ failed' = failed
        /\ store' \in {store, [store EXCEPT ![WrittenEntry.var] = Missing]}
    BY <1>6, WalkSteps DEF AppliedInv
  <2>2. WrittenEntry' = WrittenEntry
    BY <1>2, <2>1 DEF WrittenEntry, CurrentList, CurrentSetting
  <2>3. ASSUME NEW v \in Vars, v # WrittenEntry.var
        PROVE  Settled(packet, index, store', before, failed, v)
    <3>1. store'[v] = store[v]
      BY <1>5, <2>1, <2>3
    <3>2. Settled(packet, index, store, before, failed, v)
      BY <1>6 DEF AppliedInv, AllSettled
    <3> QED
      BY <3>1, <3>2 DEF Settled
  <2> QED
    BY <1>2, <2>1, <2>2, <2>3 DEF AllSettled
<1>7. CASE applyPc = "write"
  <2> DEFINE u == WrittenEntry.var
  <2>1. /\ applyPc' = "next" /\ index' = index + 1
        /\ \/ store' = [store EXCEPT ![u] = WrittenEntry.value] /\ failed' = failed \ {u}
           \/ store' = store /\ failed' = failed \union {u}
    BY <1>7, WalkSteps DEF AppliedInv
  <2>2. /\ index \in DOMAIN packet.settings /\ packet.settings[index].kind = "list"
        /\ packet.settings[index].list[1] = WrittenEntry
        /\ u \in Vars
    BY <1>7, EntryTypes DEF IInv, UpdateOnPage, CurrentSetting, CurrentList, WrittenEntry
  <2>3. ASSUME NEW v \in Vars, v # u
        PROVE  Settled(packet, index', store', before, failed', v)
    <3>1. Passed(packet, index', v) = Passed(packet, index, v)
      BY <1>1, <2>1, <2>2, <2>3 DEF Passed
    <3>2. store'[v] = store[v] /\ (v \in failed' <=> v \in failed)
      BY <1>5, <2>1, <2>3
    <3>3. Settled(packet, index, store, before, failed, v)
      BY <1>7, <2>3 DEF AppliedInv, AllSettled
    <3> QED
      BY <3>1, <3>2, <3>3 DEF Settled
  <2>4. Settled(packet, index', store', before, failed', u)
    <3>1. index \in Passed(packet, index', u)
      BY <1>1, <2>1, <2>2 DEF Passed
    <3>2. \A j \in Passed(packet, index', u) : j <= index
      BY <1>1, <2>1 DEF Passed
    <3>3. u \in failed' \/ store'[u] = packet.settings[index].list[1].value
      BY <1>5, <2>1, <2>2
    <3> QED
      BY <3>1, <3>2, <3>3 DEF Settled
  <2> QED
    BY <1>2, <2>1, <2>3, <2>4 DEF AllSettled
<1> QED
  BY <1>2, <1>3, <1>4, <1>6, <1>7, WalkSteps DEF AppliedInv

\* Every step keeps all variables settled but the one in hand.
LEMMA AppliedPreserved ==
  ASSUME OneEntry, IInv, AppliedInv, [Next]_vars
  PROVE  AppliedInv'
<1>1. CASE Loaded \/ Accepted
  <2>1. \A v \in Vars : Passed(packet', index', v) = {}
    <3>1. packet'.settings \in Seq(Setting) /\ index' = 0
      <4>1. CASE Loaded
        BY <4>1 DEF Loaded, NoPacket
      <4>2. CASE Accepted
        <5>1. packet' \in PacketType /\ index' = 0
          BY <4>2, PacketsAssumption DEF Accepted
        <5> QED
          BY <5>1 DEF PacketType
      <4> QED
        BY <1>1, <4>1, <4>2
    <3> QED
      BY <3>1 DEF Passed
  <2>2. AllSettled'
    BY <1>1, <2>1 DEF Loaded, Accepted, AllSettled, Settled
  <2> QED
    BY <1>1, <2>2 DEF Loaded, Accepted, AppliedInv, FirstIteration, WalkedToEnd
<1>2. CASE Finished
  <2>1. AllSettled'
    BY <1>2 DEF Finished, storeVars, AppliedInv, AllSettled
  <2> QED
    BY <1>2, <2>1 DEF Finished, AppliedInv, FirstIteration, WalkedToEnd
<1>3. CASE Elsewhere
  <2>1. AllSettled'
    BY <1>3 DEF Elsewhere, applyVars, callVars, storeVars, AppliedInv, AllSettled,
                WrittenEntry, CurrentList, CurrentSetting
  <2> QED
    BY <1>3, <2>1 DEF Elsewhere, applyVars, callVars, AppliedInv, FirstIteration, WalkedToEnd
<1>4. CASE Walked
  <2>1. FirstIteration'
    BY <1>4, WalkSteps DEF AppliedInv, FirstIteration
  <2>2. WalkedToEnd'
    BY <1>4, WalkSteps DEF AppliedInv, WalkedToEnd, Walked, baseVars
  <2> QED
    BY <1>4, <2>1, <2>2, WalkSettles DEF AppliedInv
<1> QED
  BY <1>1, <1>2, <1>3, <1>4, StepKinds

\* If the walk has passed all settings, LastWrite is the last one it passed.
LEMMA LastPassed ==
  ASSUME OneEntry, IInv, index > Len(packet.settings), NEW v \in Vars
  PROVE  /\ WritesOf(packet, v) = {} <=> Passed(packet, index, v) = {}
         /\ \A i \in Passed(packet, index, v) :
              (\A j \in Passed(packet, index, v) : j <= i) =>
                ValueOf(packet, LastWrite(packet, v)) = packet.settings[i].list[1].value
<1>1. /\ packet.settings \in Seq(Setting) /\ index \in Nat
      /\ \A i \in DOMAIN packet.settings :
           packet.settings[i].kind = "list" => DOMAIN packet.settings[i].list = {1}
  <2>1. \A i \in DOMAIN packet.settings :
          packet.settings[i].kind = "list" =>
            DOMAIN packet.settings[i].list = 1..1
    BY PacketShape
  <2> QED
    BY <2>1, PacketShape DEF IInv, TypeOK, SetupConfTypeOK, ApplyTypeOK
<1>2. ASSUME NEW w \in WritesOf(packet, v)
      PROVE  w[1] \in Passed(packet, index, v) /\ w = <<w[1], 1>> /\ w[1] \in Nat
  BY <1>1 DEF WritesOf, Passed
<1>3. ASSUME NEW i \in Passed(packet, index, v)
      PROVE  <<i, 1>> \in WritesOf(packet, v) /\ i \in Nat
  BY <1>1 DEF WritesOf, Passed
<1>4. ASSUME NEW i \in Passed(packet, index, v), \A j \in Passed(packet, index, v) : j <= i
      PROVE  ValueOf(packet, LastWrite(packet, v)) = packet.settings[i].list[1].value
  <2> DEFINE Last(w) == \A u \in WritesOf(packet, v) :
                          u[1] < w[1] \/ (u[1] = w[1] /\ u[2] <= w[2])
  <2>1. <<i, 1>> \in WritesOf(packet, v) /\ i \in Nat
    BY <1>3
  <2>2. Last(<<i, 1>>)
    <3>1. ASSUME NEW u \in WritesOf(packet, v)
          PROVE  u[1] < i \/ (u[1] = i /\ u[2] <= 1)
      <4>1. u[1] \in Nat /\ u[1] <= i /\ u[2] = 1
        BY <1>2, <1>4
      <4> QED
        BY <2>1, <4>1
    <3> QED
      BY <3>1
  <2>3. LastWrite(packet, v) \in WritesOf(packet, v) /\ Last(LastWrite(packet, v))
    BY <2>1, <2>2 DEF LastWrite
  <2>4. LastWrite(packet, v)[1] = i
    <3>1. i <= LastWrite(packet, v)[1]
      BY <2>1, <2>3, <1>2
    <3>2. LastWrite(packet, v)[1] <= i /\ LastWrite(packet, v)[1] \in Nat
      BY <2>3, <1>2, <1>4
    <3> QED
      BY <2>1, <3>1, <3>2
  <2>5. LastWrite(packet, v)[2] = 1
    BY <2>3, <1>2
  <2> QED
    BY <2>4, <2>5 DEF ValueOf
<1> QED
  BY <1>2, <1>3, <1>4

\* After the reset that ends an applied update every variable holds the last value the
\* payload gives it, unless that write was refused, and no other variable changed.
THEOREM AppliedInFullHolds ==
  ASSUME OneEntry
  PROVE  Spec => []AppliedInFull
<1>1. Init => AppliedInv
  <2> SUFFICES ASSUME Init PROVE AppliedInv
    OBVIOUS
  <2>1. applyPc = "idle" /\ packet = NoPacket /\ before = store /\ machine = "off"
    BY DEF Init, SetupConfInit, ApplyInit, ApplyIdle
  <2>2. AllSettled
    BY <2>1 DEF AllSettled, Settled, Passed, NoPacket
  <2> QED
    BY <2>1, <2>2 DEF AppliedInv, FirstIteration, WalkedToEnd
<1>2. IInv /\ AppliedInv /\ [Next]_vars => AppliedInv'
  BY AppliedPreserved
<1>3. ASSUME IInv, AppliedInv, machine = "reset", resetCause = "applied", NEW v \in Vars
      PROVE  IF WritesOf(packet, v) = {}
             THEN store[v] = before[v]
             ELSE v \in failed \/ store[v] = ValueOf(packet, LastWrite(packet, v))
  <2>1. index > Len(packet.settings) /\ Settled(packet, index, store, before, failed, v)
    BY <1>3 DEF AppliedInv, WalkedToEnd, AllSettled
  <2>2. CASE Passed(packet, index, v) = {}
    BY <1>3, <2>1, <2>2, LastPassed DEF Settled
  <2>3. CASE Passed(packet, index, v) # {}
    <3>1. PICK i \in Passed(packet, index, v) :
            /\ \A j \in Passed(packet, index, v) : j <= i
            /\ v \in failed \/ store[v] = packet.settings[i].list[1].value
      BY <2>1, <2>3 DEF Settled
    <3> QED
      BY <1>3, <2>1, <2>3, <3>1, LastPassed
  <2> QED
    BY <2>2, <2>3
<1>4. IInv /\ AppliedInv => AppliedInFull
  BY <1>3 DEF AppliedInFull
<1> QED
  BY <1>1, <1>2, <1>4, Inductive, PTL DEF Spec
=============================================================================
