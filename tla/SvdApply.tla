------------------------------ MODULE SvdApply ------------------------------
(***************************************************************************)
(* ApplySettings and WriteSVDSetting of ConfApp/SetupConf.c: the walk over *)
(* the settings of an SVD payload and the writes to the variable store.    *)
(* Every write is a step of its own, so that power can be lost between any *)
(* two of them.                                                            *)
(***************************************************************************)
EXTENDS ConfAppBase

CONSTANTS
  Vars,           \* the configuration variables
  Values,         \* what they can hold
  Missing,        \* the value of a variable that is not in the store
  Garbage,        \* what a variable holds after a write from clobbered memory
  Packets,        \* the SVD payloads users supply, see PacketType
  MAX_UINT32,     \* the limit of Version and Lsv
  WritesMayFail   \* whether SetVariable may refuse a deletion or a write

VarEntry == [var : Vars, value : Values]

(***************************************************************************)
(* One <Setting> of a payload.  "badxml": no Id or Value, or no pool for   *)
(* the decoded value.  "badb64": the Value is empty or not base64.         *)
(* "corrupt": it decodes to bytes RetrieveActiveConfigVarList refuses.     *)
(* "list": it decodes to a variable list.                                  *)
(***************************************************************************)
SettingKinds == {"badxml", "badb64", "corrupt", "list"}

Setting == [kind : SettingKinds, list : Seq(VarEntry)]

(***************************************************************************)
(* A payload: does it parse as XML (xml), has it a settings packet         *)
(* (packet) and a settings list (hasList).  A Version or Lsv above         *)
(* MAX_UINT32 stands for an absent node too: both are refused alike.       *)
(***************************************************************************)
PacketType == [xml : BOOLEAN, packet : BOOLEAN, hasList : BOOLEAN,
               Version : Nat, Lsv : Nat, settings : Seq(Setting)]

ASSUME LimitAssumption == MAX_UINT32 \in Nat /\ WritesMayFail \in BOOLEAN

ASSUME PacketsAssumption ==
  /\ Packets \subseteq PacketType
  /\ \A p \in Packets : \A i \in DOMAIN p.settings :
       p.settings[i].kind = "list" => p.settings[i].list # << >>

ASSUME GarbageAssumption == Missing \notin Values /\ Garbage \notin Values

VARIABLES
  applyPc,      \* where ApplySettings is, see ApplyPcs
  applyStatus,  \* what it returns
  packet,       \* the payload it was given
  index,        \* the <Setting> it is at
  iter,         \* the iteration of WriteSVDSetting's loop it is at
  store,        \* the variable store; survives power loss
  before,       \* history: the store when the last payload was accepted
  failed,       \* history: variables whose last write failed
  dirty         \* history: the store was changed since power on

callVars == <<applyPc, applyStatus, packet, index, iter>>
storeVars == <<store, before, failed, dirty>>
applyVars == <<callVars, storeVars>>

ApplyPcs == {"idle", "header", "next", "delete", "write", "return"}

NoPacket == [xml |-> FALSE, packet |-> FALSE, hasList |-> FALSE,
             Version |-> 0, Lsv |-> 0, settings |-> << >>]

StoreValues == Values \union {Missing, Garbage}

ApplyTypeOK ==
  /\ applyPc \in ApplyPcs
  /\ applyStatus \in {"SUCCESS"} \union Errors
  /\ packet \in Packets \union {NoPacket}
  /\ index \in Nat
  /\ iter \in Nat
  /\ store \in [Vars -> StoreValues]
  /\ before \in [Vars -> StoreValues]
  /\ failed \in SUBSET Vars
  /\ dirty \in BOOLEAN

ApplyIdle ==
  /\ applyPc = "idle"
  /\ applyStatus = "SUCCESS"
  /\ packet = NoPacket
  /\ index = 0
  /\ iter = 0

ApplyInit ==
  /\ ApplyIdle
  /\ failed = {}
  /\ dirty = FALSE

-----------------------------------------------------------------------------

\* The application is loaded: nothing survives but the store.
ApplyLoaded ==
  /\ applyPc' = "idle"
  /\ applyStatus' = "SUCCESS"
  /\ packet' = NoPacket
  /\ index' = 0
  /\ iter' = 0
  /\ before' = store
  /\ failed' = {}
  /\ dirty' = FALSE
  /\ UNCHANGED store

\* Mutant: the walk does not advance.
CurrentSettingStuck == packet.settings[1]

CurrentSetting == packet.settings[index]
CurrentList == CurrentSetting.list

ApplyCall(p) ==
  /\ applyPc' = "header"
  /\ applyStatus' = "SUCCESS"
  /\ packet' = p
  /\ index' = 0
  /\ iter' = 0
  /\ before' = store
  /\ failed' = {}
  /\ UNCHANGED <<store, dirty>>

ApplyReturn(Status) ==
  /\ applyPc' = "return"
  /\ applyStatus' = Status
  /\ UNCHANGED <<packet, index, iter, storeVars>>

(***************************************************************************)
(* The checks before the first setting.  The clock is read between the     *)
(* XML parse and the others, and its failure, or that of building the      *)
(* result tree, is not a NO_MAPPING.                                       *)
(***************************************************************************)
HeaderOk(p) ==
  /\ p.packet
  /\ p.Version <= MAX_UINT32
  /\ p.Lsv <= MAX_UINT32
  /\ p.Lsv <= p.Version
  /\ p.hasList

HeaderStatus(p, resultOk) ==
  CASE ~p.xml -> "NO_MAPPING"
    [] p.xml /\ ~resultOk -> "ABORTED"
    [] p.xml /\ resultOk /\ ~HeaderOk(p) -> "NO_MAPPING"
    [] OTHER -> "SUCCESS"

ApplyHeader ==
  /\ machine = "running" /\ applyPc = "header"
  /\ \E resultOk \in BOOLEAN :
       LET Status == HeaderStatus(packet, resultOk)
       IN  IF EFI_ERROR(Status)
           THEN ApplyReturn(Status)
           ELSE /\ applyPc' = "next"
                /\ index' = 1
                /\ UNCHANGED <<applyStatus, packet, iter, storeVars>>
  /\ UNCHANGED baseVars

(***************************************************************************)
(* The loop over the settings: a malformed one ends it with an error, an   *)
(* undecodable variable list is skipped because the status of              *)
(* WriteSVDSetting is ignored.                                             *)
(***************************************************************************)
ApplyNext ==
  /\ machine = "running" /\ applyPc = "next"
  /\ \/ index > Len(packet.settings) /\ ApplyReturn("SUCCESS")
     \/ /\ index <= Len(packet.settings)
        /\ \/ CurrentSetting.kind = "badxml" /\ ApplyReturn("NO_MAPPING")
           \/ CurrentSetting.kind = "badb64" /\ ApplyReturn("INVALID_PARAMETER")
           \/ /\ CurrentSetting.kind = "corrupt"
              /\ index' = index + 1
              /\ UNCHANGED <<applyPc, applyStatus, packet, iter, storeVars>>
           \/ /\ CurrentSetting.kind = "list"
              /\ applyPc' = "delete"
              /\ iter' = 1
              /\ UNCHANGED <<applyStatus, packet, index, storeVars>>
  /\ UNCHANGED baseVars

(***************************************************************************)
(* The entry iteration iter of WriteSVDSetting works on: the loop never    *)
(* advances ConfigVarListPtr, so it is the first one each time.  Its Name  *)
(* and Data are freed at the end of the first iteration; what later ones   *)
(* read there is still intact, or overwritten: "lostName" is a Name that   *)
(* SetVariable rejects, "lostData" intact Name with other bytes in Data.   *)
(***************************************************************************)
WrittenEntry == CurrentList[1]

\* Mutant: Data is freed before it is written.
MemoryOutcomesFreedEarly == {"intact", "lostName", "lostData"}

MemoryOutcomes == IF iter = 1 THEN {"intact"} ELSE {"intact", "lostName", "lostData"}

SetVariableOutcomes == IF WritesMayFail THEN BOOLEAN ELSE {TRUE}

\* The variable is deleted first; a failure to delete it is ignored.
WriteDelete ==
  /\ machine = "running" /\ applyPc = "delete"
  /\ \E mem \in MemoryOutcomes, ok \in SetVariableOutcomes :
       IF ok /\ mem # "lostName"
       THEN /\ store' = [store EXCEPT ![WrittenEntry.var] = Missing]
            /\ dirty' = TRUE
       ELSE UNCHANGED <<store, dirty>>
  /\ applyPc' = "write"
  /\ UNCHANGED <<applyStatus, packet, index, iter, before, failed, baseVars>>

\* Then it is written; a failure is logged and the loop goes on.
WriteValue ==
  /\ machine = "running" /\ applyPc = "write"
  /\ \E mem \in MemoryOutcomes, ok \in SetVariableOutcomes :
       IF ok /\ mem # "lostName"
       THEN /\ store' = [store EXCEPT ![WrittenEntry.var] =
                           IF mem = "intact" THEN WrittenEntry.value ELSE Garbage]
            /\ dirty' = TRUE
            /\ failed' = failed \ {WrittenEntry.var}
       ELSE /\ failed' = failed \union {WrittenEntry.var}
            /\ UNCHANGED <<store, dirty>>
  /\ IF iter < Len(CurrentList)
     THEN /\ iter' = iter + 1
          /\ applyPc' = "delete"
          /\ UNCHANGED index
     ELSE /\ index' = index + 1
          /\ applyPc' = "next"
          /\ iter' = 0
  /\ UNCHANGED <<applyStatus, packet, before, baseVars>>

ApplySettings == ApplyHeader \/ ApplyNext \/ WriteDelete \/ WriteValue
=============================================================================
