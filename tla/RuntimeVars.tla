------------------------------ MODULE RuntimeVars ------------------------------
(***************************************************************************)
(* The tools that move configuration between files and the variable store  *)
(* of a running system:                                                    *)
(*   WriteConfVarListToUefiVars.py   writes the entries of a variable list *)
(*   ReadUefiVarsToConfVarList.py    reads the variables into such a list  *)
(*   GenNCCfgData.py DELVAR          deletes the variables of all knobs    *)
(* and the check of the XML against the firmware that guards the first two *)
(* (CommonUtility.py).                                                     *)
(*                                                                         *)
(* One step is one call of the operating system: the store may refuse any  *)
(* of them, and the tool may be killed between any two.  A file is a       *)
(* sequence of entries.  The sizes in an entry either fit the file ("ok",  *)
(* whatever its CRC says: the tool does not compare it), or ask for more   *)
(* bytes than are left ("cut"), or there are 8 bytes or fewer ("stub").    *)
(***************************************************************************)
EXTENDS Naturals, Sequences

CONSTANTS Names,   \* variable names, each with its namespace
          Data,    \* contents of variables
          Knobs,   \* a sequence of names: the knobs of the XML
          AllVars, \* the same for all variables, as the system enumerates them
          Files,   \* the lists that may be written
          Cmds,    \* the command line options tried
          Hashes,  \* what XML files and the firmware may hash to
          None     \* no such variable, file or hash

Entry == [kind : {"ok", "cut", "stub"}, name : Names, data : Data]

ASSUME NamesAssumption == Knobs \in Seq(Names) /\ AllVars \in Seq(Names)

\* What is too short for two sizes is the rest of a file.
StubIsLast(f) == \A i \in 1..Len(f) : f[i].kind = "stub" => i = Len(f)
ASSUME FilesAssumption == Files \subseteq {f \in Seq(Entry) : StubIsLast(f)}
ASSUME NoneAssumption == None \notin Data /\ None \notin Hashes /\ "bad" \notin Hashes

\* xml: the hash of the XML given with -x, None if none was given, "bad" if it
\* cannot be parsed.
Options == [xml : Hashes \union {None, "bad"}, skip : BOOLEAN, ignore : BOOLEAN]

ASSUME CmdsAssumption == Cmds \subseteq Options

VARIABLES pc,      \* what the tool is doing: "idle", "write", "read" or "delete"
          tool,    \* the last tool that was started
          opts,    \* its options
          file,    \* the list being written, or read so far
          abort,   \* abort_when_failure
          pos,     \* the next entry or knob
          failed,  \* the positions SetUefiVar refused
          res,     \* how the last tool ended
          nvram,   \* the variable store: contents or None
          before,  \* the store when the tool was started
          out,     \* the output file of the read tool
          fwHash   \* SCHEMA_XML_HASH of the firmware, None if it cannot be read

vars == <<pc, tool, opts, file, abort, pos, failed, res, nvram, before, out, fwHash>>
settings == <<tool, opts, file, abort, before, fwHash>>

Init == /\ pc = "idle" /\ tool = "none" /\ res = "none"
        /\ opts = [xml |-> None, skip |-> FALSE, ignore |-> FALSE]
        /\ file = <<>> /\ abort = FALSE /\ pos = 1 /\ failed = {}
        /\ nvram \in [Names -> Data \union {None}]
        /\ before = nvram /\ out = <<>>
        /\ fwHash \in Hashes \union {None}

ValidateAnyHash(o) == o.skip \/ o.xml # "bad"

\* validate_config_xml_hash_against_fw
Validate(o) ==
  \/ o.skip
  \/ o.xml # "bad" /\ (fwHash = None \/ o.xml = fwHash \/ o.ignore)

\* main of both tools: without -x nothing is compared.
MayRun(o) == o.xml = None \/ Validate(o)

Begin(t, o) ==
  /\ pc = "idle"
  /\ tool' = t /\ opts' = o /\ pos' = 1 /\ failed' = {} /\ before' = nvram
  /\ UNCHANGED <<nvram, fwHash>>

\* The tool ends and leaves its settings for the properties.
End(r) == pc' = "idle" /\ res' = r

-----------------------------------------------------------------------------
(* WriteConfVarListToUefiVars.py *)

StartWrite(f, o, ab) ==
  /\ Begin("write", o)
  /\ IF MayRun(o) THEN pc' = "write" /\ res' = "none" ELSE End("refused")
  /\ file' = f /\ abort' = ab /\ UNCHANGED out

WriteEntryStuck(stored) ==
  /\ pc = "write" /\ pos <= Len(file) /\ file[pos].kind = "ok"
  /\ IF stored
     THEN nvram' = [nvram EXCEPT ![file[1].name] = file[1].data] /\ UNCHANGED failed
     ELSE failed' = failed \union {pos} /\ UNCHANGED nvram
  /\ IF ~stored /\ abort
     THEN End("0") /\ UNCHANGED pos
     ELSE pos' = pos + 1 /\ UNCHANGED <<pc, res>>
  /\ UNCHANGED <<settings, out>>

\* extract_single_var_from_file_and_write_nvram and the loop around it.
WriteEntry(stored) ==
  /\ pc = "write" /\ pos <= Len(file) /\ file[pos].kind = "ok"
  /\ IF stored
     THEN nvram' = [nvram EXCEPT ![file[pos].name] = file[pos].data] /\ UNCHANGED failed
     ELSE failed' = failed \union {pos} /\ UNCHANGED nvram
  /\ IF ~stored /\ abort
     THEN End("0") /\ UNCHANGED pos
     ELSE pos' = pos + 1 /\ UNCHANGED <<pc, res>>
  /\ UNCHANGED <<settings, out>>

\* The sizes ask for more than there is: the function returns a number where the
\* loop unpacks a pair, which raises.
WriteCut ==
  /\ pc = "write" /\ pos <= Len(file) /\ file[pos].kind = "cut"
  /\ End("raised")
  /\ UNCHANGED <<settings, out, pos, failed, nvram>>

WriteStubSizeZero ==
  /\ pc = "write" /\ pos <= Len(file) /\ file[pos].kind = "stub"
  /\ failed' = failed \union {pos}
  /\ IF abort THEN End("0") ELSE UNCHANGED <<pc, res>>
  /\ UNCHANGED <<settings, out, nvram, pos>>

\* Too short for two sizes: a failure that consumes the rest of the file.
WriteStub ==
  /\ pc = "write" /\ pos <= Len(file) /\ file[pos].kind = "stub"
  /\ failed' = failed \union {pos}
  /\ IF abort THEN End("0") /\ UNCHANGED pos
              ELSE pos' = Len(file) + 1 /\ UNCHANGED <<pc, res>>
  /\ UNCHANGED <<settings, out, nvram>>

WriteDone ==
  /\ pc = "write" /\ pos > Len(file)
  /\ End("1")
  /\ UNCHANGED <<settings, out, pos, failed, nvram>>

-----------------------------------------------------------------------------
(* ReadUefiVarsToConfVarList.py: open(..., "wb") empties the output first *)

StartReadKeepsOutput(o) ==
  /\ Begin("read", o)
  /\ IF MayRun(o) THEN pc' = "read" /\ res' = "none" ELSE End("refused")
  /\ file' = <<>> /\ abort' = FALSE /\ UNCHANGED out

StartRead(o) ==
  /\ Begin("read", o)
  /\ IF MayRun(o) THEN pc' = "read" /\ res' = "none" /\ out' = <<>>
                  ELSE End("refused") /\ UNCHANGED out
  /\ file' = <<>> /\ abort' = FALSE

\* With an XML the variables of its knobs are read, without one all there are.
Reading == IF opts.xml = None THEN AllVars ELSE Knobs

\* A variable that is not there, or that the system does not hand out, is left out.
ReadVariable ==
  /\ pc = "read" /\ pos <= Len(Reading)
  /\ \/ /\ nvram[Reading[pos]] # None
        /\ file' = Append(file, [kind |-> "ok", name |-> Reading[pos], data |-> nvram[Reading[pos]]])
        /\ UNCHANGED failed
     \/ failed' = failed \union {pos} /\ UNCHANGED file
  /\ pos' = pos + 1
  /\ UNCHANGED <<pc, tool, opts, abort, res, nvram, before, out, fwHash>>

ReadDone ==
  /\ pc = "read" /\ pos > Len(Reading)
  /\ out' = file
  /\ End(IF file = <<>> THEN "-1" ELSE "0")
  /\ UNCHANGED <<settings, pos, failed, nvram>>

-----------------------------------------------------------------------------
(* GenNCCfgData.py DELVAR *)

StartDelete ==
  /\ Begin("delete", [xml |-> None, skip |-> FALSE, ignore |-> FALSE])
  /\ pc' = "delete" /\ res' = "none" /\ file' = <<>> /\ abort' = FALSE /\ UNCHANGED out

DeleteKnobFirst(deleted) ==
  /\ pc = "delete" /\ pos <= Len(Knobs)
  /\ IF deleted
     THEN nvram' = [nvram EXCEPT ![Knobs[1]] = None] /\ UNCHANGED failed
     ELSE failed' = failed \union {pos} /\ UNCHANGED nvram
  /\ pos' = pos + 1
  /\ UNCHANGED <<settings, pc, res, out>>

DeleteKnob(deleted) ==
  /\ pc = "delete" /\ pos <= Len(Knobs)
  /\ IF deleted
     THEN nvram' = [nvram EXCEPT ![Knobs[pos]] = None] /\ UNCHANGED failed
     ELSE failed' = failed \union {pos} /\ UNCHANGED nvram
  /\ pos' = pos + 1
  /\ UNCHANGED <<settings, pc, res, out>>

DeleteDone ==
  /\ pc = "delete" /\ pos > Len(Knobs)
  /\ End("0")
  /\ UNCHANGED <<settings, pos, failed, nvram, out>>

-----------------------------------------------------------------------------
\* The process is killed, or the system loses power.
Kill == /\ pc # "idle"
        /\ End("killed")
        /\ UNCHANGED <<settings, out, pos, failed, nvram>>

Writable == Files \union (IF out = <<>> THEN {} ELSE {out})

Start == \/ \E f \in Writable, o \in Cmds, ab \in BOOLEAN : StartWrite(f, o, ab)
         \/ \E o \in Cmds : StartRead(o)
         \/ StartDelete

Step == \/ \E stored \in BOOLEAN : WriteEntry(stored)
        \/ WriteCut \/ WriteStub \/ WriteDone
        \/ ReadVariable \/ ReadDone
        \/ \E deleted \in BOOLEAN : DeleteKnob(deleted)
        \/ DeleteDone

Next == Start \/ Step \/ Kill

Spec == Init /\ [][Next]_vars

\* A tool that is running keeps running: its loops wait for nobody.
FairSpec == Spec /\ WF_vars(Step)

-----------------------------------------------------------------------------
TypeOK ==
  /\ pc \in {"idle", "write", "read", "delete"}
  /\ tool \in {"none", "write", "read", "delete"}
  /\ opts \in Options /\ abort \in BOOLEAN
  /\ file \in Seq(Entry) /\ out \in Seq(Entry)
  /\ pos \in Nat \ {0} /\ failed \in SUBSET Nat
  /\ res \in {"none", "refused", "raised", "killed", "0", "1", "-1"}
  /\ nvram \in [Names -> Data \union {None}] /\ before \in [Names -> Data \union {None}]
  /\ fwHash \in Hashes \union {None}

\* The entries the write tool has passed and the store has taken.
Stored == {i \in 1..Len(file) : i < pos /\ i \notin failed}

\* Whenever and however the write tool stops (killed, refused, aborted, raised),
\* a variable holds the last entry for it that was stored, and a variable no
\* stored entry names still holds what it held before.  "If abort_when_failure is
\* set to True, the function will stop processing further variables and return 0
\* when it encounters a failure": with it, 1 means that every entry was stored.
StoreIsPrefix ==
  tool = "write" =>
    /\ \A n \in Names : (\A i \in Stored : file[i].name # n) => nvram[n] = before[n]
    /\ \A i \in Stored :
         (\A j \in Stored : j > i => file[j].name # file[i].name)
           => nvram[file[i].name] = file[i].data
    /\ abort /\ res = "1" => Stored = 1..Len(file)

\* A file written for another schema than the firmware's changes nothing, unless
\* the check was waived or the firmware does not report its hash.
HashGate ==
  tool = "write" /\ opts.xml # None /\ nvram # before =>
    opts.skip \/ opts.ignore \/ fwHash \in {None, opts.xml}

\* What the read tool leaves in its output file is what the store holds: every
\* entry is the content of its variable at that time (and the file is empty, not
\* torn, when the tool was killed).
ReadIsExact ==
  tool = "read" /\ res # "refused" =>
    \A i \in 1..Len(out) : out[i].data = nvram[out[i].name]

\* The knobs DELVAR has passed, except refused ones.
Deleted == {Knobs[i] : i \in {j \in 1..Len(Knobs) : j < pos /\ j \notin failed}}

\* DELVAR has deleted the knobs it has passed, except those the store refused to
\* delete, and it has touched no other variable.
DeleteIsExact ==
  tool = "delete" => \A n \in Names : nvram[n] = IF n \in Deleted THEN None ELSE before[n]

\* A tool that was started ends.
Terminates == pc # "idle" ~> pc = "idle"
=============================================================================
