--------------------------- MODULE RuntimeVars_proofs ---------------------------
(***************************************************************************)
(* Proofs about the runtime variable tools: whatever the lists, the knobs, *)
(* the store and the options, wherever the store refuses a call and        *)
(* wherever a tool is killed, the store holds exactly what the tool has    *)
(* stored, read files are exact, and a foreign list changes nothing.       *)
(***************************************************************************)
EXTENDS RuntimeVars, SequenceTheorems, TLAPS

(***************************************************************************)
(* What holds while a tool runs and the properties do not say: it has not  *)
(* ended, it has failed only where it has been, it was allowed to run, and *)
(* a write that stops at failures has met none.                            *)
(***************************************************************************)
Running ==
  pc # "idle" => /\ tool = pc /\ res = "none"
                 /\ \A i \in failed : i < pos
                 /\ pc = "write" => MayRun(opts) /\ (abort => failed = {})

(***************************************************************************)
(* What is known of the files: a rest is the last entry, the read tool     *)
(* writes whole entries only, and so far it has read what the store holds. *)
(***************************************************************************)
FilesAreWhole ==
  /\ pc = "write" => StubIsLast(file)
  /\ \A i \in 1..Len(out) : out[i].kind = "ok"
  /\ pc = "read" => \A i \in 1..Len(file) :
                      file[i].kind = "ok" /\ file[i].data = nvram[file[i].name]

\* The inductive invariant
IInv == /\ TypeOK /\ Running /\ FilesAreWhole
        /\ StoreIsPrefix /\ HashGate /\ ReadIsExact /\ DeleteIsExact

-----------------------------------------------------------------------------
(***************************************************************************)
(* The first state: no tool has run.                                       *)
(***************************************************************************)
LEMMA InitIInv == Init => IInv
<1> SUFFICES ASSUME Init PROVE IInv
  OBVIOUS
<1>1. TypeOK
  <2>1. opts \in Options
    BY DEF Init, Options
  <2>2. abort \in BOOLEAN
    BY DEF Init
  <2>3. /\ pc = "idle" /\ tool = "none" /\ res = "none" /\ pos = 1 /\ failed = {}
        /\ file = << >> /\ out = << >>
    BY DEF Init
  <2>4. /\ nvram \in [Names -> Data \union {None}] /\ before = nvram
        /\ fwHash \in Hashes \union {None}
    BY DEF Init
  <2> QED BY <2>1, <2>2, <2>3, <2>4 DEF TypeOK
<1>2. Running
  BY DEF Init, Running
<1>3. FilesAreWhole
  BY DEF Init, FilesAreWhole
<1>4. StoreIsPrefix /\ HashGate /\ ReadIsExact /\ DeleteIsExact
  BY DEF Init, StoreIsPrefix, HashGate, ReadIsExact, DeleteIsExact
<1> QED BY <1>1, <1>2, <1>3, <1>4 DEF IInv

(***************************************************************************)
(* What can be written is a list of entries in which a rest is last.       *)
(***************************************************************************)
LEMMA WritableIsWhole ==
  ASSUME IInv, NEW f \in Writable
  PROVE  f \in Seq(Entry) /\ StubIsLast(f)
<1>1. CASE f \in Files
  BY <1>1, FilesAssumption
<1>2. CASE f = out
  <2>1. out \in Seq(Entry)
    BY DEF IInv, TypeOK
  <2>2. StubIsLast(out)
    BY DEF IInv, FilesAreWhole, StubIsLast
  <2> QED BY <1>2, <2>1, <2>2
<1> QED BY <1>1, <1>2 DEF Writable

(***************************************************************************)
(* Starting a tool establishes the invariant afresh: the store is as it    *)
(* was, and nothing has been stored, deleted or refused.                   *)
(***************************************************************************)
LEMMA StartWriteStep ==
  ASSUME IInv, NEW f \in Writable, NEW o \in Cmds, NEW ab \in BOOLEAN, StartWrite(f, o, ab)
  PROVE  IInv'
<1>1. /\ tool' = "write" /\ opts' = o /\ pos' = 1 /\ failed' = {} /\ before' = nvram
      /\ nvram' = nvram /\ fwHash' = fwHash /\ file' = f /\ abort' = ab /\ out' = out
  BY DEF StartWrite, Begin
<1>2. \/ MayRun(o) /\ pc' = "write" /\ res' = "none"
      \/ pc' = "idle" /\ res' = "refused"
  BY DEF StartWrite, End
<1>3. f \in Seq(Entry) /\ StubIsLast(f)
  BY WritableIsWhole
<1>4. TypeOK'
  BY <1>1, <1>2, <1>3, CmdsAssumption DEF IInv, TypeOK
<1>5. Running'
  <2>1. pc' = "write" => MayRun(opts)'
    BY <1>1, <1>2 DEF MayRun, Validate
  <2> QED BY <1>1, <1>2, <2>1 DEF Running
<1>6. FilesAreWhole'
  BY <1>1, <1>2, <1>3 DEF IInv, FilesAreWhole, StubIsLast
<1>7. StoreIsPrefix'
  BY <1>1, <1>2, <1>3 DEF StoreIsPrefix, Stored
<1>8. HashGate' /\ ReadIsExact' /\ DeleteIsExact'
  BY <1>1 DEF HashGate, ReadIsExact, DeleteIsExact
<1> QED BY <1>4, <1>5, <1>6, <1>7, <1>8 DEF IInv

LEMMA StartReadStep ==
  ASSUME IInv, NEW o \in Cmds, StartRead(o)
  PROVE  IInv'
<1>1. /\ tool' = "read" /\ opts' = o /\ pos' = 1 /\ failed' = {} /\ before' = nvram
      /\ nvram' = nvram /\ fwHash' = fwHash /\ file' = << >>
  BY DEF StartRead, Begin
<1>2. \/ pc' = "read" /\ res' = "none" /\ out' = << >>
      \/ pc' = "idle" /\ res' = "refused" /\ out' = out
  BY DEF StartRead, End
<1>3. TypeOK'
  <2>1. abort' \in BOOLEAN
    BY DEF StartRead
  <2>2. opts' \in Options
    BY <1>1, CmdsAssumption
  <2>3. file' \in Seq(Entry) /\ out' \in Seq(Entry)
    <3>1. out \in Seq(Entry)
      BY DEF IInv, TypeOK
    <3>2. file' = << >> /\ (out' = << >> \/ out' = out)
      BY <1>1, <1>2
    <3>3. << >> \in Seq(Entry)
      OBVIOUS
    <3> QED BY <3>1, <3>2, <3>3
  <2>4. pc' \in {"idle", "read"} /\ res' \in {"none", "refused"}
    BY <1>2
  <2> QED BY <1>1, <2>1, <2>2, <2>3, <2>4 DEF IInv, TypeOK
<1>4. Running' /\ FilesAreWhole'
  BY <1>1, <1>2 DEF IInv, Running, FilesAreWhole
<1>5. ReadIsExact'
  BY <1>1, <1>2 DEF ReadIsExact
<1>6. StoreIsPrefix' /\ HashGate' /\ DeleteIsExact'
  BY <1>1 DEF StoreIsPrefix, HashGate, DeleteIsExact
<1> QED BY <1>3, <1>4, <1>5, <1>6 DEF IInv

LEMMA StartDeleteStep ==
  ASSUME IInv, StartDelete
  PROVE  IInv'
<1>1. /\ tool' = "delete" /\ pos' = 1 /\ failed' = {} /\ before' = nvram
      /\ nvram' = nvram /\ fwHash' = fwHash /\ file' = << >>
      /\ out' = out /\ pc' = "delete" /\ res' = "none"
      /\ opts' = [xml |-> None, skip |-> FALSE, ignore |-> FALSE]
  BY DEF StartDelete, Begin
<1>2. opts' \in Options
  BY <1>1 DEF Options
<1>3. TypeOK'
  <2>1. abort' \in BOOLEAN
    BY DEF StartDelete
  <2> QED BY <1>1, <1>2, <2>1 DEF IInv, TypeOK
<1>4. Running' /\ FilesAreWhole'
  BY <1>1 DEF IInv, Running, FilesAreWhole
<1>5. DeleteIsExact'
  <2>1. Deleted' = {}
    BY <1>1, NamesAssumption DEF Deleted
  <2> QED BY <1>1, <2>1 DEF DeleteIsExact
<1>6. StoreIsPrefix' /\ HashGate' /\ ReadIsExact'
  BY <1>1 DEF StoreIsPrefix, HashGate, ReadIsExact
<1> QED BY <1>3, <1>4, <1>5, <1>6 DEF IInv

-----------------------------------------------------------------------------
(***************************************************************************)
(* A step that ends the tool, or skips an entry, and leaves the store and  *)
(* the stored entries alone keeps the three properties of the tools that   *)
(* change the store.                                                       *)
(***************************************************************************)
LEMMA QuietWrite ==
  ASSUME IInv, UNCHANGED <<settings, nvram>>, Stored' = Stored,
         tool = "write" /\ abort /\ res' = "1" => Stored = 1..Len(file)
  PROVE  StoreIsPrefix' /\ HashGate'
<1>1. /\ tool' = tool /\ opts' = opts /\ file' = file /\ before' = before
      /\ fwHash' = fwHash /\ nvram' = nvram
  BY DEF settings
<1>2. abort' = abort
  BY DEF settings
<1>3. StoreIsPrefix /\ HashGate
  BY DEF IInv
<1>4. HashGate'
  BY <1>1, <1>3 DEF HashGate
<1>5. ASSUME tool' = "write"
      PROVE  /\ \A n \in Names : (\A i \in Stored' : file'[i].name # n) => nvram'[n] = before'[n]
             /\ \A i \in Stored' :
                  (\A j \in Stored' : j > i => file'[j].name # file'[i].name)
                    => nvram'[file'[i].name] = file'[i].data
  BY <1>1, <1>3, <1>5 DEF StoreIsPrefix
<1>6. ASSUME tool' = "write", abort', res' = "1"
      PROVE  Stored' = 1..Len(file')
  BY <1>1, <1>2, <1>6
<1> QED BY <1>4, <1>5, <1>6 DEF StoreIsPrefix

(***************************************************************************)
(* A running write is at an entry it has not met yet.                      *)
(***************************************************************************)
LEMMA WriteIsAt ==
  ASSUME IInv, pc = "write", pos <= Len(file)
  PROVE  /\ tool = "write" /\ res = "none"
         /\ pos \in 1..Len(file) /\ Len(file) \in Nat
         /\ pos \notin failed
         /\ file[pos] \in Entry
<1>1. file \in Seq(Entry) /\ pos \in Nat \ {0}
  BY DEF IInv, TypeOK
<1>2. tool = "write" /\ res = "none" /\ \A i \in failed : i < pos
  BY DEF IInv, Running
<1> QED BY <1>1, <1>2

(***************************************************************************)
(* Writing an entry the store takes                                        *)
(***************************************************************************)
LEMMA WriteEntryStored ==
  ASSUME IInv, WriteEntry(TRUE)
  PROVE  IInv'
<1>1. /\ pc = "write" /\ pos <= Len(file) /\ file[pos].kind = "ok"
      /\ nvram' = [nvram EXCEPT ![file[pos].name] = file[pos].data]
      /\ failed' = failed /\ pos' = pos + 1 /\ pc' = pc /\ res' = res
      /\ tool' = tool /\ opts' = opts /\ file' = file /\ before' = before
      /\ fwHash' = fwHash /\ out' = out
  BY DEF WriteEntry, settings
<1>2. abort' = abort
  BY DEF WriteEntry, settings
<1>3. /\ tool = "write" /\ res = "none"
      /\ pos \in 1..Len(file) /\ Len(file) \in Nat
      /\ pos \notin failed /\ file[pos] \in Entry
  BY <1>1, WriteIsAt
<1>4. file[pos].name \in Names /\ file[pos].data \in Data
  BY <1>3 DEF Entry
<1>5. nvram \in [Names -> Data \union {None}]
  BY DEF IInv, TypeOK
<1>6. nvram' \in [Names -> Data \union {None}]
  BY <1>1, <1>4, <1>5
<1>7. TypeOK'
  <2>1. abort' \in BOOLEAN
    BY <1>2 DEF IInv, TypeOK
  <2> QED BY <1>1, <1>6, <2>1 DEF IInv, TypeOK
<1>8. Running'
  <2>1. \A i \in failed' : i < pos'
    BY <1>1, <1>3 DEF IInv, Running, TypeOK
  <2>2. MayRun(opts)' /\ (abort' => failed' = {})
    BY <1>1, <1>2 DEF IInv, Running, MayRun, Validate
  <2> QED BY <1>1, <1>3, <2>1, <2>2 DEF Running
<1>9. FilesAreWhole'
  BY <1>1 DEF IInv, FilesAreWhole, StubIsLast
<1>10. Stored' = Stored \union {pos}
  BY <1>1, <1>3 DEF Stored
<1>11. StoreIsPrefix'
  <2>1. ASSUME NEW n \in Names, \A i \in Stored' : file'[i].name # n
        PROVE  nvram'[n] = before'[n]
    <3>1. n # file[pos].name /\ \A i \in Stored : file[i].name # n
      BY <1>1, <1>10, <2>1
    <3>2. nvram[n] = before[n]
      BY <1>3, <3>1 DEF IInv, StoreIsPrefix
    <3> QED BY <1>1, <1>5, <3>1, <3>2
  <2>2. ASSUME NEW i \in Stored',
               \A j \in Stored' : j > i => file'[j].name # file'[i].name
        PROVE  nvram'[file'[i].name] = file'[i].data
    <3>1. CASE i = pos
      BY <1>1, <1>4, <1>5, <3>1
    <3>2. CASE i # pos
      <4>1. i \in Stored /\ i < pos /\ i \in 1..Len(file)
        BY <1>10, <3>2 DEF Stored
      <4>2. file[pos].name # file[i].name
        BY <1>1, <1>3, <1>10, <2>2, <4>1
      <4>3. \A j \in Stored : j > i => file[j].name # file[i].name
        BY <1>1, <1>10, <2>2
      <4>4. nvram[file[i].name] = file[i].data
        BY <1>3, <4>1, <4>3 DEF IInv, StoreIsPrefix
      <4>5. file[i] \in Entry
        BY <4>1 DEF IInv, TypeOK
      <4>6. file[i].name \in Names
        BY <4>5 DEF Entry
      <4> QED BY <1>1, <1>5, <4>2, <4>4, <4>6
    <3> QED BY <3>1, <3>2
  <2>3. res' # "1"
    BY <1>1, <1>3
  <2> QED BY <2>1, <2>2, <2>3 DEF StoreIsPrefix
<1>12. HashGate'
  <2>1. MayRun(opts) /\ ("bad" \notin Hashes) /\ (opts.xml = None \/ Validate(opts))
    BY <1>1, NoneAssumption DEF IInv, Running, MayRun
  <2> QED BY <1>1, <2>1 DEF HashGate, Validate
<1>13. ReadIsExact' /\ DeleteIsExact'
  BY <1>1, <1>3 DEF ReadIsExact, DeleteIsExact
<1> QED BY <1>7, <1>8, <1>9, <1>11, <1>12, <1>13 DEF IInv

(***************************************************************************)
(* An entry the store refuses, a short rest: the tool stops or goes on,    *)
(* and no further entry counts as stored.                                  *)
(***************************************************************************)
LEMMA WriteFailed ==
  ASSUME IInv, pc = "write", pos <= Len(file),
         file[pos].kind # "cut",
         failed' = failed \union {pos}, UNCHANGED <<settings, out, nvram>>,
         \/ abort /\ pc' = "idle" /\ res' = "0" /\ pos' = pos
         \/ ~abort /\ pc' = pc /\ res' = res /\ pos' = pos + 1
  PROVE  IInv'
<1>1. /\ tool' = tool /\ opts' = opts /\ file' = file /\ before' = before
      /\ fwHash' = fwHash /\ nvram' = nvram /\ out' = out
  BY DEF settings
<1>2. abort' = abort
  BY DEF settings
<1>3. /\ tool = "write" /\ res = "none"
      /\ pos \in 1..Len(file) /\ Len(file) \in Nat
      /\ pos \notin failed /\ file[pos] \in Entry
  BY WriteIsAt
<1>4. res' # "1"
  BY <1>3
<1>5. TypeOK'
  <2>1. abort' \in BOOLEAN
    BY <1>2 DEF IInv, TypeOK
  <2>2. pos' \in Nat \ {0} /\ failed' \in SUBSET Nat
    BY <1>3 DEF IInv, TypeOK
  <2>3. pc' \in {"idle", "write"} /\ res' \in {"none", "0"}
    BY <1>3
  <2> QED BY <1>1, <2>1, <2>2, <2>3 DEF IInv, TypeOK
<1>6. Running'
  <2>1. SUFFICES ASSUME pc' # "idle" PROVE Running'
    BY DEF Running
  <2>2. ~abort /\ pc' = pc /\ res' = res /\ pos' = pos + 1
    BY <2>1
  <2>3. \A i \in failed' : i < pos'
    BY <1>3, <2>2 DEF IInv, Running, TypeOK
  <2>4. MayRun(opts)' /\ ~abort'
    BY <1>1, <1>2, <2>2 DEF IInv, Running, MayRun, Validate
  <2> QED BY <1>1, <1>3, <2>2, <2>3, <2>4 DEF Running
<1>7. FilesAreWhole'
  BY <1>1, <1>3 DEF IInv, FilesAreWhole, StubIsLast
<1>8. Stored' = Stored
  BY <1>1, <1>3 DEF Stored
<1>9. StoreIsPrefix' /\ HashGate'
  BY <1>4, <1>8, QuietWrite
<1>10. ReadIsExact' /\ DeleteIsExact'
  BY <1>1, <1>3 DEF ReadIsExact, DeleteIsExact
<1> QED BY <1>5, <1>6, <1>7, <1>9, <1>10 DEF IInv

LEMMA WriteEntryRefused ==
  ASSUME IInv, WriteEntry(FALSE)
  PROVE  IInv'
BY WriteFailed DEF WriteEntry, End

LEMMA WriteStubStep ==
  ASSUME IInv, WriteStub
  PROVE  IInv'
<1>1. pos = Len(file)
  BY WriteIsAt DEF WriteStub, IInv, FilesAreWhole, StubIsLast
<1> QED BY <1>1, WriteFailed DEF WriteStub, End

(***************************************************************************)
(* A tool that ends without an effect of its own: killed, done, or stopped *)
(* at an entry whose sizes do not fit.                                     *)
(***************************************************************************)
LEMMA QuietEnd ==
  ASSUME IInv, pc # "idle", pc' = "idle",
         res' \in {"raised", "killed", "0", "1"},
         res' = "1" => pc = "write" /\ pos > Len(file),
         UNCHANGED <<settings, out, pos, failed, nvram>>
  PROVE  IInv'
<1>1. /\ tool' = tool /\ opts' = opts /\ file' = file /\ before' = before
      /\ fwHash' = fwHash /\ nvram' = nvram /\ out' = out
      /\ pos' = pos /\ failed' = failed
  BY DEF settings
<1>2. abort' = abort
  BY DEF settings
<1>3. TypeOK'
  <2>1. abort' \in BOOLEAN
    BY <1>2 DEF IInv, TypeOK
  <2> QED BY <1>1, <2>1 DEF IInv, TypeOK
<1>4. Running'
  BY DEF Running
<1>5. FilesAreWhole'
  BY <1>1 DEF IInv, FilesAreWhole
<1>6. Stored' = Stored
  BY <1>1 DEF Stored
<1>7. ASSUME abort, res' = "1"
      PROVE  Stored = 1..Len(file)
  <2>1. failed = {}
    BY <1>7 DEF IInv, Running
  <2>2. pos > Len(file) /\ pos \in Nat /\ Len(file) \in Nat
    BY <1>7 DEF IInv, TypeOK
  <2> QED BY <2>1, <2>2 DEF Stored
<1>8. StoreIsPrefix' /\ HashGate'
  BY <1>6, <1>7, QuietWrite
<1>9. DeleteIsExact'
  BY <1>1 DEF IInv, DeleteIsExact, Deleted
<1>10. ReadIsExact'
  <2>1. res # "refused"
    BY DEF IInv, Running
  <2> QED BY <1>1, <2>1 DEF IInv, ReadIsExact
<1> QED BY <1>3, <1>4, <1>5, <1>8, <1>9, <1>10 DEF IInv

-----------------------------------------------------------------------------
(***************************************************************************)
(* A tool that goes on has failed only where it has been.                  *)
(***************************************************************************)
LEMMA FailuresArePassed ==
  ASSUME IInv, pc # "idle", pos' = pos + 1, failed' = failed \/ failed' = failed \union {pos}
  PROVE  failed' \in SUBSET Nat /\ \A i \in failed' : i < pos'
<1>1. pos \in Nat /\ failed \in SUBSET Nat /\ \A i \in failed : i < pos
  BY DEF IInv, TypeOK, Running
<1>2. CASE failed' = failed
  BY <1>1, <1>2
<1>3. CASE failed' = failed \union {pos}
  BY <1>1, <1>3
<1> QED BY <1>2, <1>3

(***************************************************************************)
(* Reading one variable: what is appended is what the store holds.         *)
(***************************************************************************)
LEMMA ReadVariableStep ==
  ASSUME IInv, ReadVariable
  PROVE  IInv'
<1> DEFINE v == Reading[pos]
           e == [kind |-> "ok", name |-> v, data |-> nvram[v]]
<1>1. /\ pc = "read" /\ pos <= Len(Reading) /\ pos' = pos + 1
      /\ tool' = tool /\ opts' = opts /\ pc' = pc /\ res' = res /\ nvram' = nvram
      /\ before' = before /\ fwHash' = fwHash /\ out' = out
  BY DEF ReadVariable
<1>2. abort' = abort
  BY DEF ReadVariable
<1>3. \/ nvram[v] # None /\ file' = Append(file, e) /\ failed' = failed
      \/ failed' = failed \union {pos} /\ file' = file
  BY DEF ReadVariable
<1>4. tool = "read" /\ file \in Seq(Entry) /\ pos \in Nat \ {0}
  BY <1>1 DEF IInv, Running, TypeOK
<1>5. v \in Names
  <2>1. Reading \in Seq(Names)
    BY NamesAssumption DEF Reading
  <2> QED BY <1>1, <1>4, <2>1
<1>6. nvram[v] \in Data \union {None}
  BY <1>5 DEF IInv, TypeOK
<1>7. nvram[v] # None => e \in Entry
  BY <1>5, <1>6 DEF Entry
<1>8. file' \in Seq(Entry)
  BY <1>3, <1>4, <1>7
<1>9. failed' \in SUBSET Nat /\ \A i \in failed' : i < pos'
  BY <1>1, <1>3, FailuresArePassed
<1>10. TypeOK'
  <2>1. abort' \in BOOLEAN
    BY <1>2 DEF IInv, TypeOK
  <2> QED BY <1>1, <1>8, <1>9, <2>1 DEF IInv, TypeOK
<1>11. Running'
  BY <1>1, <1>9 DEF IInv, Running
<1>12. ASSUME NEW i \in 1..Len(file')
       PROVE  file'[i].kind = "ok" /\ file'[i].data = nvram[file'[i].name]
  <2>1. CASE i \in 1..Len(file)
    <3>1. file'[i] = file[i]
      BY <1>3, <1>4, <1>7, <2>1
    <3> QED BY <1>1, <2>1, <3>1 DEF IInv, FilesAreWhole
  <2>2. CASE i \notin 1..Len(file)
    <3>1. file' = Append(file, e)
      BY <1>3, <2>2
    <3>2. file'[i] = e
      BY <1>4, <2>2, <3>1
    <3> QED BY <3>2
  <2> QED BY <2>1, <2>2
<1>13. FilesAreWhole'
  BY <1>1, <1>12 DEF IInv, FilesAreWhole
<1>14. ReadIsExact'
  BY <1>1 DEF IInv, ReadIsExact
<1>15. StoreIsPrefix' /\ HashGate' /\ DeleteIsExact'
  BY <1>1, <1>4 DEF StoreIsPrefix, HashGate, DeleteIsExact
<1> QED BY <1>10, <1>11, <1>13, <1>14, <1>15 DEF IInv

LEMMA ReadDoneStep ==
  ASSUME IInv, ReadDone
  PROVE  IInv'
<1>1. /\ pc = "read" /\ pc' = "idle" /\ out' = file /\ res' \in {"-1", "0"}
      /\ tool' = tool /\ opts' = opts /\ nvram' = nvram /\ pos' = pos /\ failed' = failed
      /\ file' = file /\ before' = before /\ fwHash' = fwHash
  BY DEF ReadDone, End, settings
<1>2. abort' \in BOOLEAN
  BY DEF ReadDone, settings, IInv, TypeOK
<1>3. tool = "read"
  BY <1>1 DEF IInv, Running
<1>4. TypeOK'
  BY <1>1, <1>2 DEF IInv, TypeOK
<1>5. Running' /\ FilesAreWhole' /\ ReadIsExact'
  BY <1>1 DEF IInv, Running, FilesAreWhole, ReadIsExact
<1>6. StoreIsPrefix' /\ HashGate' /\ DeleteIsExact'
  BY <1>1, <1>3 DEF StoreIsPrefix, HashGate, DeleteIsExact
<1> QED BY <1>4, <1>5, <1>6 DEF IInv

(***************************************************************************)
(* Deleting the variable of a knob, or failing to: the deleted knobs are   *)
(* the ones the tool has passed without a failure.                         *)
(***************************************************************************)
LEMMA DeleteKnobStep ==
  ASSUME IInv, NEW deleted \in BOOLEAN, DeleteKnob(deleted)
  PROVE  IInv'
<1>1. /\ pc = "delete" /\ pos <= Len(Knobs) /\ pos' = pos + 1 /\ out' = out
      /\ tool' = tool /\ opts' = opts /\ pc' = pc /\ res' = res /\ file' = file
      /\ before' = before /\ fwHash' = fwHash
  BY DEF DeleteKnob, settings
<1>2. \/ nvram' = [nvram EXCEPT ![Knobs[pos]] = None] /\ failed' = failed
      \/ failed' = failed \union {pos} /\ nvram' = nvram
  BY DEF DeleteKnob
<1>3. abort' \in BOOLEAN
  BY DEF DeleteKnob, settings, IInv, TypeOK
<1>4. /\ tool = "delete" /\ pos \in Nat \ {0} /\ Len(Knobs) \in Nat
      /\ \A i \in failed : i < pos
  BY <1>1, NamesAssumption DEF IInv, Running, TypeOK
<1>5. /\ pos \in 1..Len(Knobs) /\ pos \notin failed /\ Knobs[pos] \in Names
      /\ nvram \in [Names -> Data \union {None}]
  BY <1>1, <1>4, NamesAssumption DEF IInv, TypeOK
<1>6. nvram' \in [Names -> Data \union {None}]
  BY <1>2, <1>5
<1>7. failed' \in SUBSET Nat /\ \A i \in failed' : i < pos'
  BY <1>1, <1>2, FailuresArePassed
<1>8. TypeOK'
  BY <1>1, <1>3, <1>6, <1>7 DEF IInv, TypeOK
<1>9. Running' /\ FilesAreWhole'
  BY <1>1, <1>7 DEF IInv, Running, FilesAreWhole
<1>10. DeleteIsExact'
  <2>1. CASE nvram' = [nvram EXCEPT ![Knobs[pos]] = None] /\ failed' = failed
    <3>1. Deleted' = Deleted \union {Knobs[pos]}
      BY <1>1, <1>4, <1>5, <2>1 DEF Deleted
    <3>2. \A n \in Names : nvram[n] = IF n \in Deleted THEN None ELSE before[n]
      BY <1>4 DEF IInv, DeleteIsExact
    <3> QED BY <1>1, <1>5, <2>1, <3>1, <3>2 DEF DeleteIsExact
  <2>2. CASE failed' = failed \union {pos} /\ nvram' = nvram
    <3>1. Deleted' = Deleted
      BY <1>1, <1>4, <1>5, <2>2 DEF Deleted
    <3> QED BY <1>1, <2>2, <3>1 DEF IInv, DeleteIsExact
  <2> QED BY <1>2, <2>1, <2>2
<1>11. StoreIsPrefix' /\ HashGate' /\ ReadIsExact'
  BY <1>1, <1>4 DEF StoreIsPrefix, HashGate, ReadIsExact
<1> QED BY <1>8, <1>9, <1>10, <1>11 DEF IInv

-----------------------------------------------------------------------------
(***************************************************************************)
(* Every step keeps the invariant.                                         *)
(***************************************************************************)
LEMMA NextIInv == IInv /\ [Next]_vars => IInv'
<1> SUFFICES ASSUME IInv, [Next]_vars PROVE IInv'
  OBVIOUS
<1>1. CASE Start
  BY <1>1, StartWriteStep, StartReadStep, StartDeleteStep DEF Start
<1>2. ASSUME NEW stored \in BOOLEAN, WriteEntry(stored)
      PROVE  IInv'
  <2>1. CASE stored = TRUE
    BY <1>2, <2>1, WriteEntryStored
  <2>2. CASE stored = FALSE
    BY <1>2, <2>2, WriteEntryRefused
  <2> QED BY <2>1, <2>2
<1>3. CASE WriteCut
  BY <1>3, QuietEnd DEF WriteCut, End
<1>4. CASE WriteStub
  BY <1>4, WriteStubStep
<1>5. CASE WriteDone
  BY <1>5, QuietEnd DEF WriteDone, End
<1>6. CASE ReadVariable
  BY <1>6, ReadVariableStep
<1>7. CASE ReadDone
  BY <1>7, ReadDoneStep
<1>8. CASE \E deleted \in BOOLEAN : DeleteKnob(deleted)
  BY <1>8, DeleteKnobStep
<1>9. CASE DeleteDone
  BY <1>9, QuietEnd DEF DeleteDone, End
<1>10. CASE Kill
  BY <1>10, QuietEnd DEF Kill, End
<1>11. CASE UNCHANGED vars
  <2>1. abort' = abort
    BY <1>11 DEF vars
  <2> QED BY <1>11, <2>1 DEF vars, IInv, TypeOK, Running, FilesAreWhole, StoreIsPrefix, Stored,
             HashGate, ReadIsExact, DeleteIsExact, Deleted, MayRun, Validate, StubIsLast
<1> QED BY <1>1, <1>2, <1>3, <1>4, <1>5, <1>6, <1>7, <1>8, <1>9, <1>10, <1>11 DEF Next, Step

LEMMA Invariance == Spec => []IInv
BY InitIInv, NextIInv, PTL DEF Spec

(***************************************************************************)
(* The variables of the tools always have their types.                     *)
(***************************************************************************)
THEOREM TypeCorrect == Spec => []TypeOK
<1>1. IInv => TypeOK
  BY DEF IInv
<1> QED BY <1>1, Invariance, PTL

(***************************************************************************)
(* However WriteConfVarListToUefiVars.py stops, the store holds what it    *)
(* was told to store up to there and nothing else, and its 1 means all.    *)
(***************************************************************************)
THEOREM StoreIsPrefixHolds == Spec => []StoreIsPrefix
<1>1. IInv => StoreIsPrefix
  BY DEF IInv
<1> QED BY <1>1, Invariance, PTL

(***************************************************************************)
(* The check of the XML hash: a list made for another schema changes no    *)
(* variable unless the user waives the check or the firmware has no hash.  *)
(***************************************************************************)
THEOREM HashGateHolds == Spec => []HashGate
<1>1. IInv => HashGate
  BY DEF IInv
<1> QED BY <1>1, Invariance, PTL

(***************************************************************************)
(* Every entry ReadUefiVarsToConfVarList.py leaves in its output is the    *)
(* content of its variable.                                                *)
(***************************************************************************)
THEOREM ReadIsExactHolds == Spec => []ReadIsExact
<1>1. IInv => ReadIsExact
  BY DEF IInv
<1> QED BY <1>1, Invariance, PTL

(***************************************************************************)
(* delete_all_variables deletes the variables of the knobs it has passed,  *)
(* but for the ones the store refused, and touches no other.               *)
(***************************************************************************)
THEOREM DeleteIsExactHolds == Spec => []DeleteIsExact
<1>1. IInv => DeleteIsExact
  BY DEF IInv
<1> QED BY <1>1, Invariance, PTL
=============================================================================
