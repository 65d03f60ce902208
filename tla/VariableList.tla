----------------------------- MODULE VariableList -----------------------------
(***************************************************************************)
(* Schemas, variable lists and CSV files of VariableList.py.               *)
(*                                                                         *)
(* A schema is a sequence of knobs; the values of its knobs are a sequence *)
(* of the same length, whose elements are objects of DataFormat or None.   *)
(* A variable list is a sequence of entries [name, guid, data, ok]: ok is  *)
(* FALSE when the entry is cut off or its CRC does not match.  A CSV file  *)
(* is [header, rows]: header says that the three columns that are read are *)
(* there, and a row is None when it is blank.  Operations that may raise   *)
(* in the middle return what they have changed until then, with err set.   *)
(***************************************************************************)
EXTENDS DataFormat

CONSTANT Schemas  \* Schemas[x]: the knobs of XML file x

Placed(ns, name, decl) ==
  [ns |-> ns, name |-> name, fmt |-> decl.fmt, dflt |-> decl.dflt, min |-> decl.min, max |-> decl.max]
SchemaKnob(ns, name, f, texts) == Placed(ns, name, Declare(f, <<0, 0>>, texts))

\* The subknobs of knob k; a struct knob lists itself twice.
Listed(f, subs) == IF f.kind = "struct" THEN <<Head(subs)>> \o subs ELSE subs
SubKnob(kn, k, s) == [k |-> k, path |-> s.path, fmt |-> s.fmt, leaf |-> s.leaf, name |-> <<kn.name, s.path>>]
SubsOfKnob(kn, k, listed) == [i \in DOMAIN listed |-> SubKnob(kn, k, listed[i])]

\* Schema.subknobs
Subs == [x \in DOMAIN Schemas |->
           FlattenSeq([k \in DOMAIN Schemas[x] |->
                         SubsOfKnob(Schemas[x][k], k, Listed(Schemas[x][k].fmt, CreateSubknobs(Schemas[x][k].fmt, <<>>)))])]

FirstOf(hits) == IF hits = {} THEN 0 ELSE Min(hits)

\* The first subknob with that namespace and name, or 0.
GetKnob(x, guid, name) ==
  FirstOf({i \in DOMAIN Subs[x] : Schemas[x][Subs[x][i].k].ns = guid /\ Subs[x][i].name = name})

Defaults(x) == [k \in DOMAIN Schemas[x] |-> Schemas[x][k].dflt]
NoValues(x) == [k \in DOMAIN Schemas[x] |-> None]

SubValue(x, vals, i) == GetChild(vals[Subs[x][i].k], Subs[x][i].path)
SubText(x, vals, i) == ObjectToString(Subs[x][i].fmt, SubValue(x, vals, i))

\* What a part is set in: the value, or the default if there is none.
BaseOf(kn, v) == IF v = None THEN kn.dflt ELSE v

StoreInBounds(kn, vals, k, obj) ==
  IF CheckBounds(kn.fmt, obj, kn.min, kn.max) THEN [vals EXCEPT ![k] = obj] ELSE Error
SetPart(kn, vals, s, new) ==
  IF new = Error THEN Error
  ELSE StoreInBounds(kn, vals, s.k, SetChild(kn.fmt, BaseOf(kn, vals[s.k]), s.path, new))
SetPartText(kn, vals, s, text) ==
  SetPart(kn, vals, s, StringToObject(s.fmt, text, "dflt", NewSite(kn.fmt, BaseOf(kn, vals[s.k]))))

\* subknob.value = new: the new values, or Error when the setter raises.
SetSub(x, vals, i, new) == SetPart(Schemas[x][Subs[x][i].k], vals, Subs[x][i], new)

\* subknob.value = subknob.format.string_to_object(text)
SetSubText(x, vals, i, text) == SetPartText(Schemas[x][Subs[x][i].k], vals, Subs[x][i], text)

-----------------------------------------------------------------------------
(* Variable lists *)

CreateVlistEntry(kn, bytes) ==
  IF bytes = Error THEN Error ELSE [name |-> <<kn.name, <<>> >>, guid |-> kn.ns, data |-> bytes, ok |-> TRUE]

EntryOf(x, vals, k) == CreateVlistEntry(Schemas[x][k], ObjectToBinary(Schemas[x][k].fmt, vals[k]))

NoError(entries) == IF AnyError(entries) THEN Error ELSE entries
EntriesOf(x, vals, ks) == NoError([i \in DOMAIN ks |-> EntryOf(x, vals, ks[i])])

KnobIndices(x) == [k \in DOMAIN Schemas[x] |-> k]

\* The knobs that differ from their default, in order; a knob without a value
\* cannot be packed.
Changed(x, vals) ==
  SelectSeq(KnobIndices(x),
            LAMBDA k : Differ(Schemas[x][k].fmt, vals[k], Schemas[x][k].dflt))
GetDeltaVlist(x, vals) ==
  IF \E k \in DOMAIN vals : vals[k] = None THEN Error ELSE EntriesOf(x, vals, Changed(x, vals))

VlistToBinary(x, vals) ==
  EntriesOf(x, vals, SelectSeq(KnobIndices(x), LAMBDA k : vals[k] # None))

\* The whole list is read before anything is done with it.
ReadVlistFromBuffer(buf) == IF \A i \in DOMAIN buf : buf[i].ok THEN buf ELSE Error

KnobStored(st, new) == IF new = Error THEN [st EXCEPT !.err = TRUE] ELSE [st EXCEPT !.vals = new]

\* One variable; i is the knob it is for, or 0.
UefiVariableToKnob(x, st, i, data) ==
  IF st.err \/ i = 0 THEN st
  ELSE KnobStored(st, SetSub(x, st.vals, i, BinaryToObject(Subs[x][i].fmt, data, <<0, 0>>)))

UefiVariablesToKnobs(x, vals, vars) ==
  FoldLeft(LAMBDA st, var : UefiVariableToKnob(x, st, GetKnob(x, var.guid, var.name), var.data),
           [vals |-> vals, err |-> FALSE], vars)

-----------------------------------------------------------------------------
(* CSV files *)

RowStored(st, new) ==
  IF new = Error THEN [st EXCEPT !.err = TRUE] ELSE [st EXCEPT !.vals = new, !.count = @ + 1]
SetRow(x, st, i, text) == IF i = 0 THEN st ELSE RowStored(st, SetSubText(x, st.vals, i, text))

\* One row: "*" repeats the namespace above, a name the schema does not have is
\* passed over, a value that cannot be set ends the reading.
RowGuid(st, row) == IF row.guid = "*" THEN st.guid ELSE row.guid
ReadCsvRow(x, st, row) ==
  IF st.err \/ row = None THEN st
  ELSE SetRow(x, [st EXCEPT !.guid = RowGuid(st, row)], GetKnob(x, RowGuid(st, row), row.name), row.text)

\* read_csv: vals as they are when it returns or raises, and the knobs updated.
ReadCsv(x, vals, csv) ==
  IF ~csv.header THEN [vals |-> vals, guid |-> "", count |-> 0, err |-> TRUE]
  ELSE FoldLeft(LAMBDA st, row : ReadCsvRow(x, st, row),
                [vals |-> vals, guid |-> "", count |-> 0, err |-> FALSE], csv.rows)

CsvRow(kn, guid, v) == [guid |-> guid, name |-> <<kn.name, <<>> >>, text |-> ObjectToString(kn.fmt, v)]

CsvRowsFirstGuid(x, vals, ks) ==
  [i \in DOMAIN ks |-> CsvRow(Schemas[x][ks[i]], IF i > 1 THEN "*" ELSE Schemas[x][ks[i]].ns, vals[ks[i]])]

\* A row for each knob; the namespace is written where it changes.
CsvRows(x, vals, ks) ==
  [i \in DOMAIN ks |->
     CsvRow(Schemas[x][ks[i]],
            IF i > 1 /\ Schemas[x][ks[i - 1]].ns = Schemas[x][ks[i]].ns THEN "*" ELSE Schemas[x][ks[i]].ns,
            vals[ks[i]])]

EmptyFile == [header |-> FALSE, rows |-> <<>>]

CsvFile(rows, failed) == [file |-> [header |-> TRUE, rows |-> rows], err |-> failed]

\* Rows are written until one knob cannot be packed.
Packable(x, vals, ks) ==
  Max({n \in 0..Len(ks) : \A i \in 1..n : EntryOf(x, vals, ks[i]) # Error})
FirstRows(x, vals, ks, n) == CsvFile(CsvRows(x, vals, SubSeq(ks, 1, n)), n < Len(ks))
WriteRows(x, vals, ks) == FirstRows(x, vals, ks, Packable(x, vals, ks))

\* A row of a subknob asks for its namespace, which a subknob does not have.
WriteSelected(x, vals, names, full, subknobs) ==
  IF subknobs THEN CsvFile(<<>>, \E i \in DOMAIN Subs[x] : full \/ Subs[x][i].name \in names)
  ELSE WriteRows(x, vals, SelectSeq(KnobIndices(x), LAMBDA k : full \/ <<Schemas[x][k].name, <<>> >> \in names))

NamesIn(entries) == {entries[i].name : i \in DOMAIN entries}
WriteDelta(x, vals, entries, full, subknobs) ==
  IF entries = Error THEN [file |-> EmptyFile, err |-> TRUE]
  ELSE WriteSelected(x, vals, NamesIn(entries), full, subknobs)

\* write_csv: the file is opened first.  The names of the changed knobs select the
\* rows, whatever the namespace.
WriteCsv(x, vals, full, subknobs) == WriteDelta(x, vals, GetDeltaVlist(x, vals), full, subknobs)

DetailedRows(x, vals, subs) ==
  [j \in DOMAIN subs |->
     [guid |-> Schemas[x][subs[j].k].ns, name |-> subs[j].name,
      text |-> ObjectToString(subs[j].fmt, GetChild(vals[subs[j].k], subs[j].path))]]

\* write_csv_detailed: one row for every leaf, with its namespace, until a subknob, leaf
\* or not, cannot be packed.
PackableSubs(x, vals) ==
  Max({n \in 0..Len(Subs[x]) :
         \A i \in 1..n : ObjectToBinary(Subs[x][i].fmt, SubValue(x, vals, i)) # Error})
FirstDetailedRows(x, vals, n) ==
  CsvFile(DetailedRows(x, vals, SelectSeq(SubSeq(Subs[x], 1, n), LAMBDA s : s.leaf)), n < Len(Subs[x]))
WriteCsvDetailed(x, vals) == FirstDetailedRows(x, vals, PackableSubs(x, vals))

-----------------------------------------------------------------------------
(* The commands of VariableList.py: the file they write, and whether they raise *)

Refused == [opened |-> FALSE, err |-> TRUE, file |-> <<>>]

\* The output file is opened, and is empty if the list then cannot be made.
ListFile(list) == [opened |-> TRUE, err |-> list = Error, file |-> IF list = Error THEN <<>> ELSE list]

\* write_vl <schema.xml> [<values.csv>] <blob.vl>: with a CSV file only the knobs it
\* names are written.
WriteVlOf(x, read) == IF read.err THEN Refused ELSE ListFile(VlistToBinary(x, read.vals))
CmdWriteVl(x, csv) ==
  WriteVlOf(x, IF csv = None THEN [vals |-> Defaults(x), err |-> FALSE] ELSE ReadCsv(x, NoValues(x), csv))

Opened(w) == [opened |-> TRUE, err |-> w.err, file |-> w.file]

\* write_csv <schema.xml> [<blob.vl>] <values.csv>: with a list, read_vlist is
\* called with two arguments and takes one.
CmdWriteCsv(x, list) == IF list = None THEN Opened(WriteCsv(x, Defaults(x), TRUE, FALSE)) ELSE Refused

\* write_csv_detailed <schema.xml> <values.csv>
CmdWriteCsvDetailed(x) == Opened(WriteCsvDetailed(x, Defaults(x)))
=============================================================================
