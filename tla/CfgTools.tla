------------------------------- MODULE CfgTools -------------------------------
(***************************************************************************)
(* The command lines of VariableList.py, GenNCCfgData.py and KnobDelta.py: *)
(* commands are run one after the other on one XML file, on the files      *)
(* earlier commands have left behind and on files of the user.             *)
(***************************************************************************)
EXTENDS KnobDelta

LOCAL INSTANCE TLC

CONSTANTS UserCsvs,  \* CSV files the user wrote
          UserBins,  \* variable lists from elsewhere
          UserMods,  \* the --var and --val arguments of MODCONFIG
          MaxCommands  \* bound: the commands that are run

VARIABLES xml,    \* the XML file
          binFile,    \* the variable list the commands write, or None
          csvFile,    \* the CSV file they write, or None
          nvram,  \* the variables of the system, as entries
          delta,  \* what KnobDelta.py has printed, if it was the last command
          last,   \* the last command: its inputs and whether it ended without raising
          ran     \* how many were run
vars == <<xml, binFile, csvFile, nvram, delta, last, ran>>

-----------------------------------------------------------------------------
(* The commands of GenNCCfgData.py: the file written, whether it was opened, and
   whether one raised *)

\* The length of a list, all names being of one length.
BufLength(buf) == FoldLeft(LAMBDA n, e : n + 1 + Len(e.data), 0, buf)

\* generate_binary opens the file before it packs the values.
Generated(c) == ListFile(GenerateBinaryArray(c))

BinaryOf(result) == IF result.err THEN Refused ELSE Generated(result.cfg)
SameLength(own, buf) == own # Error /\ BufLength(buf) = BufLength(own)

CsvAgainNot(csv, loaded) == loaded
CsvAgain(csv, loaded) == IF loaded.err THEN loaded ELSE OverrideDefaultValue(loaded.cfg, csv)

XmlAndCsv(x, csv) ==
  IF csv = None THEN [cfg |-> LoadXml(x), err |-> FALSE] ELSE OverrideDefaultValue(LoadXml(x), csv)
GenBinOver(csv, buf, start) ==
  CASE start.err \/ buf = None -> BinaryOf(start)
    [] ~start.err /\ buf # None ->
         IF csv = None \/ ~SameLength(GenerateBinaryArray(start.cfg), buf) THEN Refused
         ELSE BinaryOf(CsvAgain(csv, LoadDefaultFromBin(start.cfg, buf)))

\* GENBIN <XmlFile[;CsvFile[;BinFile]]>: the CSV file is applied before the binary,
\* to compare the lengths, and again after it; with an empty CsvFile the second time
\* has no file to open.
GenBin(x, csv, buf) == GenBinOver(csv, buf, XmlAndCsv(x, csv))

\* GENCSV <XmlFile;BinFile[;BinFile2]>: generate_csv_file loads the last list that is
\* named; the one before is read and not used.
GenCsv(x, newest) == GenerateDeltaFileFromBin(LoadXml(x), newest, FALSE)

\* What MODCONFIG makes of a --val: digits and 0x are numbers, [..] is a list of
\* numbers, anything else is a string.  Braces stand for the brackets.
IsModNumber(text) == Len(text) = 1 /\ (text[1].t = "hex" \/ (text[1].t = "dec" /\ text[1].v >= 0))
IsModList(text) == Len(text) > 1 /\ text[1] = Open /\ Last(text) = Close
IsDec(seg) == Len(seg) = 1 /\ seg[1].t = "dec"

\* The object as the format f sees it, or Error when check_bounds raises on it.  No
\* format converts it, and a float without bounds takes objects of any type.
NumberObject(f, n) ==
  CASE f.kind \in {"int", "enum"} -> n
    [] f.kind = "float" -> 10 * n
    [] f.kind = "bool" -> n # 0
    [] OTHER -> Error
OtherObject(f, isTrue) == CASE f.kind = "bool" -> isTrue [] f.kind = "float" -> NoNumber [] OTHER -> Error

\* An array is checked for its count of elements only, and may be longer; the elements
\* of a string are its characters, each a string.
ElementsObject(f, elems) ==
  IF f.kind # "array" \/ Len(elems) < f.count THEN Error ELSE Whole(<<0, 1>>, elems)
NumbersObject(f, segs) == ElementsObject(f, [i \in DOMAIN segs |-> NumberObject(f.fmt, segs[i][1].v)])
ListObject(f, segs) ==
  CASE segs = Error -> Error
    [] segs # Error /\ (\E i \in DOMAIN segs : ~IsDec(segs[i])) -> Error
    [] OTHER -> IF f.kind = "array" THEN NumbersObject(f, segs) ELSE OtherObject(f, TRUE)
Characters(text) ==
  IF Len(text) = 1 /\ text[1].t = "word" THEN Len(text[1].s) ELSE Len(ToString(text))
StringObject(f, text) ==
  IF f.kind = "array" THEN ElementsObject(f, [i \in 1..Characters(text) |-> OtherObject(f.fmt, TRUE)])
  ELSE OtherObject(f, text # <<>>)

ModObject(f, text) ==
  CASE IsModNumber(text) -> NumberObject(f, text[1].v)
    [] IsModList(text) -> ListObject(f, SplitBraces(text))
    [] OTHER -> StringObject(f, text)

ModStored(kn, st, k, new) ==
  IF ~CheckBounds(kn.fmt, new, kn.min, kn.max) THEN [st EXCEPT !.err = TRUE] ELSE [st EXCEPT !.vals[k] = new]
SetMember(kn, st, k, m, obj) ==
  IF obj = Error THEN [st EXCEPT !.err = TRUE]
  ELSE ModStored(kn, st, k, SetChild(kn.fmt, st.vals[k], <<m>>, obj))

\* One variable name on one knob: every struct knob that has a member of that name
\* is changed, and a knob that is no struct has no keys to look the name up in.
ModifyKnob(kn, st, k, name, text) ==
  CASE st.err -> st
    [] ~st.err /\ kn.fmt.kind # "struct" -> [st EXCEPT !.err = TRUE]
    [] ~st.err /\ kn.fmt.kind = "struct" ->
         IF kn.fmt.no # name[1] THEN st
         ELSE SetMember(kn, st, k, name[2], ModObject(kn.fmt.members[name[2]].fmt, text))

ModifyKnobs(x, mods) ==
  FoldLeft(LAMBDA st, k :
             FoldLeft(LAMBDA s, m : ModifyKnob(Schemas[x][k], s, k, m.name, m.text), st, mods),
           [vals |-> Defaults(x), err |-> FALSE], KnobIndices(x))

\* MODCONFIG: mods is a sequence of [name, text]; the list is written to the output
\* file and from there to the variable store.
Modified(c, all) == IF all.err THEN Refused ELSE Generated([c EXCEPT !.vals = all.vals])
ModConfig(x, mods) == Modified(LoadXml(x), ModifyKnobs(x, mods))

-----------------------------------------------------------------------------
(* Files and commands *)

NoDelta == [end |-> "none", found |-> {}]

Command(cmd, c, b, ok) == [cmd |-> cmd, csv |-> c, bin |-> b, ok |-> ok]

Init ==
  /\ xml \in DOMAIN Schemas
  /\ binFile = None /\ csvFile = None /\ nvram = {} /\ delta = NoDelta
  /\ last = Command("", None, None, TRUE) /\ ran = 0

\* The existing files a command can be given.
Csvs == UserCsvs \union ({csvFile} \ {None})
Bins == UserBins \union ({binFile} \ {None})

\* What a command leaves in its output file: nothing changes before it is opened.
Output(old, w) == IF w.opened THEN w.file ELSE old

WritesBin(cmd, c, b, w) ==
  /\ binFile' = Output(binFile, w)
  /\ last' = Command(cmd, c, b, ~w.err)
  /\ delta' = NoDelta /\ UNCHANGED <<xml, csvFile>>

WritesCsv(cmd, b, w) ==
  /\ csvFile' = Output(csvFile, w)
  /\ last' = Command(cmd, None, b, ~w.err)
  /\ delta' = NoDelta /\ UNCHANGED <<xml, binFile, nvram>>

DoGenBin ==
  \E c \in Csvs \union {None}, b \in Bins \union {None} :
    WritesBin("GENBIN", c, b, GenBin(xml, c, b)) /\ UNCHANGED nvram

DoGenCsv == \E b \in Bins : WritesCsv("GENCSV", b, GenCsv(xml, b))

DoWriteVl ==
  \E c \in Csvs \union {None} : WritesBin("write_vl", c, None, CmdWriteVl(xml, c)) /\ UNCHANGED nvram

DoWriteCsv == \E b \in Bins \union {None} : WritesCsv("write_csv", b, CmdWriteCsv(xml, b))

DoWriteCsvDetailed == WritesCsv("write_csv_detailed", None, CmdWriteCsvDetailed(xml))

\* The variables of the system after the entries of a list have been set.
Stored(old, list) ==
  {e \in old : \A i \in DOMAIN list : list[i].name # e.name \/ list[i].guid # e.guid}
    \union {list[i] : i \in DOMAIN list}

\* The list is written to the file and from there entry by entry to the system,
\* up to the first entry the system refuses.
DoModConfig ==
  \E mods \in UserMods :
    /\ WritesBin("MODCONFIG", None, None, ModConfig(xml, mods))
    /\ nvram' \in {nvram} \union
         (IF last'.ok THEN {Stored(nvram, SubSeq(binFile', 1, n)) : n \in DOMAIN binFile'} ELSE {})

\* The base flavor, or another one with its CSV file.  It leaves nothing behind; as a
\* bound it is run once, last, and before the last command there could be.
DoKnobDelta ==
  ran < MaxCommands - 1 /\
  \E isBase \in BOOLEAN, b \in Bins, c \in Csvs \union {None} :
    /\ delta' = Delta(xml, isBase, b, c)
    /\ last' = Command(IF isBase THEN "KnobDelta GN" ELSE "KnobDelta", c, b, delta'.end = "done")
    /\ UNCHANGED <<xml, binFile, csvFile, nvram>>

Next ==
  /\ ran < MaxCommands /\ delta = NoDelta
  /\ ran' = ran + 1
  /\ DoGenBin \/ DoGenCsv \/ DoWriteVl \/ DoWriteCsv \/ DoWriteCsvDetailed \/ DoModConfig \/ DoKnobDelta

Spec == Init /\ [][Next]_vars

-----------------------------------------------------------------------------
(* Properties *)

PlainVals(x, vals) == [k \in DOMAIN vals |-> Plain(Schemas[x][k].fmt, vals[k])]

\* The values a list gives the knobs of the XML file, from the defaults.
PlainResult(x, read) == IF read.err THEN Error ELSE PlainVals(x, read.vals)
ListValues(x, list) == PlainResult(x, UefiVariablesToKnobs(x, Defaults(x), list))

\* The knobs a CSV file has a row for, itself or a part of it; "*" stands for the
\* nearest namespace above.
NamedBy(x, file) ==
  LET rows == SelectSeq(file.rows, LAMBDA r : r # None)
      guid(i) == LET own == {j \in 1..i : rows[j].guid # "*"}
                 IN IF own = {} THEN "" ELSE rows[CHOOSE j \in own : \A m \in own : m <= j].guid
  IN {k \in DOMAIN Schemas[x] : \E i \in DOMAIN rows :
        guid(i) = Schemas[x][k].ns /\ rows[i].name[1] = Schemas[x][k].name}

\* GENBIN puts the CSV file over the binary and the binary over the defaults
\* (GenNCCfgData.py main): reading the CSV file once more over the list that was
\* written changes nothing in it, and a knob it does not name has the bytes of its
\* value in the binary, or of its default.
ListVals(list) == UefiVariablesToKnobs(xml, Defaults(xml), IF list = None THEN <<>> ELSE list).vals
GenBinLayers ==
  last.cmd = "GENBIN" /\ last.ok =>
    /\ last.csv # None => VlistToBinary(xml, ReadCsv(xml, ListVals(binFile), last.csv).vals) = binFile
    /\ \A k \in DOMAIN Schemas[xml] \ (IF last.csv = None THEN {} ELSE NamedBy(xml, last.csv)) :
         EntryOf(xml, ListVals(binFile), k) = EntryOf(xml, ListVals(last.bin), k)

\* A change file reproduces what it was made from (write_csv and read_csv): the CSV
\* file of GENCSV, read over the defaults, gives every knob the value it has in the
\* list, whatever order, unknown variables and namespaces the list has.  Those of
\* write_csv and write_csv_detailed, read by write_vl, give every knob its default.
CsvReproduces ==
  /\ last.cmd = "GENCSV" /\ last.ok =>
       PlainResult(xml, ReadCsv(xml, Defaults(xml), csvFile)) = ListValues(xml, last.bin)
  /\ last.cmd \in {"write_csv", "write_csv_detailed"} /\ last.ok =>
       CmdWriteVl(xml, csvFile) = ListFile(VlistToBinary(xml, Defaults(xml)))

\* A command that raises has set no variable and left no part of a list: the list file
\* is as it was or, when a value then does not pack (generate_binary and write_vlist
\* open it first), empty: a float, a negative enum number, or an object MODCONFIG has
\* stored unconverted.  The change file is lost only to a default that does not pack,
\* and GENCSV, which reads and packs before it writes, keeps it always.
AlwaysPacks == \A i \in DOMAIN Subs[xml] : Subs[xml][i].leaf => PacksAlways(Subs[xml][i].fmt)
FailureLeavesNoPart ==
  [][~last'.ok =>
       /\ nvram' = nvram
       /\ binFile' # binFile => binFile' = <<>> /\ (AlwaysPacks => last'.cmd = "MODCONFIG")
       /\ csvFile' # csvFile => last'.cmd \in {"write_csv", "write_csv_detailed"} /\ ~AlwaysPacks]_vars

\* An XML file whose knobs are structs of different types in one namespace.
Comparable(x) ==
  /\ \A k \in DOMAIN Schemas[x] : Schemas[x][k].fmt.kind = "struct" /\ Schemas[x][k].ns = Schemas[x][1].ns
  /\ \A j, k \in DOMAIN Schemas[x] : Schemas[x][j].fmt = Schemas[x][k].fmt => j = k

\* The members whose values differ between the list and what it is compared with: the
\* defaults, for a flavor with the rows of its CSV file.
DifferentMembers(f, old, new) ==
  {[page |-> TypeOf(f), member |-> i] :
     i \in {j \in DOMAIN f.members :
              Plain(f.members[j].fmt, old.elems[j]) # Plain(f.members[j].fmt, new.elems[j])}}
Reference ==
  IF last.cmd = "KnobDelta GN" THEN Defaults(xml) ELSE ReadCsv(xml, Defaults(xml), last.csv).vals
Differences ==
  UNION {DifferentMembers(Schemas[xml][k].fmt, Reference[k],
                          UefiVariablesToKnobs(xml, Defaults(xml), last.bin).vals[k]) : k \in DOMAIN Schemas[xml]}

=============================================================================
