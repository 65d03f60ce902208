---------------------------- MODULE CompareConfigs ----------------------------
(***************************************************************************)
(* Class CompareConfigs of KnobDelta.py: the members of struct knobs whose *)
(* values differ between two objects of CfgData.  It works on the text of  *)
(* the CSV rows and on its own reading of the XML file.                    *)
(***************************************************************************)
EXTENDS VariableList, FiniteSets

\* What GenNCCfgData.py takes from VariableList.py.
StringToObjectOf(f, text) == StringToObject(f, text, "dflt", <<0, 0>>)
WriteChanged(x, vals, full) == WriteCsv(x, vals, full, FALSE)

TypeOf(f) == IF f.kind = "struct" THEN <<"struct", f.no>> ELSE <<f.kind, f.size>>

\* Knobs of one namespace that follow each other are a section of the XML file.
InLastSection(x, k) == \A j \in k..Len(Schemas[x]) : Schemas[x][j].ns = Schemas[x][Len(Schemas[x])].ns

\* xml_info["Knobs"]: the name of the last knob of each type, in the order in which
\* the types come up; every section starts it anew, so it has the last section only.
NewEntry(info, entry) ==
  IF \A n \in DOMAIN info : info[n].type # entry.type THEN Append(info, entry)
  ELSE [n \in DOMAIN info |-> IF info[n].type = entry.type THEN entry ELSE info[n]]
ParsingXml(x) ==
  FoldLeft(LAMBDA info, k :
             NewEntry(info, [type |-> TypeOf(Schemas[x][k].fmt), name |-> Schemas[x][k].name]),
           <<>>, SelectSeq(KnobIndices(x), LAMBDA k : InLastSection(x, k)))
XmlInformation == [x \in DOMAIN Schemas |-> ParsingXml(x)]

\* xml_information["Structs"]: how many members the struct of that type has.
StructLength(x, type) ==
  Len(Schemas[x][CHOOSE k \in DOMAIN Schemas[x] : TypeOf(Schemas[x][k].fmt) = type].fmt.members)

Unbraced(text) == IF Head(text) = Open /\ Last(text) = Close THEN Tail(Front(text)) ELSE text
Between(in, cuts) == [n \in 1..(Len(cuts) - 1) |-> SubSeq(in, cuts[n] + 1, cuts[n + 1] - 1)]
CutAt(in, places) == Between(in, SetToSortSeq(places \union {0, Len(in) + 1}, LAMBDA a, b : a < b))
Count(in, i, mark) == Cardinality({j \in 1..i : in[j] = mark})
CutOutside(in) == CutAt(in, {i \in DOMAIN in : in[i] = Comma /\ Count(in, i, Open) = Count(in, i, Close)})

\* parse_csv_string: the outer braces go, and commas that are in no others separate.
ParseCsvString(text) == CutOutside(Unbraced(text))

\* The type a row is filed under: the first entry whose name is the name of the row.
EntryFor(info, hits) == IF hits = {} THEN None ELSE info[Min(hits)].type
PageName(x, name) ==
  EntryFor(XmlInformation[x], {n \in DOMAIN XmlInformation[x] : XmlInformation[x][n].name = name})

\* A row that looks for a struct, or a member of it, that is not there raises.
RowRaises(x, page, values) ==
  page # None /\ (page[1] # "struct" \/ Len(values) > StructLength(x, page))

ParsedRow(kn, v) == [name |-> kn.name, values |-> ParseCsvString(ObjectToString(kn.fmt, v))]


\* generate_csv_rows(full, no subknobs) as parsing_csv_data reads them.
RowsOf(c) == [k \in DOMAIN Schemas[c.xml] |-> ParsedRow(Schemas[c.xml][k], c.vals[k])]

\* parsing_csv_data: pairs of a type and the values of its members; a later row of
\* the same type replaces an earlier one.  Error when a row raises.
Filed(x, rows) == [n \in DOMAIN rows |-> [page |-> PageName(x, rows[n].name), values |-> rows[n].values]]
LastOfEach(filed) ==
  {filed[n] : n \in {n \in DOMAIN filed :
                       filed[n].page # None /\ \A m \in DOMAIN filed : filed[m].page = filed[n].page => m <= n}}
PagesOrRaise(x, filed) ==
  IF \E n \in DOMAIN filed : RowRaises(x, filed[n].page, filed[n].values) THEN Error ELSE LastOfEach(filed)
ParsingCsvData(x, rows) == PagesOrRaise(x, Filed(x, rows))

\* compare_mu_setting: the members [page, member] that are reported, or Error.
DifferentOn(p, q) ==
  {[page |-> p.page, member |-> i] :
     i \in {j \in DOMAIN p.values \intersect DOMAIN q.values : p.values[j] # q.values[j]}}
ComparePages(old, new) ==
  IF old = Error \/ new = Error THEN Error
  ELSE UNION {UNION {DifferentOn(p, q) : q \in {q \in new : q.page = p.page}} : p \in old}
CompareMuSetting(x, dflt, modified) ==
  ComparePages(ParsingCsvData(x, RowsOf(dflt)), ParsingCsvData(x, RowsOf(modified)))

CompareRaises(x, dflt, modified) == CompareMuSetting(x, dflt, modified) = Error
=============================================================================
