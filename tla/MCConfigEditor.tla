---------------------------- MODULE MCConfigEditor ----------------------------
(***************************************************************************)
(* XML files, change files, lists and command lines for TLC.  The XML      *)
(* files have namespaces of their own.  The struct of knob S takes two     *)
(* pages, that of T one.                                                   *)
(***************************************************************************)
EXTENDS ConfigEditor, CompareConfigs

MCSubs == LET subs == Subs IN subs
MCDiffRaises ==
  LET raises == [p \in DOMAIN knobs |-> [a \in DOMAIN knobs |-> [b \in DOMAIN knobs |->
                   CompareRaises(p, LoadXml(a), LoadXml(b))]]]
  IN raises

T(d, lo, hi) == [dflt |-> d, min |-> lo, max |-> hi]
NoText == T(<<>>, <<>>, <<>>)
Braced(texts) == <<Open>> \o Join(texts) \o <<Close>>
U8 == IntValueFormat(0, 255, 1)
Mode == EnumFormat(<<[name |-> "OFF", pretty |-> <<Word("Off")>>, number |-> 0],
                     [name |-> "AUTO", pretty |-> <<Word("Auto")>>, number |-> 5]>>, <<>>)
\* struct 1 { uint8_t x; mode m; uint8_t v[2]; }
Mix == StructFormat(1, <<StructMember(1, 1, U8, 1, T(<<Dec(3)>>, <<>>, <<Dec(9)>>)),
                         StructMember(1, 2, Mode, 1, NoText),
                         StructMember(1, 3, U8, 2, NoText)>>)
\* struct 2 { bool b; uint8_t y; }
Pair == StructFormat(2, <<StructMember(2, 1, BoolFormat, 1, NoText), StructMember(2, 2, U8, 1, NoText)>>)

Tables == << <<SchemaKnob("G1", "S", Mix, NoText), SchemaKnob("G1", "T", Pair, NoText)>>,
             <<SchemaKnob("G2", "T", Pair, NoText)>> >>
MCSchemas == LET tables == Tables IN tables
MCFileNames == <<"a", "b">>
MCOffered == {1, 2, Broken}

Row(g, n, path, t) == [guid |-> g, name |-> <<n, path>>, text |-> t]
File(rows) == [header |-> TRUE, rows |-> rows]
Var(g, n, data) == [guid |-> g, name |-> <<n, <<>> >>, data |-> data, ok |-> TRUE]

GoodCsv == File(<<Row("G1", "S", <<1>>, <<Hex(7)>>), Row("G2", "T", <<1>>, <<Word("true")>>)>>)
MCUserCsvs == {GoodCsv, File(<<Row("G1", "S", <<1>>, <<Dec(5)>>), Row("*", "S", <<1>>, <<Dec(10)>>)>>),
               File(<<Row("G9", "S", <<1>>, <<Dec(5)>>)>>)}
GoodBin == <<Var("G2", "T", <<1, 9>>), Var("G1", "S", <<9, 5, 0, 0, 0, 1, 2>>)>>
MCUserBins == {GoodBin, <<Var("G1", "T", <<1, 1>>), Var("G1", "S", <<10, 0, 0, 0, 0, 0, 0>>)>>}
MCUserSvds == {<<GoodBin>>, << <<Var("G1", "T", <<0, 4>>)>>, None, <<[Var("G2", "T", <<1, 1>>) EXCEPT !.ok = FALSE]>> >>}
MCEntries == {<<Hex(4)>>, <<Dec(10)>>}

Arg(k, f) == [kind |-> k, file |-> f]
Xml(x) == Arg("xml", x)
Session(line, kinds, max) == [line |-> line, kinds |-> kinds, max |-> max]
MCSessions ==
  {Session(<<Xml(1)>>, {"select", "type", "combo", "turn", "load_csv", "save_bin"}, 4),
   Session(<<Xml(1)>>, {"select", "type", "combo", "load_csv", "load_bin", "load_svd",
                        "save_csv", "save_svd", "save_delta_bin"}, 3)}
  \union {Session(line, {"open", "clear", "select", "load_csv", "load_runtime", "set_runtime", "set_refused",
                         "del_runtime"}, 3) :
            line \in {<<Xml(1), Xml(2), Arg("csv", GoodCsv)>>, <<Xml(1), Arg("vl", GoodBin)>>,
                     <<Xml(1), Arg("other", None), Xml(2)>>}}

\* The laws on the values that two steps lead to from the defaults.
Texts(x, i) == MCEntries \union GetCfgItemOptions(x, i)
OneStep(x, v) ==
  {v} \union (UNION {{set_subknob_text(x, v, i, text) : text \in Texts(x, i)} : i \in Leaves(x)} \ {Error})
      \union {read_csv(x, v, csv).vals : csv \in MCUserCsvs}
      \union {uefi_variables_to_knobs(x, v, list).vals : list \in MCUserBins}
Sample == LET near == [x \in DOMAIN knobs |-> OneStep(x, Defaulted(x))]
          IN  [x \in DOMAIN knobs |-> UNION {OneStep(x, v) : v \in near[x]}]
Packed(sample) == UNION {{vlist_to_binary(x, v) : v \in sample[x]} : x \in DOMAIN knobs} \ {Error}

ASSUME LawsOnSample ==
  \A sample \in {Sample} : \A x \in DOMAIN knobs :
    /\ PathsDiffer(x)
    /\ \A v \in sample[x] :
         /\ \A i \in Leaves(x) :
              /\ \A text \in Texts(x, i) :
                   SetsOneLeaf(x, i, v, text) /\ RefusesAlike(x, i, v, Defaulted(x), text)
                                             /\ RefusesAlike(x, i, Defaulted(x), v, text)
              /\ TextStands(x, i, v) /\ OptionsStand(x, i, v)
         /\ ReadsBack(x, v, Defaulted(x)) /\ ReadsBack(x, Defaulted(x), v)
         /\ \A y \in DOMAIN knobs \ {x} : LeavesAlone(x, v, y, Defaulted(y))
         /\ \A s, t \in MCUserBins : ReadsInOrder(x, v, s, t)
         /\ \A csv \in MCUserCsvs : CountsKnobs(x, v, csv)
    /\ \A list \in Packed(sample) \union MCUserBins : ReadsAll(list)
================================================================================
