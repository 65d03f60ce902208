------------------------------ MODULE MCFirmware ------------------------------
(***************************************************************************)
(* Two XML files: a struct knob with a bounded number, a switch of an enum *)
(* and an array next to an enum whose numbers have a gap, and a bounded     *)
(* number next to an enum.  One of the four CSV files is out of bounds     *)
(* in its second row.  The settings cover one and two directories, lists   *)
(* that do not fit together, a file that is missing, and good and bad      *)
(* names and numbers.  Variables hold good values, bad ones, and ones of   *)
(* another length.  Policies of other builds are shorter, fit the cache    *)
(* without its header, or do not.                                          *)
(***************************************************************************)
EXTENDS Firmware

\* VariableList.py, whose definitions the constants of KnobService, ConfigPolicy and
\* Firmware are given.
VL == INSTANCE VariableList

MCSubs == LET subs == VL!Subs IN subs
MCGetChild(o, path) == VL!GetChild(o, path)
MCSizeInBytes(f) == VL!SizeInBytes(f)
MCReadCsv(x, vals, csv) == VL!ReadCsv(x, vals, csv)
MCObjectToBinary(f, o) == VL!ObjectToBinary(f, o)
MCBinaryToObject(f, bin, site) == VL!BinaryToObject(f, bin, site)
MCCheckBounds(f, o, lo, hi) == VL!CheckBounds(f, o, lo, hi)
MCCmdWriteVl(x, csv) == VL!CmdWriteVl(x, csv)

T(d, lo, hi) == [dflt |-> d, min |-> lo, max |-> hi]
NoText == T(<<>>, <<>>, <<>>)
U8 == VL!IntValueFormat(0, 255, 1)
Value(s, n) == [name |-> s, pretty |-> <<VL!Word(s)>>, number |-> n]
Mode == VL!EnumFormat(<<Value("OFF", 0), Value("AUTO", 5)>>, <<>>)
Gap == VL!EnumFormat(<<Value("LOW", 0), Value("MID", 1), Value("HIGH", 3)>>, <<>>)
Mix == VL!StructFormat(1, <<VL!StructMember(1, 1, U8, 1, T(<<VL!Dec(3)>>, <<VL!Dec(2)>>, <<VL!Dec(9)>>)),
                            VL!StructMember(1, 2, Mode, 1, NoText),
                            VL!StructMember(1, 3, U8, 2, NoText)>>)
Tables == << <<VL!SchemaKnob("G1", "S", Mix, NoText), VL!SchemaKnob("G1", "E", Gap, NoText)>>,
             <<VL!SchemaKnob("G2", "B", U8, T(<<VL!Dec(5)>>, <<>>, <<VL!Dec(200)>>)),
               VL!SchemaKnob("G2", "M", Mode, NoText)>> >>
MCSchemas == LET tables == Tables IN tables
MCNameLength(n) == 1

Row(g, n, path, t) == [guid |-> g, name |-> <<n, path>>, text |-> t]
File(rows) == [header |-> TRUE, rows |-> rows]
MCCsvFiles ==
  <<File(<<Row("G1", "S", <<2>>, <<VL!Word("AUTO")>>)>>),
    File(<<Row("G1", "E", <<>>, <<VL!Word("HIGH")>>)>>),
    File(<<Row("G1", "E", <<>>, <<VL!Word("MID")>>), Row("*", "S", <<1>>, <<VL!Dec(10)>>)>>),
    File(<<Row("G2", "M", <<>>, <<VL!Word("AUTO")>>), Row("*", "B", <<>>, <<VL!Dec(200)>>)>>)>>

Setting(dirs, xmls, csvs, names, ids) == [dirs |-> dirs, xmls |-> xmls, csvs |-> csvs, names |-> names, ids |-> ids]
HexId(n) == [hex |-> TRUE, number |-> n]
MCSettings ==
  {Setting(1, <<1>>, << <<2, 1>> >>, << <<2, 2>> >>, << <<HexId(2), HexId(1)>> >>),
   Setting(1, <<1>>, << <<1, 3>> >>, <<None>>, <<None>>),
   Setting(1, <<1>>, << <<1, 2>> >>, << <<2>> >>, <<None>>),
   Setting(1, <<1>>, << <<1, 2>> >>, << <<2, 3>> >>, <<None>>),
   Setting(1, <<1>>, << <<1, 2>> >>, <<None>>, << <<HexId(2), HexId(256)>> >>),
   Setting(2, <<1, 2>>, << <<2, 1>>, <<4>> >>, <<None, <<2>> >>, <<None, << HexId(255) >> >>),
   Setting(2, <<2, 1>>, << <<4>>, <<2, 1>> >>, <<None, None>>, <<None, None>>),
   Setting(2, <<2, 1>>, << <<>>, <<3>> >>, <<None, None>>, <<None, None>>),
   Setting(1, <<2>>, << <<>> >>, <<None>>, <<None>>),
   Setting(2, <<1>>, << <<1>> >>, <<None>>, <<None>>),
   Setting(2, <<1, None>>, << <<1>>, <<>> >>, <<None, None>>, <<None, None>>)}

MCBlobs == << << {<<2, 5, 0, 0, 0, 7, 255>>, <<1, 5, 0, 0, 0, 7, 7>>, <<4, 2, 0, 0, 0, 0, 0>>, <<8, 0, 0>>,
                  <<8, 0, 0, 0, 0, 0, 0, 0>>},
                 {<<1, 0, 0, 0>>, <<2, 0, 0, 0>>, <<1>>} >>,
              << {<<255>>, <<1, 0>>}, {<<5, 0, 0, 0>>, <<4, 0, 0, 0>>} >> >>

MCOtherPolicies == {Filler(GetConfPolicySize(1) + n) : n \in {-1, 1, 4, 5}}
=============================================================================
