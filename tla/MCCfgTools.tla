----------------------------- MODULE MCCfgTools -----------------------------
(***************************************************************************)
(* XML files, CSV files and lists for TLC.  XML file 1 has two namespaces  *)
(* that share a knob name, and knobs of three kinds of format, one a       *)
(* struct with an array; file 2 has only structs, two of one type, and     *)
(* file 3 one struct of each type.  File 4 has values that do not pack     *)
(* and file 5 such a default.                                              *)
(***************************************************************************)
EXTENDS CfgTools

T(d, lo, hi) == [dflt |-> d, min |-> lo, max |-> hi]
NoText == T(<<>>, <<>>, <<>>)
Braced(texts) == <<Open>> \o Join(texts) \o <<Close>>
U8 == IntValueFormat(0, 255, 1)
Mode == EnumFormat(<<[name |-> "OFF", pretty |-> <<Word("Off")>>, number |-> 0],
                     [name |-> "AUTO", pretty |-> <<Word("Auto")>>, number |-> 5]>>, <<>>)
\* struct 1 { uint8_t x; mode m; uint8_t v[2]; }
Mix == StructFormat(1, <<StructMember(1, 1, U8, 1, T(<<Dec(3)>>, <<>>, <<Dec(9)>>)),
                         StructMember(1, 2, Mode, 1, NoText),
                         StructMember(1, 3, U8, 2, NoText)>>)
\* struct 2 { bool b; uint8_t y; }
Plus == StructFormat(2, <<StructMember(2, 1, BoolFormat, 1, NoText), StructMember(2, 2, U8, 1, NoText)>>)

Mixed == <<SchemaKnob("G1", "A", U8, T(<<Dec(5)>>, <<>>, <<Dec(10)>>)),
           SchemaKnob("G1", "S", Mix, NoText),
           SchemaKnob("G2", "A", U8, NoText),
           SchemaKnob("G2", "B", BoolFormat, NoText)>>
Structs == <<SchemaKnob("G1", "S", Mix, NoText), SchemaKnob("G1", "T", Plus, NoText),
             SchemaKnob("G2", "S", Mix, NoText)>>

Simple == <<SchemaKnob("G1", "S", Mix, NoText), SchemaKnob("G1", "T", Plus, NoText)>>

\* struct 3 { float r; enum { OK, LOW = -1 } l; float s[2]; }
F32 == FloatValueFormat(4, 4, 2000)
Level == EnumFormat(<<[name |-> "OK", pretty |-> <<Word("OK")>>, number |-> 0],
                      [name |-> "LOW", pretty |-> <<Word("LOW")>>, number |-> -1]>>, <<>>)
Odd == StructFormat(3, <<StructMember(3, 1, F32, 1, NoText), StructMember(3, 2, Level, 1, NoText),
                         StructMember(3, 3, F32, 2, NoText)>>)
Loose == <<SchemaKnob("G1", "S", Odd, NoText)>>
Low == <<SchemaKnob("G1", "A", U8, NoText), SchemaKnob("G1", "L", Level, T(<<Word("LOW")>>, <<>>, <<>>))>>

Tables == <<Mixed, Structs, Simple, Loose, Low>>
MCSchemas == LET tables == Tables IN tables

Row(g, n, path, t) == [guid |-> g, name |-> <<n, path>>, text |-> t]
File(rows) == [header |-> TRUE, rows |-> rows]
Var(g, n, data) == [guid |-> g, name |-> <<n, <<>> >>, data |-> data, ok |-> TRUE]

MCUserCsvs ==
  {File(<<Row("G1", "A", <<>>, <<Hex(9)>>), Row("*", "S", <<3, 2>>, <<Dec(7)>>), None,
          Row("G2", "A", <<>>, <<Dec(5)>>), Row("*", "Z", <<>>, <<Dec(1)>>)>>),
   File(<<Row("G2", "B", <<>>, <<Word("true")>>),
          Row("G1", "S", <<>>, Braced(<< <<Dec(4)>>, <<Word("Auto")>>, Braced(<< <<Dec(8)>> >>) >>))>>),
   File(<<Row("G1", "S", <<2>>, <<Word("Auto")>>), Row("*", "S", <<1>>, <<Dec(10)>>)>>),
   File(<<Row("G1", "S", <<1>>, <<Point(11)>>), Row("*", "S", <<2>>, <<Dec(0)>>), Row("*", "L", <<>>, <<Dec(0)>>)>>),
   File(<<Row("G1", "S", <<2>>, <<Word("LOW")>>)>>),
   [header |-> FALSE, rows |-> <<>>]}

MCUserBins ==
  {<<Var("G2", "A", <<200>>), Var("G1", "S", <<9, 5, 0, 0, 0, 1, 2>>), Var("G1", "A", <<2>>), Var("G2", "B", <<1>>)>>,
   <<Var("G1", "A", <<11>>), Var("G1", "S", <<3, 0, 0, 0, 0, 0, 0>>), Var("G2", "A", <<0>>), Var("G2", "B", <<0>>)>>,
   <<Var("G3", "A", <<6>>), Var("G2", "A", <<5>>),
     Var("G1", "S", <<5, 0, 0, 0, 0, 0, 0, 0, 0, 0, 0, 127, 1, 0, 0, 128>>)>>,
   <<Var("G1", "S", <<4, 5>>)>>,
   <<Var("G1", "S", <<3, 5, 0, 0, 0, 0, 255>>), Var("G1", "T", <<2, 7>>)>>,
   <<[Var("G2", "B", <<1>>) EXCEPT !.ok = FALSE]>>,
   <<Var("G2", "S", <<8, 5, 0, 0, 0, 7, 7>>), Var("G1", "T", <<1, 77>>), Var("G1", "S", <<1, 0, 0, 0, 0, 0, 1>>)>>}

MCUserMods ==
  {<< [name |-> <<1, 1>>, text |-> <<Dec(8)>>], [name |-> <<2, 1>>, text |-> <<Word("false")>>] >>,
   << [name |-> <<1, 3>>, text |-> Braced(<< <<Dec(1)>>, <<Dec(2)>> >>)], [name |-> <<1, 2>>, text |-> <<Hex(5)>>] >>,
   << [name |-> <<1, 1>>, text |-> <<Dec(10)>>] >>,
   << [name |-> <<1, 2>>, text |-> <<Word("Auto")>>] >>,
   << [name |-> <<1, 3>>, text |-> Braced(<< <<Dec(5)>> >>)] >>,
   << [name |-> <<1, 3>>, text |-> Braced(<< <<Dec(1)>>, <<Dec(2)>>, <<Dec(3)>> >>)] >>,
   << [name |-> <<3, 1>>, text |-> <<Dec(300)>>] >>,
   << [name |-> <<3, 1>>, text |-> <<Point(25)>>] >>,
   << [name |-> <<3, 3>>, text |-> Braced(<< <<Dec(1)>>, <<Dec(2)>> >>)] >>,
   << [name |-> <<3, 3>>, text |-> <<Word("low")>>] >>}
=============================================================================
