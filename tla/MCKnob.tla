-------------------------------- MODULE MCKnob --------------------------------
(***************************************************************************)
(* Knobs for TLC.  The declarations cover every kind of format, nesting of *)
(* structs and arrays, bounds narrower than the type and the boundary      *)
(* values of the types; the inputs cover valid, out of range and malformed *)
(* text for knobs, members and array elements.                             *)
(***************************************************************************)
EXTENDS Knob

CONSTANT Group  \* which of the declarations below a run takes

T(d0, lo, hi) == [dflt |-> d0, min |-> lo, max |-> hi]
NoText == T(<<>>, <<>>, <<>>)
Braced(texts) == <<Open>> \o Join(texts) \o <<Close>>
Value(name, pretty, n) == [name |-> name, pretty |-> pretty, number |-> n]

U8 == IntValueFormat(0, 255, 1)
I8 == IntValueFormat(-128, 127, 1)
U16 == IntValueFormat(0, 65535, 2)
I16 == IntValueFormat(-32768, 32767, 2)
F32 == FloatValueFormat(4, 4, 2000)
Level == EnumFormat(<<Value("LOW", <<Word("Low")>>, -1), Value("HIGH", <<Word("High")>>, 1)>>, <<>>)
Mode == EnumFormat(<<Value("OFF", <<Word("OFF")>>, 0), Value("ON", <<Word("On")>>, 1),
                     Value("AUTO", <<Word("Auto")>>, 5)>>, <<Word("ON")>>)

\* struct 1 { uint8_t x; bool y[2]; }
Inner == StructFormat(1, <<StructMember(1, 1, U8, 1, T(<<Dec(3)>>, <<>>, <<Dec(9)>>)),
                           StructMember(1, 2, BoolFormat, 2, T(Braced(<< <<Word("true")>> >>), <<>>, <<>>))>>)
\* struct 2 { int8_t a; mode m; uint8_t v[2]; struct 1 in; }
Outer == StructFormat(2, <<StructMember(2, 1, I8, 1, NoText),
                           StructMember(2, 2, Mode, 1, NoText),
                           StructMember(2, 3, U8, 2, T(Braced(<< <<Dec(1)>>, <<Dec(2)>> >>), <<>>, <<>>)),
                           StructMember(2, 4, Inner, 1, NoText)>>)
\* struct 3 { struct 1 c[2]; }
Pair == StructFormat(3, <<StructMember(3, 1, Inner, 2, NoText)>>)
\* struct 5 { float f; level l[2]; }
Odd == StructFormat(5, <<StructMember(5, 1, F32, 1, NoText), StructMember(5, 2, Level, 2, NoText)>>)
Two == StructFormat(4, <<StructMember(4, 1, U8, 1, NoText), StructMember(4, 2, U8, 1, NoText)>>)

Plus(path, texts) == {[path |-> path, text |-> t] : t \in texts}

GroupDecls ==
  CASE Group = "all" ->
         <<KnobOf(U8, T(<<Dec(125)>>, <<Dec(100)>>, <<Hex(150)>>)),
           KnobOf(I16, NoText),
           KnobOf(U16, T(<<Hex(65535)>>, <<>>, <<>>)),
           KnobOf(F32, T(<<Point(6)>>, <<Dec(-8)>>, <<Point(10)>>)),
           KnobOf(BoolFormat, NoText),
           KnobOf(Mode, T(<<Word("Auto")>>, <<>>, <<>>)),
           KnobOf(Outer, NoText),
           KnobOf(Two, T(Braced(<< <<Dec(1)>>, <<Dec(2)>> >>), <<>>, Braced(<< <<Dec(4)>>, <<>> >>))),
           KnobOf(U8, T(<<Dec(99)>>, <<Dec(100)>>, <<>>)),
           KnobOf(BoolFormat, T(<<>>, <<Word("true")>>, <<>>)),
           KnobOf(F32, T(<<>>, <<Word("nan")>>, <<Word("inf")>>)),
           KnobOf(Level, T(<<Dec(-1)>>, <<>>, <<>>)),
           KnobOf(Odd, NoText)>>
    [] Group = "sharing" -> <<KnobOf(Pair, NoText)>>

MCDecls == LET decls == GroupDecls IN decls

Numbers == {<<Dec(n)>> : n \in {-32769, -32768, -128, -9, -1, 0, 1, 5, 100, 127, 150, 255, 32767, 65535, 65536}}
             \union {<<Point(n)>> : n \in {-85, 9, 10, 11, 2002, 2100}}
             \union {<<Word(w)>> : w \in {"nan", "inf", "-inf", "High", "true", "On"}} \union {<<Hex(151)>>, <<>>}
GroupInputs ==
  CASE Group = "all" ->
         [k \in DOMAIN GroupDecls |->
            CASE k = 7 -> Plus(<<1>>, {<<Dec(-129)>>, <<Dec(-128)>>})
                          \union Plus(<<2>>, {<<Word("OFF")>>, <<Dec(2)>>})
                          \union Plus(<<3, 2>>, {<<Dec(255)>>, <<Dec(256)>>})
                          \union Plus(<<4, 1>>, {<<Dec(9)>>, <<Dec(10)>>})
                          \union Plus(<<4, 2, 2>>, {<<Word("no")>>})
                          \union Plus(<<3>>, {Braced(<< <<Dec(7)>> >>), Braced(<< <<Dec(7)>>, <<Dec(256)>> >>)})
                          \union Plus(<<4>>, {Braced(<< <<>> >>),
                                              Braced(<< <<Dec(8)>>, Braced(<< <<>>, <<Word("yes")>> >>) >>),
                                              <<Close>>, <<Dec(4)>>})
                          \union Plus(<<>>, {<<>>, Braced(<< <<Dec(1)>> >>)})
              [] k = 8 -> Plus(<<>>, {Braced(<< <<Dec(a)>>, <<Dec(b)>> >>) : a \in {0, 4, 5}, b \in {0, 255, 256}})
                          \union Plus(<<1>>, Numbers) \union Plus(<<2>>, Numbers)
              [] k = 13 -> Plus(<<1>>, Numbers) \union Plus(<<2, 1>>, Numbers)
              [] OTHER -> Plus(<<>>, Numbers)]
    [] Group = "sharing" -> <<Plus(<<1, 1, 1>>, {<<Dec(5)>>}) \union Plus(<<1, 2, 1>>, {<<Dec(6)>>})
                              \union Plus(<<>>, {Braced(<< Braced(<< <<>> >>) >>)})>>
MCInputs == LET inputs == GroupInputs IN inputs
=============================================================================
