------------------------------ MODULE DataFormat ------------------------------
(***************************************************************************)
(* The value formats of SetupDataPkg/Tools/VariableList.py: how the value  *)
(* of a knob is read from and written to text (XML attributes, CSV cells)  *)
(* and bytes (variable list entries), and how its bounds are checked.      *)
(*                                                                         *)
(* A text is a sequence of tokens: the marks { , } and atoms (a number in  *)
(* decimal, in hexadecimal or with a decimal point, or a word).  Blanks,   *)
(* which the code strips, are left out.  A byte string is a sequence of    *)
(* bytes.                                                                  *)
(*                                                                         *)
(* A Python list or OrderedDict has an identity, and the code lets several *)
(* places of one value hold the same object, so an aggregate value is a    *)
(* node [id, elems] whose id names the place in the code's input where the *)
(* object was made: <<n>> is the default of struct n, <<n, m>> the default *)
(* of its member m, and <<0, k, ...>> an object made while text k was read.*)
(* Only ids inside one value are ever compared: copy.deepcopy keeps the    *)
(* sharing inside the copy and separates the copy from the original.       *)
(*                                                                         *)
(* Error stands for an exception.  The operators are recursive, so this    *)
(* module and those that extend it are for model checking only.            *)
(***************************************************************************)
EXTENDS Python, Integers, Sequences, SequencesExt

LOCAL INSTANCE TLC

-----------------------------------------------------------------------------
(* Text *)

Dec(n) == [t |-> "dec", s |-> "", v |-> n]
Hex(n) == [t |-> "hex", s |-> "", v |-> n]
Point(n) == [t |-> "point", s |-> "", v |-> n]  \* n tenths: 2.5, 25e-1
Word(s) == [t |-> "word", s |-> s, v |-> 0]
Mark(s) == [t |-> "mark", s |-> s, v |-> 0]
Open == Mark("{")
Comma == Mark(",")
Close == Mark("}")

\* The characters of one text, one at a time: cur collects the segment under way.
SplitStep(st, c) ==
  LET keep == [st EXCEPT !.cur = Append(@, c)]
      cut  == [st EXCEPT !.segs = Append(@, st.cur), !.cur = <<>>]
      fail == [st EXCEPT !.err = TRUE]
      down == st.depth - 1
  IN CASE st.err -> st
       [] st.complete -> fail
       [] c = Open -> [(IF st.depth > 0 THEN keep ELSE st) EXCEPT !.depth = @ + 1]
       [] c = Comma -> IF st.depth > 1 THEN keep ELSE cut
       [] c = Close /\ down > 0 -> [keep EXCEPT !.depth = down]
       [] c = Close /\ down = 0 -> [cut EXCEPT !.depth = down, !.complete = TRUE]
       [] c = Close /\ down < 0 -> [st EXCEPT !.depth = down]
       [] OTHER -> IF st.depth > 0 THEN keep ELSE fail

\* An unclosed brace is not an error: the code builds a ParseError and drops it.
SplitEnd(st) == IF st.err THEN Error ELSE st.segs

RECURSIVE SplitFrom(_, _)
SplitFrom(st, text) == IF text = <<>> THEN st ELSE SplitFrom(SplitStep(st, Head(text)), Tail(text))

\* "{1,{a,b}}" -> <<"1", "{a,b}">>
SplitBraces(text) ==
  SplitEnd(SplitFrom([segs |-> <<>>, cur |-> <<>>, depth |-> 0, complete |-> FALSE, err |-> FALSE], text))

RECURSIVE Join(_)
Join(texts) ==
  IF Len(texts) <= 1 THEN FlattenSeq(texts) ELSE Head(texts) \o <<Comma>> \o Join(Tail(texts))

-----------------------------------------------------------------------------
(* Formats *)

Node(id, elems) == [id |-> id, elems |-> elems]
IsAggregate(f) == f.kind \in {"array", "struct"}
AnyError(objs) == \E i \in DOMAIN objs : objs[i] = Error

\* An exception in one element is one of the whole.
Whole(id, elems) == IF AnyError(elems) THEN Error ELSE Node(id, elems)
Concatenated(parts) == IF AnyError(parts) THEN Error ELSE FlattenSeq(parts)

\* What an empty text stands for: ctx is "dflt", "min" or "max".
Implicit(f, ctx) == f[ctx]

IntValueFormat(lo, hi, size) ==
  [kind |-> "int", lo |-> lo, hi |-> hi, size |-> size, dflt |-> 0, min |-> lo, max |-> hi]

\* A float is a number of tenths, an infinity, NaN, or NoNumber, which stands for an
\* object of another type in the place of a float.  Packing rounds to a multiple of
\* grain, up to largest.
Infinity == 10^9
NaN == Infinity + 1
NoNumber == Infinity + 2
FloatValueFormat(size, grain, largest) ==
  [kind |-> "float", size |-> size, grain |-> grain, largest |-> largest,
   dflt |-> 0, min |-> None, max |-> None]

BoolFormat == [kind |-> "bool", size |-> 1, dflt |-> FALSE, min |-> None, max |-> None]

FirstNumber(values, hits) == IF hits = {} THEN Error ELSE values[Min(hits)].number

EnumFromTextNamesOnly(values, text) ==
  IF Len(text) = 1 /\ text[1].t = "dec" THEN text[1].v
  ELSE FirstNumber(values, {i \in DOMAIN values : text = <<Word(values[i].name)>>})

\* Enums: int(text) reads decimal numbers only; otherwise the first value whose
\* name or pretty name is the text.
EnumFromText(values, text) ==
  IF Len(text) = 1 /\ text[1].t = "dec" THEN text[1].v
  ELSE FirstNumber(values, {i \in DOMAIN values : text \in {<<Word(values[i].name)>>, values[i].pretty}})

EnumFormat(values, text) ==
  [kind |-> "enum", values |-> values, size |-> 4, min |-> None, max |-> None,
   dflt |-> IF text = <<>> THEN values[1].number ELSE EnumFromText(values, text)]

\* count elements that all are the one default object of the element's format.
Filled(site, count, object) == Node(site, [i \in 1..count |-> object])
ArrayFormat(f, site, count) ==
  [kind |-> "array", fmt |-> f, count |-> count,
   dflt |-> Filled(site, count, f.dflt), min |-> Filled(site, count, f.min), max |-> Filled(site, count, f.max)]

-----------------------------------------------------------------------------
(* string_to_object: site identifies this reading of the text *)

RECURSIVE StringToObject(_, _, _, _)

IntFromText(f, text) ==
  IF Len(text) = 1 /\ text[1].t \in {"dec", "hex"} THEN text[1].v ELSE Error

\* float(text): no hexadecimal numbers, but three words.
FloatWords == ("nan" :> NaN) @@ ("inf" :> Infinity) @@ ("-inf" :> -Infinity)
FloatToken(c) ==
  CASE c.t = "dec" -> 10 * c.v
    [] c.t = "point" -> c.v
    [] c.t = "word" /\ c.s \in DOMAIN FloatWords -> FloatWords[c.s]
    [] OTHER -> Error
FloatFromText(f, text) == IF Len(text) = 1 THEN FloatToken(text[1]) ELSE Error

\* Any other text is false, and no error.
BoolFromText(f, text) == text \in {<<Word("true")>>, <<Word("yes")>>, <<Dec(1)>>}

ElementFromText(f, segs, n, ctx, site) == StringToObject(f, segs[n], ctx, Append(site, n))

\* "{4}" sets every element; the elements are then one and the same object.
ArrayFromText(f, segs, ctx, site) ==
  IF segs = Error \/ Len(segs) \notin {1, f.count} THEN Error
  ELSE Whole(site, [i \in 1..f.count |->
                      ElementFromText(f.fmt, segs, IF Len(segs) = 1 THEN 1 ELSE i, ctx, site)])

\* Empty braces stand for the members' own defaults, minima or maxima.
StructFromText(f, segs, ctx, site) ==
  CASE segs = Error -> Error
    [] segs \in {<<>>, << <<>> >>} ->
         Node(site, [i \in DOMAIN f.members |-> Implicit(f.members[i], ctx)])
    [] segs \notin {Error, <<>>, << <<>> >>} /\ Len(segs) = Len(f.members) ->
         Whole(site, [i \in DOMAIN f.members |-> ElementFromText(f.members[i].fmt, segs, i, ctx, site)])
    [] OTHER -> Error

AggregateFromText(f, segs, ctx, site) ==
  IF f.kind = "array" THEN ArrayFromText(f, segs, ctx, site) ELSE StructFromText(f, segs, ctx, site)

StringToObject(f, text, ctx, site) ==
  CASE f.kind # "struct" /\ text = <<>> -> Implicit(f, ctx)
    [] IsAggregate(f) /\ (f.kind = "struct" \/ text # <<>>) ->
         AggregateFromText(f, SplitBraces(text), ctx, site)
    [] OTHER -> CASE f.kind = "int" -> IntFromText(f, text)
                  [] f.kind = "float" -> FloatFromText(f, text)
                  [] f.kind = "bool" -> BoolFromText(f, text)
                  [] f.kind = "enum" -> EnumFromText(f.values, text)

-----------------------------------------------------------------------------
(* object_to_string, as it is written to XML and CSV files *)

RECURSIVE ObjectToString(_, _)

NumberToText(o) == <<Dec(o)>>

\* str(float) always shows a point or an exponent.
FloatToText(o) ==
  IF o \in {Infinity, -Infinity, NaN} THEN <<Word(CHOOSE w \in DOMAIN FloatWords : FloatWords[w] = o)>>
  ELSE <<Point(o)>>

BoolToText(o) == IF o THEN <<Word("true")>> ELSE <<Word("false")>>

\* The pretty name of the first value with that number.
EnumToText(f, o) ==
  IF \A i \in DOMAIN f.values : f.values[i].number # o THEN <<Dec(o)>>
  ELSE f.values[Min({i \in DOMAIN f.values : f.values[i].number = o})].pretty

InBraces(texts) == <<Open>> \o Join(texts) \o <<Close>>

ArrayToText(f, o) == [i \in DOMAIN o.elems |-> ObjectToString(f.fmt, o.elems[i])]

StructToText(f, o) == [i \in DOMAIN f.members |-> ObjectToString(f.members[i].fmt, o.elems[i])]

ObjectToString(f, o) ==
  CASE f.kind = "int" -> NumberToText(o)
    [] f.kind = "float" -> FloatToText(o)
    [] f.kind = "bool" -> BoolToText(o)
    [] f.kind = "enum" -> EnumToText(f, o)
    [] IsAggregate(f) -> InBraces(IF f.kind = "array" THEN ArrayToText(f, o) ELSE StructToText(f, o))

-----------------------------------------------------------------------------
(* object_to_binary and binary_to_object *)

\* The format of element i of an aggregate, and how many it has.
ElemFormat(f, i) == IF f.kind = "array" THEN f.fmt ELSE f.members[i].fmt
ElemCount(f) == IF f.kind = "array" THEN f.count ELSE Len(f.members)

RECURSIVE SizeInBytes(_)
StructSize(f) == FoldLeft(LAMBDA n, m : n + SizeInBytes(m.fmt), 0, f.members)
SizeInBytes(f) ==
  CASE f.kind = "array" -> SizeInBytes(f.fmt) * f.count
    [] f.kind = "struct" -> StructSize(f)
    [] OTHER -> f.size

PackBigEndian(n, size) == [i \in 1..size |-> (n \div 256^(size - i)) % 256]

\* Little endian bytes of n, and the number they stand for.
Pack(n, size) == [i \in 1..size |-> (n \div 256^(i - 1)) % 256]
Unpack(bytes) ==
  FoldLeft(LAMBDA n, i : n + bytes[i] * 256^(i - 1), 0, [i \in DOMAIN bytes |-> i])

\* struct.pack raises for a number outside the C type.
IntToBinary(f, o) == IF o \in f.lo..f.hi THEN Pack(o, f.size) ELSE Error
Signed(f, n) == IF f.lo < 0 /\ n > f.hi THEN n - 256^f.size ELSE n
IntFromBinary(f, bin) == Signed(f, Unpack(bin))

\* A float is a magnitude and a last byte with the sign and the exponent, which is 127
\* for infinities and NaN.  The sign of a zero is left out.
PackFloat(units, sign, exponent, size) == Pack(units, size - 1) \o <<sign + exponent>>
SignOf(o) == IF o < 0 THEN 128 ELSE 0
UnitsOf(f, o) == ((IF o < 0 THEN -o ELSE o) + (f.grain \div 2)) \div f.grain

\* struct.pack raises OverflowError for what rounds to more than the largest number.
FloatToBinary(f, o) ==
  CASE o = NoNumber -> Error
    [] o = NaN -> PackFloat(1, 0, 127, f.size)
    [] o \in {Infinity, -Infinity} -> PackFloat(0, SignOf(o), 127, f.size)
    [] OTHER -> IF UnitsOf(f, o) * f.grain > f.largest THEN Error
                ELSE PackFloat(UnitsOf(f, o), IF UnitsOf(f, o) > 0 THEN SignOf(o) ELSE 0, 0, f.size)
FloatFromBinary(f, bin) ==
  LET units == Unpack(Front(bin))
      sign  == IF Last(bin) >= 128 THEN -1 ELSE 1
  IN CASE Last(bin) % 128 < 127 -> sign * units * f.grain
       [] Last(bin) % 128 = 127 /\ units = 0 -> sign * Infinity
       [] OTHER -> NaN

BoolToBinary(o) == IF o THEN <<1>> ELSE <<0>>
BoolFromBinary(bin) == bin[1] # 0

\* "<I": an enum is packed as an unsigned number.
EnumToBinary(f, o) == IF o >= 0 THEN Pack(o, f.size) ELSE Error
EnumFromBinary(f, bin) == Unpack(bin)

RECURSIVE ObjectToBinary(_, _)

ArrayToBinary(f, o) == [i \in DOMAIN o.elems |-> ObjectToBinary(f.fmt, o.elems[i])]

\* The size of each member is asserted.
Sized(bin, size) == IF bin = Error \/ Len(bin) # size THEN Error ELSE bin
StructToBinary(f, o) ==
  [i \in DOMAIN f.members |->
     Sized(ObjectToBinary(f.members[i].fmt, o.elems[i]), SizeInBytes(f.members[i].fmt))]

ObjectToBinary(f, o) ==
  CASE f.kind = "int" -> IntToBinary(f, o)
    [] f.kind = "float" -> FloatToBinary(f, o)
    [] f.kind = "bool" -> BoolToBinary(o)
    [] f.kind = "enum" -> EnumToBinary(f, o)
    [] IsAggregate(f) ->
         Concatenated(IF f.kind = "array" THEN ArrayToBinary(f, o) ELSE StructToBinary(f, o))

\* The formats of leaves whose every value within the bounds packs.
PacksAlways(f) == f.kind # "float" /\ (f.kind = "enum" => \A i \in DOMAIN f.values : f.values[i].number >= 0)

RECURSIVE BinaryToObject(_, _, _)

\* bin[from:from+n] of Python: what is missing at the end is left out.
Slice(bin, from, n) == SubSeq(bin, from + 1, IF from + n <= Len(bin) THEN from + n ELSE Len(bin))

ElementFromBinary(f, bin, from, n, site) == BinaryToObject(f, Slice(bin, from, n), site)

ArrayFromBinary(f, n, bin, site) ==
  [i \in 1..f.count |-> ElementFromBinary(f.fmt, bin, (i - 1) * n, n, Append(site, i))]

OffsetOf(f, i) == StructSize([members |-> SubSeq(f.members, 1, i - 1)])

\* What follows the last member is ignored.
StructFromBinary(f, bin, site) ==
  [i \in DOMAIN f.members |->
     ElementFromBinary(f.members[i].fmt, bin, OffsetOf(f, i), SizeInBytes(f.members[i].fmt), Append(site, i))]

\* struct.unpack needs exactly the bytes of the type.
BinaryToObject(f, bin, site) ==
  CASE IsAggregate(f) ->
         Whole(site, IF f.kind = "array" THEN ArrayFromBinary(f, SizeInBytes(f.fmt), bin, site)
                     ELSE StructFromBinary(f, bin, site))
    [] ~IsAggregate(f) /\ Len(bin) # f.size -> Error
    [] OTHER -> CASE f.kind = "int" -> IntFromBinary(f, bin)
                  [] f.kind = "float" -> FloatFromBinary(f, bin)
                  [] f.kind = "bool" -> BoolFromBinary(bin)
                  [] f.kind = "enum" -> EnumFromBinary(f, bin)

-----------------------------------------------------------------------------
(* check_bounds: TRUE when it returns without raising *)

RECURSIVE CheckBounds(_, _, _, _)

IntBounds(o, lo, hi) == o = None \/ (lo <= o /\ o <= hi)
\* NaN is not less than anything, nor greater.  Without bounds nothing is compared,
\* and an object of any type passes.
Less(a, b) == NaN \notin {a, b} /\ a < b
FloatBounds(o, lo, hi) ==
  \/ o = None \/ {lo, hi} = {None}
  \/ o # NoNumber /\ (lo = None \/ ~Less(o, lo)) /\ (hi = None \/ ~Less(hi, o))
BoolBounds(lo, hi) == lo = None /\ hi = None
EnumBounds(f, o, lo, hi) ==
  /\ lo = None /\ hi = None
  /\ o = None \/ \E i \in DOMAIN f.values : f.values[i].number = o
ArrayBounds(f, o, lo, hi) ==
  \A i \in 1..f.count : CheckBounds(f.fmt, o.elems[i], lo.elems[i], hi.elems[i])
StructBounds(f, o, lo, hi) ==
  \A i \in DOMAIN f.members :
    CheckBounds(f.members[i].fmt, o.elems[i], lo.elems[i], hi.elems[i])

CheckBounds(f, o, lo, hi) ==
  CASE f.kind = "int" -> IntBounds(o, lo, hi)
    [] f.kind = "float" -> FloatBounds(o, lo, hi)
    [] f.kind = "bool" -> BoolBounds(lo, hi)
    [] f.kind = "enum" -> EnumBounds(f, o, lo, hi)
    [] f.kind = "array" -> ArrayBounds(f, o, lo, hi)
    [] f.kind = "struct" -> StructBounds(f, o, lo, hi)

-----------------------------------------------------------------------------
(* Declarations *)

\* The bounds are checked against those of the format, the default against them.
BoundsFit(f, objs) ==
  \A c \in {<<"min", f.min, f.max>>, <<"max", f.min, f.max>>, <<"dflt", objs["min"], objs["max"]>>} :
    CheckBounds(f, objs[c[1]], c[2], c[3])
Declared(f, objs) ==
  IF AnyError(objs) \/ ~BoundsFit(f, objs) THEN Error
  ELSE [fmt |-> f, dflt |-> objs["dflt"], min |-> objs["min"], max |-> objs["max"]]

\* A declaration (struct member or knob) of format f with the texts of its
\* default, min and max attributes, or Error when its constructor raises.
Declare(f, site, texts) ==
  Declared(f, [ctx \in {"dflt", "min", "max"} |-> StringToObject(f, texts[ctx], ctx, site)])

\* Member m of struct number n; a count other than 1 makes it an array.
StructMember(n, m, f, count, texts) ==
  Declare(IF count = 1 THEN f ELSE ArrayFormat(f, <<n, m>>, count), <<n, m>>, texts)

\* Struct number n; its member m has the name <<n, m>>.
StructOf(n, members, ctx) == Node(<<n>>, [i \in DOMAIN members |-> Implicit(members[i], ctx)])
StructFormat(n, members) ==
  [kind |-> "struct", no |-> n, members |-> members, dflt |-> StructOf(n, members, "dflt"),
   min |-> StructOf(n, members, "min"), max |-> StructOf(n, members, "max")]

-----------------------------------------------------------------------------
(* Paths into a value: <<m, i>> is element i of member m *)

\* The subknobs of a format in the order create_subknobs lists them.
RECURSIVE CreateSubknobs(_, _)
CreateSubknobs(f, path) ==
  <<[path |-> path, fmt |-> f, leaf |-> ~IsAggregate(f)]>>
    \o IF IsAggregate(f)
       THEN FlattenSeq([i \in 1..ElemCount(f) |-> CreateSubknobs(ElemFormat(f, i), Append(path, i))])
       ELSE <<>>

RECURSIVE GetChild(_, _)
GetChild(o, path) == IF path = <<>> THEN o ELSE GetChild(o.elems[Head(path)], Tail(path))

\* x[i] = v where the object x is the one named id: every place that holds that
\* object shows the new element.
RECURSIVE AssignIn(_, _, _, _, _)
AssignIn(f, o, id, i, v) ==
  IF ~IsAggregate(f) THEN o
  ELSE Node(o.id, [j \in DOMAIN o.elems |->
                     IF o.id = id /\ j = i THEN v
                     ELSE AssignIn(ElemFormat(f, j), o.elems[j], id, i, v)])

SetChild(f, o, path, v) ==
  IF path = <<>> THEN v ELSE AssignIn(f, o, GetChild(o, Front(path)).id, Last(path), v)

\* The value without the identities: what == compares and what is written.
RECURSIVE Plain(_, _)
Plain(f, o) ==
  IF o \in {None, Error} \/ ~IsAggregate(f) THEN o
  ELSE [i \in DOMAIN o.elems |-> Plain(ElemFormat(f, i), o.elems[i])]

\* a != b: NaN differs from every number and from itself.
Differ(f, a, b) == Plain(f, a) # Plain(f, b) \/ (f.kind = "float" /\ a = NaN)

RECURSIVE Ids(_, _)
Ids(f, o) ==
  IF o = None \/ ~IsAggregate(f) THEN {}
  ELSE {o.id} \union UNION {Ids(ElemFormat(f, i), o.elems[i]) : i \in DOMAIN o.elems}

\* A reading whose objects are new to the value o.
NewSite(f, o) ==
  <<0, CHOOSE n \in 1..(Len(CreateSubknobs(f, <<>>)) + 1) : \A id \in Ids(f, o) : id[1] = 0 => id[2] # n>>
=============================================================================
