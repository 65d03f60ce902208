--------------------------------- MODULE Knob ---------------------------------
(***************************************************************************)
(* One knob of a configuration schema (class Knob and class SubKnob of     *)
(* VariableList.py) and everything a tool does to its value: assign the    *)
(* default, clear it, set the knob or one of its subknobs from text, write *)
(* it out as text or bytes and read it back.                               *)
(*                                                                         *)
(* Reading and writing leave the value alone when an exception is raised:  *)
(* the getters hand out deep copies and the setter checks the bounds       *)
(* before it assigns.                                                      *)
(***************************************************************************)
EXTENDS DataFormat

CONSTANTS Decls,   \* a sequence of declarations: the knobs of the instance
          Inputs   \* Inputs[k]: what is set in knob k, a set of [path, text]

VARIABLES knob,    \* the declaration under study
          value    \* Knob._value: None or an object

vars == <<knob, value>>

\* Constructor of the knob: the same steps as for a struct member.
KnobOf(f, texts) == Declare(f, <<0, 0>>, texts)

d == Decls[knob]

\* The subknobs of every knob, and the paths of those that are leaves.
SubKnobs == [k \in DOMAIN Decls |->
               IF Decls[k] = Error THEN <<>> ELSE CreateSubknobs(Decls[k].fmt, <<>>)]
SubFormats == [k \in DOMAIN Decls |->
                 [p \in {SubKnobs[k][i].path : i \in DOMAIN SubKnobs[k]} |->
                    SubKnobs[k][CHOOSE i \in DOMAIN SubKnobs[k] : SubKnobs[k][i].path = p].fmt]]
LeafPaths == [k \in DOMAIN Decls |->
                {p \in DOMAIN SubFormats[k] : ~IsAggregate(SubFormats[k][p])}]
Leaves == LeafPaths[knob]

\* The setter: the new object replaces the old one if it is within the bounds.
SetterAccepts(k, new) == new # Error /\ CheckBounds(k.fmt, new, k.min, k.max)

Store(new) == value' = IF SetterAccepts(d, new) THEN new ELSE value

BaseIsDefault == d.dflt

\* The object a subknob is set in: the value, or the default if there is none.
Base == IF value = None THEN d.dflt ELSE value

Init == /\ knob \in {k \in DOMAIN Decls : Decls[k] # Error}
        /\ value = None

StoreAt(path, new) == Store(IF new = Error THEN Error ELSE SetChild(d.fmt, Base, path, new))

AssignDefault == value' = d.dflt /\ UNCHANGED knob

ClearValue == value' = None /\ UNCHANGED knob

\* subknob.value = subknob.format.string_to_object(text)
SetFromText(path, text) ==
  /\ StoreAt(path, StringToObject(SubFormats[knob][path], text, "dflt", NewSite(d.fmt, Base)))
  /\ UNCHANGED knob

\* The value is written to a file as text and a tool reads that file.
ReloadText ==
  /\ value # None
  /\ Store(StringToObject(d.fmt, ObjectToString(d.fmt, value), "dflt", <<0, 0>>))
  /\ UNCHANGED knob

FromBytes(bin) == IF bin = Error THEN Error ELSE BinaryToObject(d.fmt, bin, <<0, 0>>)

\* The value is written to a variable list and a tool reads that list.
ReloadBinary ==
  /\ value # None
  /\ Store(FromBytes(ObjectToBinary(d.fmt, value)))
  /\ UNCHANGED knob

SetSomething == \E in \in Inputs[knob] : SetFromText(in.path, in.text)

Next == AssignDefault \/ ClearValue \/ SetSomething \/ ReloadText \/ ReloadBinary

Spec == Init /\ [][Next]_vars

-----------------------------------------------------------------------------
\* A value that was written as text reads back as the same value: the brace
\* splitting and the member order of string_to_object invert object_to_string.
TextRoundTrip ==
  value # None =>
    Plain(d.fmt, StringToObject(d.fmt, ObjectToString(d.fmt, value), "dflt", <<0, 0>>))
      = Plain(d.fmt, value)

LeafFormats == {SubFormats[knob][p] : p \in Leaves}
HasFloat == \E f \in LeafFormats : f.kind = "float"

\* A value the bounds let through packs, unless it has a float (too large for the C
\* type) or an enum with a negative number ("<I").  The bytes have the size the format
\* announces (the assert in StructFormat.object_to_binary); what is read back from
\* them packs to the same bytes and, when no float is rounded on the way, is the
\* value: no bound, sign or byte order is lost.
BinarySettles ==
  value # None =>
    \E bin \in {ObjectToBinary(d.fmt, value)} :
      IF bin = Error THEN \E f \in LeafFormats : ~PacksAlways(f)
      ELSE /\ Len(bin) = SizeInBytes(d.fmt)
           /\ \E back \in {BinaryToObject(d.fmt, bin, <<0, 0>>)} :
                /\ ObjectToBinary(d.fmt, back) = bin
                /\ HasFloat \/ (SetterAccepts(d, back) /\ Plain(d.fmt, back) = Plain(d.fmt, value))

\* Setting one leaf changes that leaf and no other ("The value will now be
\* initialized from default, with the single value modified").
OneLeafChanges ==
  [][\A in \in Inputs[knob] :
       in.path \in Leaves /\ value' # value /\ SetFromText(in.path, in.text) =>
         \A p \in Leaves \ {in.path} :
           GetChild(value', p) = GetChild(IF value = None THEN d.dflt ELSE value, p)]_vars
=============================================================================
