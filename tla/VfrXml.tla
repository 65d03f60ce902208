--------------------------------- MODULE VfrXml ---------------------------------
(***************************************************************************)
(* VfrToXmlConverter.py, parse_inf_to_xml: the defaults of the members of a*)
(* config XML are taken from the oneof, numeric and checkbox blocks of VFR *)
(* files.  A member may have several blocks; which of them count depends   *)
(* on suppressif, grayoutif and disableif statements, which depend on the  *)
(* defaults.  The files are parsed once with all their blocks and then     *)
(* again, without those that are hidden, until the counts of what is       *)
(* missing no longer change.                                               *)
(*                                                                         *)
(* A block is [member, given, flagged, help, within]: given is the text of *)
(* "default =", or None; flagged are the options with the flag DEFAULT in  *)
(* order, [value, within]; help says that it has a help text; within are   *)
(* the conditions of the statements that enclose it, or the option.  A     *)
(* condition is a set of alternatives (OR), each a set of ideqval tests    *)
(* [neg, member, value] that must all hold (AND), or it is Unreadable:     *)
(* eval raises on it.                                                      *)
(***************************************************************************)
EXTENDS Integers, FiniteSets, Sequences

CONSTANTS Texts,       \* the texts a default may have
          Blocks,      \* what a VFR file may say
          MaxBlocks,   \* bound: the blocks of all files together
          MaxFiles,    \* bound: the files
          Untyped,     \* how many members may have a type no header file declares
          None, Unreadable

Empty == "''"         \* the default a member has as long as there is none
SpecialStr == "-1FAULT-1"

\* "Assume special_str is unique".
Options == UNION {{b.flagged[n] : n \in DOMAIN b.flagged} : b \in Blocks}
ASSUME BlocksAssumption ==
  /\ Texts \intersect {Empty, SpecialStr, None} = {}
  /\ \A b \in Blocks : b.given \in Texts \union {None} /\ b.help \in BOOLEAN /\ b.flagged \in Seq(Options)
  /\ \A option \in Options : option.value \in Texts
  /\ Untyped \subseteq Nat

VARIABLES files,     \* the VFR files of the INF file
          untyped,   \* the errors no parsing changes
          defaults,  \* the default of each member found so far
          unhelped,  \* the members whose help text is empty
          repeated,  \* repeated_items
          step,      \* "write", "parse", "validate", "reparse", "compare", "done"
          file,      \* the file that is parsed
          text,      \* the blocks that are parsed of it
          next,      \* the block of text that comes next
          count,     \* error_count + warning_count
          counted,   \* the blocks the last pass has parsed
          again      \* the loop has turned

vars == <<files, untyped, defaults, unhelped, repeated, step, file, text, next, count, counted, again>>

-----------------------------------------------------------------------------
(* Conditions *)

\* evaluate_condition: without a value the test fails, with NOT or without.
EvaluateCondition(found, test) ==
  /\ test.member \in DOMAIN found /\ found[test.member] # Empty
  /\ (found[test.member] = test.value) # test.neg

VfrConditionJudge(found, condition) ==
  condition # Unreadable /\ \E tests \in condition : \A test \in tests : EvaluateCondition(found, test)

Shows(found, block) == \A condition \in block.within : ~VfrConditionJudge(found, condition)

\* vfr_process_statements: all conditions are judged by the defaults as they are before
\* the file is parsed, and what a true one encloses is commented out.  The blocks left:
Visible(found, block) == [block EXCEPT !.flagged = SelectSeq(@, LAMBDA option : Shows(found, option))]
VfrProcessStatements(blocks, found) ==
  SelectSeq([i \in DOMAIN blocks |-> Visible(found, blocks[i])], LAMBDA block : Shows(found, block))

-----------------------------------------------------------------------------
(* Blocks *)

FlagOfRepeatedAnew(pass, value, current) == IF current \in {value, Empty} THEN value ELSE SpecialStr

FlagOfRepeatedPending(pass, value, current) ==
  CASE pass = "parse" -> IF value = current THEN current ELSE Empty
    [] pass = "reparse" -> IF current = Empty THEN value ELSE SpecialStr

FlagOfRepeatedLast(pass, value, current) == IF value # current /\ pass = "parse" THEN Empty ELSE value

\* An option with the flag DEFAULT of a member that has another block.
FlagOfRepeated(pass, value, current) ==
  CASE value = current -> current
    [] value # current /\ pass = "parse" -> Empty
    [] value # current /\ pass = "reparse" -> IF current = Empty THEN value ELSE SpecialStr

FixUp(value) == IF value = SpecialStr THEN Empty ELSE value

\* The options of a block, one after the other; pass is "parse" (parse_mode 0) or
\* "reparse" (1).
FlagsOfRepeated(pass, flagged, current) ==
  LET after[n \in 0..Len(flagged)] ==
        IF n = 0 THEN current ELSE FlagOfRepeated(pass, flagged[n].value, after[n - 1])
  IN  FixUp(after[Len(flagged)])

\* The default a block leaves its member, which had the default current.
DefaultOf(pass, block, current, isRepeated) ==
  CASE block.given # None -> block.given
    [] block.given = None /\ block.flagged = <<>> -> current
    [] block.given = None /\ block.flagged # <<>> ->
         IF isRepeated THEN FlagsOfRepeated(pass, block.flagged, current) ELSE Head(block.flagged).value

ValueOf(found, m) == IF m \in DOMAIN found THEN found[m] ELSE Empty
Put(found, m, value) == [x \in DOMAIN found \union {m} |-> IF x = m THEN value ELSE found[x]]

-----------------------------------------------------------------------------
(* parse_inf_to_xml *)

Init == /\ files = <<>> /\ untyped \in Untyped
        /\ defaults = <<>> /\ unhelped = {} /\ repeated = {}
        /\ step = "write" /\ file = 0 /\ text = <<>> /\ next = 1
        /\ count = 0 /\ counted = {} /\ again = FALSE

\* Where the blocks stand.
Places == UNION {{<<f, i>> : i \in DOMAIN files[f]} : f \in DOMAIN files}
BlockAt(p) == files[p[1]][p[2]]

\* Somebody writes the VFR files, a block to the last file or to another one.
WriteBlock ==
  /\ step = "write" /\ Cardinality(Places) < MaxBlocks
  /\ \E b \in Blocks :
       \/ Len(files) < MaxFiles /\ files' = Append(files, <<b>>)
       \/ \E last \in {Len(files)} \ {0} : files' = [files EXCEPT ![last] = Append(@, b)]
  /\ UNCHANGED <<untyped, defaults, unhelped, repeated, step, file, text, next, count, counted, again>>

Start ==
  /\ step = "write" /\ files # <<>> /\ step' = "parse"
  /\ UNCHANGED <<files, untyped, defaults, unhelped, repeated, file, text, next, count, counted, again>>

\* What is parsed of a file: all of it at first, then what is not hidden.
TextOf(f) == IF step = "parse" THEN files[f] ELSE VfrProcessStatements(files[f], defaults)

\* The next file is read, when the one before is parsed to its end.
ReadFile ==
  /\ step \in {"parse", "reparse"} /\ next > Len(text) /\ file < Len(files)
  /\ file' = file + 1 /\ text' = TextOf(file + 1) /\ next' = 1
  /\ counted' = (IF file = 0 THEN {} ELSE counted) \union {text'[i] : i \in DOMAIN text'}
  /\ UNCHANGED <<files, untyped, defaults, unhelped, repeated, step, count, again>>

\* A turn of the loop of parse_vfr_content, for block b.  A member that is there
\* already, when the files are first parsed, has more than one block.
RepeatedWith(b) == repeated \union (IF step = "parse" THEN {b.member} \intersect DOMAIN defaults ELSE {})
ParseBlock(b) ==
  /\ repeated' = RepeatedWith(b)
  /\ defaults' = Put(defaults, b.member, DefaultOf(step, b, ValueOf(defaults, b.member), b.member \in repeated'))
  /\ unhelped' = IF b.help THEN unhelped \ {b.member} ELSE unhelped \union {b.member}

ParseNext ==
  /\ step \in {"parse", "reparse"} /\ next <= Len(text) /\ next' = next + 1
  /\ ParseBlock(text[next])
  /\ UNCHANGED <<files, untyped, step, file, text, count, counted, again>>

\* parse_vfr_content has returned for the last file.
EndPass ==
  /\ step \in {"parse", "reparse"} /\ next > Len(text) /\ file = Len(files)
  /\ step' = IF step = "parse" THEN "validate" ELSE "compare"
  /\ file' = 0 /\ text' = <<>> /\ next' = 1
  /\ UNCHANGED <<files, untyped, defaults, unhelped, repeated, count, counted, again>>

\* validate_structs: how much is missing.
ValidateStructs == untyped + Cardinality({m \in DOMAIN defaults : defaults[m] = Empty}) + Cardinality(unhelped)

\* A turn of the loop around parse_default_value begins.
Validate ==
  /\ step = "validate"
  /\ count' = ValidateStructs /\ step' = IF ValidateStructs = 0 THEN "done" ELSE "reparse"
  /\ again' = TRUE
  /\ UNCHANGED <<files, untyped, defaults, unhelped, repeated, file, text, next, counted>>

\* The counts are compared after it.
Compare ==
  /\ step = "compare"
  /\ step' = IF ValidateStructs \in {0, count} THEN "done" ELSE "validate"
  /\ UNCHANGED <<files, untyped, defaults, unhelped, repeated, file, text, next, count, counted, again>>

Convert == ReadFile \/ ParseNext \/ EndPass \/ Validate \/ Compare

Next == WriteBlock \/ Start \/ Convert

\* The converter runs without waiting for anybody.
Spec == Init /\ [][Next]_vars /\ WF_vars(Convert)

-----------------------------------------------------------------------------
(* Properties *)

BlocksOf(m) == {p \in Places : files[p[1]][p[2]].member = m}
\* VFR files in which each block says one default, and without a condition if it is
\* written as such; a member has no more than two blocks.
SaysOne(b) == IF b.given = None THEN Len(b.flagged) = 1 ELSE b.within = {}
Simple ==
  /\ \A p \in Places : SaysOne(BlockAt(p))
  /\ \A m \in DOMAIN defaults : Cardinality(BlocksOf(m)) <= 2

\* "Evaluate suppressif, grayoutif, disableif statements and re-parse until no more
\* pending value can be determined in a parsing": the loop comes to an end, whatever
\* the blocks hide of each other, and although hiding a block also changes the number
\* of help texts that are missing.
ConversionEnds == (step = "validate" /\ Simple) ~> step = "done"

\* "Only assign the value when the default value is all the same, otherwise takes ''":
\* after all blocks were parsed once, a default that no block writes as such is the
\* first DEFAULT of one of them and every DEFAULT of all others, however many blocks
\* the member has and in whichever files.
FirstPassAgrees ==
  step = "validate" /\ ~again =>
    \A m \in DOMAIN defaults :
      defaults[m] # Empty /\ (\A p \in BlocksOf(m) : BlockAt(p).given = None) =>
        \E p \in BlocksOf(m) :
          /\ BlockAt(p).flagged # <<>> /\ Head(BlockAt(p).flagged).value = defaults[m]
          /\ \A q \in BlocksOf(m) \ {p} :
               \A n \in DOMAIN BlockAt(q).flagged : BlockAt(q).flagged[n].value = defaults[m]

\* Such files, in which a member has its blocks in one file.
Ordinary == Simple /\ \A m \in DOMAIN defaults : \A p, q \in BlocksOf(m) : p[1] = q[1]

Said(m) == {b \in counted : b.member = m}

\* The same when the conversion ends, of all blocks that are not hidden.
AssignedIsAgreed ==
  step = "done" /\ Ordinary =>
    \A m \in DOMAIN defaults :
      defaults[m] # Empty /\ (\A b \in Said(m) : b.given = None) =>
        \A b \in Said(m) : \A n \in DOMAIN b.flagged : b.flagged[n].value = defaults[m]
=============================================================================
