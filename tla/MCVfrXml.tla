-------------------------------- MODULE MCVfrXml --------------------------------
(***************************************************************************)
(* Two members, A and B, with up to four blocks in one or two files. The   *)
(* blocks of each, and an option, may depend on the default of the other.  *)
(***************************************************************************)
EXTENDS VfrXml

\* member == 1, NOT member == 1; {{}} is TRUE
Is(member) == [neg |-> FALSE, member |-> member, value |-> "1"]
IsNot(member) == [neg |-> TRUE, member |-> member, value |-> "1"]

Option(value, within) == [value |-> value, within |-> within]
OneOf(member, options, help, within) ==
  [member |-> member, given |-> None, flagged |-> options, help |-> help, within |-> within]
Plain(member, value, help, within) == OneOf(member, <<Option(value, {})>>, help, within)
Numeric(member, default, help, within) ==
  [member |-> member, given |-> default, flagged |-> <<>>, help |-> help, within |-> within]

MCBlocks ==
  {Plain("A", "1", TRUE, {}), Plain("A", "2", TRUE, {}), Plain("A", "2", FALSE, {{{Is("B")}}}),
   Plain("B", "1", TRUE, {}), Plain("B", "2", TRUE, {{{}}}), Plain("B", "1", FALSE, {{{Is("A")}}}),
   Plain("B", "2", TRUE, {{{IsNot("A")}, {Is("A"), Is("B")}}}),
   Numeric("A", "1", FALSE, {{{IsNot("B")}}}), Numeric("B", "1", FALSE, {}),
   OneOf("B", <<Option("1", {}), Option("2", {})>>, FALSE, {Unreadable}),
   OneOf("B", <<Option("1", {{{Is("A")}}})>>, TRUE, {})}
=============================================================================
