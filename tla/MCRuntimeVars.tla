----------------------------- MODULE MCRuntimeVars -----------------------------
(* Lists with repeated names, a short rest and a cut entry; a store of three   *)
(* variables of which two belong to knobs.                                     *)
EXTENDS RuntimeVars

CONSTANTS a, b, c, d1, d2, h1, h2

Ok(n, d) == [kind |-> "ok", name |-> n, data |-> d]
Bad(k) == [kind |-> k, name |-> a, data |-> d1]

MCKnobs == <<a, b>>
MCAllVars == <<c, a>>
Cmd(x, s, i) == [xml |-> x, skip |-> s, ignore |-> i]
MCCmds == {Cmd(None, FALSE, FALSE), Cmd(h1, FALSE, FALSE), Cmd(h1, FALSE, TRUE),
           Cmd("bad", TRUE, FALSE)}
MCFiles == {<<Ok(a, d1), Ok(b, d1), Ok(a, d2), Bad("stub")>>, <<Ok(a, d2), Bad("cut")>>}
=============================================================================
