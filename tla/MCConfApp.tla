----------------------------- MODULE MCConfApp -----------------------------
(***************************************************************************)
(* ConfApp on small instances.                                             *)
(***************************************************************************)
EXTENDS ConfApp

CONSTANTS a, b, old, new, newer

MCVars == {a, b}
MCValues == {old, new, newer}

One(v, x) == [kind |-> "list", list |-> << [var |-> v, value |-> x] >>]
Bad(k) == [kind |-> k, list |-> << >>]

Svd(settings) == [xml |-> TRUE, packet |-> TRUE, hasList |-> TRUE,
                  Version |-> 1, Lsv |-> 1, settings |-> settings]

\* One payload for each check of the header that can fail.
BadHeaders ==
  LET p == Svd(<< One(a, new) >>)
  IN  { [p EXCEPT !.xml = FALSE], [p EXCEPT !.packet = FALSE],
        [p EXCEPT !.hasList = FALSE], [p EXCEPT !.Version = 3],
        [p EXCEPT !.Version = 3, !.Lsv = 3], [p EXCEPT !.Lsv = 2] }

\* Well formed payloads, one entry to a setting, as the tools write them.
GoodPackets ==
  { Svd(<< One(a, new) >>), Svd(<< One(a, new), One(b, newer) >>),
    Svd(<< One(a, new), One(a, newer) >>), Svd(<< >>),
    Svd(<< Bad("corrupt"), One(b, new) >>) }

\* Payloads whose first setting is good and whose second is not.
PartlyBadPackets ==
  { Svd(<< One(a, new), Bad(k) >>) : k \in {"badxml", "badb64"} }

MCPackets == BadHeaders \union GoodPackets \union {Svd(<< Bad("badb64"), One(b, new) >>)}
MCAllPackets == MCPackets \union PartlyBadPackets
MCMenuPackets == {Svd(<< Bad("corrupt"), One(a, new) >>), [Svd(<< >>) EXCEPT !.xml = FALSE]}
=============================================================================
