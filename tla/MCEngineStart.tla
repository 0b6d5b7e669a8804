--------------------------- MODULE MCEngineStart ---------------------------
(***************************************************************************)
(* One proxy and two commands, one valid policy text and one that does not *)
(* validate, two key pairs and two key files; the seconds and the          *)
(* commands that break off are in the .cfg.                                *)
(***************************************************************************)
EXTENDS EngineStart, TLC

CONSTANTS a, bad, k1, k2, c1, c2, p1, p2

MCContents == {a, bad}
MCInvalid  == {bad}
MCKeys     == {k1, k2}
MCClis     == {c1, c2}
OneCli     == {c1}
OnePath    == {p1}
TwoPaths   == {p1, p2}

Names == Permutations(MCClis) \cup Permutations(MCKeys)

=============================================================================
