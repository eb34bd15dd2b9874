-------------------------- MODULE MCCallSignaling --------------------------
(***************************************************************************)
(* CallSignaling with a user who has one tab and a user who has two.       *)
(***************************************************************************)
EXTENDS CallSignaling, TLC

CONSTANTS ann, bob, a1, b1, b2, h1, h2

MCUsers    == {ann, bob}
MCSockets  == {a1, b1, b2}
MCUserOf   == [s \in MCSockets |-> IF s = a1 THEN ann ELSE bob]
MCHandlers == {h1, h2}
MCSymmetry == Permutations({b1, b2}) \cup Permutations(MCHandlers)
=============================================================================
