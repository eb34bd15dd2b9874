------------------------- MODULE MCEdmRegistration -------------------------
(***************************************************************************)
(* EdmRegistration with two documents and two requests in flight, over   *)
(* one type that is registered in the journal and one that is not.         *)
(***************************************************************************)
EXTENDS EdmRegistration, TLC

CONSTANTS d1, d2, r1, r2

MCDocuments == {d1, d2}
MCRequests  == {r1, r2}
MCSymmetry  == Permutations(MCDocuments) \cup Permutations(MCRequests)
=============================================================================
