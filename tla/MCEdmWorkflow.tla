---------------------------- MODULE MCEdmWorkflow ----------------------------
(***************************************************************************)
(* The second EDM for TLC: EdmWorkflow with an owner, two reviewers of     *)
(* whom one is also the only approver, and two requests in flight, or      *)
(* EdmVersions with two saves in flight.  The two share no variable, so a  *)
(* behaviour is of one of them, which part chooses, and the states add up  *)
(* instead of multiplying.                                                 *)
(***************************************************************************)
EXTENDS EdmWorkflow, EdmVersions, TLC

CONSTANTS own, rev, app, r1, r2, s1, s2

VARIABLE part

MCUsers     == {own, rev, app}
MCReviewers == {rev, app}
MCApprovers == {app}
MCRequests  == {r1, r2}
MCSavers    == {s1, s2}
MCSymmetry  == Permutations(MCRequests)

MCInit ==
  /\ part \in {"workflow", "versions"}
  /\ Init
  /\ VersionsInit
  /\ part = "workflow" => saver[s1] # Resting

MCNext ==
  /\ UNCHANGED part
  /\ \/ part = "workflow" /\ Next /\ UNCHANGED versions
     \/ part = "versions" /\ VersionsNext /\ UNCHANGED vars

MCSpec == MCInit /\ [][MCNext]_<<vars, versions, part>>

\* The types of both parts.
SecondEdmTypeOK == TypeOK /\ VersionsTypeOK
=============================================================================
