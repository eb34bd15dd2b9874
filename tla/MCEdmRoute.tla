----------------------------- MODULE MCEdmRoute -----------------------------
(***************************************************************************)
(* EdmRoute on up to three stages and two submissions.  Up to the names of *)
(* the stages the shapes below are every way to put at most three stages   *)
(* in at most two orders that the engine can tell apart: groups matter in  *)
(* the lowest order only, where they are equal or not.                     *)
(***************************************************************************)
EXTENDS EdmRoute, TLC

CONSTANTS s1, s2, s3

MCStages == {s1, s2, s3}

\* Each shape gives a stage its order and its group.
Shapes ==
  { (s1 :> <<1, 0>>),
    (s1 :> <<1, 0>> @@ s2 :> <<1, 0>>),
    (s1 :> <<1, 1>> @@ s2 :> <<1, 2>>),
    (s1 :> <<1, 0>> @@ s2 :> <<2, 0>>),
    (s1 :> <<1, 0>> @@ s2 :> <<1, 0>> @@ s3 :> <<2, 0>>),
    (s1 :> <<1, 1>> @@ s2 :> <<1, 2>> @@ s3 :> <<2, 0>>),
    (s1 :> <<1, 0>> @@ s2 :> <<2, 0>> @@ s3 :> <<2, 0>>) }

MCPlans ==
  { [policy |-> p,
     order  |-> [s \in DOMAIN shape |-> shape[s][1]],
     group  |-> [s \in DOMAIN shape |-> shape[s][2]]] :
    p \in Policies, shape \in Shapes }
=============================================================================
