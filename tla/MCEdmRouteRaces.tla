-------------------------- MODULE MCEdmRouteRaces --------------------------
(***************************************************************************)
(* EdmRouteRaces with two requests in flight on routes of two stages: two  *)
(* parallel ones under each policy, or one after the other.                *)
(***************************************************************************)
EXTENDS EdmRouteRaces, TLC

CONSTANTS s1, s2, r1, r2

MCStages   == {s1, s2}
MCRequests == {r1, r2}
MCSymmetry == Permutations(MCRequests)

Plan(policy, second) ==
  [policy |-> policy, order |-> (s1 :> 1 @@ s2 :> second), group |-> (s1 :> 0 @@ s2 :> 0)]

MCPlans ==
  {Plan("parallel_all_of", 1), Plan("parallel_any_of", 1), Plan("sequential", 2)}
=============================================================================
