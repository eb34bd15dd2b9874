----------------------------- MODULE RouteEngine -----------------------------
(***************************************************************************)
(* The pure part of the EDM route engine: which stages a submitted route   *)
(* opens, and what one stage decision does to the stages of its route.     *)
(* It has no state of its own; EdmRoute (requests one at a time) and       *)
(* EdmRouteRaces (requests that overlap) both build their steps from it.   *)
(*                                                                         *)
(* A plan is what the author submits: a completion policy and, for every   *)
(* stage, the order and the group it is put in.  The assignee, the type    *)
(* and the deadline of a stage are left out: they decide who may act on    *)
(* it, never what the action does, and an administrator passes             *)
(* assertStageAssignee on every stage.                                     *)
(***************************************************************************)
EXTENDS Integers, FiniteSets

CONSTANT Stages        \* the stage slots a plan may use

ASSUME StagesAssumption == IsFiniteSet(Stages)

Policies == {"sequential", "parallel_all_of", "parallel_any_of"}

StageStates ==
  {"pending", "in_progress", "approved", "rejected", "returned", "skipped"}
OpenStates  == {"pending", "in_progress"}

RouteStates == {"active", "completed", "rejected", "returned"}

StagesOf(plan) == DOMAIN plan.order

\* submitToRoute accepts any plan with at least one stage.
IsPlan(plan) ==
  /\ plan.policy \in Policies
  /\ StagesOf(plan) \in (SUBSET Stages) \ {{}}
  /\ plan.order \in [StagesOf(plan) -> Int]
  /\ plan.group \in [StagesOf(plan) -> Int]

\* The states its stages may be in.
StageMaps(plan) == [StagesOf(plan) -> StageStates]

\* The stages of T that have the smallest order among T.
Lowest(plan, T) == { s \in T : \A t \in T : plan.order[s] <= plan.order[t] }

-----------------------------------------------------------------------------
(***************************************************************************)
(* submitToRoute sorts the stages by order.  The sort is stable, so which  *)
(* of the lowest stages comes first is the author's choice: "first".       *)
(***************************************************************************)
\* Bug: the group is asked in a sequential route too.
FirstHopGroupAlways(plan, first) ==
  { s \in Lowest(plan, StagesOf(plan)) : plan.group[s] = plan.group[first] }

FirstHop(plan, first) ==
  { s \in Lowest(plan, StagesOf(plan)) :
      \/ plan.policy = "sequential"
      \/ plan.group[s] = plan.group[first] }

OpeningStages(plan, first) ==
  [s \in StagesOf(plan) |->
     IF s \in FirstHop(plan, first) THEN "in_progress" ELSE "pending"]

-----------------------------------------------------------------------------
OpenIn(stage) == { s \in DOMAIN stage : stage[s] \in OpenStates }

(***************************************************************************)
(* applyRouteProgress after an approval, when "stage" already holds the    *)
(* approved state of stage s.  The level the engine calls current is the   *)
(* lowest order that still has a pending, running or approved stage.       *)
(***************************************************************************)
CurrentLevel(plan, stage) ==
  LET counted == { t \in StagesOf(plan) :
                     stage[t] \in OpenStates \cup {"approved"} }
      lowest  == Lowest(plan, counted)
  IN  { t \in StagesOf(plan) : \E u \in lowest : plan.order[t] = plan.order[u] }

\* parallel_any_of: the other open stages of the current level are skipped.
SkipSiblings(plan, stage, s) ==
  [t \in StagesOf(plan) |->
     IF /\ plan.policy = "parallel_any_of"
        /\ t # s
        /\ t \in CurrentLevel(plan, stage) \cap OpenIn(stage)
     THEN "skipped" ELSE stage[t]]

\* The other policies wait while the current level has an open stage.
Waits(plan, stage) ==
  /\ plan.policy # "parallel_any_of"
  /\ CurrentLevel(plan, stage) \cap OpenIn(stage) # {}

\* Otherwise the pending stages of the next order are opened.
OpenNext(plan, stage) ==
  [t \in StagesOf(plan) |->
     IF t \in Lowest(plan, OpenIn(stage)) THEN "in_progress" ELSE stage[t]]

AfterApproval(plan, stage, s) ==
  IF Waits(plan, stage)
  THEN stage
  ELSE OpenNext(plan, SkipSiblings(plan, stage, s))

\* Bug: a route with nothing running is taken for finished.
CompletesWhenNoneRuns(plan, stage, s) ==
  \A t \in StagesOf(plan) : SkipSiblings(plan, stage, s)[t] # "in_progress"

\* The route completes when the engine does not wait and nothing is left open.
Completes(plan, stage, s) ==
  /\ ~Waits(plan, stage)
  /\ OpenIn(SkipSiblings(plan, stage, s)) = {}

\* Bug: the filter on open stages is missing.
SkipEveryStage(stage) == [s \in DOMAIN stage |-> "skipped"]

\* override closes whatever is still open.
SkipAll(stage) ==
  [s \in DOMAIN stage |-> IF stage[s] \in OpenStates THEN "skipped" ELSE stage[s]]
=============================================================================
