------------------------------ MODULE EdmRoute ------------------------------
(***************************************************************************)
(* The life of one EDM document and of every route it is sent on, with the *)
(* requests served one after the other (EdmRouteRaces lets them overlap).  *)
(*                                                                         *)
(*   doc      the edm_documents row: its status, the version its           *)
(*            current_route_id points to (0: none), and whether it has an  *)
(*            external number.  The verdict dates only go into reports.    *)
(*   routes   the edm_document_routes rows in the order of version_no,     *)
(*            each with its plan and the state of each of its stages.      *)
(*   actions  the edm_stage_actions rows that close a stage, as the set of *)
(*            (route, stage, action) they speak of; comments are left out. *)
(*                                                                         *)
(* Two documents share only the numbering sequence (EdmRegistration).      *)
(* Who acts is left out: the administrator roles pass every scope and      *)
(* assignee check, so those checks never remove a step, only some of the   *)
(* actors that may take it.                                                *)
(***************************************************************************)
EXTENDS RouteEngine, Sequences

CONSTANTS Plans,         \* the plans authors submit
          MaxVersions    \* bound: submissions of one document

ASSUME RouteAssumption ==
  /\ MaxVersions \in Nat
  /\ \A plan \in Plans : IsPlan(plan)

VARIABLES doc, routes, actions

vars == <<doc, routes, actions>>

DocStatuses ==
  {"draft", "in_route", "approved", "rejected", "returned_for_revision",
   "archived"}

StageVerdicts == {"approved", "rejected", "returned_for_revision"}
ActionKinds   == StageVerdicts \cup
                 {"override_approved", "override_rejected"}

Document ==
  [status : DocStatuses, current : 0 .. MaxVersions, numbered : BOOLEAN]

NewDocument ==
  [status |-> "draft", current |-> 0, numbered |-> FALSE]

ActionRow(v, s, action) == [route |-> v, stage |-> s, action |-> action]

-----------------------------------------------------------------------------
Init ==
  /\ doc = NewDocument
  /\ routes = << >>
  /\ actions = {}

NewRoute(plan, first) ==
  [plan |-> plan, state |-> "active", overridden |-> FALSE,
   stage |-> OpeningStages(plan, first)]

\* Bug: a rejected document may be submitted again.
SubmitRejectedToo(plan, first) ==
  /\ doc.status \in {"draft", "returned_for_revision", "rejected"}
  /\ Len(routes) < MaxVersions
  /\ first \in Lowest(plan, StagesOf(plan))
  /\ routes' = Append(routes, NewRoute(plan, first))
  /\ doc' = [status |-> "in_route", current |-> Len(routes) + 1, numbered |-> TRUE]
  /\ UNCHANGED actions

SubmitToRoute(plan, first) ==
  /\ doc.status \in {"draft", "returned_for_revision"}
  /\ Len(routes) < MaxVersions
  /\ first \in Lowest(plan, StagesOf(plan))
  /\ routes' = Append(routes, NewRoute(plan, first))
  /\ doc' = [status |-> "in_route", current |-> Len(routes) + 1, numbered |-> TRUE]
  /\ UNCHANGED actions

-----------------------------------------------------------------------------
(***************************************************************************)
(* executeStageAction: the stage must be on the document's current route   *)
(* and still open.  Neither the document, nor the route, nor the order of  *)
(* the stage is asked.                                                     *)
(***************************************************************************)
Current == routes[doc.current]

\* Bug: the state of the stage is not asked.
ActionableEvenClosed(s) ==
  /\ doc.current # 0
  /\ s \in StagesOf(Current.plan)

Actionable(s) ==
  /\ doc.current # 0
  /\ s \in StagesOf(Current.plan)
  /\ Current.stage[s] \in OpenStates

Record(s, action) == actions' = actions \cup {ActionRow(doc.current, s, action)}

CommentStage(s) ==
  /\ Actionable(s)
  /\ routes' = [routes EXCEPT ![doc.current].stage[s] = "in_progress"]
  /\ UNCHANGED <<doc, actions>>

\* Bug: the rejection reaches the document but not the route.
RejectDocumentOnly(s) ==
  /\ Actionable(s)
  /\ routes' = [routes EXCEPT ![doc.current].stage[s] = "rejected"]
  /\ doc' = [doc EXCEPT !.status = "rejected"]
  /\ Record(s, "rejected")

RejectStage(s) ==
  /\ Actionable(s)
  /\ routes' = [routes EXCEPT ![doc.current].stage[s] = "rejected",
                              ![doc.current].state = "rejected"]
  /\ doc' = [doc EXCEPT !.status = "rejected"]
  /\ Record(s, "rejected")

\* Bug: the action's name is stored as the state of the stage.
ReturnUnmapped(s) ==
  /\ Actionable(s)
  /\ routes' = [routes EXCEPT ![doc.current].stage[s] = "returned_for_revision",
                              ![doc.current].state = "returned"]
  /\ doc' = [doc EXCEPT !.status = "returned_for_revision"]
  /\ Record(s, "returned_for_revision")

ReturnStage(s) ==
  /\ Actionable(s)
  /\ routes' = [routes EXCEPT ![doc.current].stage[s] = "returned",
                              ![doc.current].state = "returned"]
  /\ doc' = [doc EXCEPT !.status = "returned_for_revision"]
  /\ Record(s, "returned_for_revision")

ApproveStage(s) ==
  LET plan     == Current.plan
      approved == [Current.stage EXCEPT ![s] = "approved"]
      done     == Completes(plan, approved, s)
  IN  /\ Actionable(s)
      /\ routes' = [routes EXCEPT
                      ![doc.current].stage = AfterApproval(plan, approved, s),
                      ![doc.current].state = IF done THEN "completed" ELSE @]
      /\ doc' = IF done THEN [doc EXCEPT !.status = "approved"] ELSE doc
      /\ Record(s, "approved")

-----------------------------------------------------------------------------
(***************************************************************************)
(* override: any document that has a route, in any status.                 *)
(***************************************************************************)
Override(routeState, verdict, action) ==
  /\ doc.current # 0
  /\ routes' = [routes EXCEPT ![doc.current].state = routeState,
                              ![doc.current].overridden = TRUE,
                              ![doc.current].stage = SkipAll(@)]
  /\ doc' = [doc EXCEPT !.status = verdict]
  /\ actions' = actions \cup
       { ActionRow(doc.current, s, action) : s \in OpenIn(Current.stage) }

ForceApprove ==
  Override("completed", "approved", "override_approved")

ForceReject ==
  Override("rejected", "rejected", "override_rejected")

Archive ==
  /\ doc.status = "approved"
  /\ doc' = [doc EXCEPT !.status = "archived"]
  /\ UNCHANGED <<routes, actions>>

\* registerDocument gives an incoming or outgoing document its number early.
RegisterDocument ==
  /\ ~doc.numbered
  /\ doc' = [doc EXCEPT !.numbered = TRUE]
  /\ UNCHANGED <<routes, actions>>

StageAction ==
  \E s \in Stages : CommentStage(s) \/ RejectStage(s) \/ ReturnStage(s) \/ ApproveStage(s)

Next ==
  \/ \E plan \in Plans : \E first \in StagesOf(plan) : SubmitToRoute(plan, first)
  \/ StageAction
  \/ ForceApprove
  \/ ForceReject
  \/ Archive
  \/ RegisterDocument

Spec == Init /\ [][Next]_vars

-----------------------------------------------------------------------------
(***************************************************************************)
(* Every variable holds a value the database columns can hold: the routes  *)
(* are numbered without a gap and current_route_id points to one of them.  *)
(***************************************************************************)
Route ==
  UNION { [plan : {plan}, state : RouteStates, overridden : BOOLEAN,
           stage : StageMaps(plan)] : plan \in Plans }

TypeOK ==
  /\ doc \in Document
  /\ routes \in Seq(Route)
  /\ Len(routes) <= MaxVersions
  /\ actions \subseteq [route : 1 .. Len(routes), stage : Stages, action : ActionKinds]

(***************************************************************************)
(* The document and its current route never disagree: the two rows are     *)
(* written by the same handlers and each of them moves both.  The current  *)
(* route is always the latest one, and no earlier route is left running.   *)
(***************************************************************************)
VerdictOf ==
  [active |-> {"in_route"}, completed |-> {"approved", "archived"},
   rejected |-> {"rejected"}, returned |-> {"returned_for_revision"}]

DocumentMatchesRoute ==
  /\ doc.current = Len(routes)
  /\ doc.current = 0 => doc.status = "draft"
  /\ doc.current # 0 => doc.status \in VerdictOf[Current.state]
  /\ \A v \in 1 .. Len(routes) - 1 : routes[v].state = "returned"

(***************************************************************************)
(* An approved or archived document has no stage left that a person could  *)
(* still act on.  executeStageAction does not look at the document's       *)
(* status, so this is all that keeps a later verdict from undoing an       *)
(* approval.                                                               *)
(***************************************************************************)
ApprovedIsSettled ==
  doc.status \in {"approved", "archived"} => OpenIn(Current.stage) = {}

(***************************************************************************)
(* A document is approved by a person: the current route was overridden,   *)
(* or someone approved one of its stages; and unless the policy is any_of  *)
(* every stage got a verdict of its own, none was skipped by the engine.   *)
(***************************************************************************)
Decided(r) == { s \in DOMAIN r.stage : r.stage[s] \in {"approved", "rejected", "returned"} }

ApprovalIsBacked ==
  /\ doc.status \in {"approved", "archived"}
  /\ ~Current.overridden
  => /\ \E s \in DOMAIN Current.stage : Current.stage[s] = "approved"
     /\ Current.plan.policy # "parallel_any_of" =>
          Decided(Current) = DOMAIN Current.stage

(***************************************************************************)
(* The audit trail explains every stage: a stage has a verdict exactly     *)
(* when the trail has a row with that verdict, and only one verdict.       *)
(***************************************************************************)
StateOfVerdict ==
  [approved |-> "approved", rejected |-> "rejected",
   returned_for_revision |-> "returned"]

AuditMatchesStages ==
  \A v \in 1 .. Len(routes) : \A s \in DOMAIN routes[v].stage :
    \A k \in StageVerdicts :
      routes[v].stage[s] = StateOfVerdict[k] <=> ActionRow(v, s, k) \in actions

(***************************************************************************)
(* The audit trail backs an approval: it explains every stage of every     *)
(* route, also of the routes that were replaced, and a document is not     *)
(* approved unless the stages so explained, or an override, approved it.   *)
(***************************************************************************)
AuditBacksApproval == AuditMatchesStages /\ ApprovalIsBacked

(***************************************************************************)
(* While a document is in route, somebody is asked: the approvals inbox    *)
(* (findMyApprovals) lists running stages only, so a route whose open      *)
(* stages are all pending would wait on nobody.  It holds for every plan   *)
(* but the parallel_all_of plans that put two groups in one order, where   *)
(* submitToRoute opens one group and nothing ever opens the other.         *)
(***************************************************************************)
OneGroupPerOrder(plan) ==
  \A s, t \in StagesOf(plan) :
    plan.order[s] = plan.order[t] => plan.group[s] = plan.group[t]

Asked(r) == \E s \in DOMAIN r.stage : r.stage[s] = "in_progress"

SomebodyIsAsked ==
  doc.status = "in_route" =>
    \/ Asked(Current)
    \/ /\ Current.plan.policy = "parallel_all_of"
       /\ ~OneGroupPerOrder(Current.plan)

(***************************************************************************)
(* History is never rewritten: a route that was replaced does not change,  *)
(* and a stage that is closed stays as it was closed.                      *)
(***************************************************************************)
HistoryIsKept ==
  [][\A v \in 1 .. Len(routes) :
       /\ v < doc.current => routes'[v] = routes[v]
       /\ \A s \in DOMAIN routes[v].stage :
            routes[v].stage[s] \notin OpenStates =>
              routes'[v].stage[s] = routes[v].stage[s]]_vars

(***************************************************************************)
(* The document keeps the promise its clients see: EdmLifecycle.           *)
(***************************************************************************)
Lifecycle == INSTANCE EdmLifecycle
               WITH status <- doc.status, version <- doc.current, numbered <- doc.numbered

KeepsLifecycle == Lifecycle!LifecycleSpec

-----------------------------------------------------------------------------
(***************************************************************************)
(* What the documentation says of a route, and the code does not do.       *)
(***************************************************************************)

(***************************************************************************)
(* In a sequential route a stage is started only after every stage of a    *)
(* smaller order was closed.                                               *)
(***************************************************************************)
SequentialOrder ==
  \A v \in 1 .. Len(routes) :
    LET r == routes[v] IN
    r.plan.policy = "sequential" =>
      \A s, t \in DOMAIN r.stage :
        /\ r.plan.order[s] < r.plan.order[t]
        /\ r.stage[t] \in {"in_progress", "approved", "rejected", "returned"}
        => r.stage[s] \notin OpenStates

(***************************************************************************)
(* any_of, "one approval is enough": on an active route, when a stage is   *)
(* approved in its turn, that is, with no stage of a smaller order open,   *)
(* no stage of its order is left waiting.                                  *)
(***************************************************************************)
OneApprovalIsEnough ==
  [][\A v \in 1 .. Len(routes) : \A s, t \in DOMAIN routes[v].stage :
       LET r == routes[v] IN
       /\ r.plan.policy = "parallel_any_of" /\ r.state = "active"
       /\ \A u \in OpenIn(r.stage) : r.plan.order[u] >= r.plan.order[s]
       /\ r.stage[s] # "approved" /\ routes'[v].stage[s] = "approved"
       /\ r.plan.order[s] = r.plan.order[t]
       => routes'[v].stage[t] \notin OpenStates]_vars

(***************************************************************************)
(* all_of, "all assignees must approve": a route that completed without    *)
(* an override has every stage approved.                                   *)
(***************************************************************************)
AllAssigneesApproved ==
  \A v \in 1 .. Len(routes) :
    LET r == routes[v] IN
    r.plan.policy = "parallel_all_of" /\ r.state = "completed" /\ ~r.overridden =>
      \A s \in DOMAIN r.stage : r.stage[s] = "approved"
=============================================================================
