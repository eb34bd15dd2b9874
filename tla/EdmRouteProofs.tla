--------------------------- MODULE EdmRouteProofs ---------------------------
(***************************************************************************)
(* Theorems about EdmRoute for any set of stages, any plans and any number *)
(* of submissions: type correctness, the agreement of a document with its  *)
(* current route, the settledness of an approved document, the refinement  *)
(* of EdmLifecycle, which rests on the three of them, the audit trail that *)
(* backs every approval, the history that is never written again, and that *)
(* a document in route is on somebody's desk.                              *)
(***************************************************************************)
EXTENDS EdmRoute, FiniteSetTheorems, WellFoundedInduction, TLAPS

-----------------------------------------------------------------------------
(***************************************************************************)
(* What the engine's operators return.                                     *)
(***************************************************************************)

\* Opening, skipping and closing stages keeps a stage map a stage map.
LEMMA OpeningType ==
  ASSUME NEW plan, NEW first
  PROVE  OpeningStages(plan, first) \in StageMaps(plan)
BY DEF OpeningStages, StageMaps, StageStates

LEMMA SkipType ==
  ASSUME NEW plan, NEW stage \in StageMaps(plan), NEW s
  PROVE  SkipSiblings(plan, stage, s) \in StageMaps(plan)
BY DEF SkipSiblings, StageMaps, StageStates

LEMMA AfterApprovalType ==
  ASSUME NEW plan, NEW stage \in StageMaps(plan), NEW s
  PROVE  AfterApproval(plan, stage, s) \in StageMaps(plan)
<1>1. SkipSiblings(plan, stage, s) \in StageMaps(plan)
  BY SkipType
<1>2. OpenNext(plan, SkipSiblings(plan, stage, s)) \in StageMaps(plan)
  BY <1>1 DEF OpenNext, StageMaps, StageStates
<1>3. QED
  BY <1>2 DEF AfterApproval

LEMMA SkipAllType ==
  ASSUME NEW plan, NEW stage \in StageMaps(plan)
  PROVE  /\ SkipAll(stage) \in StageMaps(plan)
         /\ OpenIn(SkipAll(stage)) = {}
BY DEF SkipAll, OpenIn, OpenStates, StageMaps, StageStates

\* When the engine completes a route, it leaves no stage open.
LEMMA CompletedIsClosed ==
  ASSUME NEW plan, NEW stage \in StageMaps(plan), NEW s,
         Completes(plan, stage, s)
  PROVE  OpenIn(AfterApproval(plan, stage, s)) = {}
<1> DEFINE skipped == SkipSiblings(plan, stage, s)
<1>1. /\ ~Waits(plan, stage)
      /\ OpenIn(skipped) = {}
  BY DEF Completes
<1>2. skipped \in StageMaps(plan)
  BY SkipType
<1>3. Lowest(plan, OpenIn(skipped)) = {}
  BY <1>1 DEF Lowest
<1>4. OpenNext(plan, skipped) = skipped
  BY <1>2, <1>3 DEF OpenNext, StageMaps
<1>5. QED
  BY <1>1, <1>4 DEF AfterApproval

-----------------------------------------------------------------------------
(***************************************************************************)
(* The inductive invariant.  ApprovedIsSettled needs the agreement with    *)
(* the current route, and the agreement needs ApprovedIsSettled: without   *)
(* it a stage left open on an approved document could reject its route.    *)
(***************************************************************************)
Inv == TypeOK /\ DocumentMatchesRoute /\ ApprovedIsSettled

LEMMA InitInv == Init => Inv
BY RouteAssumption
DEF Init, Inv, TypeOK, DocumentMatchesRoute, ApprovedIsSettled, NewDocument,
    Document, DocStatuses

\* A routed document is not a draft, and its current route is a row.
LEMMA RoutedFacts ==
  ASSUME Inv, doc.current # 0
  PROVE  /\ doc.current \in 1 .. Len(routes)
         /\ Current \in Route
         /\ Current.plan \in Plans
         /\ Current.stage \in StageMaps(Current.plan)
         /\ doc.status # "draft"
BY DEF Inv, TypeOK, DocumentMatchesRoute, Current, Document, Route, VerdictOf,
       RouteStates

(***************************************************************************)
(* Every handler but submit and register rewrites the current route and    *)
(* the status of the document.  Such a step keeps the invariant if the new *)
(* status is the verdict of the new route state, and an approving one      *)
(* leaves no stage open.                                                   *)
(***************************************************************************)
LEMMA RouteStep ==
  ASSUME Inv, doc.current # 0,
         NEW r \in Route,
         NEW status \in DocStatuses,
         routes' = [routes EXCEPT ![doc.current] = r],
         doc' = [doc EXCEPT !.status = status],
         status \in VerdictOf[r.state],
         status \in {"approved", "archived"} => OpenIn(r.stage) = {},
         actions' \subseteq [route : 1 .. Len(routes), stage : Stages, action : ActionKinds]
  PROVE  Inv'
<1>1. doc.current = Len(routes) /\ doc.current \in 1 .. Len(routes)
  BY RoutedFacts DEF Inv, DocumentMatchesRoute
<1>2. /\ routes' \in Seq(Route)
      /\ Len(routes') = Len(routes)
      /\ routes'[doc.current] = r
      /\ \A v \in 1 .. Len(routes) - 1 : routes'[v] = routes[v]
  BY <1>1 DEF Inv, TypeOK
<1>3. /\ doc' \in Document
      /\ doc'.status = status
      /\ doc'.current = doc.current
  BY DEF Inv, TypeOK, Document
<1>4. TypeOK'
  BY <1>2, <1>3 DEF Inv, TypeOK
<1>5. DocumentMatchesRoute'
  BY <1>1, <1>2, <1>3 DEF Inv, DocumentMatchesRoute, Current
<1>6. ApprovedIsSettled'
  BY <1>2, <1>3 DEF ApprovedIsSettled, Current
<1>7. QED
  BY <1>4, <1>5, <1>6 DEF Inv

-----------------------------------------------------------------------------
\* A route is its four fields, and any four typed fields are a route.
MakeRoute(plan, state, flag, stage) ==
  [plan |-> plan, state |-> state, overridden |-> flag, stage |-> stage]

LEMMA RouteFields ==
  ASSUME NEW r \in Route
  PROVE  /\ r.plan \in Plans
         /\ r.state \in RouteStates
         /\ r.overridden \in BOOLEAN
         /\ r.stage \in StageMaps(r.plan)
         /\ r = MakeRoute(r.plan, r.state, r.overridden, r.stage)
<1>1. PICK plan \in Plans :
        r \in [plan : {plan}, state : RouteStates, overridden : BOOLEAN,
               stage : StageMaps(plan)]
  BY DEF Route
<1>2. r.plan = plan
  BY <1>1
<1>3. QED
  BY <1>1, <1>2 DEF MakeRoute

LEMMA MakeRouteType ==
  ASSUME NEW plan \in Plans, NEW state \in RouteStates, NEW flag \in BOOLEAN,
         NEW stage \in StageMaps(plan)
  PROVE  MakeRoute(plan, state, flag, stage) \in Route
<1>1. MakeRoute(plan, state, flag, stage) \in
        [plan : {plan}, state : RouteStates, overridden : BOOLEAN, stage : StageMaps(plan)]
  BY DEF MakeRoute
<1>2. QED
  BY <1>1 DEF Route

\* A verdict rewrites the stages and the state of a route.
LEMMA RouteDecided ==
  ASSUME NEW r \in Route, NEW state, NEW stage, NEW q,
         q = [r EXCEPT !.stage = stage, !.state = state]
  PROVE  q = MakeRoute(r.plan, state, r.overridden, stage)
<1>1. PICK plan \in Plans :
        r \in [plan : {plan}, state : RouteStates, overridden : BOOLEAN,
               stage : StageMaps(plan)]
  BY DEF Route
<1>2. r.plan = plan
  BY <1>1
<1>3. q = [plan |-> plan, state |-> state, overridden |-> r.overridden, stage |-> stage]
  BY <1>1
<1>4. QED
  BY <1>2, <1>3 DEF MakeRoute

\* An override marks the route as well.
LEMMA RouteOverridden ==
  ASSUME NEW r \in Route, NEW state, NEW stage, NEW q,
         q = [r EXCEPT !.state = state, !.overridden = TRUE, !.stage = stage]
  PROVE  q = MakeRoute(r.plan, state, TRUE, stage)
<1>1. PICK plan \in Plans :
        r \in [plan : {plan}, state : RouteStates, overridden : BOOLEAN,
               stage : StageMaps(plan)]
  BY DEF Route
<1>2. r.plan = plan
  BY <1>1
<1>3. q = [plan |-> plan, state |-> state, overridden |-> TRUE, stage |-> stage]
  BY <1>1
<1>4. QED
  BY <1>2, <1>3 DEF MakeRoute

\* What an audit row may be.
LEMMA RecordType ==
  ASSUME Inv, doc.current # 0, NEW s \in Stages, NEW k \in ActionKinds, Record(s, k)
  PROVE  actions' \subseteq [route : 1 .. Len(routes), stage : Stages, action : ActionKinds]
BY RoutedFacts DEF Record, ActionRow, Inv, TypeOK

\* An actionable stage is on the current route of a document that is
\* neither approved nor archived.
LEMMA ActionableFacts ==
  ASSUME Inv, NEW s \in Stages, Actionable(s)
  PROVE  /\ doc.current # 0
         /\ s \in DOMAIN Current.stage
         /\ s \in StagesOf(Current.plan)
         /\ doc.status \in {"in_route", "rejected", "returned_for_revision"}
<1>1. doc.current # 0 /\ s \in StagesOf(Current.plan) /\ Current.stage[s] \in OpenStates
  BY DEF Actionable
<1>2. s \in DOMAIN Current.stage
  BY <1>1, RoutedFacts DEF StageMaps
<1>3. s \in OpenIn(Current.stage)
  BY <1>1, <1>2 DEF OpenIn
<1>4. doc.status \notin {"approved", "archived"}
  BY <1>3 DEF Inv, ApprovedIsSettled
<1>5. doc.status \in DocStatuses /\ doc.status # "draft"
  BY <1>1, RoutedFacts DEF Inv, TypeOK, Document
<1>6. QED
  BY <1>1, <1>2, <1>4, <1>5 DEF DocStatuses

LEMMA SubmitInv ==
  ASSUME Inv, NEW plan \in Plans, NEW first, SubmitToRoute(plan, first)
  PROVE  Inv'
<1> DEFINE r == NewRoute(plan, first)
<1>1. r \in Route /\ r.state = "active"
  BY OpeningType DEF NewRoute, Route, RouteStates
<1>2. routes' = Append(routes, r) /\ routes \in Seq(Route) /\ Len(routes) < MaxVersions
  BY DEF SubmitToRoute, Inv, TypeOK
<1>3. /\ routes' \in Seq(Route)
      /\ Len(routes') = Len(routes) + 1
      /\ routes'[Len(routes) + 1] = r
      /\ \A v \in 1 .. Len(routes) : routes'[v] = routes[v]
  BY <1>1, <1>2
<1>4. doc' = [status |-> "in_route", current |-> Len(routes) + 1, numbered |-> TRUE]
  BY DEF SubmitToRoute
<1>5. MaxVersions \in Nat
  BY RouteAssumption
<1>6. Len(routes) \in Nat
  BY <1>2
<1>7. TypeOK'
  <2>1. doc' \in Document
    BY <1>2, <1>4, <1>5, <1>6 DEF Document, DocStatuses
  <2>2. Len(routes') <= MaxVersions
    BY <1>2, <1>3, <1>5, <1>6
  <2>3. actions' \subseteq [route : 1 .. Len(routes'), stage : Stages, action : ActionKinds]
    BY <1>3, <1>6 DEF SubmitToRoute, Inv, TypeOK
  <2>4. QED
    BY <2>1, <2>2, <2>3, <1>3 DEF TypeOK
<1>8. DocumentMatchesRoute'
  <2>1. \A v \in 1 .. Len(routes) : routes[v].state = "returned"
    <3>1. CASE doc.current = 0
      BY <3>1, <1>6 DEF Inv, DocumentMatchesRoute
    <3>2. CASE doc.current # 0
      <4>1. doc.status = "returned_for_revision"
        BY <3>2, RoutedFacts DEF SubmitToRoute
      <4>2. Current.state = "returned"
        BY <3>2, <4>1, RoutedFacts DEF Inv, DocumentMatchesRoute, VerdictOf, Route, RouteStates
      <4>3. QED
        BY <4>2, <1>6 DEF Inv, DocumentMatchesRoute, Current
    <3>3. QED
      BY <3>1, <3>2
  <2>2. \A v \in 1 .. Len(routes') - 1 : routes'[v].state = "returned"
    BY <2>1, <1>3, <1>6
  <2>3. Current' = r
    BY <1>3, <1>4 DEF Current
  <2>4. QED
    BY <2>2, <2>3, <1>1, <1>3, <1>4, <1>6 DEF DocumentMatchesRoute, VerdictOf
<1>9. ApprovedIsSettled'
  BY <1>4 DEF ApprovedIsSettled
<1>10. QED
  BY <1>7, <1>8, <1>9 DEF Inv

\* A comment, a rejection and a return change one stage, and the last two
\* end the route with their verdict.
LEMMA CommentInv ==
  ASSUME Inv, NEW s \in Stages, CommentStage(s)
  PROVE  Inv'
<1> DEFINE stage == [Current.stage EXCEPT ![s] = "in_progress"]
           r     == [Current EXCEPT !.stage = stage]
<1>1. doc.current # 0 /\ Current \in Route /\ doc.current \in 1 .. Len(routes)
  BY ActionableFacts, RoutedFacts DEF CommentStage
<1>2. stage \in StageMaps(Current.plan)
  BY <1>1, RoutedFacts DEF StageMaps, StageStates
<1>3. r \in Route /\ r.state = Current.state
  BY <1>1, <1>2 DEF Route
<1>4. routes' = [routes EXCEPT ![doc.current] = r]
  BY <1>1 DEF CommentStage, Current
<1>5. doc' = [doc EXCEPT !.status = doc.status] /\ doc.status \in DocStatuses
  BY DEF CommentStage, Inv, TypeOK, Document
<1>6. doc.status \notin {"approved", "archived"}
  BY ActionableFacts DEF CommentStage
<1>7. doc.status \in VerdictOf[r.state]
  BY <1>1, <1>3 DEF Inv, DocumentMatchesRoute
<1>8. actions' \subseteq [route : 1 .. Len(routes), stage : Stages, action : ActionKinds]
  BY DEF CommentStage, Inv, TypeOK
<1>9. QED
  BY <1>1, <1>3, <1>4, <1>5, <1>6, <1>7, <1>8, RouteStep

LEMMA RejectInv ==
  ASSUME Inv, NEW s \in Stages, RejectStage(s)
  PROVE  Inv'
<1>0. PICK stage : stage = [Current.stage EXCEPT ![s] = "rejected"]
  OBVIOUS
<1> DEFINE r == MakeRoute(Current.plan, "rejected", Current.overridden, stage)
<1>1. doc.current # 0 /\ Current \in Route /\ doc.current \in 1 .. Len(routes)
  BY ActionableFacts, RoutedFacts DEF RejectStage
<1>2. stage \in StageMaps(Current.plan)
  BY <1>0, <1>1, RoutedFacts DEF StageMaps, StageStates
<1>3. r \in Route /\ r.state = "rejected"
  BY <1>1, <1>2, RouteFields, MakeRouteType DEF RouteStates, MakeRoute
<1>4. routes' = [routes EXCEPT ![doc.current] = r]
  <2>1. PICK q : q = [Current EXCEPT !.stage = stage, !.state = "rejected"]
    OBVIOUS
  <2>2. routes' = [routes EXCEPT ![doc.current] = q]
    BY <1>0, <1>1, <2>1 DEF RejectStage, Current
  <2>3. q = r
    BY <1>1, <2>1, RouteDecided
  <2>4. QED
    BY <2>2, <2>3
<1>5. "rejected" \in DocStatuses /\ "rejected" \in VerdictOf[r.state]
  BY <1>3 DEF DocStatuses, VerdictOf
<1>6. actions' \subseteq [route : 1 .. Len(routes), stage : Stages, action : ActionKinds]
  BY <1>1, RecordType DEF RejectStage, ActionKinds, StageVerdicts
<1>7. doc' = [doc EXCEPT !.status = "rejected"]
  BY DEF RejectStage
<1>8. QED
  BY <1>1, <1>3, <1>4, <1>5, <1>6, <1>7, RouteStep

LEMMA ReturnInv ==
  ASSUME Inv, NEW s \in Stages, ReturnStage(s)
  PROVE  Inv'
<1>0. PICK stage : stage = [Current.stage EXCEPT ![s] = "returned"]
  OBVIOUS
<1> DEFINE r == MakeRoute(Current.plan, "returned", Current.overridden, stage)
<1>1. doc.current # 0 /\ Current \in Route /\ doc.current \in 1 .. Len(routes)
  BY ActionableFacts, RoutedFacts DEF ReturnStage
<1>2. stage \in StageMaps(Current.plan)
  BY <1>0, <1>1, RoutedFacts DEF StageMaps, StageStates
<1>3. r \in Route /\ r.state = "returned"
  BY <1>1, <1>2, RouteFields, MakeRouteType DEF RouteStates, MakeRoute
<1>4. routes' = [routes EXCEPT ![doc.current] = r]
  <2>1. PICK q : q = [Current EXCEPT !.stage = stage, !.state = "returned"]
    OBVIOUS
  <2>2. routes' = [routes EXCEPT ![doc.current] = q]
    BY <1>0, <1>1, <2>1 DEF ReturnStage, Current
  <2>3. q = r
    BY <1>1, <2>1, RouteDecided
  <2>4. QED
    BY <2>2, <2>3
<1>5. /\ "returned_for_revision" \in DocStatuses
      /\ "returned_for_revision" \in VerdictOf[r.state]
  BY <1>3 DEF DocStatuses, VerdictOf
<1>6. actions' \subseteq [route : 1 .. Len(routes), stage : Stages, action : ActionKinds]
  BY <1>1, RecordType DEF ReturnStage, ActionKinds, StageVerdicts
<1>7. doc' = [doc EXCEPT !.status = "returned_for_revision"]
  BY DEF ReturnStage
<1>8. QED
  BY <1>1, <1>3, <1>4, <1>5, <1>6, <1>7, RouteStep

LEMMA ApproveInv ==
  ASSUME Inv, NEW s \in Stages, ApproveStage(s)
  PROVE  Inv'
<1> DEFINE plan     == Current.plan
           approved == [Current.stage EXCEPT ![s] = "approved"]
           done     == Completes(plan, approved, s)
           stage    == AfterApproval(plan, approved, s)
           state    == IF done THEN "completed" ELSE Current.state
           status   == IF done THEN "approved" ELSE doc.status
           r        == MakeRoute(plan, state, Current.overridden, stage)
<1>1. doc.current # 0 /\ Current \in Route /\ doc.current \in 1 .. Len(routes)
  BY ActionableFacts, RoutedFacts DEF ApproveStage
<1>2. approved \in StageMaps(plan)
  BY <1>1, RoutedFacts DEF StageMaps, StageStates
<1>3. stage \in StageMaps(plan)
  BY <1>2, AfterApprovalType
<1>4. r \in Route /\ r.state = state /\ r.stage = stage
  <2>1. state \in RouteStates
    BY <1>1 DEF Route, RouteStates
  <2>2. QED
    BY <2>1, <1>1, <1>3, RouteFields, MakeRouteType DEF MakeRoute
<1>5. routes' = [routes EXCEPT ![doc.current] = r]
  <2>1. PICK q : q = [Current EXCEPT !.stage = stage, !.state = state]
    OBVIOUS
  <2>2. routes' = [routes EXCEPT ![doc.current] = q]
    BY <1>1, <2>1 DEF ApproveStage, Current
  <2>3. q = r
    BY <1>1, <2>1, RouteDecided
  <2>4. QED
    BY <2>2, <2>3
<1>6. doc' = [doc EXCEPT !.status = status] /\ status \in DocStatuses
  BY DEF ApproveStage, Inv, TypeOK, Document, DocStatuses
<1>7. status \in {"approved", "archived"} => OpenIn(r.stage) = {}
  <2>1. CASE done
    BY <2>1, <1>2, <1>4, CompletedIsClosed
  <2>2. CASE ~done
    BY <2>2, ActionableFacts DEF ApproveStage
  <2>3. QED
    BY <2>1, <2>2
<1>8. status \in VerdictOf[r.state]
  <2>1. CASE done
    BY <2>1, <1>4 DEF VerdictOf
  <2>2. CASE ~done
    BY <2>2, <1>1, <1>4 DEF Inv, DocumentMatchesRoute
  <2>3. QED
    BY <2>1, <2>2
<1>9. actions' \subseteq [route : 1 .. Len(routes), stage : Stages, action : ActionKinds]
  BY <1>1, RecordType DEF ApproveStage, ActionKinds, StageVerdicts
<1>10. QED
  BY <1>1, <1>4, <1>5, <1>6, <1>7, <1>8, <1>9, RouteStep

LEMMA OverrideInv ==
  ASSUME Inv,
         NEW state \in RouteStates, NEW verdict \in {"approved", "rejected"},
         NEW action \in ActionKinds,
         verdict \in VerdictOf[state],
         Override(state, verdict, action)
  PROVE  Inv'
<1>0. PICK stage : stage = SkipAll(Current.stage)
  OBVIOUS
<1> DEFINE r == MakeRoute(Current.plan, state, TRUE, stage)
<1>1. doc.current # 0 /\ Current \in Route /\ doc.current \in 1 .. Len(routes)
  BY RoutedFacts DEF Override
<1>2. stage \in StageMaps(Current.plan) /\ OpenIn(stage) = {}
  BY <1>0, <1>1, RoutedFacts, SkipAllType
<1>3. r \in Route /\ r.state = state /\ r.stage = stage
  BY <1>1, <1>2, RouteFields, MakeRouteType DEF MakeRoute
<1>4. routes' = [routes EXCEPT ![doc.current] = r]
  <2>1. PICK q : q = [Current EXCEPT !.state = state, !.overridden = TRUE, !.stage = stage]
    OBVIOUS
  <2>2. routes' = [routes EXCEPT ![doc.current] = q]
    BY <1>0, <1>1, <2>1 DEF Override, Current
  <2>3. q = r
    BY <1>1, <2>1, RouteOverridden
  <2>4. QED
    BY <2>2, <2>3
<1>5. OpenIn(Current.stage) \subseteq Stages
  <2>1. StagesOf(Current.plan) \in SUBSET Stages
    BY <1>1, RoutedFacts, RouteAssumption DEF IsPlan
  <2>2. QED
    BY <2>1, <1>1, RoutedFacts DEF OpenIn, StageMaps
<1>6. actions' \subseteq [route : 1 .. Len(routes), stage : Stages, action : ActionKinds]
  BY <1>1, <1>5 DEF Override, ActionRow, Inv, TypeOK
<1>7. doc' = [doc EXCEPT !.status = verdict] /\ verdict \in DocStatuses
  BY DEF Override, DocStatuses
<1>8. QED
  BY <1>1, <1>2, <1>3, <1>4, <1>6, <1>7, RouteStep

LEMMA ArchiveInv ==
  ASSUME Inv, Archive
  PROVE  Inv'
<1>1. /\ doc' \in Document
      /\ doc'.current = doc.current
      /\ doc.status = "approved" /\ doc'.status = "archived"
  BY DEF Archive, Inv, TypeOK, Document, DocStatuses
<1>2. doc.current # 0 => Current' = Current /\ Current.state \in RouteStates
  BY <1>1, RoutedFacts DEF Archive, Current, Route
<1>3. TypeOK' /\ ApprovedIsSettled'
  BY <1>1 DEF Archive, Inv, TypeOK, ApprovedIsSettled, Current
<1>4. DocumentMatchesRoute'
  BY <1>1, <1>2 DEF Archive, Inv, DocumentMatchesRoute, VerdictOf, RouteStates
<1>5. QED
  BY <1>3, <1>4 DEF Inv

LEMMA RegisterInv ==
  ASSUME Inv, RegisterDocument
  PROVE  Inv'
<1>1. doc' \in Document /\ doc'.current = doc.current /\ doc'.status = doc.status
  BY DEF RegisterDocument, Inv, TypeOK, Document
<1>2. Current' = Current
  BY <1>1 DEF RegisterDocument, Current
<1>3. QED
  BY <1>1, <1>2 DEF RegisterDocument, Inv, TypeOK, DocumentMatchesRoute, ApprovedIsSettled

LEMMA NextInv ==
  ASSUME Inv, [Next]_vars
  PROVE  Inv'
<1>1. ASSUME NEW plan \in Plans, NEW first, SubmitToRoute(plan, first) PROVE Inv'
  BY <1>1, SubmitInv
<1>2. ASSUME NEW s \in Stages, CommentStage(s) PROVE Inv'
  BY <1>2, CommentInv
<1>3. ASSUME NEW s \in Stages, RejectStage(s) PROVE Inv'
  BY <1>3, RejectInv
<1>4. ASSUME NEW s \in Stages, ReturnStage(s) PROVE Inv'
  BY <1>4, ReturnInv
<1>5. ASSUME NEW s \in Stages, ApproveStage(s) PROVE Inv'
  BY <1>5, ApproveInv
<1>6. CASE ForceApprove
  <2>1. /\ "completed" \in RouteStates
        /\ "override_approved" \in ActionKinds
        /\ "approved" \in VerdictOf["completed"]
    BY DEF RouteStates, ActionKinds, VerdictOf
  <2>2. QED
    BY <1>6, <2>1, OverrideInv DEF ForceApprove
<1>7. CASE ForceReject
  <2>1. /\ "rejected" \in RouteStates
        /\ "override_rejected" \in ActionKinds
        /\ "rejected" \in VerdictOf["rejected"]
    BY DEF RouteStates, ActionKinds, VerdictOf
  <2>2. QED
    BY <1>7, <2>1, OverrideInv DEF ForceReject
<1>8. CASE Archive
  BY <1>8, ArchiveInv
<1>9. CASE RegisterDocument
  BY <1>9, RegisterInv
<1>10. CASE UNCHANGED vars
  BY <1>10 DEF vars, Inv, TypeOK, DocumentMatchesRoute, ApprovedIsSettled, Current
<1>11. QED
  BY <1>1, <1>2, <1>3, <1>4, <1>5, <1>6, <1>7, <1>8, <1>9, <1>10 DEF Next, StageAction

\* Every reachable state satisfies the inductive invariant.
LEMMA Invariance == Spec => []Inv
<1>1. Init => Inv
  BY InitInv
<1>2. Inv /\ [Next]_vars => Inv'
  BY NextInv
<1>3. QED
  BY <1>1, <1>2, PTL DEF Spec

(***************************************************************************)
(* The rows always hold well-formed values, for every set of plans and     *)
(* every number of submissions.                                            *)
(***************************************************************************)
THEOREM TypeCorrect == Spec => []TypeOK
<1>1. Inv => TypeOK
  BY DEF Inv
<1>2. QED
  BY <1>1, Invariance, PTL

(***************************************************************************)
(* A document and its current route always carry the same verdict, and a   *)
(* replaced route was returned: no handler moves one row and not the other.*)
(***************************************************************************)
THEOREM RouteAgreement == Spec => []DocumentMatchesRoute
<1>1. Inv => DocumentMatchesRoute
  BY DEF Inv
<1>2. QED
  BY <1>1, Invariance, PTL

(***************************************************************************)
(* No stage of an approved or archived document can still be acted on,     *)
(* although executeStageAction never asks for the status of the document.  *)
(***************************************************************************)
THEOREM ApprovalSettles == Spec => []ApprovedIsSettled
<1>1. Inv => ApprovedIsSettled
  BY DEF Inv
<1>2. QED
  BY <1>1, Invariance, PTL

-----------------------------------------------------------------------------
(***************************************************************************)
(* The refinement: each handler is a step of EdmLifecycle or a stutter.    *)
(***************************************************************************)

\* A verdict on an actionable stage is a verdict EdmLifecycle allows.
LEMMA StageStepRefines ==
  ASSUME Inv, NEW s \in Stages, Actionable(s), NEW verdict \in Lifecycle!Verdicts,
         doc' = [doc EXCEPT !.status = verdict]
  PROVE  Lifecycle!DecideByStage(verdict)
<1>1. doc \in Document
  BY DEF Inv, TypeOK
<1>2. doc.current > 0
  BY <1>1, ActionableFacts, RouteAssumption DEF Document
<1>3. doc'.status = verdict /\ doc'.current = doc.current /\ doc'.numbered = doc.numbered
  BY <1>1 DEF Document
<1>4. QED
  BY <1>2, <1>3, ActionableFacts DEF Lifecycle!DecideByStage

\* An override is the abstract override.
LEMMA OverrideStepRefines ==
  ASSUME Inv, NEW state, NEW action, NEW verdict \in {"approved", "rejected"},
         Override(state, verdict, action)
  PROVE  verdict \in Lifecycle!Verdicts /\ Lifecycle!DecideByOverride(verdict)
<1>1. doc \in Document /\ doc.current # 0 /\ doc' = [doc EXCEPT !.status = verdict]
  BY DEF Inv, TypeOK, Override
<1>2. doc.current > 0
  BY <1>1, RouteAssumption DEF Document
<1>3. doc'.status = verdict /\ doc'.current = doc.current /\ doc'.numbered = doc.numbered
  BY <1>1 DEF Document
<1>4. QED
  BY <1>2, <1>3 DEF Lifecycle!DecideByOverride, Lifecycle!Verdicts

LEMMA SubmitStepRefines ==
  ASSUME Inv, NEW plan, NEW first, SubmitToRoute(plan, first)
  PROVE  Lifecycle!SubmitDocument
<1>1. doc.current = Len(routes) /\ Len(routes) \in Nat
  BY DEF Inv, TypeOK, DocumentMatchesRoute
<1>2. QED
  BY <1>1 DEF SubmitToRoute, Lifecycle!SubmitDocument

LEMMA StepRefines ==
  ASSUME Inv, [Next]_vars
  PROVE  [Lifecycle!LifecycleNext]_(Lifecycle!lifecycleVars)
<1>1. ASSUME NEW plan \in Plans, NEW first, SubmitToRoute(plan, first)
      PROVE  Lifecycle!LifecycleNext
  BY <1>1, SubmitStepRefines DEF Lifecycle!LifecycleNext
<1>2. ASSUME NEW s \in Stages, CommentStage(s)
      PROVE  UNCHANGED Lifecycle!lifecycleVars
  BY <1>2 DEF CommentStage, Lifecycle!lifecycleVars
<1>3. ASSUME NEW s \in Stages, RejectStage(s)
      PROVE  Lifecycle!LifecycleNext
  <2>1. "rejected" \in Lifecycle!Verdicts
    BY DEF Lifecycle!Verdicts
  <2>2. Lifecycle!DecideByStage("rejected")
    BY <1>3, <2>1, StageStepRefines DEF RejectStage
  <2>3. QED
    BY <2>1, <2>2 DEF Lifecycle!LifecycleNext
<1>4. ASSUME NEW s \in Stages, ReturnStage(s)
      PROVE  Lifecycle!LifecycleNext
  <2>1. "returned_for_revision" \in Lifecycle!Verdicts
    BY DEF Lifecycle!Verdicts
  <2>2. Lifecycle!DecideByStage("returned_for_revision")
    BY <1>4, <2>1, StageStepRefines DEF ReturnStage
  <2>3. QED
    BY <2>1, <2>2 DEF Lifecycle!LifecycleNext
<1>5. ASSUME NEW s \in Stages, ApproveStage(s)
      PROVE  Lifecycle!LifecycleNext \/ UNCHANGED Lifecycle!lifecycleVars
  <2>1. "approved" \in Lifecycle!Verdicts
    BY DEF Lifecycle!Verdicts
  <2>2. CASE doc' = doc
    BY <2>2 DEF Lifecycle!lifecycleVars
  <2>3. CASE doc' = [doc EXCEPT !.status = "approved"]
    <3>1. Actionable(s)
      BY <1>5 DEF ApproveStage
    <3>2. Lifecycle!DecideByStage("approved")
      BY <3>1, <2>1, <2>3, StageStepRefines
    <3>3. QED
      BY <2>1, <3>2 DEF Lifecycle!LifecycleNext
  <2>4. QED
    BY <1>5, <2>2, <2>3 DEF ApproveStage
<1>6. CASE ForceApprove
  BY <1>6, OverrideStepRefines DEF ForceApprove, Lifecycle!LifecycleNext
<1>7. CASE ForceReject
  BY <1>7, OverrideStepRefines DEF ForceReject, Lifecycle!LifecycleNext
<1>8. CASE Archive
  BY <1>8 DEF Archive, Inv, TypeOK, Document, Lifecycle!ArchiveDocument,
     Lifecycle!LifecycleNext
<1>9. CASE RegisterDocument
  BY <1>9 DEF RegisterDocument, Inv, TypeOK, Document, Lifecycle!Register,
     Lifecycle!LifecycleNext
<1>10. CASE UNCHANGED vars
  BY <1>10 DEF vars, Lifecycle!lifecycleVars
<1>11. QED
  BY <1>1, <1>2, <1>3, <1>4, <1>5, <1>6, <1>7, <1>8, <1>9, <1>10 DEF Next, StageAction

(***************************************************************************)
(* The documents API keeps the promise of EdmLifecycle: a stage verdict    *)
(* never reaches an approved, archived or draft document, an archived      *)
(* document was approved, and a submission always opens the next version.  *)
(***************************************************************************)
THEOREM RefinesLifecycle == Spec => KeepsLifecycle
<1>1. Init => Lifecycle!LifecycleInit
  BY DEF Init, NewDocument, Lifecycle!LifecycleInit
<1>2. Inv /\ [Next]_vars => [Lifecycle!LifecycleNext]_(Lifecycle!lifecycleVars)
  BY StepRefines
<1>3. QED
  BY <1>1, <1>2, Invariance, PTL DEF Spec, KeepsLifecycle, Lifecycle!LifecycleSpec

-----------------------------------------------------------------------------
(***************************************************************************)
(* History and the audit trail.  Every verdict rewrites the current route: *)
(* closed stages stay, and each open one that gets a verdict gets a row.   *)
(***************************************************************************)
Rewrites(r, added) ==
  /\ routes' = [routes EXCEPT ![doc.current] = r]
  /\ r.plan = Current.plan /\ DOMAIN r.stage = DOMAIN Current.stage
  /\ \A t \in DOMAIN r.stage :
       Current.stage[t] \notin OpenStates => r.stage[t] = Current.stage[t]
  /\ actions' = actions \cup added
  /\ \A row \in added : row.route = doc.current
  /\ \A t \in DOMAIN r.stage : \A k \in StageVerdicts :
       ActionRow(doc.current, t, k) \in added
         <=> Current.stage[t] \in OpenStates /\ r.stage[t] = StateOfVerdict[k]

\* The engine skips stages of any_of routes only.
SkipsNone(r) ==
  /\ r.overridden = Current.overridden
  /\ Current.plan.policy # "parallel_any_of" =>
       \A t \in DOMAIN r.stage : r.stage[t] = "skipped" => Current.stage[t] = "skipped"

LEMMA RowIs ==
  ASSUME NEW v, NEW s, NEW k, NEW w, NEW t, NEW j
  PROVE  /\ ActionRow(v, s, k) = ActionRow(w, t, j) <=> v = w /\ s = t /\ k = j
         /\ ActionRow(v, s, k).route = v
BY DEF ActionRow

LEMMA CommentRewrites ==
  ASSUME Inv, NEW s \in Stages, CommentStage(s)
  PROVE  \E r : Rewrites(r, {}) /\ SkipsNone(r)
<1>1. doc.current # 0 /\ Current \in Route /\ doc.current \in 1 .. Len(routes)
  BY ActionableFacts, RoutedFacts DEF CommentStage
<1>2. PICK stage : stage = [Current.stage EXCEPT ![s] = "in_progress"]
  OBVIOUS
<1>3. PICK r : r = [Current EXCEPT !.stage = stage]
  OBVIOUS
<1>4. /\ r.plan = Current.plan /\ r.overridden = Current.overridden /\ r.stage = stage
  BY <1>1, <1>3 DEF Route
<1>5. routes' = [routes EXCEPT ![doc.current] = r] /\ UNCHANGED actions
  BY <1>1, <1>2, <1>3 DEF CommentStage, Current
<1>6. Current.stage[s] \in OpenStates
  BY DEF CommentStage, Actionable
<1>7. Current.stage \in StageMaps(Current.plan)
  BY <1>1, RoutedFacts
<1>8. Rewrites(r, {})
  <2>1. /\ DOMAIN stage = DOMAIN Current.stage
        /\ \A t \in DOMAIN stage : stage[t] = IF t = s THEN "in_progress" ELSE Current.stage[t]
    BY <1>2, <1>7 DEF StageMaps
  <2>2. \A t \in DOMAIN stage : Current.stage[t] \notin OpenStates => stage[t] = Current.stage[t]
    BY <1>6, <2>1
  <2>3. \A t \in DOMAIN stage : \A k \in StageVerdicts :
          ~(Current.stage[t] \in OpenStates /\ stage[t] = StateOfVerdict[k])
    BY <2>1 DEF OpenStates, StateOfVerdict, StageVerdicts
  <2>. QED  BY <1>4, <1>5, <2>1, <2>2, <2>3 DEF Rewrites
<1>9. SkipsNone(r)
  BY <1>2, <1>4, <1>7 DEF SkipsNone, StageMaps
<1>. QED  BY <1>8, <1>9

\* Rejecting and returning.
LEMMA VerdictRewrites ==
  ASSUME Inv, NEW s \in Stages, Actionable(s), NEW k \in StageVerdicts, NEW state,
         NEW stage, stage = [Current.stage EXCEPT ![s] = StateOfVerdict[k]],
         NEW r, r = [Current EXCEPT !.stage = stage, !.state = state],
         routes' = [routes EXCEPT ![doc.current] = r], Record(s, k)
  PROVE  Rewrites(r, {ActionRow(doc.current, s, k)}) /\ SkipsNone(r)
<1>1. doc.current # 0 /\ Current \in Route /\ Current.stage \in StageMaps(Current.plan)
      /\ s \in DOMAIN Current.stage
  BY ActionableFacts, RoutedFacts
<1>2. r = MakeRoute(Current.plan, state, Current.overridden, stage)
  BY <1>1, RouteDecided
<1>3. r.plan = Current.plan /\ r.overridden = Current.overridden /\ r.stage = stage
  BY <1>2 DEF MakeRoute
<1>4. /\ DOMAIN stage = DOMAIN Current.stage /\ stage[s] = StateOfVerdict[k]
      /\ \A t \in DOMAIN stage \ {s} : stage[t] = Current.stage[t]
  BY <1>1
<1>5. Current.stage[s] \in OpenStates
  BY DEF Actionable
<1>6. \A t \in DOMAIN stage : \A j \in StageVerdicts :
        ActionRow(doc.current, t, j) \in {ActionRow(doc.current, s, k)}
          <=> Current.stage[t] \in OpenStates /\ stage[t] = StateOfVerdict[j]
  BY <1>4, <1>5, RowIs DEF StateOfVerdict, StageVerdicts, OpenStates
<1>7. Rewrites(r, {ActionRow(doc.current, s, k)})
  BY <1>3, <1>4, <1>5, <1>6, RowIs DEF Rewrites, Record
<1>8. SkipsNone(r)
  BY <1>3, <1>4 DEF SkipsNone, StateOfVerdict, StageVerdicts
<1>. QED  BY <1>7, <1>8

LEMMA RejectRewrites ==
  ASSUME Inv, NEW s \in Stages, RejectStage(s)
  PROVE  \E r, added : Rewrites(r, added) /\ SkipsNone(r)
<1>1. PICK stage : stage = [Current.stage EXCEPT ![s] = "rejected"]
  OBVIOUS
<1>2. PICK r : r = [Current EXCEPT !.stage = stage, !.state = "rejected"]
  OBVIOUS
<1>3. routes' = [routes EXCEPT ![doc.current] = r]
  BY <1>1, <1>2, ActionableFacts, RoutedFacts DEF RejectStage, Current
<1>4. stage = [Current.stage EXCEPT ![s] = StateOfVerdict["rejected"]] /\ "rejected" \in StageVerdicts
  BY <1>1 DEF StateOfVerdict, StageVerdicts
<1>. QED  BY <1>2, <1>3, <1>4, VerdictRewrites DEF RejectStage

LEMMA ReturnRewrites ==
  ASSUME Inv, NEW s \in Stages, ReturnStage(s)
  PROVE  \E r, added : Rewrites(r, added) /\ SkipsNone(r)
<1>1. PICK stage : stage = [Current.stage EXCEPT ![s] = "returned"]
  OBVIOUS
<1>2. PICK r : r = [Current EXCEPT !.stage = stage, !.state = "returned"]
  OBVIOUS
<1>3. routes' = [routes EXCEPT ![doc.current] = r]
  BY <1>1, <1>2, ActionableFacts, RoutedFacts DEF ReturnStage, Current
<1>4. /\ stage = [Current.stage EXCEPT ![s] = StateOfVerdict["returned_for_revision"]]
      /\ "returned_for_revision" \in StageVerdicts
  BY <1>1 DEF StateOfVerdict, StageVerdicts
<1>. QED  BY <1>2, <1>3, <1>4, VerdictRewrites DEF ReturnStage

\* Of the stages that an approval leaves closed, and of those it closes.
LEMMA AfterApprovalIs ==
  ASSUME NEW plan, NEW stage \in StageMaps(plan), NEW s, NEW t \in StagesOf(plan)
  PROVE  /\ stage[t] \notin OpenStates => AfterApproval(plan, stage, s)[t] = stage[t]
         /\ stage[t] \in OpenStates =>
              AfterApproval(plan, stage, s)[t] \in {stage[t], "skipped", "in_progress"}
         /\ plan.policy # "parallel_any_of" /\ stage[t] # "skipped" =>
              AfterApproval(plan, stage, s)[t] # "skipped"
<1>1. PICK skipped : skipped = SkipSiblings(plan, stage, s)
  OBVIOUS
<1>2. /\ skipped \in StageMaps(plan)
      /\ stage[t] \notin OpenStates => skipped[t] = stage[t]
      /\ stage[t] \in OpenStates => skipped[t] \in {stage[t], "skipped"}
      /\ plan.policy # "parallel_any_of" => skipped[t] = stage[t]
  BY <1>1, SkipType DEF SkipSiblings, OpenIn, StageMaps
<1>3. PICK next : next = OpenNext(plan, skipped)
  OBVIOUS
<1>4. /\ skipped[t] \notin OpenStates => next[t] = skipped[t]
      /\ next[t] \in {skipped[t], "in_progress"}
  BY <1>2, <1>3 DEF OpenNext, Lowest, OpenIn, StageMaps
<1>5. AfterApproval(plan, stage, s) = stage \/ AfterApproval(plan, stage, s) = next
  BY <1>1, <1>3 DEF AfterApproval
<1>. QED  BY <1>2, <1>4, <1>5 DEF OpenStates

LEMMA ApproveRewrites ==
  ASSUME Inv, NEW s \in Stages, ApproveStage(s)
  PROVE  \E r, added : /\ Rewrites(r, added) /\ SkipsNone(r)
                       /\ s \in DOMAIN r.stage /\ r.stage[s] = "approved"
<1>1. PICK approved : approved = [Current.stage EXCEPT ![s] = "approved"]
  OBVIOUS
<1>2. PICK stage : stage = AfterApproval(Current.plan, approved, s)
  OBVIOUS
<1>3. PICK state : state = IF Completes(Current.plan, approved, s) THEN "completed" ELSE Current.state
  OBVIOUS
<1>4. PICK r : r = [Current EXCEPT !.stage = stage, !.state = state]
  OBVIOUS
<1>5. /\ doc.current # 0 /\ Current \in Route /\ doc.current \in 1 .. Len(routes)
      /\ Current.stage \in StageMaps(Current.plan) /\ s \in DOMAIN Current.stage
      /\ Current.stage[s] \in OpenStates
  BY ActionableFacts, RoutedFacts DEF ApproveStage, Actionable
<1>6. routes' = [routes EXCEPT ![doc.current] = r]
  BY <1>1, <1>2, <1>3, <1>4, <1>5 DEF ApproveStage, Current
<1>7. r = MakeRoute(Current.plan, state, Current.overridden, stage)
  BY <1>4, <1>5, RouteDecided
<1>8. r.plan = Current.plan /\ r.overridden = Current.overridden /\ r.stage = stage
  BY <1>7 DEF MakeRoute
<1>9. /\ approved \in StageMaps(Current.plan) /\ approved[s] = "approved"
      /\ \A t \in DOMAIN approved \ {s} : approved[t] = Current.stage[t]
  BY <1>1, <1>5 DEF StageMaps, StageStates
<1>10. stage \in StageMaps(Current.plan)
  BY <1>2, <1>9, AfterApprovalType
<1>11. stage[s] = "approved"
  BY <1>2, <1>5, <1>9, AfterApprovalIs DEF StageMaps, OpenStates
<1>12. ASSUME NEW t \in DOMAIN stage, t # s
       PROVE  /\ Current.stage[t] \notin OpenStates => stage[t] = Current.stage[t]
              /\ Current.stage[t] \in OpenStates => stage[t] \in OpenStates \cup {"skipped"}
              /\ Current.plan.policy # "parallel_any_of" /\ stage[t] = "skipped" =>
                   Current.stage[t] = "skipped"
  <2>1. t \in StagesOf(Current.plan) /\ approved[t] = Current.stage[t]
    BY <1>9, <1>10, <1>12 DEF StageMaps
  <2>. QED  BY <1>2, <1>9, <2>1, AfterApprovalIs DEF OpenStates
<1>13. DOMAIN stage = DOMAIN Current.stage
  BY <1>5, <1>10 DEF StageMaps
<1>14. \A t \in DOMAIN stage : \A k \in StageVerdicts :
         ActionRow(doc.current, t, k) \in {ActionRow(doc.current, s, "approved")}
           <=> Current.stage[t] \in OpenStates /\ stage[t] = StateOfVerdict[k]
  BY <1>5, <1>11, <1>12, RowIs DEF StateOfVerdict, StageVerdicts, OpenStates
<1>15. Rewrites(r, {ActionRow(doc.current, s, "approved")})
  <2>1. actions' = actions \cup {ActionRow(doc.current, s, "approved")}
    BY DEF Record, ApproveStage
  <2>2. \A t \in DOMAIN stage : Current.stage[t] \notin OpenStates => stage[t] = Current.stage[t]
    BY <1>5, <1>12
  <2>3. \A row \in {ActionRow(doc.current, s, "approved")} : row.route = doc.current
    BY RowIs
  <2>. QED  BY <1>6, <1>8, <1>13, <1>14, <2>1, <2>2, <2>3 DEF Rewrites
<1>16. SkipsNone(r)
  BY <1>8, <1>11, <1>12 DEF SkipsNone
<1>. QED  BY <1>5, <1>8, <1>11, <1>13, <1>15, <1>16

LEMMA OverrideRewrites ==
  ASSUME Inv, NEW state, NEW verdict, NEW action, action \notin StageVerdicts,
         Override(state, verdict, action)
  PROVE  \E r, added : Rewrites(r, added) /\ r.overridden = TRUE
<1>1. doc.current # 0 /\ Current \in Route /\ doc.current \in 1 .. Len(routes)
      /\ Current.stage \in StageMaps(Current.plan)
  BY RoutedFacts DEF Override
<1>2. PICK stage : stage = SkipAll(Current.stage)
  OBVIOUS
<1>3. PICK r : r = [Current EXCEPT !.state = state, !.overridden = TRUE, !.stage = stage]
  OBVIOUS
<1>4. r = MakeRoute(Current.plan, state, TRUE, stage)
  BY <1>1, <1>3, RouteOverridden
<1>5. r.plan = Current.plan /\ r.overridden = TRUE /\ r.stage = stage
  BY <1>4 DEF MakeRoute
<1>6. PICK added : added = { ActionRow(doc.current, t, action) : t \in OpenIn(Current.stage) }
  OBVIOUS
<1>7. routes' = [routes EXCEPT ![doc.current] = r] /\ actions' = actions \cup added
  BY <1>1, <1>2, <1>3, <1>6 DEF Override, Current
<1>8. /\ \A row \in added : row.route = doc.current
      /\ \A t : \A k \in StageVerdicts : ActionRow(doc.current, t, k) \notin added
  BY <1>6, RowIs
<1>9. /\ DOMAIN stage = DOMAIN Current.stage
      /\ \A t \in DOMAIN stage :
           stage[t] = IF Current.stage[t] \in OpenStates THEN "skipped" ELSE Current.stage[t]
  BY <1>2 DEF SkipAll
<1>10. \A t \in DOMAIN stage : \A k \in StageVerdicts :
         ~(Current.stage[t] \in OpenStates /\ stage[t] = StateOfVerdict[k])
  BY <1>9 DEF StateOfVerdict, StageVerdicts
<1>11. Rewrites(r, added)
  BY <1>5, <1>7, <1>8, <1>9, <1>10 DEF Rewrites
<1>. QED  BY <1>5, <1>11

(***************************************************************************)
(* The invariant behind the audit trail.  NoneSkipped is what makes every  *)
(* stage of an approved route decided: the engine skips in any_of routes   *)
(* only, and an override is marked.                                        *)
(***************************************************************************)
NoneSkipped ==
  doc.current # 0 /\ ~Current.overridden /\ Current.plan.policy # "parallel_any_of" =>
    \A t \in DOMAIN Current.stage : Current.stage[t] # "skipped"

SomebodyApproved ==
  doc.status \in {"approved", "archived"} /\ ~Current.overridden =>
    \E t \in DOMAIN Current.stage : Current.stage[t] = "approved"

TrailInv == Inv /\ AuditMatchesStages /\ NoneSkipped /\ SomebodyApproved

LEMMA TrailInitially == Init => TrailInv
<1>1. Init => Inv
  BY InitInv
<1>2. Init => AuditMatchesStages /\ NoneSkipped /\ SomebodyApproved
  BY DEF Init, NewDocument, AuditMatchesStages, NoneSkipped, SomebodyApproved
<1>. QED  BY <1>1, <1>2 DEF TrailInv

LEMMA RewritesKeep ==
  ASSUME Inv, AuditMatchesStages, doc.current # 0, NEW r, NEW added, Rewrites(r, added)
  PROVE  /\ AuditMatchesStages'
         /\ Len(routes') = Len(routes) /\ routes'[doc.current] = r
         /\ \A v \in 1 .. Len(routes) : v # doc.current => routes'[v] = routes[v]
<1>1. doc.current \in 1 .. Len(routes) /\ routes \in Seq(Route)
  BY RoutedFacts DEF Inv, TypeOK
<1>2. /\ Len(routes') = Len(routes) /\ routes'[doc.current] = r
      /\ \A v \in 1 .. Len(routes) : v # doc.current => routes'[v] = routes[v]
  BY <1>1 DEF Rewrites
<1>3. ASSUME NEW v \in 1 .. Len(routes), NEW s \in DOMAIN routes'[v].stage, NEW k \in StageVerdicts
      PROVE  routes'[v].stage[s] = StateOfVerdict[k] <=> ActionRow(v, s, k) \in actions'
  <2>1. CASE v # doc.current
    <3>1. ActionRow(v, s, k) \notin added
      BY <2>1, RowIs DEF Rewrites
    <3>2. ActionRow(v, s, k) \in actions' <=> ActionRow(v, s, k) \in actions
      BY <3>1 DEF Rewrites
    <3>. QED  BY <1>2, <1>3, <2>1, <3>2 DEF AuditMatchesStages
  <2>2. CASE v = doc.current
    <3>1. s \in DOMAIN r.stage /\ s \in DOMAIN Current.stage /\ routes'[v].stage[s] = r.stage[s]
      BY <1>2, <1>3, <2>2 DEF Rewrites
    <3>2. Current.stage[s] = StateOfVerdict[k] <=> ActionRow(v, s, k) \in actions
      BY <1>1, <2>2, <3>1 DEF AuditMatchesStages, Current
    <3>3. ActionRow(v, s, k) \in added
            <=> Current.stage[s] \in OpenStates /\ r.stage[s] = StateOfVerdict[k]
      BY <2>2, <3>1 DEF Rewrites
    <3>4. Current.stage[s] \notin OpenStates => r.stage[s] = Current.stage[s]
      BY <3>1 DEF Rewrites
    <3>5. Current.stage[s] = StateOfVerdict[k] => Current.stage[s] \notin OpenStates
      BY DEF StateOfVerdict, StageVerdicts, OpenStates
    <3>6. actions' = actions \cup added
      BY DEF Rewrites
    <3>. QED  BY <3>1, <3>2, <3>3, <3>4, <3>5, <3>6
  <2>. QED  BY <2>1, <2>2
<1>4. AuditMatchesStages'
  BY <1>2, <1>3 DEF AuditMatchesStages
<1>. QED  BY <1>2, <1>4

\* Comments, verdicts and overrides.
LEMMA RouteStepKeepsTrail ==
  ASSUME TrailInv, Inv', doc.current # 0, NEW r, NEW added, Rewrites(r, added),
         doc'.current = doc.current,
         r.overridden = TRUE \/ SkipsNone(r),
         doc'.status \in {"approved", "archived"} =>
           r.overridden = TRUE \/ \E t \in DOMAIN r.stage : r.stage[t] = "approved"
  PROVE  TrailInv'
<1>1. AuditMatchesStages' /\ Current' = r
  BY RewritesKeep DEF TrailInv, Current
<1>2. NoneSkipped'
  <2>1. CASE r.overridden = TRUE
    BY <1>1, <2>1 DEF NoneSkipped
  <2>2. CASE SkipsNone(r)
    BY <1>1, <2>2 DEF NoneSkipped, SkipsNone, Rewrites, TrailInv
  <2>. QED  BY <2>1, <2>2
<1>3. SomebodyApproved'
  BY <1>1 DEF SomebodyApproved
<1>. QED  BY <1>1, <1>2, <1>3 DEF TrailInv

LEMMA SubmitKeepsTrail ==
  ASSUME TrailInv, Inv', NEW plan \in Plans, NEW first, SubmitToRoute(plan, first)
  PROVE  TrailInv'
<1>1. PICK r : r = NewRoute(plan, first)
  OBVIOUS
<1>2. r.stage = OpeningStages(plan, first)
  BY <1>1 DEF NewRoute
<1>3. \A s \in DOMAIN r.stage : r.stage[s] \in OpenStates
  BY <1>2 DEF OpeningStages, OpenStates
<1>4. /\ Len(routes) \in Nat /\ Len(routes') = Len(routes) + 1
      /\ routes'[Len(routes) + 1] = r
      /\ \A v \in 1 .. Len(routes) : routes'[v] = routes[v]
      /\ UNCHANGED actions
      /\ doc'.status = "in_route" /\ doc'.current = Len(routes) + 1
  BY <1>1 DEF SubmitToRoute, TrailInv, Inv, TypeOK
<1>5. ASSUME NEW v \in 1 .. Len(routes'), NEW s \in DOMAIN routes'[v].stage, NEW k \in StageVerdicts
      PROVE  routes'[v].stage[s] = StateOfVerdict[k] <=> ActionRow(v, s, k) \in actions
  <2>1. CASE v \in 1 .. Len(routes)
    BY <1>4, <1>5, <2>1 DEF TrailInv, AuditMatchesStages
  <2>2. CASE v = Len(routes) + 1
    <3>1. ActionRow(v, s, k) \notin actions
      BY <1>4, <2>2, RowIs DEF TrailInv, Inv, TypeOK
    <3>2. routes'[v].stage[s] # StateOfVerdict[k]
      BY <1>3, <1>4, <1>5, <2>2 DEF OpenStates, StateOfVerdict, StageVerdicts
    <3>. QED  BY <3>1, <3>2
  <2>. QED  BY <1>4, <2>1, <2>2
<1>6. AuditMatchesStages'
  BY <1>4, <1>5 DEF AuditMatchesStages
<1>7. NoneSkipped' /\ SomebodyApproved'
  BY <1>3, <1>4 DEF NoneSkipped, SomebodyApproved, Current, OpenStates
<1>. QED  BY <1>6, <1>7 DEF TrailInv

\* Archive and registerDocument touch the document only.
LEMMA DocumentStepKeepsTrail ==
  ASSUME TrailInv, Inv', UNCHANGED <<routes, actions>>, doc'.current = doc.current,
         doc'.status \in {"approved", "archived"} => doc.status \in {"approved", "archived"}
  PROVE  TrailInv'
BY DEF TrailInv, AuditMatchesStages, NoneSkipped, SomebodyApproved, Current

\* A verdict on a stage: the document is approved only by an approval.
LEMMA StageActionKeepsTrail ==
  ASSUME TrailInv, Inv', NEW s \in Stages,
         CommentStage(s) \/ RejectStage(s) \/ ReturnStage(s) \/ ApproveStage(s)
  PROVE  TrailInv'
<1>1. Inv /\ Actionable(s) /\ doc.current # 0 /\ doc.status \notin {"approved", "archived"}
  BY ActionableFacts DEF TrailInv, CommentStage, RejectStage, ReturnStage, ApproveStage
<1>2. doc \in Document
  BY DEF TrailInv, Inv, TypeOK
<1>3. CASE CommentStage(s)
  <2>1. doc' = doc
    BY <1>3 DEF CommentStage
  <2>. QED  BY <1>1, <1>3, <2>1, CommentRewrites, RouteStepKeepsTrail
<1>4. CASE RejectStage(s)
  <2>1. doc'.current = doc.current /\ doc'.status = "rejected"
    BY <1>2, <1>4 DEF RejectStage, Document
  <2>. QED  BY <1>1, <1>4, <2>1, RejectRewrites, RouteStepKeepsTrail
<1>5. CASE ReturnStage(s)
  <2>1. doc'.current = doc.current /\ doc'.status = "returned_for_revision"
    BY <1>2, <1>5 DEF ReturnStage, Document
  <2>. QED  BY <1>1, <1>5, <2>1, ReturnRewrites, RouteStepKeepsTrail
<1>6. CASE ApproveStage(s)
  <2>1. doc'.current = doc.current
    BY <1>2, <1>6 DEF ApproveStage, Document
  <2>. QED  BY <1>1, <1>6, <2>1, ApproveRewrites, RouteStepKeepsTrail
<1>. QED  BY <1>3, <1>4, <1>5, <1>6

LEMMA OverrideKeepsTrail ==
  ASSUME TrailInv, Inv', ForceApprove \/ ForceReject
  PROVE  TrailInv'
<1>1. PICK state, verdict, action :
        Override(state, verdict, action) /\ action \notin StageVerdicts
  BY DEF ForceApprove, ForceReject, StageVerdicts
<1>2. doc.current # 0 /\ doc'.current = doc.current
  BY <1>1 DEF Override, TrailInv, Inv, TypeOK, Document
<1>. QED  BY <1>1, <1>2, OverrideRewrites, RouteStepKeepsTrail DEF TrailInv

LEMMA TrailStepKeeps == TrailInv /\ [Next]_vars => TrailInv'
<1> SUFFICES ASSUME TrailInv, [Next]_vars PROVE TrailInv'
  OBVIOUS
<1>0. Inv'
  BY NextInv DEF TrailInv
<1>1. ASSUME NEW plan \in Plans, NEW first, SubmitToRoute(plan, first) PROVE TrailInv'
  BY <1>0, <1>1, SubmitKeepsTrail
<1>2. ASSUME NEW s \in Stages,
             CommentStage(s) \/ RejectStage(s) \/ ReturnStage(s) \/ ApproveStage(s)
      PROVE  TrailInv'
  BY <1>0, <1>2, StageActionKeepsTrail
<1>3. CASE ForceApprove \/ ForceReject
  BY <1>0, <1>3, OverrideKeepsTrail
<1>4. CASE Archive \/ RegisterDocument
  <2>1. /\ UNCHANGED <<routes, actions>> /\ doc'.current = doc.current
        /\ doc'.status \in {"approved", "archived"} => doc.status \in {"approved", "archived"}
    BY <1>4 DEF Archive, RegisterDocument, TrailInv, Inv, TypeOK, Document
  <2>. QED  BY <1>0, <2>1, DocumentStepKeepsTrail
<1>5. CASE UNCHANGED vars
  BY <1>0, <1>5, DocumentStepKeepsTrail DEF vars
<1>. QED  BY <1>1, <1>2, <1>3, <1>4, <1>5 DEF Next, StageAction

(***************************************************************************)
(* executeStageAction, override: for any plans, the trail explains every   *)
(* verdict of every stage, and an approval without an override was given   *)
(* by people, at every stage unless the policy is any_of.                  *)
(***************************************************************************)
THEOREM AuditExplains == Spec => []AuditBacksApproval
<1>1. TrailInv => AuditBacksApproval
  <2> SUFFICES ASSUME TrailInv, doc.status \in {"approved", "archived"}, ~Current.overridden
               PROVE  /\ \E s \in DOMAIN Current.stage : Current.stage[s] = "approved"
                      /\ Current.plan.policy # "parallel_any_of" =>
                           Decided(Current) = DOMAIN Current.stage
    BY DEF TrailInv, AuditBacksApproval, ApprovalIsBacked
  <2>1. doc.current # 0
    BY DEF TrailInv, Inv, DocumentMatchesRoute
  <2>2. Current.stage \in StageMaps(Current.plan) /\ OpenIn(Current.stage) = {}
    BY <2>1, RoutedFacts DEF TrailInv, Inv, ApprovedIsSettled
  <2>3. ASSUME Current.plan.policy # "parallel_any_of", NEW t \in DOMAIN Current.stage
        PROVE  t \in Decided(Current)
    <3>1. Current.stage[t] \notin OpenStates /\ Current.stage[t] # "skipped"
      BY <2>1, <2>2, <2>3 DEF OpenIn, TrailInv, NoneSkipped
    <3>. QED  BY <2>2, <3>1 DEF Decided, StageMaps, StageStates, OpenStates
  <2>. QED  BY <2>3 DEF TrailInv, SomebodyApproved, Decided
<1>. QED  BY TrailInitially, TrailStepKeeps, <1>1, PTL DEF Spec

-----------------------------------------------------------------------------
\* Versions before the current one and closed stages are not written.
LEMMA StepKeepsHistory ==
  ASSUME Inv, AuditMatchesStages, [Next]_vars, NEW v \in 1 .. Len(routes)
  PROVE  /\ v < doc.current => routes'[v] = routes[v]
         /\ \A s \in DOMAIN routes[v].stage :
              routes[v].stage[s] \notin OpenStates => routes'[v].stage[s] = routes[v].stage[s]
<1>1. ASSUME NEW r, NEW added, Rewrites(r, added), doc.current # 0
      PROVE  /\ v < doc.current => routes'[v] = routes[v]
             /\ \A s \in DOMAIN routes[v].stage :
                  routes[v].stage[s] \notin OpenStates => routes'[v].stage[s] = routes[v].stage[s]
  <2>1. CASE v # doc.current
    BY <1>1, <2>1, RewritesKeep
  <2>2. CASE v = doc.current
    <3>1. routes'[v] = r /\ routes[v] = Current
      BY <1>1, <2>2, RewritesKeep DEF Current
    <3>2. \A t \in DOMAIN Current.stage :
            Current.stage[t] \notin OpenStates => r.stage[t] = Current.stage[t]
      BY <1>1 DEF Rewrites
    <3>3. ~(v < doc.current)
      BY <2>2, RoutedFacts, <1>1
    <3>. QED  BY <3>1, <3>2, <3>3
  <2>. QED  BY <2>1, <2>2
<1>2. ASSUME NEW s \in Stages,
             CommentStage(s) \/ RejectStage(s) \/ ReturnStage(s) \/ ApproveStage(s)
      PROVE  (\E r, added : Rewrites(r, added)) /\ doc.current # 0
  BY <1>2, CommentRewrites, RejectRewrites, ReturnRewrites, ApproveRewrites
  DEF CommentStage, RejectStage, ReturnStage, ApproveStage, Actionable
<1>3. ASSUME ForceApprove \/ ForceReject
      PROVE  (\E r, added : Rewrites(r, added)) /\ doc.current # 0
  <2>1. PICK state, verdict, action :
          Override(state, verdict, action) /\ action \notin StageVerdicts
    BY <1>3 DEF ForceApprove, ForceReject, StageVerdicts
  <2>. QED  BY <2>1, OverrideRewrites DEF Override
<1>4. ASSUME NEW plan, NEW first, SubmitToRoute(plan, first) PROVE routes'[v] = routes[v]
  BY <1>4 DEF SubmitToRoute, Inv, TypeOK
<1>5. CASE UNCHANGED routes
  BY <1>5
<1>. QED
  BY <1>1, <1>2, <1>3, <1>4, <1>5 DEF Next, StageAction, Archive, RegisterDocument, vars

(***************************************************************************)
(* Whatever is submitted, decided and overridden, no replaced route and no *)
(* closed stage is written again.                                          *)
(***************************************************************************)
THEOREM HistoryKept == Spec => HistoryIsKept
<1>1. TrailInv /\ [Next]_vars =>
        [\A v \in 1 .. Len(routes) :
           /\ v < doc.current => routes'[v] = routes[v]
           /\ \A s \in DOMAIN routes[v].stage :
                routes[v].stage[s] \notin OpenStates =>
                  routes'[v].stage[s] = routes[v].stage[s]]_vars
  BY StepKeepsHistory DEF TrailInv
<1>. QED  BY TrailInitially, TrailStepKeeps, <1>1, PTL DEF Spec, HistoryIsKept

-----------------------------------------------------------------------------
(***************************************************************************)
(* Somebody is asked.  Two facts make it inductive.  In a route that is    *)
(* not any_of every stage is open or approved while the document is in     *)
(* route, so the level that applyRouteProgress takes for the current one   *)
(* is always the lowest of the plan, and the engine waits on no other; and *)
(* of that level no stage is pending, since the first hop opened it all.   *)
(***************************************************************************)

\* A set of numbers has a least one.
LEMMA LeastNumber ==
  ASSUME NEW T, T \subseteq Nat, T # {}
  PROVE  \E x \in T : \A y \in T : x <= y
<1>1. IsWellFoundedOn(OpToRel(<, Nat), Nat)
  BY NatLessThanWellFounded
<1>2. \E x \in T : \A y \in T : <<y, x>> \notin OpToRel(<, Nat)
  BY <1>1, WFMin
<1>3. \A x, y \in Nat : x < y => <<x, y>> \in OpToRel(<, Nat)
  BY DEF OpToRel
<1>4. \E x \in T : \A y \in T : ~(y < x)
  BY <1>2, <1>3, Zenon
<1>. QED  BY <1>4

\* So any stages of a plan have a lowest order: it is the order with the fewest stages below it.
LEMMA SomeAreLowest ==
  ASSUME NEW plan, IsPlan(plan), NEW T \in SUBSET StagesOf(plan), T # {}
  PROVE  Lowest(plan, T) # {}
<1> DEFINE Below(s) == {t \in T : plan.order[t] < plan.order[s]}
           Counts   == {Cardinality(Below(s)) : s \in T}
<1>1. IsFiniteSet(T)
  BY StagesAssumption, FS_Subset DEF IsPlan
<1>2. \A s \in T : plan.order[s] \in Int
  BY DEF IsPlan
<1>3. ASSUME NEW s \in T PROVE IsFiniteSet(Below(s)) /\ Cardinality(Below(s)) \in Nat
  BY <1>1, FS_Subset, FS_CardinalityType
<1>4. Counts \subseteq Nat /\ Counts # {}
  BY <1>3
<1>5. PICK s \in T : \A t \in T : Cardinality(Below(s)) <= Cardinality(Below(t))
  <2>1. PICK C : C = Counts
    OBVIOUS
  <2>2. PICK n \in C : \A m \in C : n <= m
    BY <1>4, <2>1, LeastNumber
  <2>3. PICK s \in T : n = Cardinality(Below(s))
    BY <2>1, <2>2
  <2>4. \A t \in T : Cardinality(Below(t)) \in C
    BY <2>1
  <2>. QED  BY <2>2, <2>3, <2>4
<1>6. ASSUME NEW t \in T, plan.order[t] < plan.order[s] PROVE FALSE
  <2>1. Below(t) \subseteq Below(s) /\ t \in Below(s) /\ t \notin Below(t)
    BY <1>2, <1>6
  <2>2. Cardinality(Below(t)) <= Cardinality(Below(s))
        /\ (Cardinality(Below(s)) = Cardinality(Below(t)) => Below(s) = Below(t))
    BY <1>3, <2>1, FS_Subset
  <2>. QED  BY <1>3, <1>5, <2>1, <2>2
<1>7. \A t \in T : plan.order[s] <= plan.order[t]
  BY <1>2, <1>6
<1>. QED  BY <1>7 DEF Lowest

TwoGroups(plan) == plan.policy = "parallel_all_of" /\ ~OneGroupPerOrder(plan)

\* What a stage map of a route in route is like.
Asking(plan, stage) ==
  /\ TwoGroups(plan) \/ \E t \in DOMAIN stage : stage[t] = "in_progress"
  /\ plan.policy # "parallel_any_of" =>
       \A t \in DOMAIN stage : stage[t] \in OpenStates \cup {"approved"}
  /\ plan.policy # "parallel_any_of" /\ ~TwoGroups(plan) =>
       \A t \in Lowest(plan, StagesOf(plan)) : stage[t] # "pending"

AskInv == TrailInv /\ (doc.status = "in_route" => Asking(Current.plan, Current.stage))

LEMMA OpeningAsks ==
  ASSUME NEW plan, IsPlan(plan), NEW first \in Lowest(plan, StagesOf(plan))
  PROVE  Asking(plan, OpeningStages(plan, first))
<1>1. PICK stage : stage = OpeningStages(plan, first)
  OBVIOUS
<1>2. /\ DOMAIN stage = StagesOf(plan)
      /\ \A t \in StagesOf(plan) :
           stage[t] = IF t \in FirstHop(plan, first) THEN "in_progress" ELSE "pending"
  BY <1>1 DEF OpeningStages
<1>3. first \in FirstHop(plan, first) /\ first \in StagesOf(plan)
  BY DEF FirstHop, Lowest
<1>4. ASSUME plan.policy # "parallel_any_of", ~TwoGroups(plan), NEW t \in Lowest(plan, StagesOf(plan))
      PROVE  t \in FirstHop(plan, first) /\ t \in StagesOf(plan)
  <2>1. t \in StagesOf(plan) /\ plan.order[t] = plan.order[first]
    BY <1>3 DEF Lowest, IsPlan
  <2>2. plan.policy = "sequential" \/ OneGroupPerOrder(plan)
    BY <1>4 DEF TwoGroups, IsPlan, Policies
  <2>3. OneGroupPerOrder(plan) => plan.group[t] = plan.group[first]
    BY <1>3, <2>1 DEF OneGroupPerOrder
  <2>. QED  BY <2>1, <2>2, <2>3 DEF FirstHop
<1>5. Asking(plan, stage)
  BY <1>2, <1>3, <1>4 DEF Asking, OpenStates
<1>. QED  BY <1>1, <1>5

\* The engine waits for stages of the lowest level, which are running.
LEMMA WaitingAsks ==
  ASSUME NEW plan, IsPlan(plan), NEW stage \in StageMaps(plan), Waits(plan, stage),
         plan.policy # "parallel_any_of", ~TwoGroups(plan),
         \A t \in DOMAIN stage : stage[t] \in OpenStates \cup {"approved"},
         \A t \in Lowest(plan, StagesOf(plan)) : stage[t] # "pending"
  PROVE  \E t \in DOMAIN stage : stage[t] = "in_progress"
<1>1. {t \in StagesOf(plan) : stage[t] \in OpenStates \cup {"approved"}} = StagesOf(plan)
  BY DEF StageMaps
<1>2. CurrentLevel(plan, stage) =
        {t \in StagesOf(plan) : \E u \in Lowest(plan, StagesOf(plan)) : plan.order[t] = plan.order[u]}
  BY <1>1 DEF CurrentLevel
<1>3. PICK t \in StagesOf(plan) :
        stage[t] \in OpenStates /\ \E u \in Lowest(plan, StagesOf(plan)) : plan.order[t] = plan.order[u]
  BY <1>2 DEF Waits, OpenIn
<1>4. t \in Lowest(plan, StagesOf(plan))
  BY <1>3 DEF Lowest
<1>. QED  BY <1>3, <1>4 DEF OpenStates, StageMaps

\* An approval that does not finish the route leaves it asking.
LEMMA ApprovalAsks ==
  ASSUME NEW plan, IsPlan(plan), NEW stage \in StageMaps(plan), Asking(plan, stage),
         NEW s \in StagesOf(plan), NEW approved, approved = [stage EXCEPT ![s] = "approved"],
         ~Completes(plan, approved, s)
  PROVE  Asking(plan, AfterApproval(plan, approved, s))
<1>1. /\ approved \in StageMaps(plan) /\ approved[s] = "approved"
      /\ \A t \in DOMAIN approved \ {s} : approved[t] = stage[t]
      /\ DOMAIN approved = StagesOf(plan) /\ DOMAIN stage = StagesOf(plan)
  BY DEF StageMaps, StageStates
<1>2. ASSUME plan.policy # "parallel_any_of"
      PROVE  \A t \in DOMAIN approved : approved[t] \in OpenStates \cup {"approved"}
  BY <1>1, <1>2 DEF Asking
<1>3. ASSUME plan.policy # "parallel_any_of", ~TwoGroups(plan)
      PROVE  \A t \in Lowest(plan, StagesOf(plan)) : approved[t] # "pending"
  <2> SUFFICES ASSUME NEW t \in Lowest(plan, StagesOf(plan)) PROVE approved[t] # "pending"
    OBVIOUS
  <2>1. t \in StagesOf(plan) /\ stage[t] # "pending"
    BY <1>3 DEF Asking, Lowest
  <2>. QED  BY <1>1, <2>1
<1>4. CASE Waits(plan, approved)
  <2>1. AfterApproval(plan, approved, s) = approved /\ plan.policy # "parallel_any_of"
    BY <1>4 DEF AfterApproval, Waits
  <2>2. TwoGroups(plan) \/ \E t \in DOMAIN approved : approved[t] = "in_progress"
    BY <1>1, <1>2, <1>3, <1>4, <2>1, WaitingAsks
  <2>. QED  BY <1>2, <1>3, <2>1, <2>2, ZenonT(60) DEF Asking
<1>5. CASE ~Waits(plan, approved)
  <2>1. PICK skipped : skipped = SkipSiblings(plan, approved, s)
    OBVIOUS
  <2>2. /\ skipped \in StageMaps(plan) /\ OpenIn(skipped) # {}
        /\ plan.policy # "parallel_any_of" => \A t \in StagesOf(plan) : skipped[t] = approved[t]
    BY <1>1, <1>5, <2>1, SkipType DEF Completes, SkipSiblings
  <2>3. PICK next : next = OpenNext(plan, skipped)
    OBVIOUS
  <2>4. /\ DOMAIN next = StagesOf(plan)
        /\ \A t \in StagesOf(plan) :
             next[t] = IF t \in Lowest(plan, OpenIn(skipped)) THEN "in_progress" ELSE skipped[t]
    BY <2>3 DEF OpenNext
  <2>5. OpenIn(skipped) \in SUBSET StagesOf(plan)
    BY <2>2 DEF OpenIn, StageMaps
  <2>6. PICK t \in StagesOf(plan) : t \in Lowest(plan, OpenIn(skipped))
    BY <2>2, <2>5, SomeAreLowest DEF Lowest
  <2>7. next[t] = "in_progress"
    BY <2>4, <2>6
  <2>8. plan.policy # "parallel_any_of" => \A u \in StagesOf(plan) : next[u] \in {approved[u], "in_progress"}
    BY <2>2, <2>4
  <2>9. Lowest(plan, StagesOf(plan)) \subseteq StagesOf(plan)
    BY DEF Lowest
  <2>10. Asking(plan, next)
    BY <1>1, <1>2, <1>3, <2>4, <2>6, <2>7, <2>8, <2>9 DEF Asking, OpenStates
  <2>. QED  BY <1>5, <2>1, <2>3, <2>10 DEF AfterApproval
<1>. QED  BY <1>4, <1>5

LEMMA AskStepKeeps == AskInv /\ [Next]_vars => AskInv'
<1> SUFFICES ASSUME AskInv, [Next]_vars PROVE AskInv'
  OBVIOUS
<1>1. TrailInv' /\ Inv /\ Inv'
  BY TrailStepKeeps DEF AskInv, TrailInv
<1> SUFFICES ASSUME doc'.status = "in_route" PROVE Asking(Current.plan, Current.stage)'
  BY <1>1 DEF AskInv
<1>2. ASSUME NEW plan \in Plans, NEW first, SubmitToRoute(plan, first)
      PROVE  Asking(Current.plan, Current.stage)'
  <2>1. PICK r : r = NewRoute(plan, first)
    OBVIOUS
  <2>2. Current' = r
    BY <1>1, <1>2, <2>1 DEF SubmitToRoute, Current, Inv, TypeOK
  <2>3. r.plan = plan /\ r.stage = OpeningStages(plan, first)
    BY <2>1 DEF NewRoute
  <2>4. Asking(plan, OpeningStages(plan, first))
    BY <1>2, OpeningAsks, RouteAssumption DEF SubmitToRoute
  <2>. QED  BY <2>2, <2>3, <2>4
<1>3. ASSUME NEW s \in Stages, CommentStage(s) PROVE Asking(Current.plan, Current.stage)'
  <2>1. /\ doc.current \in 1 .. Len(routes) /\ Current \in Route /\ doc.current # 0
        /\ Current.stage \in StageMaps(Current.plan) /\ s \in DOMAIN Current.stage
    BY <1>1, <1>3, ActionableFacts, RoutedFacts DEF CommentStage
  <2>2. PICK plan, stage : plan = Current.plan /\ stage = Current.stage
    OBVIOUS
  <2>3. PICK next : next = [stage EXCEPT ![s] = "in_progress"]
    OBVIOUS
  <2>4. PICK r : r = [Current EXCEPT !.stage = next]
    OBVIOUS
  <2>5. r.plan = plan /\ r.stage = next
    BY <2>1, <2>2, <2>4 DEF Route
  <2>6. routes' = [routes EXCEPT ![doc.current] = r] /\ doc' = doc
    BY <1>3, <2>1, <2>2, <2>3, <2>4 DEF CommentStage, Current
  <2>7. Current' = r
    BY <1>1, <2>1, <2>6 DEF Current, Inv, TypeOK
  <2>8. Asking(plan, stage)
    BY <2>2, <2>6 DEF AskInv
  <2>9. DOMAIN next = DOMAIN stage /\ next[s] = "in_progress" /\ \A t \in DOMAIN stage \ {s} : next[t] = stage[t]
    BY <2>3, <2>1, <2>2
  <2>10. Lowest(plan, StagesOf(plan)) \subseteq DOMAIN stage
    BY <2>1, <2>2 DEF Lowest, StageMaps
  <2>11. Asking(plan, next)
    BY <2>1, <2>2, <2>8, <2>9, <2>10 DEF Asking, OpenStates
  <2>. QED  BY <2>5, <2>7, <2>11
<1>4. ASSUME NEW s \in Stages, ApproveStage(s) PROVE Asking(Current.plan, Current.stage)'
  <2>1. /\ doc.current \in 1 .. Len(routes) /\ Current \in Route /\ doc.current # 0
        /\ Current.stage \in StageMaps(Current.plan) /\ s \in StagesOf(Current.plan)
        /\ Current.plan \in Plans
    BY <1>1, <1>4, ActionableFacts, RoutedFacts DEF ApproveStage
  <2>2. PICK plan, stage : plan = Current.plan /\ stage = Current.stage
    OBVIOUS
  <2>3. PICK approved : approved = [stage EXCEPT ![s] = "approved"]
    OBVIOUS
  <2>4. ~Completes(plan, approved, s) /\ doc' = doc
    BY <1>1, <1>4, <2>2, <2>3 DEF ApproveStage, Inv, TypeOK, Document
  <2>5. PICK next : next = AfterApproval(plan, approved, s)
    OBVIOUS
  <2>6. PICK state : state = Current.state
    OBVIOUS
  <2>7. PICK r : r = [Current EXCEPT !.stage = next, !.state = state]
    OBVIOUS
  <2>8. r.plan = plan /\ r.stage = next
    <3>1. r = MakeRoute(Current.plan, state, Current.overridden, next)
      BY <2>1, <2>7, RouteDecided
    <3>. QED  BY <2>2, <3>1 DEF MakeRoute
  <2>9. routes' = [routes EXCEPT ![doc.current] = r]
    BY <1>4, <2>1, <2>2, <2>3, <2>4, <2>5, <2>6, <2>7 DEF ApproveStage, Current
  <2>10. Current' = r
    BY <1>1, <2>1, <2>4, <2>9 DEF Current, Inv, TypeOK
  <2>11. Asking(plan, stage) /\ IsPlan(plan) /\ stage \in StageMaps(plan) /\ s \in StagesOf(plan)
    BY <2>1, <2>2, <2>4, RouteAssumption DEF AskInv
  <2>12. Asking(plan, next)
    BY <2>3, <2>4, <2>5, <2>11, ApprovalAsks
  <2>. QED  BY <2>8, <2>10, <2>12
<1>5. ASSUME NEW s \in Stages, RejectStage(s) \/ ReturnStage(s) PROVE FALSE
  BY <1>1, <1>5 DEF RejectStage, ReturnStage, Inv, TypeOK, Document
<1>6. CASE ForceApprove \/ ForceReject \/ Archive
  BY <1>1, <1>6 DEF ForceApprove, ForceReject, Override, Archive, Inv, TypeOK, Document
<1>7. CASE RegisterDocument \/ UNCHANGED vars
  <2>1. doc'.status = doc.status /\ doc'.current = doc.current /\ routes' = routes
    BY <1>1, <1>7 DEF RegisterDocument, vars, Inv, TypeOK, Document
  <2>. QED  BY <2>1 DEF AskInv, Current
<1>. QED  BY <1>2, <1>3, <1>4, <1>5, <1>6, <1>7 DEF Next, StageAction

(***************************************************************************)
(* submitToRoute, applyRouteProgress: for any plans, whatever verdicts,    *)
(* comments and overrides come in whatever order, a document in route has  *)
(* a running stage, which findMyApprovals shows to its assignee, but for   *)
(* all_of plans that put two groups in one order.                          *)
(***************************************************************************)
THEOREM DocumentsAreAsked == Spec => []SomebodyIsAsked
<1>1. Init => AskInv
  BY TrailInitially DEF AskInv, Init, NewDocument
<1>2. AskInv => SomebodyIsAsked
  BY DEF AskInv, Asking, SomebodyIsAsked, TwoGroups, Asked
<1>. QED  BY <1>1, <1>2, AskStepKeeps, PTL DEF Spec
=============================================================================
