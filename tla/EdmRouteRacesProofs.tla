------------------------ MODULE EdmRouteRacesProofs ------------------------
(***************************************************************************)
(* Requests that overlap on one document, for any number of requests in    *)
(* flight, any stages, plans and submissions: no interleaving loses the    *)
(* audit row of a verdict or approves a document by itself, and a request  *)
(* that nothing was committed during does what one step of EdmRoute does.  *)
(*                                                                         *)
(* What a transaction will write is fixed when it writes its first row, so *)
(* the invariant says of every pending write what must be true of the rows *)
(* once it is committed, whatever was committed in between.                *)
(***************************************************************************)
EXTENDS EdmRouteRaces, EdmRouteProofs

-----------------------------------------------------------------------------
(***************************************************************************)
(* The inductive invariant.                                                *)
(***************************************************************************)

\* Somebody approved a stage or overrode a route.
Approving == {"approved", "archived"}

Backed ==
  \/ \E row \in actions : row.action = "approved"
  \/ \E v \in 1 .. Len(routes) : routes[v].overridden

\* The document row, or a copy of it that may be saved at any time.
Sound(d) ==
  /\ d \in Document
  /\ d.current <= Len(routes)
  /\ d.status \in Approving => Backed

\* The rows a decision closes its stages with are among those it writes.
RowsOf(o) ==
  \A s \in DOMAIN o.stage : \A k \in StageVerdicts :
    o.stage[s] = StateOfVerdict[k] => ActionRow(o.version, s, k) \in o.rows

SavesDoc(o) ==
  /\ o.doc \in Document
  /\ o.doc.current <= Len(routes)
  /\ o.doc.status \in Approving =>
       Backed \/ o.forced \/ \E row \in o.rows : row.action = "approved"

\* What a stage action or an override is about to commit.
Fits(o) ==
  /\ o.version \in 1 .. Len(routes)
  /\ DOMAIN o.stage \subseteq DOMAIN routes[o.version].stage
  /\ \A s \in DOMAIN o.stage : o.stage[s] \in StageStates
  /\ o.state \in RouteStates \cup {"same"}
  /\ o.forced \in BOOLEAN
  /\ o.rows \subseteq [route : {o.version}, stage : Stages, action : ActionKinds]
  /\ RowsOf(o)
  /\ o.doc = NotSaved \/ SavesDoc(o)

\* What a submission is about to commit; it keeps the key of its version.
Inserts(r) ==
  /\ Len(routes) < MaxVersions
  /\ r.out.doc = [status |-> "in_route", current |-> Len(routes) + 1, numbered |-> TRUE]
  /\ RouteLock(Len(routes) + 1) \in r.holds

\* A request is its fields.
Form(r) ==
  /\ r.pc \in {"idle", "loaded", "begun", "written"}
  /\ r.pc = "idle" => r = Idle
  /\ r.pc \in {"loaded", "begun"} =>
       r = [pc |-> r.pc, op |-> r.op, copy |-> r.copy, alone |-> r.alone]
  /\ r.pc = "written" => r = Written(r, r.holds, r.wants, r.out)

Verdict(op) == op.kind \in {"act", "override"}

\* What was admitted, and what is about to be committed, stays true.
Stands(r) ==
  r.pc # "idle" =>
    /\ r.op \in Operations
    /\ Sound(r.copy)
    /\ Verdict(r.op) => r.copy.current # 0
    /\ r.op.kind = "archive" => r.copy.status = "approved"
    /\ r.pc = "begun" => /\ r.op.kind = "act"
                         /\ r.op.stage \in StagesOf(routes[r.copy.current].plan)
    /\ r.pc = "written" => /\ r.op.kind = "submit" => Inserts(r)
                           /\ r.op.kind # "submit" => Verdict(r.op) /\ Fits(r.out)

Inserting(p) == req[p].pc = "written" /\ req[p].op.kind = "submit"

RowsFine ==
  /\ TypeOK
  /\ Sound(doc)
  /\ \A v \in 1 .. Len(routes) : \A s \in DOMAIN routes[v].stage :
       \A k \in StageVerdicts :
         routes[v].stage[s] = StateOfVerdict[k] => ActionRow(v, s, k) \in actions

RacesInv ==
  /\ RowsFine
  /\ DOMAIN req = Requests
  /\ \A p \in Requests : \A r \in {req[p]} : Form(r) /\ Stands(r)
  /\ \A p, q \in Requests : Inserting(p) /\ Inserting(q) => p = q

-----------------------------------------------------------------------------
\* What an override writes.
Forces(v, verdict, copy) ==
  LET open == OpenIn(routes[v].stage)
      yes  == verdict = "approved"
  IN  [version |-> v,
       stage   |-> [t \in open |-> "skipped"],
       state   |-> IF yes THEN "completed" ELSE "rejected",
       forced  |-> TRUE,
       doc     |-> [copy EXCEPT !.status = verdict],
       rows    |-> {ActionRow(v, t, IF yes THEN "override_approved"
                                    ELSE "override_rejected") : t \in open}]

\* What is true of a request as long as nothing was committed since it loaded.
Alone(r) ==
  r.pc # "idle" /\ r.alone =>
    /\ r.copy = doc
    /\ r.op.kind = "submit" =>
         /\ doc.status \in {"draft", "returned_for_revision"}
         /\ r.op.first \in StagesOf(r.op.plan)
         /\ r.op.first \in Lowest(r.op.plan, StagesOf(r.op.plan))
    /\ r.pc \in {"begun", "written"} /\ r.op.kind = "act" => Actionable(r.op.stage)
    /\ r.pc = "written" /\ r.op.kind = "act" =>
         r.out = Decision(doc.current, Current.plan, Current.stage, r.op, doc)
    /\ r.pc = "written" /\ r.op.kind = "override" =>
         r.out = Forces(doc.current, r.op.verdict, doc)

AloneInv == \A p \in Requests : \A r \in {req[p]} : Alone(r)

-----------------------------------------------------------------------------
(***************************************************************************)
(* Steps that commit nothing change one slot.                              *)
(***************************************************************************)
LEMMA RequestFacts ==
  ASSUME RacesInv, NEW p \in Requests, NEW r, r = req[p]
  PROVE  Form(r) /\ Stands(r)
BY DEF RacesInv

LEMMA IdleFacts == Idle.pc = "idle" /\ Form(Idle) /\ Stands(Idle)
BY DEF Idle, Form, Stands

LEMMA StandsSame ==
  ASSUME NEW r, Stands(r), UNCHANGED vars
  PROVE  Stands(r)'
BY DEF Stands, Sound, Backed, Inserts, Fits, SavesDoc, RowsOf, Verdict, vars

LEMMA SlotStep ==
  ASSUME RacesInv, UNCHANGED vars, NEW p \in Requests, NEW x, req' = [req EXCEPT ![p] = x],
         Form(x), Stands(x),
         x.pc = "written" /\ x.op.kind = "submit" =>
           \A q \in Requests \ {p} : ~Inserting(q)
  PROVE  RacesInv'
<1>1. /\ DOMAIN req = Requests /\ DOMAIN req' = Requests
      /\ req'[p] = x /\ \A q \in Requests : q # p => req'[q] = req[q]
  BY DEF RacesInv
<1>2. RowsFine'
  BY DEF RacesInv, RowsFine, TypeOK, Sound, Backed, vars
<1>3. ASSUME NEW q \in Requests, NEW r, r = req'[q]
      PROVE  Form(r) /\ Stands(r)'
  <2>1. Form(r) /\ Stands(r)
    BY <1>1, <1>3, RequestFacts
  <2>2. QED
    BY <2>1, StandsSame
<1>4. ASSUME NEW q \in Requests, NEW u \in Requests, Inserting(q)', Inserting(u)'
      PROVE  q = u
  <2>1. q # p => Inserting(q)
    BY <1>1, <1>4 DEF Inserting
  <2>2. u # p => Inserting(u)
    BY <1>1, <1>4 DEF Inserting
  <2>3. q = p \/ u = p => x.pc = "written" /\ x.op.kind = "submit"
    BY <1>1, <1>4 DEF Inserting
  <2>4. QED
    BY <2>1, <2>2, <2>3 DEF RacesInv
<1>5. ASSUME NEW q \in Requests, NEW r \in {req'[q]}
      PROVE  Form(r)' /\ Stands(r)'
  BY <1>3, <1>5 DEF Form, Idle, Written
<1>6. QED
  BY <1>1, <1>2, <1>4, <1>5 DEF RacesInv

LEMMA FreedSlot ==
  ASSUME RacesInv, UNCHANGED vars, NEW p \in Requests, req' = [req EXCEPT ![p] = Idle]
  PROVE  RacesInv'
BY IdleFacts, SlotStep

LEMMA LoadInv ==
  ASSUME RacesInv, NEW p \in Requests, NEW op \in Operations, Load(p, op)
  PROVE  RacesInv'
<1>1. PICK x : x = Loaded(op)
  OBVIOUS
<1>2. x.pc = "loaded" /\ x.op = op /\ x.copy = doc /\ x.alone = TRUE
  BY <1>1 DEF Loaded
<1>3. Form(x)
  BY <1>1, <1>2 DEF Form, Loaded
<1>4. Verdict(op) => doc.current # 0
  BY DEF Load, Admits, Verdict
<1>5. op.kind = "archive" => doc.status = "approved"
  BY DEF Load, Admits, MayArchive
<1>6. Stands(x)
  BY <1>2, <1>4, <1>5 DEF Stands, RacesInv, RowsFine
<1>7. req' = [req EXCEPT ![p] = x] /\ UNCHANGED vars
  BY <1>1 DEF Load, vars
<1>8. QED
  BY <1>2, <1>3, <1>6, <1>7, SlotStep

LEMMA BeginInv ==
  ASSUME RacesInv, NEW p \in Requests, Begin(p)
  PROVE  RacesInv'
<1>1. PICK r, x : r = req[p] /\ x = [req[p] EXCEPT !.pc = "begun"]
  OBVIOUS
<1>2. /\ Form(r) /\ Stands(r) /\ r.pc = "loaded" /\ r.op.kind = "act"
      /\ r.op.stage \in StagesOf(routes[r.copy.current].plan)
  BY <1>1, RequestFacts DEF Begin
<1>3. x = [pc |-> "begun", op |-> r.op, copy |-> r.copy, alone |-> r.alone]
  BY <1>1, <1>2 DEF Form
<1>4. x.pc = "begun" /\ x.op = r.op /\ x.copy = r.copy /\ x.alone = r.alone
  BY <1>3
<1>5. Form(x)
  BY <1>3, <1>4 DEF Form
<1>6. Stands(x)
  BY <1>2, <1>4 DEF Stands
<1>7. req' = [req EXCEPT ![p] = x] /\ UNCHANGED vars
  BY <1>1 DEF Begin, vars
<1>8. QED
  BY <1>4, <1>5, <1>6, <1>7, SlotStep

-----------------------------------------------------------------------------
(***************************************************************************)
(* What a transaction is about to write.                                   *)
(***************************************************************************)
LEMMA WrittenFields ==
  ASSUME NEW r, NEW holds, NEW wants, NEW out, NEW x, x = Written(r, holds, wants, out)
  PROVE  /\ x.pc = "written" /\ x.op = r.op /\ x.copy = r.copy /\ x.alone = r.alone
         /\ x.holds = holds /\ x.wants = wants /\ x.out = out
         /\ Form(x)
<1>1. x = [pc |-> "written", op |-> r.op, copy |-> r.copy, alone |-> r.alone,
           holds |-> holds, wants |-> wants, out |-> out]
  BY DEF Written
<1>2. /\ x.pc = "written" /\ x.op = r.op /\ x.copy = r.copy /\ x.alone = r.alone
      /\ x.holds = holds /\ x.wants = wants /\ x.out = out
  BY <1>1
<1>3. QED
  BY <1>1, <1>2 DEF Form, Written

LEMMA WriteSubmitInv ==
  ASSUME RacesInv, NEW p \in Requests, WriteSubmit(p)
  PROVE  RacesInv'
<1>1. PICK r, v : r = req[p] /\ v = Len(routes) + 1
  OBVIOUS
<1>2. PICK out, x :
        /\ out = [version |-> v, doc |-> [status |-> "in_route", current |-> v, numbered |-> TRUE]]
        /\ x = Written(r, {RouteLock(v)}, {DocLock}, out)
  OBVIOUS
<1>3. /\ Stands(r) /\ r.pc = "loaded" /\ r.op.kind = "submit" /\ v <= MaxVersions
      /\ \A q \in Requests \ {p} : req[q].pc = "written" => RouteLock(v) \notin req[q].holds
      /\ req' = [req EXCEPT ![p] = x] /\ UNCHANGED vars
  BY <1>1, <1>2, RequestFacts DEF WriteSubmit, vars
<1>4. /\ x.pc = "written" /\ x.op = r.op /\ x.copy = r.copy
      /\ x.holds = {RouteLock(v)} /\ x.out = out /\ Form(x)
  BY <1>2, WrittenFields
<1>5. Len(routes) \in Nat /\ MaxVersions \in Nat
  BY RouteAssumption DEF RacesInv, RowsFine, TypeOK
<1>6. out.doc = [status |-> "in_route", current |-> v, numbered |-> TRUE]
  BY <1>2
<1>7. Inserts(x)
  BY <1>1, <1>3, <1>4, <1>5, <1>6 DEF Inserts
<1>8. Stands(x)
  BY <1>3, <1>4, <1>7 DEF Stands, Verdict
<1>9. ASSUME NEW q \in Requests \ {p}, Inserting(q)
      PROVE  FALSE
  <2>1. PICK y : y = req[q]
    OBVIOUS
  <2>2. Stands(y) /\ y.pc = "written" /\ y.op.kind = "submit"
    BY <1>9, <2>1, RequestFacts DEF Inserting
  <2>3. RouteLock(v) \in y.holds
    BY <1>1, <2>2 DEF Stands, Inserts
  <2>4. QED
    BY <1>3, <2>1, <2>2, <2>3
<1>10. QED
  BY <1>3, <1>4, <1>8, <1>9, SlotStep

\* The engine gives a verdict to no stage.
LEMMA EngineOnlySkips ==
  ASSUME NEW plan, NEW stage \in StageMaps(plan), NEW s, NEW new, new = AfterApproval(plan, stage, s),
         NEW t \in StagesOf(plan)
  PROVE  new[t] = stage[t] \/ new[t] \in {"skipped", "in_progress"}
<1>1. PICK skipped : skipped = SkipSiblings(plan, stage, s)
  OBVIOUS
<1>2. skipped[t] = stage[t] \/ skipped[t] = "skipped"
  BY <1>1 DEF SkipSiblings
<1>3. OpenNext(plan, skipped)[t] = skipped[t] \/ OpenNext(plan, skipped)[t] = "in_progress"
  BY DEF OpenNext
<1>4. new = stage \/ new = OpenNext(plan, skipped)
  BY <1>1 DEF AfterApproval
<1>5. QED
  BY <1>2, <1>3, <1>4

\* A stage action, in the terms of its own operators.
StageClosed(seen, op) ==
  [seen EXCEPT ![op.stage] = IF op.action = "commented" THEN "in_progress"
                             ELSE StateOfVerdict[op.action]]

StageAfter(plan, seen, op) ==
  IF op.action = "approved" THEN AfterApproval(plan, StageClosed(seen, op), op.stage)
  ELSE StageClosed(seen, op)

RouteEnds(plan, seen, op) ==
  \/ op.action \in {"rejected", "returned_for_revision"}
  \/ op.action = "approved" /\ Completes(plan, StageClosed(seen, op), op.stage)

LEMMA StageAfterFacts ==
  ASSUME NEW plan, NEW seen \in StageMaps(plan), NEW op, op.stage \in StagesOf(plan),
         op.action \in StageVerdicts \cup {"commented"}, NEW stage, stage = StageAfter(plan, seen, op)
  PROVE  /\ stage \in StageMaps(plan)
         /\ op.action # "approved" =>
              stage[op.stage] = IF op.action = "commented" THEN "in_progress"
                                ELSE StateOfVerdict[op.action]
         /\ \A t \in StagesOf(plan) :
              \/ t # op.stage /\ stage[t] = seen[t]
              \/ stage[t] \in {"skipped", "in_progress"}
              \/ t = op.stage /\ op.action # "commented" /\ stage[t] = StateOfVerdict[op.action]
<1>1. PICK closed, new : closed = StageClosed(seen, op) /\ new = AfterApproval(plan, closed, op.stage)
  OBVIOUS
<1>2. DOMAIN seen = StagesOf(plan)
  BY DEF StageMaps
<1>3. /\ closed[op.stage] = IF op.action = "commented" THEN "in_progress"
                            ELSE StateOfVerdict[op.action]
      /\ \A t \in StagesOf(plan) : t # op.stage => closed[t] = seen[t]
  BY <1>1, <1>2 DEF StageClosed
<1>4. closed \in StageMaps(plan)
  BY <1>1 DEF StageClosed, StageMaps, StageStates, StateOfVerdict, StageVerdicts
<1>5. new \in StageMaps(plan)
  BY <1>1, <1>4, AfterApprovalType
<1>6. \A t \in StagesOf(plan) : new[t] = closed[t] \/ new[t] \in {"skipped", "in_progress"}
  BY <1>1, <1>4, EngineOnlySkips
<1>7. stage = IF op.action = "approved" THEN new ELSE closed
  BY <1>1 DEF StageAfter
<1>8. stage \in StageMaps(plan)
  BY <1>4, <1>5, <1>7
<1>9. ASSUME NEW t \in StagesOf(plan)
      PROVE  \/ t # op.stage /\ stage[t] = seen[t]
             \/ stage[t] \in {"skipped", "in_progress"}
             \/ t = op.stage /\ op.action # "commented" /\ stage[t] = StateOfVerdict[op.action]
  BY <1>3, <1>6, <1>7
<1>10. QED
  BY <1>3, <1>7, <1>8, <1>9

\* What a stage action is about to write fits the route it was decided on.
LEMMA DecisionFits ==
  ASSUME RacesInv, NEW v \in 1 .. Len(routes), NEW plan, NEW seen,
         plan = routes[v].plan, seen = routes[v].stage,
         NEW op \in [kind : {"act"}, stage : Stages, action : StageVerdicts \cup {"commented"}],
         op.stage \in StagesOf(plan),
         NEW copy, Sound(copy),
         NEW o, o = Decision(v, plan, seen, op, copy)
  PROVE  Fits(o)
<1>1. routes[v] \in Route
  BY DEF RacesInv, RowsFine, TypeOK
<1>2. seen \in StageMaps(plan) /\ DOMAIN seen = StagesOf(plan)
  BY <1>1, RouteFields DEF StageMaps
<1>3. PICK stage : stage = StageAfter(plan, seen, op)
  OBVIOUS
<1>4. /\ stage \in StageMaps(plan)
      /\ op.action # "approved" =>
           stage[op.stage] = IF op.action = "commented" THEN "in_progress"
                             ELSE StateOfVerdict[op.action]
      /\ \A t \in StagesOf(plan) :
           \/ t # op.stage /\ stage[t] = seen[t]
           \/ stage[t] \in {"skipped", "in_progress"}
           \/ t = op.stage /\ op.action # "commented" /\ stage[t] = StateOfVerdict[op.action]
  BY <1>2, <1>3, StageAfterFacts
<1>5. /\ o.version = v /\ o.forced = FALSE
      /\ o.stage = Changes(seen, stage, op.stage)
      /\ o.state = IF ~RouteEnds(plan, seen, op) THEN "same"
                   ELSE IF op.action = "approved" THEN "completed" ELSE stage[op.stage]
      /\ o.doc = IF RouteEnds(plan, seen, op) THEN [copy EXCEPT !.status = op.action] ELSE NotSaved
      /\ o.rows = AuditRows(v, op)
  BY <1>3 DEF Decision, StageClosed, StageAfter, RouteEnds, StatusAfter
<1>6. /\ DOMAIN o.stage \subseteq StagesOf(plan)
      /\ \A t \in DOMAIN o.stage : o.stage[t] = stage[t] /\ (t = op.stage \/ stage[t] # seen[t])
  BY <1>2, <1>5 DEF Changes
<1>7. \A t \in DOMAIN o.stage : o.stage[t] \in StageStates
  BY <1>4, <1>6 DEF StageMaps
<1>8. o.state \in RouteStates \cup {"same"}
  BY <1>4, <1>5 DEF RouteEnds, RouteStates, StateOfVerdict
<1>9. o.rows \subseteq [route : {v}, stage : Stages, action : ActionKinds]
  BY <1>5 DEF AuditRows, ActionRow, ActionKinds, StageVerdicts
<1>10. ASSUME NEW t \in DOMAIN o.stage, NEW k \in StageVerdicts, o.stage[t] = StateOfVerdict[k]
       PROVE  ActionRow(v, t, k) \in o.rows
  <2>1. stage[t] = StateOfVerdict[k] /\ stage[t] \notin {"skipped", "in_progress"}
    BY <1>6, <1>10 DEF StateOfVerdict, StageVerdicts
  <2>2. t = op.stage /\ op.action # "commented" /\ stage[t] = StateOfVerdict[op.action]
    BY <1>4, <1>6, <2>1
  <2>3. k = op.action
    BY <2>1, <2>2 DEF StateOfVerdict, StageVerdicts
  <2>4. QED
    BY <1>5, <2>2, <2>3 DEF AuditRows
<1>11. ASSUME RouteEnds(plan, seen, op)
       PROVE  SavesDoc(o)
  <2>1. op.action \in StageVerdicts
    BY <1>11 DEF RouteEnds, StageVerdicts
  <2>2. copy \in Document /\ copy.current <= Len(routes)
    BY DEF Sound
  <2>3. o.doc \in Document /\ o.doc.current = copy.current /\ o.doc.status = op.action
    BY <1>5, <1>11, <2>1, <2>2 DEF Document, DocStatuses, StageVerdicts
  <2>4. ASSUME op.action \in Approving
        PROVE  \E row \in o.rows : row.action = "approved"
    <3>1. op.action = "approved"
      BY <2>1, <2>4 DEF Approving, StageVerdicts
    <3>2. ActionRow(v, op.stage, "approved") \in o.rows
      BY <1>5, <3>1 DEF AuditRows
    <3>3. ActionRow(v, op.stage, "approved").action = "approved"
      BY DEF ActionRow
    <3>4. QED
      BY <3>2, <3>3
  <2>5. QED
    BY <2>2, <2>3, <2>4 DEF SavesDoc
<1>12. o.doc = NotSaved \/ SavesDoc(o)
  BY <1>5, <1>11
<1>13. DOMAIN o.stage \subseteq DOMAIN routes[o.version].stage
  BY <1>2, <1>5, <1>6
<1>14. QED
  BY <1>5, <1>7, <1>8, <1>9, <1>10, <1>12, <1>13 DEF Fits, RowsOf

LEMMA OverrideFits ==
  ASSUME RacesInv, NEW v \in 1 .. Len(routes), NEW verdict \in {"approved", "rejected"},
         NEW copy, Sound(copy), NEW o, o = Forces(v, verdict, copy)
  PROVE  Fits(o)
<1>1. PICK open, kind :
        /\ open = OpenIn(routes[v].stage)
        /\ kind = IF verdict = "approved" THEN "override_approved" ELSE "override_rejected"
  OBVIOUS
<1>2. routes[v] \in Route
  BY DEF RacesInv, RowsFine, TypeOK
<1>3. /\ open \subseteq DOMAIN routes[v].stage
      /\ DOMAIN routes[v].stage \subseteq Stages
  <2>1. routes[v].plan \in Plans /\ routes[v].stage \in StageMaps(routes[v].plan)
    BY <1>2, RouteFields
  <2>2. StagesOf(routes[v].plan) \subseteq Stages
    BY <2>1, RouteAssumption DEF IsPlan
  <2>3. QED
    BY <1>1, <2>1, <2>2 DEF OpenIn, StageMaps
<1>4. /\ o.version = v /\ o.stage = [t \in open |-> "skipped"]
      /\ o.state = IF verdict = "approved" THEN "completed" ELSE "rejected"
      /\ o.forced = TRUE
      /\ o.doc = [copy EXCEPT !.status = verdict]
      /\ o.rows = {ActionRow(v, t, kind) : t \in open}
  BY <1>1 DEF Forces
<1>5. o.rows \subseteq [route : {v}, stage : Stages, action : ActionKinds]
  BY <1>1, <1>3, <1>4 DEF ActionRow, ActionKinds
<1>6. RowsOf(o)
  BY <1>4 DEF RowsOf, StateOfVerdict, StageVerdicts
<1>7. SavesDoc(o)
  <2>1. copy \in Document /\ copy.current <= Len(routes)
    BY DEF Sound
  <2>2. o.doc \in Document /\ o.doc.current = copy.current
    BY <1>4, <2>1 DEF Document, DocStatuses
  <2>3. QED
    BY <1>4, <2>1, <2>2 DEF SavesDoc
<1>8. /\ DOMAIN o.stage \subseteq DOMAIN routes[o.version].stage
      /\ \A t \in DOMAIN o.stage : o.stage[t] \in StageStates
      /\ o.state \in RouteStates \cup {"same"} /\ o.forced \in BOOLEAN
  <2>1. DOMAIN o.stage = open /\ \A t \in open : o.stage[t] = "skipped"
    BY <1>4
  <2>2. o.state \in RouteStates \cup {"same"}
    BY <1>4 DEF RouteStates
  <2>3. "skipped" \in StageStates /\ o.forced \in BOOLEAN
    BY <1>4 DEF StageStates
  <2>4. QED
    BY <1>3, <1>4, <2>1, <2>2, <2>3
<1>9. QED
  BY <1>4, <1>5, <1>6, <1>7, <1>8 DEF Fits

\* The route a request was admitted on exists.
LEMMA CopyPoints ==
  ASSUME RacesInv, NEW r, Stands(r), r.pc # "idle", Verdict(r.op)
  PROVE  r.copy.current \in 1 .. Len(routes)
<1>1. r.copy \in Document /\ r.copy.current <= Len(routes) /\ r.copy.current # 0
  BY DEF Stands, Sound
<1>2. r.copy.current \in Nat /\ Len(routes) \in Nat
  BY <1>1, RouteAssumption DEF Document, RacesInv, RowsFine, TypeOK
<1>3. QED
  BY <1>1, <1>2

LEMMA OperationFields ==
  ASSUME NEW op \in Operations
  PROVE  /\ op.kind = "act" =>
              op \in [kind : {"act"}, stage : Stages, action : StageVerdicts \cup {"commented"}]
         /\ op.kind = "override" => op.verdict \in {"approved", "rejected"}
         /\ op.kind = "submit" => op.plan \in Plans /\ op.first \in Stages
         /\ op.kind \in {"submit", "act", "override", "archive", "edit"}
BY DEF Operations

LEMMA WriteOverrideInv ==
  ASSUME RacesInv, NEW p \in Requests, WriteOverride(p)
  PROVE  RacesInv'
<1>1. PICK r, v : r = req[p] /\ v = r.copy.current
  OBVIOUS
<1>2. PICK out : out = Forces(v, r.op.verdict, r.copy)
  OBVIOUS
<1>3. PICK holds, wants :
        /\ holds = {RouteLock(v), DocLock}
        /\ wants = {StageLock(v, t) : t \in OpenIn(routes[v].stage)}
  OBVIOUS
<1>4. PICK x : x = Written(r, holds, wants, out)
  OBVIOUS
<1>5. /\ Stands(r) /\ r.pc = "loaded" /\ r.op.kind = "override"
      /\ req' = [req EXCEPT ![p] = x] /\ UNCHANGED vars
  <2>1. Stands(r) /\ r.pc = "loaded" /\ r.op.kind = "override" /\ UNCHANGED vars
    BY <1>1, RequestFacts DEF WriteOverride, vars
  <2>2. req' = [req EXCEPT ![p] = x]
    BY <1>1, <1>2, <1>3, <1>4 DEF WriteOverride, Forces
  <2>3. QED
    BY <2>1, <2>2
<1>6. x.pc = "written" /\ x.op = r.op /\ x.copy = r.copy /\ x.out = out /\ Form(x)
  BY <1>4, WrittenFields
<1>7. v \in 1 .. Len(routes) /\ Sound(r.copy) /\ r.op.verdict \in {"approved", "rejected"}
  BY <1>1, <1>5, CopyPoints, OperationFields DEF Stands, Verdict
<1>8. Fits(out)
  BY <1>2, <1>7, OverrideFits
<1>9. Stands(x)
  BY <1>5, <1>6, <1>8 DEF Stands, Verdict
<1>10. QED
  BY <1>5, <1>6, <1>9, SlotStep

LEMMA WriteStageInv ==
  ASSUME RacesInv, NEW p \in Requests, WriteStage(p)
  PROVE  RacesInv'
<1>1. PICK r, v : r = req[p] /\ v = r.copy.current
  OBVIOUS
<1>2. PICK out : out = Decision(v, routes[v].plan, routes[v].stage, r.op, r.copy)
  OBVIOUS
<1>3. PICK holds, wants :
        /\ holds = {StageLock(v, r.op.stage)}
        /\ wants = {StageLock(v, t) : t \in DOMAIN out.stage \ {r.op.stage}}
                     \cup (IF out.doc # NotSaved THEN {RouteLock(v), DocLock} ELSE {})
  OBVIOUS
<1>4. PICK x : x = Written(r, holds, wants, out)
  OBVIOUS
<1>5. /\ Stands(r) /\ r.pc = "begun" /\ UNCHANGED vars
      /\ req' = [req EXCEPT ![p] = x]
  <2>1. Stands(r) /\ r.pc = "begun" /\ UNCHANGED vars
    BY <1>1, RequestFacts DEF WriteStage, vars
  <2>2. req' = [req EXCEPT ![p] = x]
    BY <1>1, <1>2, <1>3, <1>4, ZenonT(60) DEF WriteStage
  <2>3. QED
    BY <2>1, <2>2
<1>6. x.pc = "written" /\ x.op = r.op /\ x.copy = r.copy /\ x.out = out /\ Form(x)
  BY <1>4, WrittenFields
<1>7. /\ r.op.kind = "act" /\ r.op \in Operations /\ Sound(r.copy)
      /\ r.op.stage \in StagesOf(routes[v].plan)
  BY <1>1, <1>5 DEF Stands
<1>8. v \in 1 .. Len(routes)
    /\ r.op \in [kind : {"act"}, stage : Stages, action : StageVerdicts \cup {"commented"}]
  BY <1>1, <1>5, <1>7, CopyPoints, OperationFields DEF Verdict

<1>9. Fits(out)
  BY <1>2, <1>7, <1>8, DecisionFits
<1>10. Stands(x)
  BY <1>5, <1>6, <1>9 DEF Stands, Verdict
<1>11. QED
  BY <1>5, <1>6, <1>7, <1>10, SlotStep

-----------------------------------------------------------------------------
(***************************************************************************)
(* What is true of a pending write stays true while the rows grow.         *)
(***************************************************************************)
Grows ==
  /\ Len(routes') \in Nat /\ Len(routes) <= Len(routes')
  /\ \A v \in 1 .. Len(routes) :
       /\ DOMAIN routes'[v].stage = DOMAIN routes[v].stage
       /\ routes'[v].plan = routes[v].plan
       /\ routes[v].overridden => routes'[v].overridden
  /\ actions \subseteq actions'

LEMMA BackedStays ==
  ASSUME RacesInv, Grows, Backed
  PROVE  Backed'
<1>1. Len(routes) \in Nat
  BY DEF RacesInv, RowsFine, TypeOK
<1>2. 1 .. Len(routes) \subseteq 1 .. Len(routes')
  BY <1>1 DEF Grows
<1>3. QED
  BY <1>2 DEF Backed, Grows

LEMMA SoundStays ==
  ASSUME RacesInv, Grows, NEW d, Sound(d)
  PROVE  Sound(d)'
<1>1. d \in Document /\ d.current <= Len(routes)
  BY DEF Sound
<1>2. d.current \in Nat /\ Len(routes) \in Nat
  BY <1>1, RouteAssumption DEF Document, RacesInv, RowsFine, TypeOK
<1>3. d.current <= Len(routes')
  BY <1>1, <1>2 DEF Grows
<1>4. d.status \in Approving => Backed'
  BY BackedStays DEF Sound
<1>5. QED
  BY <1>1, <1>3, <1>4 DEF Sound, Approving

LEMMA FitsStays ==
  ASSUME RacesInv, Grows, NEW o, Fits(o)
  PROVE  Fits(o)'
<1>1. Len(routes) \in Nat
  BY DEF RacesInv, RowsFine, TypeOK
<1>2. /\ o.version \in 1 .. Len(routes) /\ o.version \in 1 .. Len(routes')
      /\ DOMAIN o.stage \subseteq DOMAIN routes'[o.version].stage
  BY <1>1 DEF Fits, Grows
<1>3. ASSUME SavesDoc(o)
      PROVE  SavesDoc(o)'
  <2>1. o.doc \in Document /\ o.doc.current <= Len(routes)
    BY <1>3 DEF SavesDoc
  <2>2. o.doc.current \in Nat
    BY <2>1, RouteAssumption DEF Document
  <2>3. o.doc.current <= Len(routes')
    BY <1>1, <2>1, <2>2 DEF Grows
  <2>4. o.doc.status \in Approving =>
          Backed' \/ o.forced \/ \E row \in o.rows : row.action = "approved"
    BY <1>3, BackedStays DEF SavesDoc
  <2>5. QED
    BY <2>1, <2>3, <2>4 DEF SavesDoc, Approving
<1>4. RowsOf(o)'
  BY DEF Fits, RowsOf
<1>5. QED
  BY <1>2, <1>3, <1>4 DEF Fits

LEMMA StandsStays ==
  ASSUME RacesInv, Grows, NEW r, Stands(r),
         r.pc = "written" /\ r.op.kind = "submit" => Len(routes') = Len(routes)
  PROVE  Stands(r)'
<1>1. SUFFICES ASSUME r.pc # "idle" PROVE Stands(r)'
  BY DEF Stands
<1>2. Sound(r.copy)'
  BY <1>1, SoundStays DEF Stands
<1>3. r.pc = "written" /\ r.op.kind = "submit" => Inserts(r)'
  BY <1>1 DEF Stands, Inserts
<1>4. r.pc = "written" /\ r.op.kind # "submit" => Verdict(r.op) /\ Fits(r.out)'
  BY <1>1, FitsStays DEF Stands
<1>5. ASSUME r.pc = "begun"
      PROVE  r.op.stage \in StagesOf(routes'[r.copy.current].plan)
  <2>1. r.op.kind = "act" /\ r.op.stage \in StagesOf(routes[r.copy.current].plan)
    BY <1>5 DEF Stands
  <2>2. r.copy.current \in 1 .. Len(routes)
    BY <1>5, <2>1, CopyPoints DEF Verdict
  <2>3. QED
    BY <2>1, <2>2 DEF Grows
<1>6. /\ r.op \in Operations
      /\ Verdict(r.op) => r.copy.current # 0
      /\ r.op.kind = "archive" => r.copy.status = "approved"
      /\ r.pc = "begun" => r.op.kind = "act"
      /\ r.pc = "written" /\ r.op.kind # "submit" => Verdict(r.op)
  BY <1>1 DEF Stands
<1>7. QED
  BY <1>1, <1>2, <1>3, <1>4, <1>5, <1>6 DEF Stands, Verdict

\* A request that is no longer alone is the same request.
LEMMA Disturbed ==
  ASSUME NEW r, Form(r), Stands(r), r.pc # "idle", NEW x, x = [r EXCEPT !.alone = FALSE]
  PROVE  /\ Form(x) /\ Stands(x) /\ x.pc = r.pc /\ x.op = r.op
         /\ x.alone = FALSE
<1>1. CASE r.pc = "written"
  <2>1. PICK op, copy, alone, holds, wants, out :
          /\ op = r.op /\ copy = r.copy /\ alone = r.alone
          /\ holds = r.holds /\ wants = r.wants /\ out = r.out
    OBVIOUS
  <2>2. r = [pc |-> "written", op |-> op, copy |-> copy, alone |-> alone,
             holds |-> holds, wants |-> wants, out |-> out]
    BY <1>1, <2>1 DEF Form, Written
  <2>3. x = [pc |-> "written", op |-> op, copy |-> copy, alone |-> FALSE,
             holds |-> holds, wants |-> wants, out |-> out]
    BY <2>2
  <2>4. /\ x.pc = "written" /\ x.op = r.op /\ x.copy = r.copy /\ x.alone = FALSE
        /\ x.holds = r.holds /\ x.wants = r.wants /\ x.out = r.out
    BY <2>1, <2>3
  <2>5. Form(x)
    BY <2>1, <2>3, <2>4 DEF Form, Written
  <2>6. Stands(x)
    BY <1>1, <2>4 DEF Stands, Inserts
  <2>7. QED
    BY <1>1, <2>4, <2>5, <2>6
<1>2. CASE r.pc \in {"loaded", "begun"}
  <2>1. r = [pc |-> r.pc, op |-> r.op, copy |-> r.copy, alone |-> r.alone]
    BY <1>2 DEF Form
  <2>2. x = [pc |-> r.pc, op |-> r.op, copy |-> r.copy, alone |-> FALSE]
    BY <2>1
  <2>3. x.pc = r.pc /\ x.op = r.op /\ x.copy = r.copy /\ x.alone = FALSE
    BY <2>2
  <2>4. Form(x)
    BY <1>2, <2>2, <2>3 DEF Form
  <2>5. Stands(x)
    BY <1>2, <2>3 DEF Stands
  <2>6. QED
    BY <2>3, <2>4, <2>5
<1>3. QED
  BY <1>1, <1>2 DEF Form

\* A request commits: what it wrote is fine, and what the others will write stays so.
LEMMA EndsStep ==
  ASSUME RacesInv, NEW p \in Requests, Ends(p), Grows, RowsFine',
         Len(routes') = Len(routes) \/ Inserting(p)
  PROVE  RacesInv'
<1>1. DOMAIN req = Requests /\ DOMAIN req' = Requests
  BY DEF RacesInv, Ends
<1>2. ASSUME NEW q \in Requests
      PROVE  \/ req'[q] = Idle
             \/ /\ q # p /\ InFlight(q) /\ req'[q] = [req[q] EXCEPT !.alone = FALSE]
  <2>1. req'[q] = IF q = p THEN Idle
                  ELSE IF InFlight(q) THEN [req[q] EXCEPT !.alone = FALSE] ELSE req[q]
    BY DEF Ends
  <2>2. ~InFlight(q) => req[q] = Idle
    BY RequestFacts DEF InFlight, Form
  <2>3. QED
    BY <2>1, <2>2
<1>3. ASSUME NEW q \in Requests, NEW x, x = req'[q]
      PROVE  /\ Form(x) /\ Stands(x)'
             /\ x.pc = "written" /\ x.op.kind = "submit" => q # p /\ Inserting(q)
  <2>1. CASE x = Idle
    BY <2>1, IdleFacts DEF Stands
  <2>2. ASSUME q # p, InFlight(q), x = [req[q] EXCEPT !.alone = FALSE]
        PROVE  /\ Form(x) /\ Stands(x)'
               /\ x.pc = "written" /\ x.op.kind = "submit" => q # p /\ Inserting(q)
    <3>1. PICK r : r = req[q]
      OBVIOUS
    <3>2. Form(r) /\ Stands(r) /\ r.pc # "idle"
      BY <2>2, <3>1, RequestFacts DEF InFlight
    <3>3. Form(x) /\ Stands(x) /\ x.pc = r.pc /\ x.op = r.op
      BY <2>2, <3>1, <3>2, Disturbed
    <3>4. x.pc = "written" /\ x.op.kind = "submit" => Inserting(q)
      BY <3>1, <3>3 DEF Inserting
    <3>5. Inserting(q) => Len(routes') = Len(routes)
      BY <2>2 DEF RacesInv
    <3>6. Stands(x)'
      BY <3>3, <3>4, <3>5, StandsStays
    <3>7. QED
      BY <2>2, <3>3, <3>4, <3>6
  <2>3. QED
    BY <1>2, <1>3, <2>1, <2>2
<1>4. ASSUME NEW q \in Requests, NEW u \in Requests, Inserting(q)', Inserting(u)'
      PROVE  q = u
  <2>1. Inserting(q) /\ Inserting(u)
    BY <1>3, <1>4 DEF Inserting
  <2>2. QED
    BY <2>1 DEF RacesInv
<1>5. ASSUME NEW q \in Requests, NEW r \in {req'[q]}
      PROVE  Form(r)' /\ Stands(r)'
  BY <1>3, <1>5 DEF Form, Idle, Written
<1>6. QED
  BY <1>1, <1>4, <1>5 DEF RacesInv

-----------------------------------------------------------------------------
(***************************************************************************)
(* The commits, and the saves outside a transaction.                       *)
(***************************************************************************)
\* RowsFine without the document, which may be any sound copy.
TrailKept ==
  \A v \in 1 .. Len(routes) : \A s \in DOMAIN routes[v].stage :
    \A k \in StageVerdicts :
      routes[v].stage[s] = StateOfVerdict[k] => ActionRow(v, s, k) \in actions

LEMMA RowsFineParts ==
  ASSUME NEW d, d = doc', Sound(d)', routes' \in Seq(Route), Len(routes') <= MaxVersions,
         actions' \subseteq [route : 1 .. Len(routes'), stage : Stages, action : ActionKinds],
         TrailKept'
  PROVE  RowsFine'
<1>1. Sound(doc)'
  BY DEF Sound, Backed
<1>2. doc' \in Document
  BY DEF Sound, Document, DocStatuses
<1>3. TypeOK'
  BY <1>2 DEF TypeOK, Document, DocStatuses
<1>4. QED
  BY <1>1, <1>3 DEF RowsFine, TrailKept

LEMMA SaveInv ==
  ASSUME RacesInv, NEW p \in Requests, Save(p)
  PROVE  RacesInv'
<1>1. PICK r, d : r = req[p] /\ d = doc'
  OBVIOUS
<1>2. /\ Stands(r) /\ r.pc = "loaded" /\ UNCHANGED <<routes, actions>> /\ Ends(p)
      /\ r.op.kind \in {"archive", "edit"}
      /\ d = IF r.op.kind = "archive" THEN [r.copy EXCEPT !.status = "archived"] ELSE r.copy
  BY <1>1, RequestFacts DEF Save
<1>3. Sound(r.copy) /\ (r.op.kind = "archive" => Backed)
  BY <1>2 DEF Stands, Sound, Approving
<1>4. Sound(d)
  <2>1. CASE r.op.kind = "archive"
    <3>1. r.copy \in Document /\ r.copy.current <= Len(routes)
      BY <1>3 DEF Sound
    <3>2. d \in Document /\ d.current = r.copy.current
      BY <1>2, <2>1, <3>1 DEF Document, DocStatuses
    <3>3. QED
      BY <1>3, <2>1, <3>1, <3>2 DEF Sound
  <2>2. CASE r.op.kind # "archive"
    BY <1>2, <1>3, <2>2
  <2>3. QED
    BY <2>1, <2>2
<1>5. Grows
  BY <1>2 DEF Grows, RacesInv, RowsFine, TypeOK
<1>6. Sound(d)'
  BY <1>4, <1>5, SoundStays
<1>7. TrailKept'
  BY <1>2 DEF TrailKept, RacesInv, RowsFine
<1>8. RowsFine'
  <2>1. /\ routes' \in Seq(Route) /\ Len(routes') <= MaxVersions
        /\ actions' \subseteq [route : 1 .. Len(routes'), stage : Stages, action : ActionKinds]
    BY <1>2 DEF RacesInv, RowsFine, TypeOK
  <2>2. QED
    BY <1>1, <1>6, <1>7, <2>1, RowsFineParts
<1>9. QED
  BY <1>2, <1>5, <1>8, EndsStep

LEMMA CommitSubmitInv ==
  ASSUME RacesInv, NEW p \in Requests, CommitSubmit(p)
  PROVE  RacesInv'
<1>1. PICK r, d, n : r = req[p] /\ d = doc' /\ n = NewRoute(r.op.plan, r.op.first)
  OBVIOUS
<1>2. /\ Stands(r) /\ r.pc = "written" /\ r.op.kind = "submit"
      /\ routes' = Append(routes, n) /\ d = r.out.doc /\ Ends(p) /\ actions' = actions
  BY <1>1, RequestFacts DEF CommitSubmit, MayCommit
<1>3. Inserts(r) /\ r.op.plan \in Plans
  BY <1>2, OperationFields DEF Stands
<1>4. /\ routes \in Seq(Route) /\ Len(routes) \in Nat /\ MaxVersions \in Nat
      /\ actions \subseteq [route : 1 .. Len(routes), stage : Stages, action : ActionKinds]
      /\ TrailKept
  BY RouteAssumption DEF RacesInv, RowsFine, TypeOK, TrailKept
<1>5. n \in Route /\ \A s \in DOMAIN n.stage : n.stage[s] \in {"in_progress", "pending"}
  <2>1. n.stage = OpeningStages(r.op.plan, r.op.first)
    BY <1>1 DEF NewRoute
  <2>2. n \in Route
    BY <1>1, <1>3, OpeningType DEF NewRoute, Route, RouteStates
  <2>3. QED
    BY <2>1, <2>2 DEF OpeningStages
<1>6. /\ routes' \in Seq(Route) /\ Len(routes') = Len(routes) + 1
      /\ routes'[Len(routes) + 1] = n
      /\ \A v \in 1 .. Len(routes) : routes'[v] = routes[v]
  BY <1>2, <1>4, <1>5
<1>7. Grows
  BY <1>2, <1>4, <1>6 DEF Grows
<1>8. Sound(d)'
  <2>1. d = [status |-> "in_route", current |-> Len(routes) + 1, numbered |-> TRUE]
      /\ Len(routes) < MaxVersions
    BY <1>2, <1>3 DEF Inserts
  <2>2. d \in Document
    BY <1>4, <2>1 DEF Document, DocStatuses
  <2>3. d.current <= Len(routes') /\ d.status \notin Approving
    BY <1>4, <1>6, <2>1 DEF Approving
  <2>4. QED
    BY <2>2, <2>3 DEF Sound, Document, DocStatuses, Approving
<1>9. TrailKept'
  <2>1. SUFFICES ASSUME NEW v \in 1 .. Len(routes'), NEW s \in DOMAIN routes'[v].stage,
                        NEW k \in StageVerdicts, routes'[v].stage[s] = StateOfVerdict[k]
                 PROVE  ActionRow(v, s, k) \in actions'
    BY DEF TrailKept, StageVerdicts, StateOfVerdict, ActionRow
  <2>2. CASE v \in 1 .. Len(routes)
    BY <1>2, <1>4, <1>6, <2>1, <2>2 DEF TrailKept
  <2>3. CASE v = Len(routes) + 1
    <3>1. routes'[v].stage[s] \in {"in_progress", "pending"}
      BY <1>5, <1>6, <2>1, <2>3
    <3>2. QED
      BY <2>1, <3>1 DEF StateOfVerdict, StageVerdicts
  <2>4. QED
    BY <1>4, <1>6, <2>2, <2>3
<1>10. RowsFine'
  <2>1. Len(routes') <= MaxVersions
    BY <1>3, <1>4, <1>6 DEF Inserts
  <2>2. actions' \subseteq [route : 1 .. Len(routes'), stage : Stages, action : ActionKinds]
    BY <1>2, <1>4, <1>6
  <2>3. QED
    BY <1>1, <1>6, <1>8, <1>9, <2>1, <2>2, RowsFineParts
<1>11. Inserting(p)
  BY <1>1, <1>2 DEF Inserting
<1>12. QED
  BY <1>2, <1>7, <1>10, <1>11, EndsStep

\* What the commit of a verdict makes of its route.
LEMMA CommitRoute ==
  ASSUME RacesInv, NEW p \in Requests, CommitVerdict(p), NEW o, o = req[p].out,
         NEW v, v = o.version, v \in 1 .. Len(routes),
         NEW r, r = routes[v]
  PROVE  routes' = [routes EXCEPT ![v] =
                      MakeRoute(r.plan, IF o.state = "same" THEN r.state ELSE o.state,
                                r.overridden \/ o.forced, Over(o.stage, r.stage))]
<1>1. PICK stage, state, flag :
        /\ stage = Over(o.stage, r.stage)
        /\ state = IF o.state = "same" THEN r.state ELSE o.state
        /\ flag = (r.overridden \/ o.forced)
  OBVIOUS
<1>2. PICK q : q = [r EXCEPT !.stage = stage, !.state = state, !.overridden = flag]
  OBVIOUS
<1>3. r \in Route
  BY DEF RacesInv, RowsFine, TypeOK
<1>4. routes' = [routes EXCEPT ![v] = q]
  BY <1>1, <1>2, <1>3 DEF CommitVerdict
<1>5. q = MakeRoute(r.plan, state, flag, stage)
  <2>1. PICK plan \in Plans :
          r \in [plan : {plan}, state : RouteStates, overridden : BOOLEAN,
                 stage : StageMaps(plan)]
    BY <1>3 DEF Route
  <2>2. r.plan = plan
    BY <2>1
  <2>3. q = [plan |-> plan, state |-> state, overridden |-> flag, stage |-> stage]
    BY <1>2, <2>1
  <2>4. QED
    BY <2>2, <2>3 DEF MakeRoute
<1>6. QED
  BY <1>1, <1>4, <1>5

LEMMA CommitVerdictInv ==
  ASSUME RacesInv, NEW p \in Requests, CommitVerdict(p)
  PROVE  RacesInv'
<1>1. PICK r, o, v, old, d :
        r = req[p] /\ o = req[p].out /\ v = o.version /\ old = routes[v] /\ d = doc'
  OBVIOUS
<1>2. /\ Stands(r) /\ r.pc = "written" /\ r.op.kind \in {"act", "override"} /\ Ends(p)
      /\ actions' = actions \cup o.rows
      /\ d = IF o.doc = NotSaved THEN doc ELSE o.doc
  BY <1>1, RequestFacts DEF CommitVerdict, MayCommit
<1>3. Fits(o)
  BY <1>1, <1>2 DEF Stands
<1>4. v \in 1 .. Len(routes)
  BY <1>1, <1>3 DEF Fits
<1>5. PICK stage, state, flag, new :
        /\ stage = Over(o.stage, old.stage)
        /\ state = IF o.state = "same" THEN old.state ELSE o.state
        /\ flag = (old.overridden \/ o.forced)
        /\ new = MakeRoute(old.plan, state, flag, stage)
  OBVIOUS
<1>6. routes' = [routes EXCEPT ![v] = new]
  <2>1. routes' = [routes EXCEPT ![v] =
                     MakeRoute(old.plan, IF o.state = "same" THEN old.state ELSE o.state,
                               old.overridden \/ o.forced, Over(o.stage, old.stage))]
    <3>1. o = req[p].out /\ v = o.version /\ old = routes[v]
      BY <1>1
    <3>. QED  BY <1>4, <3>1, CommitRoute, SMTT(20)
  <2>. QED  BY <1>5, <2>1, SMT
<1>7. /\ routes \in Seq(Route) /\ Len(routes) \in Nat /\ Len(routes) <= MaxVersions
      /\ actions \subseteq [route : 1 .. Len(routes), stage : Stages, action : ActionKinds]
      /\ TrailKept
  BY DEF RacesInv, RowsFine, TypeOK, TrailKept
<1>8. /\ old \in Route /\ old.plan \in Plans /\ old.state \in RouteStates
      /\ old.overridden \in BOOLEAN /\ old.stage \in StageMaps(old.plan)
  BY <1>1, <1>4, <1>7, RouteFields
<1>9. /\ stage \in StageMaps(old.plan) /\ DOMAIN stage = DOMAIN old.stage
      /\ \A s \in DOMAIN stage : \/ s \in DOMAIN o.stage /\ stage[s] = o.stage[s]
                                 \/ stage[s] = old.stage[s]
  <2>1. \A s \in DOMAIN o.stage : o.stage[s] \in StageStates
    BY <1>3 DEF Fits
  <2>2. QED
    BY <1>5, <1>8, <2>1 DEF Over, StageMaps
<1>10. /\ new \in Route /\ new.plan = old.plan /\ new.overridden = flag /\ new.stage = stage
  <2>1. state \in RouteStates
    BY <1>3, <1>5, <1>8 DEF Fits
  <2>2. flag \in BOOLEAN
    BY <1>5
  <2>3. new \in Route
    BY <1>5, <1>8, <1>9, <2>1, <2>2, MakeRouteType
  <2>4. new.plan = old.plan /\ new.overridden = flag /\ new.stage = stage
    BY <1>5 DEF MakeRoute
  <2>5. QED
    BY <2>3, <2>4
<1>11. /\ routes' \in Seq(Route) /\ Len(routes') = Len(routes) /\ routes'[v] = new
       /\ \A u \in 1 .. Len(routes) : u # v => routes'[u] = routes[u]
  BY <1>4, <1>6, <1>7, <1>10
<1>12. old.overridden => flag
  BY <1>5
<1>13. Grows
  <2>1. \A u \in 1 .. Len(routes) :
          /\ DOMAIN routes'[u].stage = DOMAIN routes[u].stage
          /\ routes'[u].plan = routes[u].plan
          /\ routes[u].overridden => routes'[u].overridden
    BY <1>1, <1>9, <1>10, <1>11, <1>12
  <2>2. QED
    BY <1>2, <1>7, <1>11, <2>1 DEF Grows
<1>14. Sound(d)'
  <2>1. CASE o.doc = NotSaved
    <3>1. d = doc /\ Sound(doc)
      BY <1>2, <2>1 DEF RacesInv, RowsFine
    <3>2. QED
      BY <1>13, <3>1, SoundStays
  <2>2. CASE o.doc # NotSaved
    <3>1. /\ d = o.doc /\ d \in Document /\ d.current <= Len(routes)
          /\ d.status \in Approving =>
               Backed \/ o.forced \/ \E row \in o.rows : row.action = "approved"
      BY <1>2, <1>3, <2>2 DEF Fits, SavesDoc
    <3>2. Backed => Backed'
      BY <1>13, BackedStays
    <3>3. o.forced => Backed'
      <4>1. o.forced => flag
        BY <1>5
      <4>2. o.forced => routes'[v].overridden
        BY <1>10, <1>11, <4>1
      <4>3. QED
        BY <1>4, <1>11, <4>2 DEF Backed
    <3>4. (\E row \in o.rows : row.action = "approved") => Backed'
      BY <1>2 DEF Backed
    <3>5. QED
      BY <1>11, <3>1, <3>2, <3>3, <3>4 DEF Sound, Approving, Document, DocStatuses
  <2>3. QED
    BY <2>1, <2>2
<1>15. TrailKept'
  <2>1. SUFFICES ASSUME NEW u \in 1 .. Len(routes), NEW s \in DOMAIN routes'[u].stage,
                        NEW k \in StageVerdicts, routes'[u].stage[s] = StateOfVerdict[k]
                 PROVE  ActionRow(u, s, k) \in actions'
    BY <1>11 DEF TrailKept, StageVerdicts, StateOfVerdict, ActionRow
  <2>2. CASE u # v
    BY <1>2, <1>7, <1>11, <2>1, <2>2 DEF TrailKept
  <2>3. CASE u = v
    <3>1. s \in DOMAIN stage /\ stage[s] = StateOfVerdict[k] /\ s \in DOMAIN old.stage
      BY <1>9, <1>10, <1>11, <2>1, <2>3
    <3>2. CASE s \in DOMAIN o.stage /\ stage[s] = o.stage[s]
      BY <1>1, <1>2, <1>3, <2>1, <2>3, <3>1, <3>2 DEF Fits, RowsOf
    <3>3. CASE stage[s] = old.stage[s]
      BY <1>1, <1>2, <1>7, <2>1, <2>3, <3>1, <3>3 DEF TrailKept
    <3>4. QED
      BY <1>9, <3>1, <3>2, <3>3
  <2>4. QED
    BY <2>2, <2>3
<1>16. actions' \subseteq [route : 1 .. Len(routes'), stage : Stages, action : ActionKinds]
  <2>1. o.rows \subseteq [route : {v}, stage : Stages, action : ActionKinds]
    BY <1>1, <1>3 DEF Fits
  <2>2. o.rows \subseteq [route : 1 .. Len(routes), stage : Stages, action : ActionKinds]
    BY <1>4, <2>1
  <2>3. QED
    BY <1>2, <1>7, <1>11, <2>2
<1>17. RowsFine'
  <2>1. Len(routes') <= MaxVersions
    BY <1>7, <1>11
  <2>2. QED
    BY <1>1, <1>11, <1>14, <1>15, <1>16, <2>1, RowsFineParts
<1>18. QED
  BY <1>2, <1>11, <1>13, <1>17, EndsStep

LEMMA RacesInit0 == RacesInit => RacesInv
<1> SUFFICES ASSUME RacesInit PROVE RacesInv
  OBVIOUS
<1>1. Inv /\ doc.status = "draft" /\ doc.current = 0 /\ Len(routes) = 0
  BY InitInv DEF RacesInit, Init, NewDocument
<1>2. RowsFine
  BY <1>1 DEF Inv, TypeOK, RowsFine, Sound, Approving, Document
<1>3. DOMAIN req = Requests /\ \A p \in Requests : req[p] = Idle
  BY DEF RacesInit
<1>4. \A p \in Requests : ~Inserting(p)
  BY <1>3, IdleFacts DEF Inserting
<1>5. QED
  BY <1>2, <1>3, <1>4, IdleFacts DEF RacesInv

LEMMA RacesNextInv == RacesInv /\ [RacesNext]_racesVars => RacesInv'
<1> SUFFICES ASSUME RacesInv, [RacesNext]_racesVars PROVE RacesInv'
  OBVIOUS
<1>1. ASSUME NEW p \in Requests,
             Refuse(p) \/ SubmitCollides(p) \/ SubmitAtBound(p) \/ DeadlockVictim(p)
      PROVE  RacesInv'
  <2>1. req' = [req EXCEPT ![p] = Idle] /\ UNCHANGED vars
    BY <1>1 DEF Refuse, SubmitCollides, SubmitAtBound, DeadlockVictim, vars
  <2>2. QED
    BY <2>1, FreedSlot
<1>2. CASE UNCHANGED racesVars
  <2>1. UNCHANGED vars /\ req' = req
    BY <1>2 DEF racesVars, vars
  <2>2. RowsFine' /\ DOMAIN req' = Requests
    BY <2>1 DEF RacesInv, RowsFine, TypeOK, Sound, Backed, vars
  <2>3. ASSUME NEW q \in Requests, NEW r \in {req'[q]}
        PROVE  Form(r)' /\ Stands(r)'
    <3>1. Form(r) /\ Stands(r)
      BY <2>1, <2>3, RequestFacts
    <3>2. Stands(r)'
      BY <2>1, <3>1, StandsSame
    <3>3. QED
      BY <3>1, <3>2 DEF Form, Idle, Written
  <2>4. \A q, u \in Requests : Inserting(q)' /\ Inserting(u)' => q = u
    BY <2>1 DEF RacesInv, Inserting
  <2>5. QED
    BY <2>2, <2>3, <2>4 DEF RacesInv
<1>3. CASE RacesNext
  <2>1. PICK p \in Requests :
          \/ \E op \in Operations : Load(p, op)
          \/ Begin(p) \/ Refuse(p) \/ WriteStage(p) \/ WriteOverride(p) \/ WriteSubmit(p)
          \/ SubmitCollides(p) \/ SubmitAtBound(p) \/ CommitSubmit(p) \/ CommitVerdict(p)
          \/ DeadlockVictim(p) \/ Save(p)
    BY <1>3 DEF RacesNext
  <2>2. QED
    BY <1>1, <2>1, LoadInv, BeginInv, WriteStageInv, WriteOverrideInv, WriteSubmitInv,
       CommitSubmitInv, CommitVerdictInv, SaveInv
<1>4. QED
  BY <1>2, <1>3

LEMMA RacesCorrect == RacesSpec => []RacesInv
<1>1. QED
  BY RacesInit0, RacesNextInv, PTL DEF RacesSpec

\* However many requests overlap, the rows stay well formed, every verdict a stage shows has its
\* audit row, and a document is approved only if somebody approved a stage or overrode a route.
THEOREM RacesKeepTheTrail == RacesSpec => []VerdictsAreRecorded
<1>1. ASSUME RacesInv PROVE VerdictsAreRecorded
  <2>1. RowsFine /\ \A p \in Requests : Form(req[p]) /\ Stands(req[p])
    <3>1. ASSUME NEW p \in Requests, NEW r, r = req[p]
          PROVE  Form(r) /\ Stands(r)
      BY <1>1, <3>1, RequestFacts
    <3>2. QED
      BY <1>1, <3>1 DEF RacesInv
  <2>2. RacesTypeOK
    BY <2>1 DEF RowsFine, Sound, Form, Stands, RacesTypeOK, InFlight
  <2>3. QED
    BY <2>1, <2>2 DEF RowsFine, Sound, Approving, Backed, VerdictsAreRecorded
<1>2. QED
  BY <1>1, RacesCorrect, PTL

-----------------------------------------------------------------------------
(***************************************************************************)
(* A request during which nothing was committed.                           *)
(***************************************************************************)
LEMMA AloneSame ==
  ASSUME NEW r, Alone(r), UNCHANGED vars
  PROVE  Alone(r)'
<1>1. doc' = doc /\ routes' = routes
  BY DEF vars
<1>2. Actionable(r.op.stage) => Actionable(r.op.stage)'
  BY <1>1 DEF Actionable, Current
<1>3. Forces(doc.current, r.op.verdict, doc)' = Forces(doc.current, r.op.verdict, doc)
  BY <1>1 DEF Forces
<1>4. Decision(doc.current, Current.plan, Current.stage, r.op, doc)'
        = Decision(doc.current, Current.plan, Current.stage, r.op, doc)
  BY <1>1 DEF Current
<1>5. QED
  BY <1>1, <1>2, <1>3, <1>4 DEF Alone

LEMMA AloneFacts ==
  ASSUME AloneInv, NEW p \in Requests, NEW r, r = req[p]
  PROVE  Alone(r)
BY DEF AloneInv

LEMMA AloneSlot ==
  ASSUME RacesInv, AloneInv, UNCHANGED vars, NEW p \in Requests, NEW x,
         req' = [req EXCEPT ![p] = x], Alone(x)
  PROVE  AloneInv'
<1>1. req'[p] = x /\ \A q \in Requests : q # p => req'[q] = req[q]
  BY DEF RacesInv
<1>2. ASSUME NEW q \in Requests, NEW r \in {req'[q]}
      PROVE  Alone(r)'
  <2>1. Alone(r)
    BY <1>1, <1>2, AloneFacts
  <2>2. QED
    BY <2>1, AloneSame
<1>3. QED
  BY <1>2 DEF AloneInv

\* Nobody is alone once something was committed.
LEMMA AloneEnds ==
  ASSUME RacesInv, NEW p \in Requests, Ends(p)
  PROVE  AloneInv'
<1>1. ASSUME NEW q \in Requests, NEW x \in {req'[q]}
      PROVE  Alone(x)'
  <2>1. PICK r : r = req[q]
    OBVIOUS
  <2>2. x = IF q = p THEN Idle ELSE IF InFlight(q) THEN [r EXCEPT !.alone = FALSE] ELSE r
    BY <1>1, <2>1 DEF Ends
  <2>3. Form(r) /\ Stands(r)
    BY <2>1, RequestFacts
  <2>4. ~InFlight(q) => r = Idle
    BY <2>1, <2>3 DEF InFlight, Form
  <2>5. ASSUME q # p, InFlight(q)
        PROVE  x.alone = FALSE
    <3>1. r.pc # "idle" /\ x = [r EXCEPT !.alone = FALSE]
      BY <2>1, <2>2, <2>5 DEF InFlight
    <3>2. QED
      BY <2>3, <3>1, Disturbed
  <2>6. x = Idle \/ x.alone = FALSE
    BY <2>2, <2>4, <2>5
  <2>7. QED
    BY <2>6, IdleFacts DEF Alone
<1>2. QED
  BY <1>1 DEF AloneInv

LEMMA AloneNext == RacesInv /\ AloneInv /\ [RacesNext]_racesVars => AloneInv'
<1> SUFFICES ASSUME RacesInv, AloneInv, [RacesNext]_racesVars PROVE AloneInv'
  OBVIOUS
<1>1. CASE UNCHANGED racesVars
  <2>1. UNCHANGED vars /\ req' = req
    BY <1>1 DEF racesVars, vars
  <2>2. ASSUME NEW q \in Requests, NEW r \in {req'[q]}
        PROVE  Alone(r)'
    BY <2>1, <2>2, AloneFacts, AloneSame
  <2>3. QED
    BY <2>2 DEF AloneInv
<1>2. ASSUME NEW p \in Requests,
             Refuse(p) \/ SubmitCollides(p) \/ SubmitAtBound(p) \/ DeadlockVictim(p)
      PROVE  AloneInv'
  <2>1. req' = [req EXCEPT ![p] = Idle] /\ UNCHANGED vars
    BY <1>2 DEF Refuse, SubmitCollides, SubmitAtBound, DeadlockVictim, vars
  <2>2. Alone(Idle)
    BY IdleFacts DEF Alone
  <2>3. QED
    BY <2>1, <2>2, AloneSlot
<1>3. ASSUME NEW p \in Requests, CommitSubmit(p) \/ CommitVerdict(p) \/ Save(p)
      PROVE  AloneInv'
  <2>1. Ends(p)
    BY <1>3 DEF CommitSubmit, CommitVerdict, Save
  <2>2. QED
    BY <2>1, AloneEnds
<1>4. ASSUME NEW p \in Requests, NEW op \in Operations, Load(p, op)
      PROVE  AloneInv'
  <2>1. PICK x : x = Loaded(op)
    OBVIOUS
  <2>2. x.pc = "loaded" /\ x.op = op /\ x.copy = doc
    BY <2>1 DEF Loaded
  <2>3. Admits(op) /\ req' = [req EXCEPT ![p] = x] /\ UNCHANGED vars
    BY <1>4, <2>1 DEF Load, vars
  <2>4. Alone(x)
    BY <2>2, <2>3 DEF Alone, Admits
  <2>5. QED
    BY <2>3, <2>4, AloneSlot
<1>5. ASSUME NEW p \in Requests, Begin(p)
      PROVE  AloneInv'
  <2>1. PICK r, x : r = req[p] /\ x = [req[p] EXCEPT !.pc = "begun"]
    OBVIOUS
  <2>2. /\ Form(r) /\ Stands(r) /\ Alone(r) /\ r.pc = "loaded" /\ r.op.kind = "act"
        /\ r.op.stage \in StagesOf(routes[r.copy.current].plan)
        /\ routes[r.copy.current].stage[r.op.stage] \in OpenStates
        /\ req' = [req EXCEPT ![p] = x] /\ UNCHANGED vars
    BY <1>5, <2>1, RequestFacts, AloneFacts DEF Begin, vars
  <2>3. PICK op, copy, alone : op = r.op /\ copy = r.copy /\ alone = r.alone
    OBVIOUS
  <2>4. r = [pc |-> "loaded", op |-> op, copy |-> copy, alone |-> alone]
    BY <2>2, <2>3 DEF Form
  <2>5. x = [pc |-> "begun", op |-> op, copy |-> copy, alone |-> alone]
    BY <2>1, <2>4
  <2>6. x.pc = "begun" /\ x.op = op /\ x.copy = copy /\ x.alone = alone
    BY <2>5
  <2>7. alone => copy = doc
    BY <2>2, <2>3 DEF Alone
  <2>8. alone => Actionable(op.stage)
    BY <2>2, <2>3, <2>7 DEF Actionable, Current, Stands, Verdict
  <2>9. Alone(x)
    BY <2>2, <2>3, <2>6, <2>7, <2>8 DEF Alone
  <2>10. QED
    BY <2>2, <2>9, AloneSlot
<1>6. ASSUME NEW p \in Requests, WriteSubmit(p)
      PROVE  AloneInv'
  <2>1. PICK r, v : r = req[p] /\ v = Len(routes) + 1
    OBVIOUS
  <2>2. PICK out, x :
          /\ out = [version |-> v,
                    doc |-> [status |-> "in_route", current |-> v, numbered |-> TRUE]]
          /\ x = Written(r, {RouteLock(v)}, {DocLock}, out)
    OBVIOUS
  <2>3. /\ Alone(r) /\ r.pc = "loaded" /\ r.op.kind = "submit"
        /\ req' = [req EXCEPT ![p] = x] /\ UNCHANGED vars
    BY <1>6, <2>1, <2>2, AloneFacts DEF WriteSubmit, vars
  <2>4. x.pc = "written" /\ x.op = r.op /\ x.copy = r.copy /\ x.alone = r.alone
    BY <2>2, WrittenFields
  <2>5. Alone(x)
    BY <2>3, <2>4 DEF Alone
  <2>6. QED
    BY <2>3, <2>5, AloneSlot
<1>7. ASSUME NEW p \in Requests, WriteOverride(p)
      PROVE  AloneInv'
  <2>1. PICK r, v : r = req[p] /\ v = r.copy.current
    OBVIOUS
  <2>2. PICK out : out = Forces(v, r.op.verdict, r.copy)
    OBVIOUS
  <2>3. PICK holds, wants :
          /\ holds = {RouteLock(v), DocLock}
          /\ wants = {StageLock(v, t) : t \in OpenIn(routes[v].stage)}
    OBVIOUS
  <2>4. PICK x : x = Written(r, holds, wants, out)
    OBVIOUS
  <2>5. Alone(r) /\ r.pc = "loaded" /\ r.op.kind = "override" /\ UNCHANGED vars
    BY <1>7, <2>1, AloneFacts DEF WriteOverride, vars
  <2>6. req' = [req EXCEPT ![p] = x]
    BY <1>7, <2>1, <2>2, <2>3, <2>4 DEF WriteOverride, Forces
  <2>7. /\ x.pc = "written" /\ x.op = r.op /\ x.copy = r.copy /\ x.alone = r.alone
        /\ x.out = out
    BY <2>4, WrittenFields
  <2>8. r.alone => r.copy = doc
    BY <2>5 DEF Alone
  <2>9. r.alone => out = Forces(doc.current, r.op.verdict, doc)
    BY <2>1, <2>2, <2>8
  <2>10. Alone(x)
    BY <2>5, <2>7, <2>8, <2>9 DEF Alone
  <2>11. QED
    BY <2>5, <2>6, <2>10, AloneSlot
<1>8. ASSUME NEW p \in Requests, WriteStage(p)
      PROVE  AloneInv'
  <2>1. PICK r, v : r = req[p] /\ v = r.copy.current
    OBVIOUS
  <2>2. PICK out : out = Decision(v, routes[v].plan, routes[v].stage, r.op, r.copy)
    OBVIOUS
  <2>3. PICK holds, wants :
          /\ holds = {StageLock(v, r.op.stage)}
          /\ wants = {StageLock(v, t) : t \in DOMAIN out.stage \ {r.op.stage}}
                       \cup (IF out.doc # NotSaved THEN {RouteLock(v), DocLock} ELSE {})
    OBVIOUS
  <2>4. PICK x : x = Written(r, holds, wants, out)
    OBVIOUS
  <2>5. Alone(r) /\ Stands(r) /\ r.pc = "begun" /\ UNCHANGED vars
    BY <1>8, <2>1, AloneFacts, RequestFacts DEF WriteStage, vars
  <2>6. req' = [req EXCEPT ![p] = x]
    BY <1>8, <2>1, <2>2, <2>3, <2>4, ZenonT(60) DEF WriteStage
  <2>7. /\ x.pc = "written" /\ x.op = r.op /\ x.copy = r.copy /\ x.alone = r.alone
        /\ x.out = out
    BY <2>4, WrittenFields
  <2>8. r.op.kind = "act"
    BY <2>5 DEF Stands
  <2>9. r.alone => r.copy = doc /\ Actionable(r.op.stage)
    BY <2>5, <2>8 DEF Alone
  <2>10. r.alone => out = Decision(doc.current, Current.plan, Current.stage, r.op, doc)
    BY <2>1, <2>2, <2>9 DEF Current
  <2>11. Alone(x)
    BY <2>7, <2>8, <2>9, <2>10 DEF Alone
  <2>12. QED
    BY <2>5, <2>6, <2>11, AloneSlot
<1>9. QED
  BY <1>1, <1>2, <1>3, <1>4, <1>5, <1>6, <1>7, <1>8 DEF RacesNext

LEMMA AloneInit == RacesInit => AloneInv
BY IdleFacts DEF RacesInit, AloneInv, Alone

LEMMA AloneCorrect == RacesSpec => [](RacesInv /\ AloneInv)
<1>1. RacesInv /\ AloneInv /\ [RacesNext]_racesVars => (RacesInv /\ AloneInv)'
  BY RacesNextInv, AloneNext
<1>2. QED
  BY <1>1, RacesInit0, AloneInit, PTL DEF RacesSpec

-----------------------------------------------------------------------------
(***************************************************************************)
(* What an undisturbed request commits is one step of EdmRoute.            *)
(***************************************************************************)
\* Saving the stages a decision changes gives the stages it decided on.
LEMMA SavedIsDecided ==
  ASSUME NEW plan, NEW seen \in StageMaps(plan), NEW stage \in StageMaps(plan),
         NEW s \in StagesOf(plan)
  PROVE  Over(Changes(seen, stage, s), seen) = stage
<1>1. PICK saved : saved = Changes(seen, stage, s)
  OBVIOUS
<1>2. /\ DOMAIN seen = StagesOf(plan) /\ DOMAIN stage = StagesOf(plan)
      /\ stage = [t \in StagesOf(plan) |-> stage[t]]
  BY DEF StageMaps
<1>3. /\ DOMAIN saved = {t \in StagesOf(plan) : t = s \/ stage[t] # seen[t]}
      /\ \A t \in DOMAIN saved : saved[t] = stage[t]
  BY <1>1, <1>2 DEF Changes
<1>4. \A t \in StagesOf(plan) : (IF t \in DOMAIN saved THEN saved[t] ELSE seen[t]) = stage[t]
  BY <1>3
<1>5. Over(saved, seen) = [t \in StagesOf(plan) |-> stage[t]]
  BY <1>2, <1>4 DEF Over
<1>6. QED
  BY <1>1, <1>2, <1>5

\* Saving the stages an override skips is skipping every open stage.
LEMMA SavedIsSkipped ==
  ASSUME NEW seen
  PROVE  Over([t \in OpenIn(seen) |-> "skipped"], seen) = SkipAll(seen)
BY DEF Over, SkipAll, OpenIn

LEMMA AloneDecides ==
  ASSUME RacesInv, AloneInv, NEW p \in Requests, CommitVerdict(p), req[p].alone,
         req[p].op.kind = "act"
  PROVE  StageAction
<1>1. PICK r, o, op, s, v, old :
        /\ r = req[p] /\ o = r.out /\ op = r.op /\ s = op.stage
        /\ v = doc.current /\ old = Current
  OBVIOUS
<1>2. /\ Stands(r) /\ Alone(r) /\ r.pc = "written" /\ r.alone /\ op.kind = "act"
      /\ actions' = actions \cup o.rows
      /\ doc' = IF o.doc = NotSaved THEN doc ELSE o.doc
  BY <1>1, RequestFacts, AloneFacts DEF CommitVerdict, MayCommit
<1>3. /\ Actionable(s)
      /\ o = Decision(v, old.plan, old.stage, op, doc)
      /\ op \in [kind : {"act"}, stage : Stages, action : StageVerdicts \cup {"commented"}]
      /\ r.copy = doc /\ Fits(o)
  BY <1>1, <1>2, OperationFields DEF Alone, Stands
<1>4. v \in 1 .. Len(routes) /\ old = routes[v] /\ s \in Stages
  BY <1>1, <1>2, <1>3, CopyPoints DEF Verdict, Current
<1>5. /\ old \in Route /\ old.plan \in Plans /\ old.state \in RouteStates
      /\ old.overridden \in BOOLEAN /\ old.stage \in StageMaps(old.plan)
      /\ s \in StagesOf(old.plan)
  <2>1. old \in Route
    BY <1>4 DEF RacesInv, RowsFine, TypeOK
  <2>2. s \in StagesOf(old.plan)
    BY <1>1, <1>3 DEF Actionable
  <2>3. QED
    BY <2>1, <2>2, RouteFields
<1>6. PICK plan, seen, stage, ends :
        /\ plan = old.plan /\ seen = old.stage
        /\ stage = StageAfter(plan, seen, op)
        /\ ends = RouteEnds(plan, seen, op)
  OBVIOUS
<1>7. stage \in StageMaps(plan)
  BY <1>1, <1>3, <1>5, <1>6, StageAfterFacts
<1>8. /\ o.version = v /\ o.forced = FALSE
      /\ o.stage = Changes(seen, stage, s)
      /\ o.state = IF ~ends THEN "same"
                   ELSE IF op.action = "approved" THEN "completed" ELSE stage[s]
      /\ o.doc = IF ends THEN [doc EXCEPT !.status = op.action] ELSE NotSaved
      /\ o.rows = AuditRows(v, op)
  <2>1. PICK state, saved, changed, rows :
          /\ state = IF ~ends THEN "same"
                     ELSE IF op.action = "approved" THEN "completed" ELSE stage[s]
          /\ saved = IF ends THEN [doc EXCEPT !.status = op.action] ELSE NotSaved
          /\ changed = Changes(seen, stage, s) /\ rows = AuditRows(v, op)
    OBVIOUS
  <2>2. o = [version |-> v, stage |-> changed, state |-> state, forced |-> FALSE, doc |-> saved,
             rows |-> rows]
    BY <1>1, <1>3, <1>6, <2>1, ZenonT(60) DEF Decision, StageClosed, StageAfter, RouteEnds, StatusAfter
  <2>. QED  BY <2>1, <2>2
<1>9. PICK state : state = IF o.state = "same" THEN old.state ELSE o.state
  OBVIOUS
<1>10. routes' = [routes EXCEPT ![v] = MakeRoute(plan, state, old.overridden, stage)]
  <2>1. Over(o.stage, seen) = stage
    BY <1>5, <1>6, <1>7, <1>8, SavedIsDecided
  <2>2. (old.overridden \/ o.forced) = old.overridden
    BY <1>5, <1>8
  <2>3. routes' = [routes EXCEPT ![v] =
                     MakeRoute(old.plan, IF o.state = "same" THEN old.state ELSE o.state,
                               old.overridden \/ o.forced, Over(o.stage, old.stage))]
    BY <1>1, <1>4, <1>8, CommitRoute
  <2>4. QED
    BY <1>6, <1>9, <2>1, <2>2, <2>3
<1>11. /\ ~ends => doc' = doc
       /\ ends => doc' = [doc EXCEPT !.status = op.action]
  <2>1. ASSUME ends PROVE o.doc # NotSaved
    <3>1. o.doc.status \in DocStatuses \/ o.doc = NotSaved
      BY <1>3 DEF Fits, SavesDoc, Document
    <3>2. o.doc = [doc EXCEPT !.status = op.action] /\ doc \in Document
      BY <1>8, <2>1 DEF RacesInv, RowsFine, TypeOK
    <3>3. o.doc.current = doc.current
      BY <3>2 DEF Document
    <3>4. o.doc.status = op.action /\ op.action # "not saved"
      BY <1>3, <3>2 DEF Document, StageVerdicts
    <3>5. QED
      <4>1. NotSaved.status = "not saved"
        BY DEF NotSaved
      <4>2. QED
        BY <3>4, <4>1
  <2>2. QED
    BY <1>2, <1>8, <2>1
<1>12. CASE op.action = "commented"
  <2>1. ~ends /\ stage = [seen EXCEPT ![s] = "in_progress"] /\ o.rows = {} /\ state = old.state
    BY <1>1, <1>6, <1>8, <1>9, <1>12 DEF RouteEnds, StageAfter, StageClosed, AuditRows
  <2>2. PICK q : q = [old EXCEPT !.stage = stage]
    OBVIOUS
  <2>3. q = MakeRoute(plan, state, old.overridden, stage)
    <3>1. old = MakeRoute(plan, state, old.overridden, seen)
      BY <1>5, <1>6, <2>1, RouteFields
    <3>2. QED
      BY <2>2, <3>1 DEF MakeRoute
  <2>4. routes' = [routes EXCEPT ![v].stage[s] = "in_progress"]
    BY <1>4, <1>6, <1>10, <2>1, <2>2, <2>3
  <2>5. CommentStage(s)
    BY <1>1, <1>2, <1>3, <1>11, <2>1, <2>4 DEF CommentStage
  <2>6. QED
    BY <1>4, <2>5 DEF StageAction
<1>13. o.rows = {ActionRow(v, s, op.action)} \/ op.action = "commented"
  BY <1>1, <1>8 DEF AuditRows
<1>14. CASE op.action = "rejected"
  <2>1. ends /\ stage = [seen EXCEPT ![s] = "rejected"] /\ state = "rejected"
    <3>1. ends /\ stage = [seen EXCEPT ![s] = "rejected"]
      BY <1>1, <1>6, <1>14 DEF RouteEnds, StageAfter, StageClosed, StateOfVerdict
    <3>2. stage[s] = "rejected"
      BY <1>5, <1>6, <3>1 DEF StageMaps
    <3>3. QED
      BY <1>8, <1>9, <1>14, <3>1, <3>2
  <2>2. PICK q : q = [old EXCEPT !.stage = stage, !.state = "rejected"]
    OBVIOUS
  <2>3. q = MakeRoute(plan, state, old.overridden, stage)
    <3>1. q = MakeRoute(old.plan, "rejected", old.overridden, stage)
      BY <1>5, <2>2, RouteDecided
    <3>2. QED
      BY <1>6, <2>1, <3>1
  <2>4. routes' = [routes EXCEPT ![v].stage[s] = "rejected", ![v].state = "rejected"]
    BY <1>4, <1>6, <1>10, <2>1, <2>2, <2>3
  <2>5. RejectStage(s)
    BY <1>1, <1>2, <1>3, <1>11, <1>13, <1>14, <2>1, <2>4 DEF RejectStage, Record
  <2>6. QED
    BY <1>4, <2>5 DEF StageAction
<1>15. CASE op.action = "returned_for_revision"
  <2>1. ends /\ stage = [seen EXCEPT ![s] = "returned"] /\ state = "returned"
    <3>1. ends /\ stage = [seen EXCEPT ![s] = "returned"]
      BY <1>1, <1>6, <1>15 DEF RouteEnds, StageAfter, StageClosed, StateOfVerdict
    <3>2. stage[s] = "returned"
      BY <1>5, <1>6, <3>1 DEF StageMaps
    <3>3. QED
      BY <1>8, <1>9, <1>15, <3>1, <3>2
  <2>2. PICK q : q = [old EXCEPT !.stage = stage, !.state = "returned"]
    OBVIOUS
  <2>3. q = MakeRoute(plan, state, old.overridden, stage)
    <3>1. q = MakeRoute(old.plan, "returned", old.overridden, stage)
      BY <1>5, <2>2, RouteDecided
    <3>2. QED
      BY <1>6, <2>1, <3>1
  <2>4. routes' = [routes EXCEPT ![v].stage[s] = "returned", ![v].state = "returned"]
    BY <1>4, <1>6, <1>10, <2>1, <2>2, <2>3
  <2>5. ReturnStage(s)
    BY <1>1, <1>2, <1>3, <1>11, <1>13, <1>15, <2>1, <2>4 DEF ReturnStage, Record
  <2>6. QED
    BY <1>4, <2>5 DEF StageAction
<1>16. CASE op.action = "approved"
  <2>1. PICK closed, done :
          closed = [seen EXCEPT ![s] = "approved"] /\ done = Completes(plan, closed, s)
    OBVIOUS
  <2>2. /\ stage = AfterApproval(plan, closed, s)
        /\ ends <=> done
    BY <1>1, <1>6, <1>16, <2>1 DEF RouteEnds, StageAfter, StageClosed, StateOfVerdict
  <2>3. state = IF done THEN "completed" ELSE old.state
    BY <1>8, <1>9, <1>16, <2>2
  <2>4. PICK q : q = [old EXCEPT !.stage = stage, !.state = state]
    OBVIOUS
  <2>5. q = MakeRoute(plan, state, old.overridden, stage)
    BY <1>5, <1>6, <2>4, RouteDecided
  <2>6. routes' = [routes EXCEPT ![v].stage = stage,
                                 ![v].state = IF done THEN "completed" ELSE @]
    BY <1>4, <1>10, <2>3, <2>4, <2>5
  <2>7. doc' = IF done THEN [doc EXCEPT !.status = "approved"] ELSE doc
    BY <1>11, <1>16, <2>2
  <2>8. ApproveStage(s)
    BY <1>1, <1>2, <1>3, <1>6, <1>13, <1>16, <2>1, <2>2, <2>6, <2>7 DEF ApproveStage, Record
  <2>9. QED
    BY <1>4, <2>8 DEF StageAction
<1>17. QED
  BY <1>3, <1>12, <1>14, <1>15, <1>16 DEF StageVerdicts

LEMMA AloneOverrides ==
  ASSUME RacesInv, AloneInv, NEW p \in Requests, CommitVerdict(p), req[p].alone,
         req[p].op.kind = "override"
  PROVE  ForceApprove \/ ForceReject
<1>1. PICK r, o, verdict, v, old :
        /\ r = req[p] /\ o = r.out /\ verdict = r.op.verdict
        /\ v = doc.current /\ old = Current
  OBVIOUS
<1>2. /\ Stands(r) /\ Alone(r) /\ r.pc = "written" /\ r.alone /\ r.op.kind = "override"
      /\ actions' = actions \cup o.rows
      /\ doc' = IF o.doc = NotSaved THEN doc ELSE o.doc
  BY <1>1, RequestFacts, AloneFacts DEF CommitVerdict, MayCommit
<1>3. /\ o = Forces(v, verdict, doc) /\ verdict \in {"approved", "rejected"}
      /\ r.copy = doc /\ doc.current # 0
  BY <1>1, <1>2, OperationFields DEF Alone, Stands, Verdict
<1>4. v \in 1 .. Len(routes) /\ old = routes[v]
  BY <1>1, <1>2, <1>3, CopyPoints DEF Verdict, Current
<1>5. old \in Route /\ old.overridden \in BOOLEAN
  <2>1. old \in Route
    BY <1>4 DEF RacesInv, RowsFine, TypeOK
  <2>2. QED
    BY <2>1, RouteFields
<1>6. PICK state, kind :
        /\ state = IF verdict = "approved" THEN "completed" ELSE "rejected"
        /\ kind = IF verdict = "approved" THEN "override_approved" ELSE "override_rejected"
  OBVIOUS
<1>7. /\ o.version = v /\ o.forced = TRUE /\ o.state = state /\ o.state # "same"
      /\ o.stage = [t \in OpenIn(old.stage) |-> "skipped"]
      /\ o.doc = [doc EXCEPT !.status = verdict]
      /\ o.rows = {ActionRow(v, t, kind) : t \in OpenIn(old.stage)}
  BY <1>3, <1>4, <1>6 DEF Forces
<1>8. routes' = [routes EXCEPT ![v] = MakeRoute(old.plan, state, TRUE, SkipAll(old.stage))]
  <2>1. Over(o.stage, old.stage) = SkipAll(old.stage)
    BY <1>7, SavedIsSkipped
  <2>2. (old.overridden \/ o.forced) = TRUE
    BY <1>7
  <2>3. routes' = [routes EXCEPT ![v] =
                     MakeRoute(old.plan, IF o.state = "same" THEN old.state ELSE o.state,
                               old.overridden \/ o.forced, Over(o.stage, old.stage))]
    BY <1>1, <1>4, <1>7, CommitRoute
  <2>4. QED
    BY <1>7, <2>1, <2>2, <2>3
<1>9. doc' = [doc EXCEPT !.status = verdict]
  <2>1. doc \in Document /\ verdict # "not saved"
    BY <1>3 DEF RacesInv, RowsFine, TypeOK
  <2>2. o.doc.status = verdict
    BY <1>7, <2>1 DEF Document
  <2>3. NotSaved.status = "not saved"
    BY DEF NotSaved
  <2>4. o.doc # NotSaved
    BY <2>1, <2>2, <2>3
  <2>5. QED
    BY <1>2, <1>7, <2>4
<1>10. Override(state, verdict, kind)
  <2>1. PICK q : q = [old EXCEPT !.state = state, !.overridden = TRUE, !.stage = SkipAll(old.stage)]
    OBVIOUS
  <2>2. q = MakeRoute(old.plan, state, TRUE, SkipAll(old.stage))
    BY <1>5, <2>1, RouteOverridden
  <2>3. routes' = [routes EXCEPT ![v].state = state, ![v].overridden = TRUE,
                                 ![v].stage = SkipAll(@)]
    BY <1>4, <1>8, <2>1, <2>2
  <2>4. actions' = actions \cup {ActionRow(v, t, kind) : t \in OpenIn(old.stage)}
    BY <1>2, <1>7
  <2>5. QED
    BY <1>1, <1>3, <1>9, <2>3, <2>4 DEF Override
<1>11. QED
  BY <1>3, <1>6, <1>10 DEF ForceApprove, ForceReject

LEMMA AloneSubmits ==
  ASSUME RacesInv, AloneInv, NEW p \in Requests, CommitSubmit(p), req[p].alone
  PROVE  \E plan \in Plans : \E first \in StagesOf(plan) : SubmitToRoute(plan, first)
<1>1. PICK r, plan, first :
        r = req[p] /\ plan = r.op.plan /\ first = r.op.first
  OBVIOUS
<1>2. /\ Stands(r) /\ Alone(r) /\ r.pc = "written" /\ r.alone /\ r.op.kind = "submit"
      /\ routes' = Append(routes, NewRoute(plan, first)) /\ doc' = r.out.doc
      /\ UNCHANGED actions
  BY <1>1, RequestFacts, AloneFacts DEF CommitSubmit, MayCommit
<1>3. /\ doc.status \in {"draft", "returned_for_revision"}
      /\ first \in StagesOf(plan) /\ first \in Lowest(plan, StagesOf(plan))
  BY <1>1, <1>2 DEF Alone
<1>4. plan \in Plans /\ Inserts(r)
  BY <1>1, <1>2, OperationFields DEF Stands
<1>5. SubmitToRoute(plan, first)
  BY <1>2, <1>3, <1>4 DEF SubmitToRoute, Inserts
<1>6. QED
  BY <1>3, <1>4, <1>5

LEMMA AloneSaves ==
  ASSUME RacesInv, AloneInv, NEW p \in Requests, Save(p), req[p].alone
  PROVE  Archive \/ UNCHANGED vars
<1>1. PICK r : r = req[p]
  OBVIOUS
<1>2. /\ Stands(r) /\ Alone(r) /\ r.pc = "loaded" /\ r.alone
      /\ r.op.kind \in {"archive", "edit"} /\ UNCHANGED <<routes, actions>>
      /\ doc' = IF r.op.kind = "archive" THEN [r.copy EXCEPT !.status = "archived"] ELSE r.copy
  BY <1>1, RequestFacts, AloneFacts DEF Save
<1>3. r.copy = doc /\ (r.op.kind = "archive" => doc.status = "approved")
  BY <1>2 DEF Alone, Stands
<1>4. CASE r.op.kind = "archive"
  BY <1>2, <1>3, <1>4 DEF Archive
<1>5. CASE r.op.kind = "edit"
  BY <1>2, <1>3, <1>5 DEF vars
<1>6. QED
  BY <1>2, <1>4, <1>5

\* A commit ends the request that commits, and no other.
LEMMA OnlyOneEnds ==
  ASSUME RacesInv, NEW q \in Requests, Ends(q), NEW p \in Requests, InFlight(p), ~InFlight(p)'
  PROVE  p = q
<1>1. SUFFICES ASSUME p # q PROVE FALSE
  OBVIOUS
<1>2. PICK r, x : r = req[p] /\ x = req'[p]
  OBVIOUS
<1>3. Form(r) /\ Stands(r) /\ r.pc # "idle" /\ x.pc = "idle"
  BY <1>2, RequestFacts DEF InFlight
<1>4. x = [r EXCEPT !.alone = FALSE]
  BY <1>1, <1>2 DEF Ends
<1>5. x.pc = r.pc
  BY <1>3, <1>4, Disturbed
<1>6. QED
  BY <1>3, <1>5

LEMMA AloneIsAtomic ==
  ASSUME RacesInv, AloneInv, [RacesNext]_racesVars, NEW p \in Requests,
         InFlight(p), req[p].alone, ~InFlight(p)'
  PROVE  Next \/ UNCHANGED vars
<1>1. CASE UNCHANGED racesVars
  BY <1>1 DEF racesVars, vars
<1>2. ASSUME NEW q \in Requests,
             \/ \E op \in Operations : Load(q, op)
             \/ Begin(q) \/ Refuse(q) \/ WriteStage(q) \/ WriteOverride(q) \/ WriteSubmit(q)
             \/ SubmitCollides(q) \/ SubmitAtBound(q) \/ DeadlockVictim(q)
      PROVE  UNCHANGED vars
  BY <1>2 DEF Load, Begin, Refuse, WriteStage, WriteOverride, WriteSubmit, SubmitCollides,
              SubmitAtBound, DeadlockVictim, vars
<1>3. ASSUME NEW q \in Requests, CommitSubmit(q)
      PROVE  Next
  <2>1. p = q
    BY <1>3, OnlyOneEnds DEF CommitSubmit
  <2>2. QED
    BY <1>3, <2>1, AloneSubmits DEF Next
<1>4. ASSUME NEW q \in Requests, CommitVerdict(q)
      PROVE  Next
  <2>1. p = q
    BY <1>4, OnlyOneEnds DEF CommitVerdict
  <2>2. req[p].op.kind \in {"act", "override"}
    BY <1>4, <2>1 DEF CommitVerdict
  <2>3. QED
    BY <1>4, <2>1, <2>2, AloneDecides, AloneOverrides DEF Next
<1>5. ASSUME NEW q \in Requests, Save(q)
      PROVE  Next \/ UNCHANGED vars
  <2>1. p = q
    BY <1>5, OnlyOneEnds DEF Save
  <2>2. QED
    BY <1>5, <2>1, AloneSaves DEF Next
<1>6. QED
  BY <1>1, <1>2, <1>3, <1>4, <1>5 DEF RacesNext

(***************************************************************************)
(* Only an overlap breaks a handler: whatever the plans and however many   *)
(* requests are in flight, a request during which nothing else was         *)
(* committed does to the rows what one step of EdmRoute does.  So what is  *)
(* proved of EdmRoute holds of a document as long as its requests do not   *)
(* meet.                                                                   *)
(***************************************************************************)
THEOREM UndisturbedRequestsAreAtomic == RacesSpec => UndisturbedIsAtomic
<1>1. ASSUME RacesInv, AloneInv, [RacesNext]_racesVars
      PROVE  [\A p \in Requests : InFlight(p) /\ req[p].alone /\ ~InFlight(p)'
                                    => Next \/ UNCHANGED vars]_racesVars
  BY <1>1, AloneIsAtomic
<1>2. QED
  BY <1>1, AloneCorrect, PTL DEF RacesSpec, UndisturbedIsAtomic
==============================================================================
