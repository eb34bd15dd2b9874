---------------------------- MODULE EdmRouteRaces ----------------------------
(***************************************************************************)
(* The handlers of EdmRoute as they really run: several requests at once,  *)
(* on Postgres at READ COMMITTED.  A request goes through                  *)
(*                                                                         *)
(*   Load    getDocumentOrFail reads the document outside any transaction, *)
(*           and the handler checks the status of that copy;               *)
(*   Begin   executeStageAction reads its stage and checks it is open;     *)
(*   Write   the transaction writes its first rows, whose locks it keeps,  *)
(*           reads the rest of what it needs and knows all it will write;  *)
(*   Commit  the remaining rows are written and everything becomes         *)
(*           visible.  The document is saved from the copy of Load.        *)
(*                                                                         *)
(* Saving an entity writes every column in which the copy differs from the *)
(* row, so the copy wins over what was committed since it was loaded.      *)
(* The locks are Postgres row locks and the lock on a key of the unique    *)
(* index UQ_EDM_ROUTE_DOCUMENT_VERSION.  Of two transactions that wait for *)
(* each other Postgres aborts one.                                         *)
(***************************************************************************)
EXTENDS EdmRoute

CONSTANTS Requests,     \* the requests that can be in flight at one time
          MaxRequests   \* bound: requests admitted in all

VARIABLES req,          \* the request in each slot
          admitted      \* how many were admitted; only MaxRequests reads it

racesVars == <<doc, routes, actions, req, admitted>>

Operations ==
       [kind : {"submit"}, plan : Plans, first : Stages]
  \cup [kind : {"act"}, stage : Stages, action : StageVerdicts \cup {"commented"}]
  \cup [kind : {"override"}, verdict : {"approved", "rejected"}]
  \cup [kind : {"archive", "edit"}]

\* A row lock, or the lock on the index key of a route version.
DocLock        == [row |-> "document"]
RouteLock(v)   == [row |-> "route", version |-> v]
StageLock(v, s) == [row |-> "stage", version |-> v, stage |-> s]

Idle == [pc |-> "idle"]

InFlight(p) == req[p].pc # "idle"

\* "alone" is history: nothing was committed since this request loaded.
Loaded(op) == [pc |-> "loaded", op |-> op, copy |-> doc, alone |-> TRUE]

RacesInit ==
  /\ Init
  /\ req = [p \in Requests |-> Idle]
  /\ admitted = 0

-----------------------------------------------------------------------------
(***************************************************************************)
(* What the handler checks on the copy before its transaction.             *)
(***************************************************************************)
MayArchive == doc.status = "approved"

Admits(op) ==
  \/ /\ op.kind = "submit"
     /\ doc.status \in {"draft", "returned_for_revision"}
     /\ Len(routes) < MaxVersions
     /\ op.first \in StagesOf(op.plan)
     /\ op.first \in Lowest(op.plan, StagesOf(op.plan))
  \/ op.kind \in {"act", "override"} /\ doc.current # 0
  \/ op.kind = "archive" /\ MayArchive
  \/ op.kind = "edit"

Load(p, op) ==
  /\ ~InFlight(p)
  /\ admitted < MaxRequests
  /\ Admits(op)
  /\ req' = [req EXCEPT ![p] = Loaded(op)]
  /\ admitted' = admitted + 1
  /\ UNCHANGED <<doc, routes, actions>>

\* The stage is looked up on the route of the copy.
Begin(p) ==
  LET r == req[p]
      v == r.copy.current
  IN  /\ r.pc = "loaded"
      /\ r.op.kind = "act"
      /\ r.op.stage \in StagesOf(routes[v].plan)
      /\ routes[v].stage[r.op.stage] \in OpenStates
      /\ req' = [req EXCEPT ![p].pc = "begun"]
      /\ UNCHANGED <<doc, routes, actions, admitted>>

\* The stage does not exist on that route, or it is closed: 404 or 409.
Refuse(p) ==
  LET r == req[p]
      v == r.copy.current
  IN  /\ r.pc = "loaded"
      /\ r.op.kind = "act"
      /\ \/ r.op.stage \notin StagesOf(routes[v].plan)
         \/ routes[v].stage[r.op.stage] \notin OpenStates
      /\ req' = [req EXCEPT ![p] = Idle]
      /\ UNCHANGED <<doc, routes, actions, admitted>>

-----------------------------------------------------------------------------
(***************************************************************************)
(* The rows a transaction has written and keeps locked, the rows it still  *)
(* has to write, and what it writes:                                       *)
(*   stage   the new states of some stages of route version v,             *)
(*   state   the new state of that route,                                  *)
(*   doc     the copy it saves over the document row, if it does,          *)
(*   rows    the audit rows.                                               *)
(***************************************************************************)
Written(r, holds, wants, out) ==
  [pc |-> "written", op |-> r.op, copy |-> r.copy, alone |-> r.alone,
   holds |-> holds, wants |-> wants, out |-> out]

\* The transaction does not save the document.
NotSaved == [status |-> "not saved"]

\* Bug: only the stages that open are saved, the skipped ones are not.
OpenedOnly(before, after, s) ==
  [t \in {u \in DOMAIN before : \/ u = s
                                \/ before[u] = "pending" /\ after[u] = "in_progress"} |-> after[t]]

\* The stages a decision on stage s saves: s and those that change with it.
Changes(before, after, s) ==
  [t \in {u \in DOMAIN before : u = s \/ after[u] # before[u]} |-> after[t]]

\* The stages of a route once some of them were saved.
Over(saved, stage) ==
  [t \in DOMAIN stage |-> IF t \in DOMAIN saved THEN saved[t] ELSE stage[t]]

StatusAfter(op) == op.action

\* Bug: returning a document leaves no audit row.
RowsUnlessReturned(v, op) ==
  IF op.action \in {"approved", "rejected"} THEN {ActionRow(v, op.stage, op.action)} ELSE {}

AuditRows(v, op) ==
  IF op.action = "commented" THEN {} ELSE {ActionRow(v, op.stage, op.action)}

\* A stage action locks its stage and sees the other stages as committed.
Decision(v, plan, seen, op, copy) ==
  LET s      == op.stage
      closed == [seen EXCEPT ![s] = IF op.action = "commented" THEN "in_progress"
                                    ELSE StateOfVerdict[op.action]]
      stage  == IF op.action = "approved" THEN AfterApproval(plan, closed, s) ELSE closed
      ends   == \/ op.action \in {"rejected", "returned_for_revision"}
                \/ op.action = "approved" /\ Completes(plan, closed, s)
  IN  [version |-> v,
       stage   |-> Changes(seen, stage, s),
       state   |-> IF ~ends THEN "same"
                   ELSE IF op.action = "approved" THEN "completed" ELSE stage[s],
       forced  |-> FALSE,
       doc     |-> IF ends THEN [copy EXCEPT !.status = StatusAfter(op)] ELSE NotSaved,
       rows    |-> AuditRows(v, op)]

WriteStage(p) ==
  LET r    == req[p]
      v    == r.copy.current
      lock == StageLock(v, r.op.stage)
      out  == Decision(v, routes[v].plan, routes[v].stage, r.op, r.copy)
  IN  /\ r.pc = "begun"
      /\ \A q \in Requests \ {p} : req[q].pc = "written" => lock \notin req[q].holds
      /\ req' = [req EXCEPT ![p] =
                   Written(r, {lock},
                           {StageLock(v, t) : t \in DOMAIN out.stage \ {r.op.stage}}
                             \cup (IF out.doc # NotSaved THEN {RouteLock(v), DocLock} ELSE {}),
                           out)]
      /\ UNCHANGED <<doc, routes, actions, admitted>>

\* override saves the route and the document, then reads the open stages.
WriteOverride(p) ==
  LET r     == req[p]
      v     == r.copy.current
      open  == OpenIn(routes[v].stage)
      holds == {RouteLock(v), DocLock}
      yes   == r.op.verdict = "approved"
  IN  /\ r.pc = "loaded"
      /\ r.op.kind = "override"
      /\ \A q \in Requests \ {p} : req[q].pc = "written" => holds \cap req[q].holds = {}
      /\ req' = [req EXCEPT ![p] =
                   Written(r, holds, {StageLock(v, t) : t \in open},
                     [version |-> v,
                      stage   |-> [t \in open |-> "skipped"],
                      state   |-> IF yes THEN "completed" ELSE "rejected",
                      forced  |-> TRUE,
                      doc     |-> [r.copy EXCEPT !.status = r.op.verdict],
                      rows    |-> {ActionRow(v, t, IF yes THEN "override_approved"
                                                   ELSE "override_rejected") : t \in open}])]
      /\ UNCHANGED <<doc, routes, actions, admitted>>

\* submitToRoute inserts the version after the latest one it can see.
WriteSubmit(p) ==
  LET r == req[p]
      v == Len(routes) + 1
  IN  /\ r.pc = "loaded"
      /\ r.op.kind = "submit"
      /\ v <= MaxVersions
      /\ \A q \in Requests \ {p} : req[q].pc = "written" => RouteLock(v) \notin req[q].holds
      /\ req' = [req EXCEPT ![p] =
                   Written(r, {RouteLock(v)}, {DocLock},
                     [version |-> v,
                      doc |-> [status |-> "in_route", current |-> v, numbered |-> TRUE]])]
      /\ UNCHANGED <<doc, routes, actions, admitted>>

\* The version was inserted by another request first: unique violation, 500.
SubmitCollides(p) ==
  LET r == req[p]
      v == Len(routes) + 1
  IN  /\ r.pc = "loaded"
      /\ r.op.kind = "submit"
      /\ \E q \in Requests \ {p} : req[q].pc = "written" /\ RouteLock(v) \in req[q].holds
      /\ req' = [req EXCEPT ![p] = Idle]
      /\ UNCHANGED <<doc, routes, actions, admitted>>

\* The bound on submissions stops a submission that was overtaken by others.
SubmitAtBound(p) ==
  /\ req[p].pc = "loaded"
  /\ req[p].op.kind = "submit"
  /\ Len(routes) = MaxVersions
  /\ req' = [req EXCEPT ![p] = Idle]
  /\ UNCHANGED <<doc, routes, actions, admitted>>

-----------------------------------------------------------------------------
Blocks(q, p) == req[q].pc = "written" /\ req[p].wants \cap req[q].holds # {}

MayCommit(p) == req[p].pc = "written" /\ \A q \in Requests \ {p} : ~Blocks(q, p)

\* p ends, and every other request in flight is no longer alone.
Ends(p) ==
  req' = [q \in Requests |->
            IF q = p THEN Idle
            ELSE IF InFlight(q) THEN [req[q] EXCEPT !.alone = FALSE] ELSE req[q]]

CommitSubmit(p) ==
  LET r == req[p]
  IN  /\ MayCommit(p)
      /\ r.op.kind = "submit"
      /\ routes' = Append(routes, NewRoute(r.op.plan, r.op.first))
      /\ doc' = r.out.doc
      /\ Ends(p)
      /\ UNCHANGED <<actions, admitted>>

CommitVerdict(p) ==
  LET o == req[p].out
  IN  /\ MayCommit(p)
      /\ req[p].op.kind \in {"act", "override"}
      /\ routes' = [routes EXCEPT
              ![o.version].stage      = Over(o.stage, @),
              ![o.version].state      = IF o.state = "same" THEN @ ELSE o.state,
              ![o.version].overridden = @ \/ o.forced]
      /\ actions' = actions \cup o.rows
      /\ doc' = IF o.doc = NotSaved THEN doc ELSE o.doc
      /\ Ends(p)
      /\ UNCHANGED admitted

\* Two transactions wait for each other: Postgres aborts one of them.
DeadlockVictim(p) ==
  /\ req[p].pc = "written"
  /\ \E q \in Requests \ {p} : Blocks(q, p) /\ req[q].pc = "written" /\ Blocks(p, q)
  /\ req' = [req EXCEPT ![p] = Idle]
  /\ UNCHANGED <<doc, routes, actions, admitted>>

(***************************************************************************)
(* archive, updateDraft and createResolutionTasks ("edit") save the copy   *)
(* in one statement of its own.                                            *)
(***************************************************************************)
Save(p) ==
  LET r == req[p]
  IN  /\ r.pc = "loaded"
      /\ r.op.kind \in {"archive", "edit"}
      /\ \A q \in Requests \ {p} : req[q].pc = "written" => DocLock \notin req[q].holds
      /\ doc' = IF r.op.kind = "archive" THEN [r.copy EXCEPT !.status = "archived"] ELSE r.copy
      /\ Ends(p)
      /\ UNCHANGED <<routes, actions, admitted>>

RacesNext ==
  \E p \in Requests :
    \/ \E op \in Operations : Load(p, op)
    \/ Begin(p)
    \/ Refuse(p)
    \/ WriteStage(p)
    \/ WriteOverride(p)
    \/ WriteSubmit(p)
    \/ SubmitCollides(p)
    \/ SubmitAtBound(p)
    \/ CommitSubmit(p)
    \/ CommitVerdict(p)
    \/ DeadlockVictim(p)
    \/ Save(p)

RacesSpec == RacesInit /\ [][RacesNext]_racesVars

-----------------------------------------------------------------------------
(***************************************************************************)
(* The rows stay well formed whatever overlaps: a version is inserted once *)
(* and the document points to a version that exists.                       *)
(***************************************************************************)
RacesTypeOK ==
  /\ TypeOK
  /\ doc.current <= Len(routes)
  /\ \A p \in Requests :
       /\ req[p].pc \in {"idle", "loaded", "begun", "written"}
       /\ InFlight(p) => req[p].op \in Operations /\ req[p].copy \in Document

(***************************************************************************)
(* Only an overlap breaks a handler: a request during which nothing else   *)
(* was committed, however its steps were spread, does to the rows exactly  *)
(* what one atomic step of EdmRoute does.  So EdmRoute is the right model  *)
(* of requests that do not meet.                                           *)
(***************************************************************************)
UndisturbedIsAtomic ==
  [][\A p \in Requests :
       InFlight(p) /\ req[p].alone /\ ~InFlight(p)' => Next \/ UNCHANGED vars]_racesVars

(***************************************************************************)
(* The rows stay well formed, and no overlap loses an audit row: the row   *)
(* of a verdict is written in the transaction that closes the stage, so    *)
(* every verdict a stage shows has its row.  And no interleaving approves  *)
(* a document by itself: somebody approved one of its stages or overrode   *)
(* one of its routes.                                                      *)
(***************************************************************************)
VerdictsAreRecorded ==
  /\ RacesTypeOK
  /\ \A v \in 1 .. Len(routes) : \A s \in DOMAIN routes[v].stage :
       \A k \in StageVerdicts :
         routes[v].stage[s] = StateOfVerdict[k] => ActionRow(v, s, k) \in actions
  /\ doc.status \in {"approved", "archived"} =>
       \/ \E row \in actions : row.action = "approved"
       \/ \E v \in 1 .. Len(routes) : routes[v].overridden

-----------------------------------------------------------------------------
(***************************************************************************)
(* What the documentation says of a route, and overlapping requests break. *)
(***************************************************************************)
Quiet == \A p \in Requests : ~InFlight(p)

(***************************************************************************)
(* A route that is still active waits for somebody: when no request is in  *)
(* flight it has an open stage.  Otherwise all assignees have approved and *)
(* nothing but an override can ever complete it.                           *)
(***************************************************************************)
ActiveRouteHasOpenStage ==
  Quiet => \A v \in 1 .. Len(routes) :
             routes[v].state = "active" => OpenIn(routes[v].stage) # {}

=============================================================================
