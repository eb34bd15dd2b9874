----------------------------- MODULE EdmWorkflow -----------------------------
(***************************************************************************)
(* The second EDM: one document walks along the workflow definition that   *)
(* the database is seeded with.  start and transition write one statement  *)
(* after the other without a transaction, so every statement is a step of  *)
(* its own, requests overlap, and a request may end between any two of its *)
(* statements (an error, or a restart of the process).  The other requests *)
(* that write the status are there too: updateMetadata and archive.        *)
(*                                                                         *)
(*   status      of edm_v2_documents                                       *)
(*   instance    the row of edm_v2_workflow_instances; document_id is      *)
(*               unique, so there is at most one                           *)
(*   assigned    edm_v2_workflow_assignments: <<step, user>> is unique;    *)
(*               the value says whether the assignee has acted             *)
(*   trail       edm_v2_workflow_transitions, in the order they are saved  *)
(*   request     the requests in flight                                    *)
(*   disturbed   history: two requests overlapped, or one failed           *)
(*   admitted    requests so far; only the bound reads it                  *)
(*                                                                         *)
(* Left out: deadlines and comments, and the SLA check, which looks for an *)
(* escalation in the snapshot that start never puts there and so writes    *)
(* nothing.  requirePermission may let each user through at every request: *)
(* an administrator always passes, and anybody may hold every grant.       *)
(***************************************************************************)
EXTENDS Naturals, Sequences, FiniteSets

CONSTANTS Users, Owner,
          Reviewers, Approvers,   \* the active users in these two roles
          Requests,               \* requests in flight at one time
          MaxRequests             \* bound: requests admitted in all

ASSUME WorkflowAssumption ==
  /\ Owner \in Users
  /\ Reviewers \subseteq Users
  /\ Approvers \subseteq Users
  /\ MaxRequests \in Nat

VARIABLES status, instance, assigned, trail, request, disturbed, admitted

rows == <<status, instance, assigned, trail>>
vars == <<status, instance, assigned, trail, request, disturbed, admitted>>

Steps    == {"draft", "review", "approval", "signed"}
Statuses == Steps \cup {"archived"}

\* The definition: a step, an action allowed in it, and where that leads.
Transitions ==
  { <<"draft", "submit", "review">>,
    <<"review", "approve", "approval">>, <<"review", "reject", "draft">>,
    <<"approval", "approve", "signed">>, <<"approval", "reject", "review">> }

FirstStep == "draft"
Editing(step)  == step = "draft"
Terminal(step) == step = "signed"

\* Bug: the type of the step is stored as it is.
StatusIsType ==
  [draft |-> "editing", review |-> "review", approval |-> "approval", signed |-> "signed"]

\* What a step of that type, or that end, makes of the document's status.
StatusOf ==
  [draft |-> "draft", review |-> "review", approval |-> "approval", signed |-> "signed"]

\* A role gives all who hold it, and nobody when nobody holds it.
Assignees(step) ==
  CASE step = "draft"    -> {Owner}
    [] step = "review"   -> Reviewers
    [] step = "approval" -> Approvers
    [] OTHER             -> {}

NoInstance == [state |-> "none"]
Idle       == [pc |-> "idle"]

Init ==
  /\ status = "draft"
  /\ instance = NoInstance
  /\ assigned = << >>
  /\ trail = << >>
  /\ request = [p \in Requests |-> Idle]
  /\ disturbed = FALSE
  /\ admitted = 0

-----------------------------------------------------------------------------
InFlight(p) == request[p].pc # "idle"

Goto(p, pc) == request' = [request EXCEPT ![p].pc = pc]
End(p)      == request' = [request EXCEPT ![p] = Idle]

Admit(p) ==
  /\ ~InFlight(p)
  /\ admitted < MaxRequests
  /\ admitted' = admitted + 1
  /\ disturbed' = (disturbed \/ \E q \in Requests : InFlight(q))

(***************************************************************************)
(* start inserts the instance; a second one violates the unique index.     *)
(***************************************************************************)
Start(p) ==
  /\ Admit(p)
  /\ instance = NoInstance
  /\ instance' = [state |-> "active", step |-> FirstStep]
  /\ request' = [request EXCEPT ![p] = [pc |-> "clearing", op |-> "start", to |-> FirstStep]]
  /\ UNCHANGED <<status, assigned, trail>>

\* Bug: nobody asks whether the actor is assigned to the step.
MayActAnybody(user, step) == TRUE

\* Anybody may act in an editing step, else an assignee who has not acted.
MayAct(user, step) ==
  \/ Editing(step)
  \/ /\ <<step, user>> \in DOMAIN assigned
     /\ ~assigned[<<step, user>>]

\* transition reads the instance with its assignments and checks the action.
Load(p, user, move) ==
  /\ Admit(p)
  /\ instance.state = "active"
  /\ move[1] = instance.step
  /\ MayAct(user, move[1])
  /\ request' = [request EXCEPT ![p] =
       [pc |-> IF Editing(move[1]) THEN "acted" ELSE "loaded", op |-> "transition",
        by |-> user, from |-> move[1], action |-> move[2], to |-> move[3],
        stale |-> FALSE]]
  /\ UNCHANGED rows

\* The assignment is updated by its id: one that was deleted since is not.
MarkActed(p) ==
  LET r == request[p]
  IN  /\ r.pc = "loaded"
      /\ assigned' = [a \in DOMAIN assigned |->
                        assigned[a] \/ (a = <<r.from, r.by>> /\ ~r.stale)]
      /\ Goto(p, "acted")
      /\ UNCHANGED <<status, instance, trail, disturbed, admitted>>

\* Bug: a rejection is recorded where it came from, not where it went.
RowOfRejectStays(r) ==
  [from |-> r.from, action |-> r.action, by |-> r.by,
   to |-> IF r.action = "reject" THEN r.from ELSE r.to]

RowOf(r) == [from |-> r.from, action |-> r.action, to |-> r.to, by |-> r.by]

RecordTransition(p) ==
  /\ request[p].pc = "acted"
  /\ trail' = Append(trail, RowOf(request[p]))
  /\ Goto(p, "recorded")
  /\ UNCHANGED <<status, instance, assigned, disturbed, admitted>>

\* Bug: the instance is moved before the transition is recorded.
MayMoveEarly(p) == request[p].pc \in {"acted", "recorded"}

MayMove(p) == request[p].pc = "recorded"

\* A terminal step completes the instance, whatever became of it meanwhile.
Move(p) ==
  LET r == request[p]
  IN  /\ MayMove(p)
      /\ instance' = [step |-> r.to,
                      state |-> IF Terminal(r.to) THEN "completed" ELSE instance.state]
      /\ Goto(p, "moved")
      /\ UNCHANGED <<status, assigned, trail, disturbed, admitted>>

SyncStatus(p) ==
  LET r == request[p]
  IN  /\ r.pc = "moved"
      /\ status' = StatusOf[r.to]
      /\ IF Terminal(r.to) THEN End(p) ELSE Goto(p, "clearing")
      /\ UNCHANGED <<instance, assigned, trail, disturbed, admitted>>

-----------------------------------------------------------------------------
(***************************************************************************)
(* resolveAndAssign: delete the assignments of the step, acted or not, and *)
(* insert one for each user who is to act.  start does it before it writes *)
(* the status, transition after.                                           *)
(***************************************************************************)
\* Bug: as the comment has it, only the assignments that were not acted.
OldUnacted(step) == {a \in DOMAIN assigned : a[1] = step /\ ~assigned[a]}

OldAssignments(step) == {a \in DOMAIN assigned : a[1] = step}

Clear(p) ==
  LET r   == request[p]
      old == OldAssignments(r.to)
  IN  /\ r.pc = "clearing"
      /\ assigned' = [a \in DOMAIN assigned \ old |-> assigned[a]]
      /\ request' = [q \in Requests |->
           IF q = p THEN [pc |-> "assigning", op |-> r.op, to |-> r.to, todo |-> Assignees(r.to)]
           ELSE IF request[q].pc = "loaded" /\ request[q].from = r.to
                THEN [request[q] EXCEPT !.stale = TRUE] ELSE request[q]]
      /\ UNCHANGED <<status, instance, trail, disturbed, admitted>>

Assign(p, user) ==
  LET r == request[p]
      a == <<r.to, user>>
  IN  /\ r.pc = "assigning"
      /\ user \in r.todo
      /\ a \notin DOMAIN assigned
      /\ assigned' = [b \in DOMAIN assigned \cup {a} |-> IF b = a THEN FALSE ELSE assigned[b]]
      /\ request' = [request EXCEPT ![p].todo = @ \ {user}]
      /\ UNCHANGED <<status, instance, trail, disturbed, admitted>>

\* Another request has inserted that assignment: unique violation, 500.
AssignCollides(p, user) ==
  /\ request[p].pc = "assigning"
  /\ user \in request[p].todo
  /\ <<request[p].to, user>> \in DOMAIN assigned
  /\ End(p)
  /\ UNCHANGED <<status, instance, assigned, trail, disturbed, admitted>>

AssignDone(p) ==
  /\ request[p].pc = "assigning"
  /\ request[p].todo = {}
  /\ status' = IF request[p].op = "start" THEN StatusOf[request[p].to] ELSE status
  /\ End(p)
  /\ UNCHANGED <<instance, assigned, trail, disturbed, admitted>>

(***************************************************************************)
(* updateMetadata reads the document, checks the permission, and saves the *)
(* entity it read: a status that was written in between is put back.       *)
(***************************************************************************)
ReadDocument(p) ==
  /\ Admit(p)
  /\ request' = [request EXCEPT ![p] = [pc |-> "editing", status |-> status]]
  /\ UNCHANGED rows

SaveDocument(p) ==
  /\ request[p].pc = "editing"
  /\ status' = request[p].status
  /\ End(p)
  /\ UNCHANGED <<instance, assigned, trail, disturbed, admitted>>

\* archive writes the document only, and asks nothing of the workflow.
Archive ==
  /\ status # "archived"
  /\ admitted < MaxRequests
  /\ admitted' = admitted + 1
  /\ status' = "archived"
  /\ UNCHANGED <<instance, assigned, trail, request, disturbed>>

\* A statement fails or the process ends; what was written stays.
Fail(p) ==
  /\ InFlight(p)
  /\ End(p)
  /\ disturbed' = TRUE
  /\ UNCHANGED <<status, instance, assigned, trail, admitted>>

Next ==
  \/ \E p \in Requests :
       \/ Start(p)
       \/ \E user \in Users, move \in Transitions : Load(p, user, move)
       \/ MarkActed(p)
       \/ RecordTransition(p)
       \/ Move(p)
       \/ SyncStatus(p)
       \/ Clear(p)
       \/ \E user \in Users : Assign(p, user) \/ AssignCollides(p, user)
       \/ AssignDone(p)
       \/ ReadDocument(p)
       \/ SaveDocument(p)
       \/ Fail(p)
  \/ Archive

Spec == Init /\ [][Next]_vars

-----------------------------------------------------------------------------
(***************************************************************************)
(* The rows are well formed, and only those are assigned to a step whom    *)
(* the definition names for it.                                            *)
(***************************************************************************)
Row == [from : Steps, action : {"submit", "approve", "reject"}, to : Steps, by : Users]

TypeOK ==
  /\ status \in Statuses
  /\ instance \in {NoInstance} \cup [state : {"active", "completed"}, step : Steps]
  /\ \A a \in DOMAIN assigned : a[2] \in Assignees(a[1]) /\ assigned[a] \in BOOLEAN
  /\ trail \in Seq(Row)
  /\ \A p \in Requests :
       request[p].pc \in {"idle", "loaded", "acted", "recorded", "moved", "clearing",
                        "assigning", "editing"}

(***************************************************************************)
(* The transition log explains every step: each row, and the step the      *)
(* document is in, starts where an earlier row ended, or at the first      *)
(* step.  Whatever overlaps or fails, nobody finds a document in a step    *)
(* that no recorded decision leads to: the log is written before the move. *)
(***************************************************************************)
Reached(step, n) == step = FirstStep \/ \E i \in 1 .. n : trail[i].to = step

TrailExplainsSteps ==
  /\ \A i \in 1 .. Len(trail) :
       /\ <<trail[i].from, trail[i].action, trail[i].to>> \in Transitions
       /\ Reached(trail[i].from, i - 1)
  /\ instance # NoInstance => Reached(instance.step, Len(trail))

(***************************************************************************)
(* A signed document was approved by a reviewer and, later, by an approver.*)
(* A stale request may drag the instance anywhere, but it can only do what *)
(* somebody assigned decided in a step that was really reached.            *)
(***************************************************************************)
SignedWasApproved ==
  status = "signed" =>
    \E i, j \in 1 .. Len(trail) :
      /\ i < j
      /\ trail[i].from = "review" /\ trail[i].to = "approval" /\ trail[i].by \in Reviewers
      /\ trail[j].from = "approval" /\ trail[j].to = "signed" /\ trail[j].by \in Approvers

Calm  == ~disturbed /\ \A p \in Requests : ~InFlight(p)

(***************************************************************************)
(* As long as no two requests overlap and none fails, the log is one walk  *)
(* from the first step to the step the document is in, and the status of   *)
(* the document is the one of that step, unless it was archived.           *)
(***************************************************************************)
CalmWalk ==
  Calm /\ instance # NoInstance =>
    LET n == Len(trail) IN
    /\ n > 0 => trail[1].from = FirstStep
    /\ \A i \in 1 .. n - 1 : trail[i].to = trail[i + 1].from
    /\ instance.step = IF n = 0 THEN FirstStep ELSE trail[n].to
    /\ instance.state = "completed" <=> Terminal(instance.step)
    /\ status \in {StatusOf[instance.step], "archived"}

(***************************************************************************)
(* And everybody the definition names for that step can act on it, also    *)
(* when the document comes back to a step it has been in before.           *)
(***************************************************************************)
StepIsStaffed ==
  Calm /\ instance # NoInstance /\ instance.state = "active" =>
    \A user \in Assignees(instance.step) :
      /\ <<instance.step, user>> \in DOMAIN assigned
      /\ ~assigned[<<instance.step, user>>]
=============================================================================
