--------------------------- MODULE SecondEdmProofs ---------------------------
(***************************************************************************)
(* Theorems about the second EDM.  First its workflow: what the transition *)
(* log guarantees for any users, any holders of the two roles and any      *)
(* number of overlapping requests: it explains every step, and every       *)
(* signature; then what an undisturbed document adds to that: the log is   *)
(* one walk, and the step is staffed.  Then its versions: the document     *)
(* shows its newest one.                                                   *)
(***************************************************************************)
EXTENDS MCEdmWorkflow, TLAPS

-----------------------------------------------------------------------------
(***************************************************************************)
(* The requests in flight, by what they still have to do.                  *)
(***************************************************************************)
Actions == {"submit", "approve", "reject"}

MoveRequest == [pc : {"loaded", "acted", "recorded", "moved", "clearing"}, op : {"transition"},
                by : Users, from : Steps, action : Actions, to : Steps, stale : BOOLEAN]
StartRequest  == [pc : {"clearing"}, op : {"start"}, to : {FirstStep}]
AssignRequest == [pc : {"assigning"}, op : {"start", "transition"}, to : Steps,
                  todo : SUBSET Users]
EditRequest   == [pc : {"editing"}, status : Statuses]

Shape ==
  /\ status \in Statuses
  /\ instance \in {NoInstance} \cup [state : {"active", "completed"}, step : Steps]
  /\ trail \in Seq(Row)
  /\ request \in [Requests -> {Idle} \cup MoveRequest \cup StartRequest
                                \cup AssignRequest \cup EditRequest]
  /\ disturbed \in BOOLEAN
  /\ assigned \in [DOMAIN assigned -> BOOLEAN]
  /\ \A a \in DOMAIN assigned : \E step \in Steps : \E user \in Assignees(step) : a = <<step, user>>

\* Who decides in a step is an assignee of it, unless the step is an editing one.
Entitled(step, user) == Editing(step) \/ user \in Assignees(step)

\* The evidence for a signature.
Signable ==
  \E i, j \in 1 .. Len(trail) :
    /\ i < j
    /\ trail[i].from = "review" /\ trail[i].to = "approval" /\ trail[i].by \in Reviewers
    /\ trail[j].from = "approval" /\ trail[j].to = "signed" /\ trail[j].by \in Approvers

\* A request that has loaded carries a decision that the definition allows, of somebody entitled
\* to it, in a step that was reached; once it has recorded it, the log has reached its target.
Sound(r) ==
  /\ r.pc \in {"loaded", "acted", "recorded", "moved"} =>
       /\ <<r.from, r.action, r.to>> \in Transitions
       /\ Entitled(r.from, r.by)
       /\ Reached(r.from, Len(trail))
       /\ instance # NoInstance
  /\ r.pc \in {"recorded", "moved"} =>
       /\ Reached(r.to, Len(trail))
       /\ r.to = "signed" => Signable
  /\ r.pc \in {"clearing", "assigning"} => r.to # "signed"
  /\ r.pc = "assigning" => r.todo \subseteq Assignees(r.to) /\ (r.op = "start" => r.to = FirstStep)
  /\ r.pc = "editing" /\ r.status = "signed" => Signable

Log ==
  /\ TrailExplainsSteps
  /\ \A i \in 1 .. Len(trail) : Entitled(trail[i].from, trail[i].by)
  /\ status = "signed" => Signable
  /\ \A p \in Requests : Sound(request[p])

Inv == Shape /\ Log

-----------------------------------------------------------------------------
LEMMA TransitionFacts ==
  ASSUME NEW from, NEW action, NEW to, <<from, action, to>> \in Transitions
  PROVE  /\ from \in Steps /\ to \in Steps /\ action \in Actions
         /\ to = "signed" => from = "approval"
         /\ to = "approval" => from = "review"
         /\ from # "signed"
BY DEF Transitions, Steps, Actions

LEMMA RequestFacts ==
  ASSUME Shape, NEW p \in Requests
  PROVE  LET r == request[p] IN
         /\ r.pc \in {"loaded", "acted", "recorded", "moved"} => r \in MoveRequest
         /\ r.pc = "clearing" => r \in MoveRequest \/ r \in StartRequest
         /\ r.pc = "assigning" => r \in AssignRequest
         /\ r.pc = "editing" => r \in EditRequest
         /\ r.pc \in {"idle", "loaded", "acted", "recorded", "moved", "clearing", "assigning",
                      "editing"}
<1> DEFINE r == request[p]
<1>1. r \in {Idle} \cup MoveRequest \cup StartRequest \cup AssignRequest \cup EditRequest
  BY DEF Shape
<1>2. Idle.pc = "idle"
  BY DEF Idle
<1>3. QED
  BY <1>1, <1>2 DEF MoveRequest, StartRequest, AssignRequest, EditRequest

LEMMA IdleIsSound == Sound(Idle)
BY DEF Sound, Idle

\* The common shape of a step: it rewrites the request of p and none of the log.
LEMMA QuietStep ==
  ASSUME Inv, NEW p \in Requests, NEW r,
         request' = [request EXCEPT ![p] = r],
         r \in {Idle} \cup MoveRequest \cup StartRequest \cup AssignRequest \cup EditRequest,
         Sound(r),
         trail' = trail,
         instance' = instance \/ instance' = [state |-> "active", step |-> FirstStep],
         status' \in Statuses, status' = "signed" => Signable,
         disturbed' \in BOOLEAN,
         assigned' \in [DOMAIN assigned' -> BOOLEAN],
         \A a \in DOMAIN assigned' :
           a \in DOMAIN assigned \/ \E step \in Steps : \E user \in Assignees(step) : a = <<step, user>>
  PROVE  Inv'
<1>1. [state |-> "active", step |-> FirstStep] \in [state : {"active", "completed"}, step : Steps]
  BY DEF FirstStep, Steps
<1>2. Shape'
  <2>1. \A a \in DOMAIN assigned' : \E step \in Steps : \E user \in Assignees(step) : a = <<step, user>>
    BY DEF Inv, Shape
  <2>2. instance' \in {NoInstance} \cup [state : {"active", "completed"}, step : Steps]
    BY <1>1 DEF Inv, Shape
  <2>3. request' \in [Requests -> {Idle} \cup MoveRequest \cup StartRequest
                                    \cup AssignRequest \cup EditRequest]
    BY DEF Inv, Shape
  <2>4. QED
    BY <2>1, <2>2, <2>3 DEF Inv, Shape
<1>3. \A q \in Requests : Sound(request[q])'
  <2>1. TAKE q \in Requests
  <2>2. Sound(request'[q])
    BY DEF Inv, Log, Shape
  <2>3. QED
    BY <1>1, <2>2 DEF Sound, Reached, Signable, NoInstance
<1>4. TrailExplainsSteps'
  BY <1>1 DEF Inv, Log, TrailExplainsSteps, Reached, FirstStep, NoInstance
<1>5. QED
  BY <1>2, <1>3, <1>4 DEF Inv, Log, Signable, Entitled

-----------------------------------------------------------------------------
(***************************************************************************)
(* One lemma per action.                                                   *)
(***************************************************************************)
LEMMA InitInv == Init => Inv
<1> SUFFICES ASSUME Init PROVE Inv
  OBVIOUS
<1>1. status = "draft" /\ instance = NoInstance /\ trail = << >> /\ disturbed = FALSE
  BY DEF Init
<1>2. DOMAIN assigned = {} /\ assigned \in [DOMAIN assigned -> BOOLEAN]
  BY DEF Init
<1>3. \A p \in Requests : request[p] = Idle
  BY DEF Init
<1>4. request \in [Requests -> {Idle}]
  BY DEF Init
<1>5. Shape
  <2>1. status \in Statuses /\ instance \in {NoInstance} /\ disturbed \in BOOLEAN
    BY <1>1 DEF Statuses, Steps
  <2>2. trail \in Seq(Row)
    BY <1>1
  <2>3. \A a \in DOMAIN assigned : \E step \in Steps : \E user \in Assignees(step) : a = <<step, user>>
    BY <1>2
  <2>4. QED
    BY <1>2, <1>4, <2>1, <2>2, <2>3 DEF Shape
<1>6. Log
  <2>1. Len(trail) = 0
    BY <1>1
  <2>2. TrailExplainsSteps
    BY <1>1, <2>1 DEF TrailExplainsSteps
  <2>3. QED
    BY <1>1, <1>3, <2>1, <2>2, IdleIsSound DEF Log
<1>7. QED
  BY <1>5, <1>6 DEF Inv

LEMMA StartInv ==
  ASSUME Inv, NEW p \in Requests, Start(p)
  PROVE  Inv'
<1> DEFINE r == [pc |-> "clearing", op |-> "start", to |-> FirstStep]
<1>1. r \in StartRequest
  BY DEF StartRequest
<1>2. Sound(r)
  BY DEF Sound, FirstStep
<1>3. disturbed' \in BOOLEAN
  BY DEF Start, Admit
<1>4. QED
  BY <1>1, <1>2, <1>3, QuietStep DEF Start, Inv, Shape, Log

LEMMA LoadInv ==
  ASSUME Inv, NEW p \in Requests, NEW user \in Users, NEW move \in Transitions,
         Load(p, user, move)
  PROVE  Inv'
<1>0. /\ move = <<move[1], move[2], move[3]>>
      /\ move[1] \in Steps /\ move[3] \in Steps /\ move[2] \in Actions
  BY DEF Transitions, Steps, Actions
<1> DEFINE r == [pc |-> IF Editing(move[1]) THEN "acted" ELSE "loaded", op |-> "transition",
                 by |-> user, from |-> move[1], action |-> move[2], to |-> move[3],
                 stale |-> FALSE]
<1>1. r \in MoveRequest
  BY <1>0 DEF MoveRequest
<1>2. Entitled(move[1], user)
  <2>1. CASE Editing(move[1])
    BY <2>1 DEF Entitled
  <2>2. CASE ~Editing(move[1])
    <3>1. <<move[1], user>> \in DOMAIN assigned
      BY <2>2 DEF Load, MayAct
    <3>2. PICK step \in Steps : \E u \in Assignees(step) : <<move[1], user>> = <<step, u>>
      BY <3>1 DEF Inv, Shape
    <3>3. QED
      BY <3>2 DEF Entitled
  <2>3. QED
    BY <2>1, <2>2
<1>3. Reached(move[1], Len(trail)) /\ instance # NoInstance
  <2>1. instance # NoInstance
    BY DEF Load, NoInstance
  <2>2. QED
    BY <2>1 DEF Load, Inv, Log, TrailExplainsSteps
<1>4. Sound(r)
  BY <1>0, <1>2, <1>3 DEF Sound
<1>5. disturbed' \in BOOLEAN
  BY DEF Load, Admit
<1>6. QED
  BY <1>1, <1>4, <1>5, QuietStep DEF Load, rows, Inv, Shape, Log

LEMMA MarkActedInv ==
  ASSUME Inv, NEW p \in Requests, MarkActed(p)
  PROVE  Inv'
<1> DEFINE r == [request[p] EXCEPT !.pc = "acted"]
<1>1. request[p] \in MoveRequest /\ Sound(request[p]) /\ request[p].pc = "loaded"
  BY RequestFacts DEF MarkActed, Inv, Log
<1>2. r \in MoveRequest
  BY <1>1 DEF MoveRequest
<1>3. Sound(r)
  BY <1>1 DEF Sound, MoveRequest
<1>4. assigned' \in [DOMAIN assigned' -> BOOLEAN] /\ DOMAIN assigned' = DOMAIN assigned
  BY DEF MarkActed, Inv, Shape
<1>5. request' = [request EXCEPT ![p] = r]
  BY DEF MarkActed, Goto
<1>6. QED
  BY <1>2, <1>3, <1>4, <1>5, QuietStep DEF MarkActed, Inv, Shape, Log

LEMMA MoveInv ==
  ASSUME Inv, NEW p \in Requests, Move(p)
  PROVE  Inv'
<1> DEFINE r == [request[p] EXCEPT !.pc = "moved"]
<1>1. request[p] \in MoveRequest /\ Sound(request[p]) /\ request[p].pc = "recorded"
  BY RequestFacts DEF Move, MayMove, Inv, Log
<1>2. r \in MoveRequest /\ Sound(r)
  BY <1>1 DEF MoveRequest, Sound
<1>3. request' = [request EXCEPT ![p] = r]
  BY DEF Move, Goto
<1>4. /\ instance' \in {NoInstance} \cup [state : {"active", "completed"}, step : Steps]
      /\ instance'.step = request[p].to
      /\ instance' # NoInstance
  <2>1. instance \in [state : {"active", "completed"}, step : Steps]
    BY <1>1 DEF Inv, Shape, Sound
  <2>2. request[p].to \in Steps
    BY <1>1 DEF MoveRequest
  <2>3. instance' \in [state : {"active", "completed"}, step : Steps]
    BY <2>1, <2>2 DEF Move
  <2>4. instance'.step = request[p].to
    BY DEF Move
  <2>5. instance' # NoInstance
    BY <2>3 DEF NoInstance
  <2>6. QED
    BY <2>3, <2>4, <2>5
<1>5. Shape'
  BY <1>2, <1>3, <1>4 DEF Move, Inv, Shape
<1>6. TrailExplainsSteps'
  BY <1>1, <1>4 DEF Move, Inv, Log, TrailExplainsSteps, Sound, Reached
<1>7. \A q \in Requests : Sound(request[q])'
  <2>1. TAKE q \in Requests
  <2>2. Sound(request'[q])
    BY <1>2, <1>3 DEF Inv, Log, Shape
  <2>3. QED
    BY <1>4, <2>2 DEF Sound, Reached, Signable, Move
<1>8. QED
  BY <1>5, <1>6, <1>7 DEF Move, Inv, Log, Signable, Entitled

LEMMA SyncStatusInv ==
  ASSUME Inv, NEW p \in Requests, SyncStatus(p)
  PROVE  Inv'
<1>1. request[p] \in MoveRequest /\ Sound(request[p]) /\ request[p].pc = "moved"
  BY RequestFacts DEF SyncStatus, Inv, Log
<1>2. request[p].to \in Steps
  BY <1>1 DEF MoveRequest
<1>3. status' = request[p].to
  BY <1>2 DEF SyncStatus, StatusOf, Steps
<1>4. status' \in Statuses /\ (status' = "signed" => Signable)
  BY <1>1, <1>2, <1>3 DEF Statuses, Sound
<1>5. CASE Terminal(request[p].to)
  <2>1. request' = [request EXCEPT ![p] = Idle]
    BY <1>5 DEF SyncStatus, End
  <2>2. QED
    BY <1>4, <2>1, IdleIsSound, QuietStep DEF SyncStatus, Inv, Shape
<1>6. CASE ~Terminal(request[p].to)
  <2> DEFINE r == [request[p] EXCEPT !.pc = "clearing"]
  <2>1. request' = [request EXCEPT ![p] = r]
    BY <1>6 DEF SyncStatus, Goto
  <2>2. r \in MoveRequest /\ Sound(r)
    BY <1>1, <1>6 DEF MoveRequest, Sound, Terminal
  <2>3. QED
    BY <1>4, <2>1, <2>2, QuietStep DEF SyncStatus, Inv, Shape
<1>7. QED
  BY <1>5, <1>6

\* Reached, said of any log.
Leads(log, step, n) == step = FirstStep \/ \E i \in 1 .. n : log[i].to = step

\* A row more never takes evidence away.
LEMMA LogGrows ==
  ASSUME Inv, NEW row \in Row, trail' = Append(trail, row)
  PROVE  /\ trail' \in Seq(Row) /\ Len(trail') = Len(trail) + 1 /\ Len(trail) \in Nat
         /\ trail'[Len(trail) + 1] = row
         /\ \A i \in 1 .. Len(trail) : trail'[i] = trail[i]
         /\ Signable => Signable'
<1>1. trail \in Seq(Row)
  BY DEF Inv, Shape
<1>2. /\ trail' \in Seq(Row) /\ Len(trail') = Len(trail) + 1 /\ Len(trail) \in Nat
      /\ trail'[Len(trail) + 1] = row
      /\ \A i \in 1 .. Len(trail) : trail'[i] = trail[i]
  BY <1>1
<1>3. Signable => Signable'
  BY <1>2 DEF Signable
<1>4. QED
  BY <1>2, <1>3

\* A decision on a step that was reached, recorded, is evidence enough for a signature.
LEMMA RecordTransitionInv ==
  ASSUME Inv, NEW p \in Requests, RecordTransition(p)
  PROVE  Inv'
<1> DEFINE r   == [request[p] EXCEPT !.pc = "recorded"]
           row == RowOf(request[p])
           n   == Len(trail)
<1>1. /\ request[p] \in MoveRequest /\ Sound(request[p]) /\ request[p].pc = "acted"
      /\ <<request[p].from, request[p].action, request[p].to>> \in Transitions
      /\ Entitled(request[p].from, request[p].by) /\ Reached(request[p].from, n)
      /\ instance # NoInstance
  BY RequestFacts DEF RecordTransition, Inv, Log, Sound
<1>2. /\ row \in Row
      /\ row.from = request[p].from /\ row.to = request[p].to
      /\ row.by = request[p].by /\ row.action = request[p].action
  BY <1>1 DEF RowOf, Row, MoveRequest, Actions
<1>3. trail' = Append(trail, row) /\ request' = [request EXCEPT ![p] = r]
  BY DEF RecordTransition, Goto
<1>4. /\ trail' \in Seq(Row) /\ Len(trail') = n + 1 /\ n \in Nat
      /\ trail'[n + 1] = row
      /\ \A i \in 1 .. n : trail'[i] = trail[i]
      /\ Signable => Signable'
  BY <1>2, <1>3, LogGrows
<1>5. r \in MoveRequest
  BY <1>1 DEF MoveRequest
<1>6. Shape'
  BY <1>3, <1>4, <1>5 DEF RecordTransition, Inv, Shape
<1>7. \A step : \A k \in 0 .. n : Leads(trail, step, k) => Leads(trail', step, k)
  BY <1>4 DEF Leads
<1>8. \A step : Leads(trail, step, n) => Leads(trail', step, n + 1)
  BY <1>4 DEF Leads
<1>9. TrailExplainsSteps'
  <2>1. \A i \in 1 .. n :
          /\ <<trail[i].from, trail[i].action, trail[i].to>> \in Transitions
          /\ Leads(trail, trail[i].from, i - 1)
    BY DEF Inv, Log, TrailExplainsSteps, Reached, Leads
  <2>2. \A i \in 1 .. n : i - 1 \in 0 .. n
    BY <1>4
  <2>3. \A i \in 1 .. n :
          /\ <<trail'[i].from, trail'[i].action, trail'[i].to>> \in Transitions
          /\ Leads(trail', trail'[i].from, i - 1)
    BY <1>4, <1>7, <2>1, <2>2
  <2>4. <<row.from, row.action, row.to>> \in Transitions /\ Leads(trail', row.from, n)
    <3>1. Leads(trail, row.from, n) /\ n \in 0 .. n
      BY <1>1, <1>2, <1>4 DEF Reached, Leads
    <3>2. QED
      BY <1>1, <1>2, <1>7, <3>1
  <2>5. \A i \in 1 .. n + 1 :
          /\ <<trail'[i].from, trail'[i].action, trail'[i].to>> \in Transitions
          /\ Leads(trail', trail'[i].from, i - 1)
    <3>1. TAKE i \in 1 .. n + 1
    <3>2. CASE i \in 1 .. n
      BY <2>3, <3>2
    <3>3. CASE i = n + 1
      <4>1. trail'[i] = row /\ i - 1 = n
        BY <1>4, <3>3
      <4>2. QED
        BY <2>4, <4>1
    <3>4. QED
      BY <1>4, <3>2, <3>3
  <2>6. Leads(trail', instance.step, n + 1)
    BY <1>1, <1>8 DEF Inv, Log, TrailExplainsSteps, Reached, Leads
  <2>7. instance' = instance /\ Len(trail') = n + 1
    BY <1>4 DEF RecordTransition
  <2>8. QED
    BY <2>5, <2>6, <2>7 DEF TrailExplainsSteps, Reached, Leads
<1>10. \A i \in 1 .. n + 1 : Entitled(trail'[i].from, trail'[i].by)
  BY <1>1, <1>2, <1>4 DEF Inv, Log
<1>11. row.to = "signed" => Signable'
  <2>1. SUFFICES ASSUME row.to = "signed" PROVE Signable'
    OBVIOUS
  <2>2. row.from = "approval" /\ row.by \in Approvers
    BY <1>1, <1>2, <2>1, TransitionFacts DEF Entitled, Editing, Assignees
  <2>3. PICK i \in 1 .. n : trail[i].to = "approval"
    BY <1>1, <1>2, <2>2 DEF Reached, FirstStep
  <2>4. trail[i].from = "review" /\ trail[i].by \in Reviewers
    BY <2>3, TransitionFacts DEF Inv, Log, TrailExplainsSteps, Entitled, Editing, Assignees
  <2>5. i \in 1 .. Len(trail') /\ n + 1 \in 1 .. Len(trail') /\ i < n + 1
    BY <1>4
  <2>6. trail'[i] = trail[i] /\ trail'[n + 1] = row
    BY <1>4
  <2>7. QED
    BY <2>1, <2>2, <2>3, <2>4, <2>5, <2>6 DEF Signable
<1>12. \A q \in Requests : Sound(request[q])'
  <2>1. TAKE q \in Requests
  <2>2. CASE q = p
    <3>1. request'[q] = r
      BY <1>3, <2>2 DEF Inv, Shape
    <3>2. r.pc = "recorded" /\ r.from = row.from /\ r.to = row.to /\ r.action = row.action /\ r.by = row.by
      BY <1>1, <1>2 DEF MoveRequest
    <3>3. Leads(trail', r.from, n + 1) /\ Leads(trail', r.to, n + 1)
      <4>1. Leads(trail, r.from, n)
        BY <1>1, <1>2, <3>2 DEF Reached, Leads
      <4>2. Leads(trail', r.to, n + 1)
        BY <1>4, <3>2 DEF Leads
      <4>3. QED
        BY <1>8, <4>1, <4>2
    <3>4. instance' # NoInstance /\ Len(trail') = n + 1
      BY <1>1, <1>4 DEF RecordTransition
    <3>5. <<r.from, r.action, r.to>> \in Transitions /\ Entitled(r.from, r.by)
            /\ (r.to = "signed" => Signable')
      BY <1>1, <1>2, <1>11, <3>2
    <3>6. QED
      BY <3>1, <3>2, <3>3, <3>4, <3>5 DEF Sound, Reached, Leads
  <2>3. CASE q # p
    <3>1. request'[q] = request[q] /\ Sound(request[q])
      BY <1>3, <2>3 DEF Inv, Shape, Log
    <3>2. \A step : Reached(step, n) => Leads(trail', step, n + 1)
      BY <1>8 DEF Reached, Leads
    <3>3. instance' = instance /\ Len(trail') = n + 1 /\ (Signable => Signable')
      BY <1>4 DEF RecordTransition
    <3>4. QED
      BY <3>1, <3>2, <3>3 DEF Sound, Reached, Leads
  <2>4. QED
    BY <2>2, <2>3
<1>13. QED
  BY <1>4, <1>6, <1>9, <1>10, <1>12 DEF Inv, Log, RecordTransition

LEMMA ClearInv ==
  ASSUME Inv, NEW p \in Requests, Clear(p)
  PROVE  Inv'
<1> DEFINE r == [pc |-> "assigning", op |-> request[p].op, to |-> request[p].to,
                 todo |-> Assignees(request[p].to)]
           dragged(q) == request[q].pc = "loaded" /\ request[q].from = request[p].to
<1>1. /\ request[p] \in MoveRequest \cup StartRequest
      /\ Sound(request[p]) /\ request[p].pc = "clearing"
  BY RequestFacts DEF Clear, Inv, Log
<1>2. r \in AssignRequest
  <2>1. Assignees(request[p].to) \subseteq Users
    BY WorkflowAssumption DEF Assignees
  <2>2. request[p].to \in Steps /\ request[p].op \in {"start", "transition"}
    BY <1>1 DEF MoveRequest, StartRequest, FirstStep, Steps
  <2>3. QED
    BY <2>1, <2>2 DEF AssignRequest
<1>3. Sound(r)
  BY <1>1 DEF Sound, MoveRequest, StartRequest
<1>4. request' = [q \in Requests |-> IF q = p THEN r
                    ELSE IF dragged(q) THEN [request[q] EXCEPT !.stale = TRUE] ELSE request[q]]
  BY DEF Clear
<1>5. \A q \in Requests \ {p} :
        dragged(q) => /\ [request[q] EXCEPT !.stale = TRUE] \in MoveRequest
                      /\ Sound([request[q] EXCEPT !.stale = TRUE])
  <2>1. TAKE q \in Requests \ {p}
  <2>2. HAVE dragged(q)
  <2>3. request[q] \in MoveRequest /\ Sound(request[q])
    BY <2>2, RequestFacts DEF Inv, Log
  <2>4. QED
    BY <2>2, <2>3 DEF MoveRequest, Sound
<1>6. \A q \in Requests :
        /\ Sound(request'[q])
        /\ request'[q] \in {Idle} \cup MoveRequest \cup StartRequest \cup AssignRequest
                              \cup EditRequest
  BY <1>2, <1>3, <1>4, <1>5 DEF Inv, Shape, Log
<1>7. request' \in [Requests -> {Idle} \cup MoveRequest \cup StartRequest \cup AssignRequest
                                  \cup EditRequest]
  BY <1>4, <1>6
<1>8. /\ assigned' \in [DOMAIN assigned' -> BOOLEAN]
      /\ DOMAIN assigned' \subseteq DOMAIN assigned
  BY DEF Clear, Inv, Shape
<1>9. Shape'
  BY <1>7, <1>8 DEF Clear, Inv, Shape
<1>10. \A q \in Requests : Sound(request[q])'
  BY <1>6 DEF Sound, Reached, Signable, Clear
<1>11. QED
  BY <1>9, <1>10 DEF Clear, Inv, Log, TrailExplainsSteps, Reached, Signable, Entitled

LEMMA AssignInv ==
  ASSUME Inv, NEW p \in Requests, NEW user \in Users, Assign(p, user)
  PROVE  Inv'
<1> DEFINE r == [request[p] EXCEPT !.todo = @ \ {user}]
           a == <<request[p].to, user>>
<1>1. /\ request[p] \in AssignRequest /\ Sound(request[p]) /\ request[p].pc = "assigning"
      /\ user \in request[p].todo
  BY RequestFacts DEF Assign, Inv, Log
<1>2. r \in AssignRequest /\ Sound(r)
  BY <1>1 DEF AssignRequest, Sound
<1>3. request' = [request EXCEPT ![p] = r]
  BY DEF Assign
<1>4. request[p].to \in Steps /\ user \in Assignees(request[p].to)
  BY <1>1 DEF AssignRequest, Sound
<1>5. /\ assigned' \in [DOMAIN assigned' -> BOOLEAN]
      /\ DOMAIN assigned' = DOMAIN assigned \cup {a}
  BY DEF Assign, Inv, Shape
<1>6. QED
  BY <1>2, <1>3, <1>4, <1>5, QuietStep DEF Assign, Inv, Shape, Log

LEMMA AssignDoneInv ==
  ASSUME Inv, NEW p \in Requests, AssignDone(p)
  PROVE  Inv'
<1>1. /\ request[p] \in AssignRequest /\ Sound(request[p]) /\ request[p].pc = "assigning"
  BY RequestFacts DEF AssignDone, Inv, Log
<1>2. status' \in Statuses /\ (status' = "signed" => Signable)
  BY <1>1 DEF AssignDone, Sound, StatusOf, FirstStep, Statuses, Steps, Inv, Shape, Log
<1>3. QED
  BY <1>2, IdleIsSound, QuietStep DEF AssignDone, End, Inv, Shape

LEMMA ReadDocumentInv ==
  ASSUME Inv, NEW p \in Requests, ReadDocument(p)
  PROVE  Inv'
<1> DEFINE r == [pc |-> "editing", status |-> status]
<1>1. r \in EditRequest /\ Sound(r)
  BY DEF EditRequest, Sound, Inv, Shape, Log
<1>2. disturbed' \in BOOLEAN
  BY DEF ReadDocument, Admit
<1>3. QED
  BY <1>1, <1>2, QuietStep DEF ReadDocument, rows, Inv, Shape, Log

LEMMA SaveDocumentInv ==
  ASSUME Inv, NEW p \in Requests, SaveDocument(p)
  PROVE  Inv'
<1>1. request[p] \in EditRequest /\ Sound(request[p]) /\ request[p].pc = "editing"
  BY RequestFacts DEF SaveDocument, Inv, Log
<1>2. status' \in Statuses /\ (status' = "signed" => Signable)
  BY <1>1 DEF SaveDocument, EditRequest, Sound
<1>3. QED
  BY <1>2, IdleIsSound, QuietStep DEF SaveDocument, End, Inv, Shape

\* A request that ends: with an error of a statement, or with the process.
LEMMA EndInv ==
  ASSUME Inv, NEW p \in Requests, End(p), UNCHANGED rows, disturbed' \in BOOLEAN
  PROVE  Inv'
BY IdleIsSound, QuietStep DEF End, rows, Inv, Shape, Log

LEMMA ArchiveInv == Inv /\ Archive => Inv'
<1> SUFFICES ASSUME Inv, Archive PROVE Inv'
  OBVIOUS
<1>1. Shape'
  BY DEF Inv, Shape, Archive, Statuses
<1>2. \A p \in Requests : Sound(request[p])'
  BY DEF Archive, Inv, Log, Sound, Reached, Signable
<1>3. QED
  BY <1>1, <1>2 DEF Archive, Inv, Log, TrailExplainsSteps, Reached, Signable, Entitled

LEMMA StepInv == Inv /\ [Next]_vars => Inv'
<1> SUFFICES ASSUME Inv, [Next]_vars PROVE Inv'
  OBVIOUS
<1>1. CASE UNCHANGED vars
  <2>1. \A p \in Requests : Sound(request[p])'
    BY <1>1 DEF vars, Inv, Log, Sound, Reached, Signable
  <2>2. QED
    BY <1>1, <2>1 DEF vars, Inv, Shape, Log, TrailExplainsSteps, Reached, Signable, Entitled
<1>2. CASE Archive
  BY <1>2, ArchiveInv
<1>3. ASSUME NEW p \in Requests, Start(p) PROVE Inv'
  BY <1>3, StartInv
<1>4. ASSUME NEW p \in Requests, NEW user \in Users, NEW move \in Transitions, Load(p, user, move)
      PROVE  Inv'
  BY <1>4, LoadInv
<1>5. ASSUME NEW p \in Requests, MarkActed(p) \/ RecordTransition(p) \/ Move(p) \/ SyncStatus(p)
      PROVE  Inv'
  BY <1>5, MarkActedInv, RecordTransitionInv, MoveInv, SyncStatusInv
<1>6. ASSUME NEW p \in Requests, Clear(p) \/ AssignDone(p) PROVE Inv'
  BY <1>6, ClearInv, AssignDoneInv
<1>7. ASSUME NEW p \in Requests, NEW user \in Users, Assign(p, user) PROVE Inv'
  BY <1>7, AssignInv
<1>8. ASSUME NEW p \in Requests, NEW user \in Users, AssignCollides(p, user) PROVE Inv'
  BY <1>8, EndInv DEF AssignCollides, rows, Inv, Shape
<1>9. ASSUME NEW p \in Requests, ReadDocument(p) \/ SaveDocument(p) PROVE Inv'
  BY <1>9, ReadDocumentInv, SaveDocumentInv
<1>10. ASSUME NEW p \in Requests, Fail(p) PROVE Inv'
  BY <1>10, EndInv DEF Fail, rows
<1>11. QED
  BY <1>1, <1>2, <1>3, <1>4, <1>5, <1>6, <1>7, <1>8, <1>9, <1>10 DEF Next

\* The rows stay well formed, and only those are ever assigned to a step whom the definition names
\* for it.
THEOREM WorkflowTypeCorrect == Spec => []TypeOK
<1>1. Inv => TypeOK
  <2> SUFFICES ASSUME Inv PROVE TypeOK
    OBVIOUS
  <2>1. \A a \in DOMAIN assigned : a[2] \in Assignees(a[1]) /\ assigned[a] \in BOOLEAN
    BY DEF Inv, Shape
  <2>2. QED
    BY <2>1, RequestFacts DEF Inv, Shape, TypeOK
<1>2. QED
  BY InitInv, StepInv, <1>1, PTL DEF Spec

\* Whatever overlaps and whatever fails: each row of the log, and the step the document is in,
\* starts where an earlier row ended.
THEOREM LogLeads == Spec => []TrailExplainsSteps
<1>1. Inv => TrailExplainsSteps
  BY DEF Inv, Log
<1>2. QED
  BY InitInv, StepInv, <1>1, PTL DEF Spec

\* A signed document has a reviewer's approval in the log and an approver's after it, for any
\* holders of the two roles.
THEOREM SignatureIsBacked == Spec => []SignedWasApproved
<1>1. Inv => SignedWasApproved
  BY DEF Inv, Log, Signable, SignedWasApproved
<1>2. QED
  BY InitInv, StepInv, <1>1, PTL DEF Spec

-----------------------------------------------------------------------------
(***************************************************************************)
(* A document whose requests neither overlap nor fail.  Quiet says what    *)
(* the one request in flight may still find unfinished: the step between   *)
(* recorded and moved, the status between moved and clearing, and the      *)
(* assignments until it ends.                                              *)
(***************************************************************************)
LastStep == IF Len(trail) = 0 THEN FirstStep ELSE trail[Len(trail)].to

OneWalk ==
  /\ Len(trail) > 0 => trail[1].from = FirstStep
  /\ \A i \in 1 .. Len(trail) - 1 : trail[i].to = trail[i + 1].from

StatusFits(value) == value \in {StatusOf[instance.step], "archived"}
Unacted(step, user) == <<step, user>> \in DOMAIN assigned /\ ~assigned[<<step, user>>]

InPhase(r) ==
  /\ r.pc \in {"loaded", "acted", "recorded"} => r.from = instance.step /\ instance.state = "active"
  /\ r.pc = "recorded" => Len(trail) > 0 /\ LastStep = r.to
  /\ r.pc \in {"moved", "clearing", "assigning"} => r.to = instance.step
  /\ r.pc = "assigning" =>
       \A user \in Assignees(r.to) :
         IF user \in r.todo THEN <<r.to, user>> \notin DOMAIN assigned ELSE Unacted(r.to, user)
  /\ r.pc = "editing" => StatusFits(r.status)

Started ==
  /\ instance.state = "completed" <=> Terminal(instance.step)
  /\ \A p \in Requests : InPhase(request[p])
  /\ (\A p \in Requests : request[p].pc # "recorded") => instance.step = LastStep
  /\ (\A p \in Requests : request[p].pc # "moved") => StatusFits(status)
  /\ (\A p \in Requests : request[p].pc \in {"idle", "editing"}) /\ instance.state = "active"
       => \A user \in Assignees(instance.step) : Unacted(instance.step, user)

Unstarted ==
  /\ trail = << >> /\ status \in {"draft", "archived"}
  /\ \A p \in Requests :
       /\ request[p].pc \in {"idle", "editing"}
       /\ request[p].pc = "editing" => request[p].status \in {"draft", "archived"}

Quiet ==
  /\ \A p, q \in Requests : InFlight(p) /\ InFlight(q) => p = q
  /\ OneWalk
  /\ IF instance = NoInstance THEN Unstarted ELSE Started

CalmInv == Inv /\ (disturbed \/ Quiet)

LEMMA CalmInit == Init => CalmInv
<1> SUFFICES ASSUME Init PROVE CalmInv
  OBVIOUS
<1>1. \A p \in Requests : request[p] = Idle
  BY DEF Init
<1>2. Unstarted
  BY <1>1 DEF Init, Unstarted, Idle
<1>3. OneWalk
  BY DEF Init, OneWalk
<1>4. \A p \in Requests : ~InFlight(p)
  BY <1>1 DEF InFlight, Idle
<1>5. QED
  BY <1>2, <1>3, <1>4, InitInv DEF CalmInv, Quiet, Init

\* The one request in flight rewrites itself; the others are idle.
LEMMA AloneFacts ==
  ASSUME Inv, Quiet, NEW p \in Requests, InFlight(p), NEW r, request' = [request EXCEPT ![p] = r]
  PROVE  /\ \A q \in Requests \ {p} : request[q].pc = "idle" /\ request'[q] = request[q]
         /\ request'[p] = r
         /\ \A q1, q2 \in Requests : InFlight(q1)' /\ InFlight(q2)' => q1 = q2
         /\ request[p].pc # "editing" => instance # NoInstance /\ Started
<1>1. \A q \in Requests \ {p} : request[q].pc = "idle"
  BY DEF Quiet, InFlight
<1>2. (\A q \in Requests \ {p} : request'[q] = request[q]) /\ request'[p] = r
  BY DEF Inv, Shape
<1>3. \A q1, q2 \in Requests : InFlight(q1)' /\ InFlight(q2)' => q1 = q2
  BY <1>1, <1>2 DEF InFlight
<1>4. request[p].pc # "editing" => instance # NoInstance /\ Started
  BY DEF Quiet, Unstarted, InFlight
<1>5. QED
  BY <1>1, <1>2, <1>3, <1>4

\* What has to be shown of such a step.
LEMMA AloneStep ==
  ASSUME NEW p \in Requests,
         \A q \in Requests \ {p} : request'[q].pc = "idle",
         \A q1, q2 \in Requests : InFlight(q1)' /\ InFlight(q2)' => q1 = q2,
         instance' # NoInstance,
         OneWalk', InPhase(request[p])',
         (instance.state = "completed" <=> Terminal(instance.step))',
         request'[p].pc # "recorded" => (instance.step = LastStep)',
         request'[p].pc # "moved" => StatusFits(status)',
         request'[p].pc \in {"idle", "editing"} /\ instance'.state = "active"
           => (\A user \in Assignees(instance.step) : Unacted(instance.step, user))'
  PROVE  Quiet'
<1>1. \A q \in Requests : InPhase(request[q])'
  BY DEF InPhase
<1>2. Started'
  BY <1>1 DEF Started
<1>3. QED
  BY <1>2 DEF Quiet

LEMMA StartQuiet ==
  ASSUME Inv, Quiet, NEW p \in Requests, Start(p), ~disturbed'
  PROVE  Quiet'
<1> DEFINE r == [pc |-> "clearing", op |-> "start", to |-> FirstStep]
<1>1. /\ \A q \in Requests : request[q].pc = "idle"
      /\ request' = [request EXCEPT ![p] = r]
      /\ instance' = [state |-> "active", step |-> FirstStep]
      /\ trail' = trail /\ status' = status /\ Unstarted
  BY DEF Start, Admit, InFlight, Quiet
<1>2. request'[p] = r /\ \A q \in Requests \ {p} : request'[q].pc = "idle"
  BY <1>1 DEF Inv, Shape
<1>3. instance' # NoInstance /\ instance'.state = "active" /\ instance'.step = "draft"
  BY <1>1 DEF NoInstance, FirstStep
<1>4. OneWalk' /\ LastStep' = "draft"
  BY <1>1 DEF Unstarted, OneWalk, LastStep, FirstStep
<1>5. InPhase(request[p])'
  BY <1>2, <1>3 DEF InPhase, FirstStep
<1>6. StatusFits(status)'
  BY <1>1, <1>3 DEF StatusFits, StatusOf, Unstarted
<1>7. \A q1, q2 \in Requests : InFlight(q1)' /\ InFlight(q2)' => q1 = q2
  BY <1>2 DEF InFlight
<1>8. QED
  BY <1>2, <1>3, <1>4, <1>5, <1>6, <1>7, AloneStep DEF Terminal

LEMMA LoadQuiet ==
  ASSUME Inv, Quiet, NEW p \in Requests, NEW user \in Users, NEW move \in Transitions,
         Load(p, user, move), ~disturbed'
  PROVE  Quiet'
<1> DEFINE r == [pc |-> IF Editing(move[1]) THEN "acted" ELSE "loaded", op |-> "transition",
                 by |-> user, from |-> move[1], action |-> move[2], to |-> move[3],
                 stale |-> FALSE]
<1>1. /\ \A q \in Requests : request[q].pc = "idle"
      /\ request' = [request EXCEPT ![p] = r]
      /\ UNCHANGED rows /\ instance.state = "active" /\ move[1] = instance.step
  BY DEF Load, Admit, InFlight
<1>2. request'[p] = r /\ \A q \in Requests \ {p} : request'[q].pc = "idle"
  BY <1>1 DEF Inv, Shape
<1>3. instance' = instance /\ trail' = trail /\ status' = status /\ assigned' = assigned
  BY <1>1 DEF rows
<1>4. instance # NoInstance /\ Started
  BY <1>1 DEF Quiet, NoInstance
<1>5. OneWalk' /\ LastStep' = LastStep /\ instance.step = LastStep
  BY <1>1, <1>3, <1>4 DEF Quiet, OneWalk, LastStep, Started
<1>6. r.pc \in {"acted", "loaded"} /\ r.from = move[1]
  OBVIOUS
<1>7. InPhase(request[p])'
  BY <1>1, <1>2, <1>3, <1>6 DEF InPhase
<1>8. StatusFits(status)'
  BY <1>1, <1>3, <1>4 DEF StatusFits, Started
<1>9. \A q1, q2 \in Requests : InFlight(q1)' /\ InFlight(q2)' => q1 = q2
  BY <1>2 DEF InFlight
<1>10. (instance.state = "completed" <=> Terminal(instance.step))'
  BY <1>3, <1>4 DEF Started
<1>11. request'[p].pc \notin {"idle", "editing"}
  BY <1>2, <1>6
<1>12. QED
  BY <1>2, <1>3, <1>4, <1>5, <1>7, <1>8, <1>9, <1>10, <1>11, AloneStep

LEMMA MarkActedQuiet ==
  ASSUME Inv, Quiet, NEW p \in Requests, MarkActed(p)
  PROVE  Quiet'
<1> DEFINE r == [request[p] EXCEPT !.pc = "acted"]
<1>1. request[p] \in MoveRequest /\ request[p].pc = "loaded" /\ InFlight(p)
  BY RequestFacts DEF MarkActed, Inv, InFlight
<1>2. /\ request' = [request EXCEPT ![p] = r]
      /\ instance' = instance /\ trail' = trail /\ status' = status
  BY DEF MarkActed, Goto
<1>3. r.pc = "acted" /\ r.from = request[p].from
  BY <1>1 DEF MoveRequest
<1>4. /\ request'[p] = r /\ \A q \in Requests \ {p} : request'[q].pc = "idle"
      /\ \A q1, q2 \in Requests : InFlight(q1)' /\ InFlight(q2)' => q1 = q2
      /\ instance # NoInstance /\ Started
  BY <1>1, <1>2, AloneFacts
<1>5. InPhase(request[p])'
  BY <1>1, <1>2, <1>3, <1>4 DEF InPhase, Started
<1>6. \A q \in Requests : request[q].pc \notin {"recorded", "moved"}
  BY <1>1 DEF Quiet, InFlight
<1>7. OneWalk' /\ (instance.step = LastStep)' /\ StatusFits(status)'
      /\ (instance.state = "completed" <=> Terminal(instance.step))'
  BY <1>2, <1>4, <1>6 DEF Quiet, OneWalk, LastStep, Started, StatusFits
<1>8. QED
  BY <1>2, <1>3, <1>4, <1>5, <1>7, AloneStep

LEMMA RecordQuiet ==
  ASSUME Inv, Quiet, NEW p \in Requests, RecordTransition(p)
  PROVE  Quiet'
<1> DEFINE r   == [request[p] EXCEPT !.pc = "recorded"]
           row == RowOf(request[p])
           n   == Len(trail)
<1>1. request[p] \in MoveRequest /\ request[p].pc = "acted" /\ InFlight(p)
  BY RequestFacts DEF RecordTransition, Inv, InFlight
<1>2. /\ request' = [request EXCEPT ![p] = r] /\ trail' = Append(trail, row)
      /\ instance' = instance /\ status' = status
  BY DEF RecordTransition, Goto
<1>3. r.pc = "recorded" /\ r.from = request[p].from /\ r.to = request[p].to
  BY <1>1 DEF MoveRequest
<1>4. row \in Row /\ row.from = request[p].from /\ row.to = request[p].to
  BY <1>1 DEF MoveRequest, RowOf, Row, Actions
<1>5. /\ Len(trail') = n + 1 /\ n \in Nat /\ trail'[n + 1] = row
      /\ \A i \in 1 .. n : trail'[i] = trail[i]
  BY <1>2, <1>4, LogGrows
<1>6. /\ request'[p] = r /\ \A q \in Requests \ {p} : request'[q].pc = "idle"
      /\ \A q1, q2 \in Requests : InFlight(q1)' /\ InFlight(q2)' => q1 = q2
      /\ instance # NoInstance /\ Started
  BY <1>1, <1>2, AloneFacts
<1>7. \A q \in Requests : request[q].pc \notin {"recorded", "moved"}
  BY <1>1 DEF Quiet, InFlight
<1>8. row.from = LastStep /\ instance.step = request[p].from /\ instance.state = "active"
  BY <1>1, <1>4, <1>6, <1>7 DEF Started, InPhase
<1>9. OneWalk'
  <2>1. trail'[1].from = FirstStep
    BY <1>5, <1>8 DEF LastStep, Quiet, OneWalk
  <2>2. ASSUME NEW i \in 1 .. n PROVE trail'[i].to = trail'[i + 1].from
    <3>1. CASE i = n
      BY <1>5, <1>8, <3>1 DEF LastStep
    <3>2. CASE i # n
      <4>1. i \in 1 .. n - 1 /\ i + 1 \in 1 .. n
        BY <1>5, <3>2
      <4>2. QED
        BY <1>5, <4>1 DEF Quiet, OneWalk
    <3>3. QED
      BY <3>1, <3>2
  <2>3. QED
    BY <1>5, <2>1, <2>2 DEF OneWalk
<1>10. LastStep' = row.to /\ Len(trail') > 0
  BY <1>5 DEF LastStep
<1>11. InPhase(request[p])'
  BY <1>2, <1>3, <1>4, <1>6, <1>8, <1>10 DEF InPhase
<1>12. StatusFits(status)' /\ (instance.state = "completed" <=> Terminal(instance.step))'
  BY <1>2, <1>6, <1>7 DEF Started, StatusFits
<1>13. QED
  BY <1>2, <1>3, <1>6, <1>9, <1>11, <1>12, AloneStep

LEMMA MoveQuiet ==
  ASSUME Inv, Quiet, NEW p \in Requests, Move(p)
  PROVE  Quiet'
<1> DEFINE r == [request[p] EXCEPT !.pc = "moved"]
<1>1. request[p] \in MoveRequest /\ request[p].pc = "recorded" /\ InFlight(p)
  BY RequestFacts DEF Move, MayMove, Inv, InFlight
<1>2. /\ request' = [request EXCEPT ![p] = r]
      /\ instance' = [step |-> request[p].to,
                      state |-> IF Terminal(request[p].to) THEN "completed" ELSE instance.state]
      /\ trail' = trail
  BY DEF Move, Goto
<1>3. r.pc = "moved" /\ r.to = request[p].to
  BY <1>1 DEF MoveRequest
<1>4. /\ request'[p] = r /\ \A q \in Requests \ {p} : request'[q].pc = "idle"
      /\ \A q1, q2 \in Requests : InFlight(q1)' /\ InFlight(q2)' => q1 = q2
      /\ instance # NoInstance /\ Started
  BY <1>1, <1>2, AloneFacts
<1>5. instance.state = "active" /\ LastStep = request[p].to
  BY <1>1, <1>4 DEF Started, InPhase
<1>6. instance'.step = request[p].to
      /\ instance'.state = IF Terminal(request[p].to) THEN "completed" ELSE "active"
  BY <1>2, <1>5
<1>7. instance' # NoInstance
  BY <1>6 DEF NoInstance
<1>8. OneWalk' /\ (instance.step = LastStep)'
  BY <1>2, <1>5, <1>6 DEF Quiet, OneWalk, LastStep
<1>9. InPhase(request[p])'
  BY <1>3, <1>4, <1>6 DEF InPhase
<1>10. (instance.state = "completed" <=> Terminal(instance.step))'
  BY <1>6 DEF Terminal
<1>11. QED
  BY <1>3, <1>4, <1>7, <1>8, <1>9, <1>10, AloneStep

LEMMA SyncStatusQuiet ==
  ASSUME Inv, Quiet, NEW p \in Requests, SyncStatus(p)
  PROVE  Quiet'
<1> DEFINE r == IF Terminal(request[p].to) THEN Idle ELSE [request[p] EXCEPT !.pc = "clearing"]
<1>1. request[p] \in MoveRequest /\ request[p].pc = "moved" /\ InFlight(p)
  BY RequestFacts DEF SyncStatus, Inv, InFlight
<1>2. /\ request' = [request EXCEPT ![p] = r]
      /\ instance' = instance /\ trail' = trail /\ status' = StatusOf[request[p].to]
  BY DEF SyncStatus, Goto, End
<1>3. r.pc \in {"idle", "clearing"} /\ (r.pc = "clearing" => r.to = request[p].to)
        /\ (r.pc = "idle" => Terminal(request[p].to))
  BY <1>1 DEF MoveRequest, Idle
<1>4. /\ request'[p] = r /\ \A q \in Requests \ {p} : request'[q].pc = "idle"
      /\ \A q1, q2 \in Requests : InFlight(q1)' /\ InFlight(q2)' => q1 = q2
      /\ instance # NoInstance /\ Started
  BY <1>1, <1>2, AloneFacts
<1>5. instance.step = request[p].to
  BY <1>1, <1>4 DEF Started, InPhase
<1>6. \A q \in Requests : request[q].pc # "recorded"
  BY <1>1 DEF Quiet, InFlight
<1>7. OneWalk' /\ (instance.step = LastStep)'
      /\ (instance.state = "completed" <=> Terminal(instance.step))'
  BY <1>2, <1>4, <1>6 DEF Quiet, OneWalk, LastStep, Started
<1>8. InPhase(request[p])' /\ StatusFits(status)'
  BY <1>2, <1>3, <1>4, <1>5 DEF InPhase, StatusFits
<1>9. r.pc = "idle" => instance'.state = "completed"
  BY <1>2, <1>3, <1>5, <1>7
<1>10. QED
  BY <1>2, <1>3, <1>4, <1>7, <1>8, <1>9, AloneStep

LEMMA ClearQuiet ==
  ASSUME Inv, Quiet, NEW p \in Requests, Clear(p)
  PROVE  Quiet'
<1> DEFINE r == [pc |-> "assigning", op |-> request[p].op, to |-> request[p].to,
                 todo |-> Assignees(request[p].to)]
<1>1. request[p].pc = "clearing" /\ InFlight(p)
  BY DEF Clear, InFlight
<1>2. \A q \in Requests \ {p} : request[q].pc = "idle"
  BY <1>1 DEF Quiet, InFlight
<1>3. /\ \A q \in Requests \ {p} : request'[q].pc = "idle"
      /\ request'[p] = r
  BY <1>2 DEF Clear
<1>4. /\ instance' = instance /\ trail' = trail /\ status' = status
      /\ \A user : <<request[p].to, user>> \notin DOMAIN assigned'
  BY DEF Clear, OldAssignments
<1>5. instance # NoInstance /\ Started
  BY <1>1 DEF Quiet, Unstarted
<1>6. \A q1, q2 \in Requests : InFlight(q1)' /\ InFlight(q2)' => q1 = q2
  BY <1>3 DEF InFlight
<1>7. instance.step = request[p].to
  BY <1>1, <1>5 DEF Started, InPhase
<1>8. \A q \in Requests : request[q].pc \notin {"recorded", "moved"}
  BY <1>1, <1>2
<1>9. OneWalk' /\ (instance.step = LastStep)' /\ StatusFits(status)'
      /\ (instance.state = "completed" <=> Terminal(instance.step))'
  BY <1>4, <1>5, <1>8 DEF Quiet, OneWalk, LastStep, Started, StatusFits
<1>10. InPhase(request[p])'
  BY <1>3, <1>4, <1>7 DEF InPhase
<1>11. QED
  BY <1>3, <1>4, <1>5, <1>6, <1>9, <1>10, AloneStep

LEMMA AssignQuiet ==
  ASSUME Inv, Quiet, NEW p \in Requests, NEW user \in Users, Assign(p, user)
  PROVE  Quiet'
<1> DEFINE r == [request[p] EXCEPT !.todo = @ \ {user}]
           a == <<request[p].to, user>>
<1>1. /\ request[p] \in AssignRequest /\ request[p].pc = "assigning" /\ InFlight(p)
      /\ user \in request[p].todo /\ a \notin DOMAIN assigned
  BY RequestFacts DEF Assign, Inv, InFlight
<1>2. /\ request' = [request EXCEPT ![p] = r]
      /\ instance' = instance /\ trail' = trail /\ status' = status
      /\ assigned' = [b \in DOMAIN assigned \cup {a} |-> IF b = a THEN FALSE ELSE assigned[b]]
  BY DEF Assign
<1>3. r.pc = "assigning" /\ r.to = request[p].to /\ r.todo = request[p].todo \ {user}
  BY <1>1 DEF AssignRequest
<1>4. /\ request'[p] = r /\ \A q \in Requests \ {p} : request'[q].pc = "idle"
      /\ \A q1, q2 \in Requests : InFlight(q1)' /\ InFlight(q2)' => q1 = q2
      /\ instance # NoInstance /\ Started
  BY <1>1, <1>2, AloneFacts
<1>5. InPhase(request[p])
  BY <1>4 DEF Started
<1>6. \A u \in Assignees(r.to) :
        IF u \in r.todo THEN <<r.to, u>> \notin DOMAIN assigned'
        ELSE <<r.to, u>> \in DOMAIN assigned' /\ ~assigned'[<<r.to, u>>]
  <2>1. TAKE u \in Assignees(r.to)
  <2>2. CASE u = user
    BY <1>2, <1>3, <2>2
  <2>3. CASE u # user
    <3>1. <<r.to, u>> # a
      BY <1>3, <2>3
    <3>2. IF u \in request[p].todo THEN <<r.to, u>> \notin DOMAIN assigned
          ELSE <<r.to, u>> \in DOMAIN assigned /\ ~assigned[<<r.to, u>>]
      BY <1>1, <1>3, <1>5 DEF InPhase, Unacted
    <3>3. QED
      BY <1>2, <1>3, <2>3, <3>1, <3>2
  <2>4. QED
    BY <2>2, <2>3
<1>7. InPhase(request[p])'
  BY <1>1, <1>2, <1>3, <1>4, <1>5, <1>6 DEF InPhase, Unacted
<1>8. \A q \in Requests : request[q].pc \notin {"recorded", "moved"}
  BY <1>1 DEF Quiet, InFlight
<1>9. OneWalk' /\ (instance.step = LastStep)' /\ StatusFits(status)'
      /\ (instance.state = "completed" <=> Terminal(instance.step))'
  BY <1>2, <1>4, <1>8 DEF Quiet, OneWalk, LastStep, Started, StatusFits
<1>10. QED
  BY <1>2, <1>3, <1>4, <1>7, <1>9, AloneStep

LEMMA AssignDoneQuiet ==
  ASSUME Inv, Quiet, NEW p \in Requests, AssignDone(p)
  PROVE  Quiet'
<1>1. /\ request[p].pc = "assigning" /\ InFlight(p) /\ request[p].todo = {}
  BY DEF AssignDone, InFlight
<1>2. /\ request' = [request EXCEPT ![p] = Idle]
      /\ instance' = instance /\ trail' = trail /\ assigned' = assigned
      /\ status' \in {status, StatusOf[request[p].to]}
  BY DEF AssignDone, End
<1>3. /\ request'[p] = Idle /\ \A q \in Requests \ {p} : request'[q].pc = "idle"
      /\ \A q1, q2 \in Requests : InFlight(q1)' /\ InFlight(q2)' => q1 = q2
      /\ instance # NoInstance /\ Started
  BY <1>1, <1>2, AloneFacts
<1>4. InPhase(request[p]) /\ instance.step = request[p].to
  BY <1>1, <1>3 DEF Started, InPhase
<1>5. \A user \in Assignees(instance.step) : Unacted(instance.step, user)
  BY <1>1, <1>4 DEF InPhase
<1>6. \A q \in Requests : request[q].pc \notin {"recorded", "moved"}
  BY <1>1 DEF Quiet, InFlight
<1>7. OneWalk' /\ (instance.step = LastStep)' /\ StatusFits(status)'
      /\ (instance.state = "completed" <=> Terminal(instance.step))'
  BY <1>2, <1>3, <1>4, <1>6 DEF Quiet, OneWalk, LastStep, Started, StatusFits
<1>8. InPhase(request[p])' /\ (\A user \in Assignees(instance.step) : Unacted(instance.step, user))'
  BY <1>2, <1>3, <1>5 DEF InPhase, Idle, Unacted
<1>9. QED
  BY <1>2, <1>3, <1>7, <1>8, AloneStep DEF Idle

LEMMA ReadDocumentQuiet ==
  ASSUME Inv, Quiet, NEW p \in Requests, ReadDocument(p), ~disturbed'
  PROVE  Quiet'
<1> DEFINE r == [pc |-> "editing", status |-> status]
<1>1. /\ \A q \in Requests : request[q].pc = "idle"
      /\ request' = [request EXCEPT ![p] = r]
      /\ instance' = instance /\ trail' = trail /\ assigned' = assigned /\ status' = status
  BY DEF ReadDocument, rows, Admit, InFlight
<1>2. request'[p] = r /\ \A q \in Requests \ {p} : request'[q].pc = "idle"
  BY <1>1 DEF Inv, Shape
<1>3. \A q1, q2 \in Requests : InFlight(q1)' /\ InFlight(q2)' => q1 = q2
  BY <1>2 DEF InFlight
<1>4. CASE instance = NoInstance
  BY <1>1, <1>2, <1>3, <1>4 DEF Quiet, Unstarted, OneWalk
<1>5. CASE instance # NoInstance
  <2>1. Started
    BY <1>5 DEF Quiet
  <2>2. InPhase(request[p])'
    BY <1>1, <1>2, <2>1 DEF InPhase, Started, StatusFits
  <2>3. OneWalk' /\ (instance.step = LastStep)' /\ StatusFits(status)'
        /\ (instance.state = "completed" <=> Terminal(instance.step))'
    BY <1>1, <2>1 DEF Quiet, OneWalk, LastStep, Started, StatusFits
  <2>4. instance'.state = "active"
          => (\A user \in Assignees(instance.step) : Unacted(instance.step, user))'
    BY <1>1, <2>1 DEF Started, Unacted
  <2>5. QED
    BY <1>1, <1>2, <1>3, <1>5, <2>2, <2>3, <2>4, AloneStep
<1>6. QED
  BY <1>4, <1>5

LEMMA SaveDocumentQuiet ==
  ASSUME Inv, Quiet, NEW p \in Requests, SaveDocument(p)
  PROVE  Quiet'
<1>1. request[p].pc = "editing" /\ InFlight(p)
  BY DEF SaveDocument, InFlight
<1>2. /\ request' = [request EXCEPT ![p] = Idle]
      /\ instance' = instance /\ trail' = trail /\ assigned' = assigned
      /\ status' = request[p].status
  BY DEF SaveDocument, End
<1>3. /\ request'[p] = Idle /\ \A q \in Requests \ {p} : request'[q].pc = "idle" /\ request[q].pc = "idle"
      /\ \A q1, q2 \in Requests : InFlight(q1)' /\ InFlight(q2)' => q1 = q2
  BY <1>1, <1>2, AloneFacts
<1>4. CASE instance = NoInstance
  BY <1>1, <1>2, <1>3, <1>4 DEF Quiet, Unstarted, OneWalk, Idle
<1>5. CASE instance # NoInstance
  <2>1. Started /\ \A q \in Requests : request[q].pc \in {"idle", "editing"}
    BY <1>1, <1>3, <1>5 DEF Quiet
  <2>2. StatusFits(request[p].status)
    BY <1>1, <2>1 DEF Started, InPhase
  <2>3. OneWalk' /\ (instance.step = LastStep)' /\ StatusFits(status)'
        /\ (instance.state = "completed" <=> Terminal(instance.step))'
    BY <1>2, <2>1, <2>2 DEF Quiet, OneWalk, LastStep, Started, StatusFits
  <2>4. instance'.state = "active"
          => (\A user \in Assignees(instance.step) : Unacted(instance.step, user))'
    BY <1>2, <2>1 DEF Started, Unacted
  <2>5. InPhase(request[p])'
    BY <1>3 DEF InPhase, Idle
  <2>6. QED
    BY <1>2, <1>3, <1>5, <2>3, <2>4, <2>5, AloneStep DEF Idle
<1>6. QED
  BY <1>4, <1>5

LEMMA ArchiveQuiet == Quiet /\ Archive => Quiet'
<1> SUFFICES ASSUME Quiet, Archive PROVE Quiet'
  OBVIOUS
<1>1. /\ request' = request /\ instance' = instance /\ trail' = trail /\ assigned' = assigned
      /\ status' = "archived"
  BY DEF Archive
<1>2. \A p \in Requests : InPhase(request[p]) => InPhase(request[p])'
  BY <1>1 DEF InPhase, LastStep, Unacted, StatusFits
<1>3. Started => Started'
  BY <1>1, <1>2 DEF Started, LastStep, Unacted, StatusFits
<1>4. QED
  BY <1>1, <1>3 DEF Quiet, OneWalk, Unstarted, InFlight

LEMMA CalmStep == CalmInv /\ [Next]_vars => CalmInv'
<1> SUFFICES ASSUME CalmInv, [Next]_vars PROVE CalmInv'
  OBVIOUS
<1>1. Inv /\ Inv' /\ (disturbed \/ Quiet)
  BY StepInv DEF CalmInv
<1>2. disturbed \in BOOLEAN /\ disturbed' \in BOOLEAN
  BY <1>1 DEF Inv, Shape
<1>3. disturbed => disturbed'
  BY DEF vars, Next, Start, Load, MarkActed, RecordTransition, Move, SyncStatus, Clear, Assign,
         AssignCollides, AssignDone, ReadDocument, SaveDocument, Fail, Archive, Admit
<1> SUFFICES ASSUME ~disturbed', Quiet PROVE Quiet'
  BY <1>1, <1>3 DEF CalmInv
<1>4. CASE UNCHANGED vars
  <2>1. \A p \in Requests : InPhase(request[p]) => InPhase(request[p])'
    BY <1>4 DEF vars, InPhase, LastStep, Unacted, StatusFits
  <2>2. Started => Started'
    BY <1>4, <2>1 DEF vars, Started, LastStep, Unacted, StatusFits
  <2>3. QED
    BY <1>4, <2>2 DEF vars, Quiet, OneWalk, Unstarted, InFlight
<1>5. CASE Archive
  BY <1>5, ArchiveQuiet
<1>6. ASSUME NEW p \in Requests,
             Start(p) \/ \E user \in Users, move \in Transitions : Load(p, user, move)
      PROVE  Quiet'
  BY <1>1, <1>6, StartQuiet, LoadQuiet
<1>7. ASSUME NEW p \in Requests, MarkActed(p) \/ RecordTransition(p) \/ Move(p) \/ SyncStatus(p)
      PROVE  Quiet'
  BY <1>1, <1>7, MarkActedQuiet, RecordQuiet, MoveQuiet, SyncStatusQuiet
<1>8. ASSUME NEW p \in Requests, Clear(p) \/ AssignDone(p) PROVE Quiet'
  BY <1>1, <1>8, ClearQuiet, AssignDoneQuiet
<1>9. ASSUME NEW p \in Requests, NEW user \in Users, Assign(p, user) PROVE Quiet'
  BY <1>1, <1>9, AssignQuiet
<1>10. ASSUME NEW p \in Requests, NEW user \in Users, AssignCollides(p, user) PROVE FALSE
  <2>1. /\ request[p].pc = "assigning" /\ user \in request[p].todo
        /\ <<request[p].to, user>> \in DOMAIN assigned
    BY <1>10 DEF AssignCollides
  <2>2. InPhase(request[p])
    BY <2>1 DEF Quiet, Unstarted, Started
  <2>3. user \in Assignees(request[p].to)
    BY <1>1, <2>1 DEF Inv, Log, Sound
  <2>4. QED
    BY <2>1, <2>2, <2>3 DEF InPhase
<1>11. ASSUME NEW p \in Requests, ReadDocument(p) \/ SaveDocument(p) PROVE Quiet'
  BY <1>1, <1>11, ReadDocumentQuiet, SaveDocumentQuiet
<1>12. ASSUME NEW p \in Requests, Fail(p) PROVE FALSE
  BY <1>12 DEF Fail
<1>13. QED
  BY <1>4, <1>5, <1>6, <1>7, <1>8, <1>9, <1>10, <1>11, <1>12 DEF Next

\* Without an overlap or a failure the log of any document is one walk to the step it is in, and
\* the status is the one of that step.
THEOREM CalmLogIsWalk == Spec => []CalmWalk
<1>1. CalmInv => CalmWalk
  <2> SUFFICES ASSUME CalmInv, Calm, instance # NoInstance PROVE CalmWalk
    BY DEF CalmWalk
  <2>1. Started /\ OneWalk /\ \A p \in Requests : request[p].pc = "idle"
    BY DEF CalmInv, Calm, Quiet, InFlight
  <2>2. QED
    BY <2>1 DEF CalmWalk, Started, OneWalk, LastStep, StatusFits
<1>2. QED
  BY CalmInit, CalmStep, <1>1, PTL DEF Spec

\* And everybody who holds the role of the step can act on it, however often the document has
\* been there before.
THEOREM CalmStepIsStaffed == Spec => []StepIsStaffed
<1>1. CalmInv => StepIsStaffed
  <2> SUFFICES ASSUME CalmInv, Calm, instance # NoInstance PROVE StepIsStaffed
    BY DEF StepIsStaffed
  <2>1. Started /\ \A p \in Requests : request[p].pc = "idle"
    BY DEF CalmInv, Calm, Quiet, InFlight
  <2>2. QED
    BY <2>1 DEF StepIsStaffed, Started, Unacted
<1>2. QED
  BY CalmInit, CalmStep, <1>1, PTL DEF Spec

-----------------------------------------------------------------------------
(***************************************************************************)
(* The document shows its newest version, for any number of savers and of  *)
(* saves.  Why it holds although saves overlap: a manual save that started *)
(* from an older version wants a number that is taken already, so only the *)
(* number after the current one can still be inserted by a manual save,    *)
(* and only one save gets it.                                              *)
(***************************************************************************)

Positive == Nat \ {0}

\* What a request in flight is.
SaverRecord ==
  [pc : {"find", "overwrite", "insert", "advance"}, base : Positive, kind : Kinds, content : Nat]
    \cup [pc : {"copy"}, base : Positive, kind : {"none"}, content : {0}]

VersionsShape ==
  /\ current \in Positive /\ saves \in Nat
  /\ muddled \in BOOLEAN
  /\ history \in [Numbers -> Nat] /\ Numbers \subseteq Positive
  /\ saver \in [Savers -> SaverRecord \cup {Resting}]

Advancing(p) == saver[p] # Resting /\ saver[p].pc = "advance"

\* Nobody holds a number above the current one, every number up to the current one is taken
\* (the first is the one create leaves out), and a number above it belongs to the one save that
\* is about to advance the document to it.
InStep ==
  /\ \A p \in Savers : saver[p] # Resting => saver[p].base <= current
  /\ \A n \in 2..current : n \in Numbers
  /\ \A n \in Numbers : n <= current + 1
  /\ current + 1 \in Numbers => \E p \in Savers : Advancing(p)
  /\ \A p \in Savers : Advancing(p) => saver[p].base = current /\ current + 1 \in Numbers
  /\ \A p, q \in Savers : Advancing(p) /\ Advancing(q) => p = q

VersionsInv == VersionsShape /\ (muddled \/ InStep)

LEMMA SaverFacts ==
  ASSUME VersionsShape, NEW p \in Savers, saver[p].pc # "none"
  PROVE  /\ saver[p] \in SaverRecord
         /\ saver[p] # Resting
         /\ saver[p].base \in Positive /\ saver[p].content \in Nat
         /\ saver[p].pc # "copy" => saver[p].kind \in Kinds
BY DEF VersionsShape, SaverRecord, Resting

LEMMA VersionsInitInv == VersionsInit => VersionsInv
<1> SUFFICES ASSUME VersionsInit PROVE VersionsInv
  OBVIOUS
<1>1. Numbers = {}
  BY DEF VersionsInit, Numbers
<1>2. VersionsShape
  <2>1. [pc |-> "insert", base |-> 1, kind |-> "manual_save", content |-> 0] \in SaverRecord
    BY DEF SaverRecord, Positive, Kinds
  <2>2. saver \in [Savers -> SaverRecord \cup {Resting}]
    BY <2>1 DEF VersionsInit
  <2>3. history \in [Numbers -> Nat]
    BY <1>1 DEF VersionsInit, Numbers
  <2>4. current \in Positive /\ saves \in Nat
    BY DEF VersionsInit, Positive
  <2>5. muddled \in BOOLEAN
    BY DEF VersionsInit
  <2>6. Numbers \subseteq Positive
    BY <1>1
  <2>7. QED
    BY <2>2, <2>3, <2>4, <2>5, <2>6 DEF VersionsShape
<1>3. InStep
  BY <1>1 DEF VersionsInit, InStep, Advancing, Resting
<1>4. QED
  BY <1>2, <1>3 DEF VersionsInv

LEMMA ReadInv ==
  ASSUME VersionsInv, NEW p \in Savers, NEW pc \in {"find", "insert", "copy"},
         NEW kind, NEW content \in Nat,
         IF pc = "copy" THEN kind = "none" /\ content = 0 ELSE kind \in Kinds,
         ReadCurrent(p, pc, kind, content)
  PROVE  VersionsInv'
<1> DEFINE r == [pc |-> pc, base |-> current, kind |-> kind, content |-> content]
<1>1. r \in SaverRecord
  BY DEF VersionsInv, VersionsShape, SaverRecord
<1>2. VersionsShape'
  BY <1>1 DEF ReadCurrent, VersionsInv, VersionsShape, Numbers
<1>3. ASSUME InStep PROVE InStep'
  BY <1>3 DEF ReadCurrent, VersionsInv, VersionsShape, InStep, Advancing, Resting, Numbers, Positive
<1>4. QED
  BY <1>2, <1>3 DEF VersionsInv, ReadCurrent

LEMMA RestoreInv ==
  ASSUME VersionsInv, NEW p \in Savers, NEW n \in Numbers, Restore(p, n)
  PROVE  VersionsInv'
<1>1. history[n] \in Nat
  BY DEF VersionsInv, VersionsShape, Numbers
<1>2. QED
  BY <1>1, ReadInv DEF Restore, Kinds

LEMMA SaveContentInv ==
  ASSUME VersionsInv, NEW p \in Savers, NEW kind \in Kinds, SaveContent(p, kind)
  PROVE  VersionsInv'
<1>1. saves + 1 \in Nat
  BY DEF VersionsInv, VersionsShape
<1>2. CASE kind = "auto_save"
  BY <1>1, <1>2, ReadInv DEF SaveContent
<1>3. CASE kind = "manual_save"
  BY <1>1, <1>3, ReadInv DEF SaveContent
<1>4. QED
  BY <1>2, <1>3 DEF Kinds

LEMMA UpdateDocumentInv ==
  ASSUME VersionsInv, NEW p \in Savers, UpdateDocument(p)
  PROVE  VersionsInv'
BY ReadInv DEF UpdateDocument

\* A step that moves a saver on, short of the insert, or lets it go, without touching the rows.
LEMMA FindSlotInv ==
  ASSUME VersionsInv, NEW p \in Savers, FindSlot(p)
  PROVE  VersionsInv'
<1>1. saver[p] \in SaverRecord /\ saver[p] # Resting
  BY SaverFacts DEF FindSlot, VersionsInv
<1>2. PICK pc \in {"overwrite", "insert"} : saver' = [saver EXCEPT ![p].pc = pc]
  BY DEF FindSlot, Proceed
<1>3. saver'[p] \in SaverRecord
  BY <1>1, <1>2 DEF FindSlot, SaverRecord, VersionsInv, VersionsShape
<1>4. VersionsShape'
  BY <1>2, <1>3 DEF FindSlot, VersionsInv, VersionsShape, Numbers
<1>5. ASSUME InStep PROVE InStep'
  BY <1>1, <1>2, <1>5 DEF FindSlot, VersionsInv, VersionsShape, InStep, Advancing, Resting, Numbers, SaverRecord
<1>6. QED
  BY <1>4, <1>5 DEF VersionsInv, FindSlot

LEMMA LeaveInv ==
  ASSUME VersionsInv, NEW p \in Savers, ~Advancing(p), Leave(p),
         current' = current, saves' = saves, muddled' = muddled,
         Numbers' = Numbers, history' \in [Numbers -> Nat]
  PROVE  VersionsInv'
<1>1. VersionsShape'
  BY DEF VersionsInv, VersionsShape, Leave
<1>2. ASSUME InStep PROVE InStep'
  BY <1>2 DEF VersionsInv, VersionsShape, InStep, Advancing, Leave
<1>3. QED
  BY <1>1, <1>2 DEF VersionsInv

LEMMA OverwriteInv ==
  ASSUME VersionsInv, NEW p \in Savers, Overwrite(p)
  PROVE  VersionsInv'
<1>1. saver[p].content \in Nat /\ ~Advancing(p)
  BY SaverFacts DEF Overwrite, VersionsInv, Advancing
<1>2. Numbers' = Numbers /\ history' \in [Numbers -> Nat]
  BY <1>1 DEF Overwrite, VersionsInv, VersionsShape, Numbers
<1>3. QED
  BY <1>1, <1>2, LeaveInv DEF Overwrite

LEMMA InsertVersionInv ==
  ASSUME VersionsInv, NEW p \in Savers, InsertVersion(p)
  PROVE  VersionsInv'
<1> DEFINE s == saver[p]
           n == NumberFor(s.kind, s.base)
<1>1. /\ s \in SaverRecord /\ s # Resting /\ s.base \in Positive
      /\ s.content \in Nat /\ s.kind \in Kinds /\ s.pc = "insert"
  BY SaverFacts DEF InsertVersion, VersionsInv
<1>2. n \in Positive
  BY <1>1 DEF NumberFor, Positive
<1>3. CASE n \in Numbers
  <2>1. ~Advancing(p)
    BY <1>1 DEF Advancing
  <2>2. Leave(p) /\ UNCHANGED history
    BY <1>3 DEF InsertVersion
  <2>3. QED
    BY <2>1, <2>2, LeaveInv DEF InsertVersion, VersionsInv, VersionsShape, Numbers
<1>4. CASE n \notin Numbers
  <2>1. /\ history' = [m \in Numbers \cup {n} |-> IF m = n THEN s.content ELSE history[m]]
        /\ IF s.kind = "auto_save" THEN Leave(p) ELSE Proceed(p, "advance")
        /\ UNCHANGED <<current, saves, muddled>>
    BY <1>4 DEF InsertVersion
  <2>2. Numbers' = Numbers \cup {n} /\ history' \in [Numbers' -> Nat]
    BY <1>1, <2>1 DEF VersionsInv, VersionsShape, Numbers
  <2>3. CASE s.kind = "auto_save"
    <3>1. VersionsShape'
      BY <1>2, <2>1, <2>2, <2>3 DEF VersionsInv, VersionsShape, Leave
    <3>2. ASSUME InStep PROVE InStep'
      <4>1. n <= current
        BY <1>1, <2>3, <3>2 DEF NumberFor, InStep
      <4>2. \A q \in Savers : Advancing(q)' <=> Advancing(q)
        BY <1>1, <2>1, <2>3 DEF VersionsInv, VersionsShape, Leave, Advancing
      <4>3. current \in Positive /\ current' = current
        BY <2>1 DEF VersionsInv, VersionsShape
      <4>4. current + 1 \in Numbers' <=> current + 1 \in Numbers
        BY <1>2, <2>2, <4>1, <4>3 DEF Positive
      <4>5. \A q \in Savers : Advancing(q) => saver'[q] = saver[q]
        BY <1>1, <2>1, <2>3 DEF VersionsInv, VersionsShape, Leave, Advancing
      <4>6. \A q \in Savers : saver'[q] # Resting => saver'[q] = saver[q]
        BY <2>1, <2>3 DEF VersionsInv, VersionsShape, Leave
      <4>7. QED
        BY <1>2, <2>2, <3>2, <4>1, <4>2, <4>3, <4>4, <4>5, <4>6 DEF InStep, Positive
    <3>3. QED
      BY <2>1, <3>1, <3>2 DEF VersionsInv
  <2>4. CASE s.kind = "manual_save"
    <3>1. saver' = [saver EXCEPT ![p].pc = "advance"]
      BY <2>1, <2>4 DEF Proceed
    <3>2. /\ saver'[p] \in SaverRecord /\ saver'[p].pc = "advance"
          /\ saver'[p].base = s.base
          /\ \A q \in Savers \ {p} : saver'[q] = saver[q]
      BY <1>1, <3>1 DEF VersionsInv, VersionsShape, SaverRecord
    <3>3. VersionsShape'
      BY <1>2, <2>1, <2>2, <3>1, <3>2 DEF VersionsInv, VersionsShape
    <3>4. ASSUME InStep PROVE InStep'
      <4>1. current \in Positive /\ current' = current /\ s.base <= current
        BY <1>1, <2>1, <3>4 DEF VersionsInv, VersionsShape, InStep
      <4>2. n = s.base + 1
        BY <2>4 DEF NumberFor
      <4>3. n = current + 1 /\ s.base = current
        BY <1>1, <1>4, <3>4, <4>1, <4>2 DEF InStep, Positive
      <4>4. \A q \in Savers : ~Advancing(q)
        BY <1>4, <3>4, <4>3 DEF InStep
      <4>5. saver'[p] # Resting /\ \A q \in Savers : Advancing(q)' <=> q = p
        BY <3>2, <4>4 DEF Advancing, Resting
      <4>6. \A q \in Savers : saver'[q] # Resting => saver'[q].base <= current
        BY <3>2, <3>4, <4>1 DEF InStep
      <4>7. QED
        BY <1>2, <2>2, <3>2, <3>4, <4>1, <4>3, <4>5, <4>6 DEF InStep, Positive
    <3>5. QED
      BY <2>1, <3>3, <3>4 DEF VersionsInv
  <2>5. QED
    BY <1>1, <2>3, <2>4 DEF Kinds
<1>5. QED
  BY <1>3, <1>4

LEMMA AdvanceInv ==
  ASSUME VersionsInv, NEW p \in Savers, Advance(p)
  PROVE  VersionsInv'
<1>1. saver[p] # Resting /\ saver[p].base \in Positive /\ Advancing(p)
  BY SaverFacts DEF Advance, VersionsInv, Advancing
<1>2. VersionsShape'
  BY <1>1 DEF Advance, VersionsInv, VersionsShape, Leave, Numbers, Positive
<1>3. ASSUME InStep PROVE InStep'
  <2>1. saver[p].base = current /\ current' = current + 1 /\ current + 1 \in Numbers
    BY <1>1, <1>3 DEF InStep, Advance
  <2>2. current \in Positive /\ Numbers' = Numbers /\ Numbers \subseteq Positive
    BY DEF Advance, Numbers, VersionsInv, VersionsShape
  <2>3. \A q \in Savers : ~Advancing(q)'
    BY <1>1, <1>3 DEF Advance, Leave, Advancing, InStep, VersionsInv, VersionsShape
  <2>4. \A q \in Savers : saver'[q] # Resting => saver'[q] = saver[q]
    BY DEF Advance, Leave, VersionsInv, VersionsShape
  <2>5. current + 2 \notin Numbers
    BY <1>3, <2>2 DEF InStep, Positive
  <2>6. \A q \in Savers : saver[q] # Resting => saver[q].base \in Positive
    BY DEF VersionsInv, VersionsShape, SaverRecord
  <2>7. \A q \in Savers : saver'[q] # Resting => saver'[q].base <= current + 1
    BY <1>3, <2>2, <2>4, <2>6 DEF InStep, Positive
  <2>8. QED
    BY <1>3, <2>1, <2>2, <2>3, <2>5, <2>7 DEF InStep, Positive
<1>4. QED
  BY <1>2, <1>3 DEF VersionsInv, Advance

LEMMA SaveCopyInv ==
  ASSUME VersionsInv, NEW p \in Savers, SaveCopy(p)
  PROVE  VersionsInv'
<1>1. saver[p].base \in Positive /\ ~Advancing(p)
  BY SaverFacts DEF SaveCopy, VersionsInv, Advancing
<1>2. Numbers' = Numbers /\ history' \in [Numbers -> Nat] /\ history' = history /\ Leave(p)
  BY DEF SaveCopy, VersionsInv, VersionsShape, Numbers
<1>3. CASE current = saver[p].base /\ ~muddled
  BY <1>1, <1>2, <1>3, LeaveInv DEF SaveCopy, VersionsInv, VersionsShape
<1>4. CASE current # saver[p].base \/ muddled
  <2>1. muddled' = TRUE
    BY <1>4 DEF SaveCopy, VersionsInv, VersionsShape
  <2>2. VersionsShape'
    BY <1>1, <1>2, <2>1 DEF SaveCopy, VersionsInv, VersionsShape, Leave
  <2>3. QED
    BY <2>1, <2>2 DEF VersionsInv
<1>5. QED
  BY <1>3, <1>4

LEMMA DieInv ==
  ASSUME VersionsInv, NEW p \in Savers, Die(p)
  PROVE  VersionsInv'
<1>1. Numbers' = Numbers /\ history' \in [Numbers -> Nat] /\ Leave(p)
  BY DEF Die, VersionsInv, VersionsShape, Numbers
<1>2. CASE Advancing(p)
  <2>1. muddled' = TRUE
    BY <1>2 DEF Die, Advancing
  <2>2. VersionsShape'
    BY <1>1, <2>1 DEF Die, VersionsInv, VersionsShape, Leave
  <2>3. QED
    BY <2>1, <2>2 DEF VersionsInv
<1>3. CASE ~Advancing(p)
  <2>1. muddled' = muddled
    BY <1>3 DEF Die, Advancing, VersionsInv, VersionsShape
  <2>2. QED
    BY <1>1, <1>3, <2>1, LeaveInv DEF Die
<1>4. QED
  BY <1>2, <1>3

LEMMA VersionsStep == VersionsInv /\ [VersionsNext]_versions => VersionsInv'
<1> SUFFICES ASSUME VersionsInv, [VersionsNext]_versions PROVE VersionsInv'
  OBVIOUS
<1>1. CASE UNCHANGED versions
  BY <1>1 DEF versions, VersionsInv, VersionsShape, InStep, Advancing, Numbers
<1>2. CASE VersionsNext
  <2>1. PICK p \in Savers :
          \/ \E kind \in Kinds : SaveContent(p, kind)
          \/ \E n \in Numbers : Restore(p, n)
          \/ UpdateDocument(p)
          \/ FindSlot(p) \/ Overwrite(p) \/ InsertVersion(p) \/ Advance(p) \/ SaveCopy(p) \/ Die(p)
    BY <1>2 DEF VersionsNext
  <2>2. QED
    BY <2>1, SaveContentInv, RestoreInv, UpdateDocumentInv, FindSlotInv, OverwriteInv,
       InsertVersionInv, AdvanceInv, SaveCopyInv, DieInv
<1>3. QED
  BY <1>1, <1>2

LEMMA NewestFollows == VersionsInv => CurrentIsNewest
<1> SUFFICES ASSUME VersionsInv, ~muddled, Numbers # {} PROVE CurrentIsNewest
  BY DEF CurrentIsNewest
<1>1. InStep /\ current \in Positive /\ Numbers \subseteq Positive
  BY DEF VersionsInv, VersionsShape
<1>2. CASE current + 1 \in Numbers
  <2>1. PICK p \in Savers : Advancing(p)
    BY <1>1, <1>2 DEF InStep
  <2>2. saver[p].pc = "advance" /\ saver[p].base = current
    BY <1>1, <2>1 DEF InStep, Advancing
  <2>3. Newest(current + 1)
    BY <1>1, <1>2 DEF InStep, Newest
  <2>4. QED
    BY <2>2, <2>3 DEF CurrentIsNewest
<1>3. CASE current + 1 \notin Numbers
  <2>1. \A n \in Numbers : n <= current
    BY <1>1, <1>3 DEF InStep, Positive
  <2>2. current \in Numbers
    <3>1. CASE current = 1
      <4>1. PICK m \in Numbers : TRUE
        OBVIOUS
      <4>2. m = 1
        BY <1>1, <2>1, <3>1, <4>1 DEF Positive
      <4>3. QED
        BY <3>1, <4>1, <4>2
    <3>2. CASE current # 1
      BY <1>1, <3>2 DEF InStep, Positive
    <3>3. QED
      BY <3>1, <3>2
  <2>3. QED
    BY <2>1, <2>2 DEF CurrentIsNewest, Newest
<1>4. QED
  BY <1>2, <1>3

\* Whatever the number of saves, and however they overlap, the version the document calls current
\* is the newest of its rows until a save dies half way or a copy puts the number back.
THEOREM NewestIsShown == VersionsSpec => []CurrentIsNewest
<1>1. VersionsInv /\ [VersionsNext]_versions => VersionsInv'
  BY VersionsStep
<1>2. QED
  BY VersionsInitInv, <1>1, NewestFollows, PTL DEF VersionsSpec

\* Numbers and contents are bounded by the saves that began: a save wants at most the number after
\* the one it read.
Bounded ==
  /\ saves \in 0..MaxSaves /\ current <= saves + 2
  /\ \A n \in Numbers : n <= saves + 2 /\ history[n] <= saves
  /\ \A p \in Savers : saver[p] # Resting => saver[p].base <= saves + 1 /\ saver[p].content <= saves

\* The requests that go on hold what they held.
SaversGoOn ==
  \A q \in Savers : saver'[q] # Resting =>
    saver[q] # Resting /\ saver'[q].base = saver[q].base /\ saver'[q].content = saver[q].content

LEMMA LeavingOrGoingOn ==
  ASSUME VersionsInv, NEW p \in Savers, saver[p].pc # "none", Leave(p) \/ \E pc : Proceed(p, pc)
  PROVE  SaversGoOn
<1>1. PICK s : s = saver[p] /\ s \in SaverRecord
  BY SaverFacts DEF VersionsInv
<1>2. \A q \in Savers : q # p => saver'[q] = saver[q]
  BY DEF Leave, Proceed, VersionsInv, VersionsShape
<1>3. CASE Leave(p)
  <2>1. saver'[p] = Resting
    BY <1>3 DEF Leave, VersionsInv, VersionsShape
  <2>. QED  BY <1>2, <2>1 DEF SaversGoOn
<1>4. ASSUME NEW pc, Proceed(p, pc) PROVE SaversGoOn
  <2>1. saver'[p] = [s EXCEPT !.pc = pc]
    BY <1>1, <1>4 DEF Proceed, VersionsInv, VersionsShape
  <2>2. saver'[p].base = s.base /\ saver'[p].content = s.content /\ s # Resting
    BY <1>1, <2>1 DEF SaverRecord, Resting
  <2>. QED  BY <1>1, <1>2, <2>2 DEF SaversGoOn
<1>. QED  BY <1>3, <1>4

LEMMA BoundsGrow ==
  ASSUME VersionsInv, Bounded, NEW p \in Savers, NEW pc, NEW kind, NEW content \in 0..(saves + 1),
         ReadCurrent(p, pc, kind, content)
  PROVE  Bounded'
<1>1. PICK r : r = [pc |-> pc, base |-> current, kind |-> kind, content |-> content]
  OBVIOUS
<1>2. /\ saves < MaxSaves /\ saves' = saves + 1 /\ UNCHANGED <<current, history>>
      /\ \A q \in Savers : saver'[q] = IF q = p THEN r ELSE saver[q]
  BY <1>1 DEF ReadCurrent, VersionsInv, VersionsShape
<1>3. saves \in Nat /\ current \in Nat /\ MaxSaves \in Nat /\ r.base = current /\ r.content = content
  BY <1>1, VersionsAssumption DEF VersionsInv, VersionsShape, Positive
<1>4. /\ \A n \in Numbers : n \in Nat /\ history[n] \in Nat
      /\ \A q \in Savers : saver[q] # Resting => saver[q].base \in Nat /\ saver[q].content \in Nat
  BY DEF VersionsInv, VersionsShape, SaverRecord, Positive
<1>5. \A n \in Numbers' : n <= saves' + 2 /\ history'[n] <= saves'
  BY <1>2, <1>3, <1>4 DEF Bounded, Numbers
<1>6. \A q \in Savers : saver'[q] # Resting => saver'[q].base <= saves' + 1 /\ saver'[q].content <= saves'
  BY <1>2, <1>3, <1>4 DEF Bounded
<1>. QED  BY <1>2, <1>3, <1>5, <1>6 DEF Bounded

LEMMA BoundsStay ==
  ASSUME VersionsInv, Bounded, NEW p \in Savers, saves' = saves,
         FindSlot(p) \/ Overwrite(p) \/ InsertVersion(p) \/ Advance(p) \/ SaveCopy(p) \/ Die(p)
  PROVE  Bounded'
<1>1. saver[p].pc # "none" /\ (Leave(p) \/ \E pc : Proceed(p, pc))
  BY DEF FindSlot, Overwrite, InsertVersion, Advance, SaveCopy, Die, VersionsInv, VersionsShape,
         SaverRecord
<1>2. SaversGoOn
  BY <1>1, LeavingOrGoingOn
<1>3. PICK base, content : /\ base = saver[p].base /\ content = saver[p].content
                           /\ base \in Nat /\ content \in Nat /\ base <= saves + 1 /\ content <= saves
  BY <1>1, SaverFacts DEF Bounded, VersionsInv, Positive
<1>4. saves \in Nat /\ current \in Nat /\ \A n \in Numbers : n \in Nat /\ n <= saves + 2
  BY DEF VersionsInv, VersionsShape, Positive, Bounded
<1>5. \A q \in Savers : saver'[q] # Resting => saver'[q].base <= saves + 1 /\ saver'[q].content <= saves
  BY <1>2 DEF Bounded, SaversGoOn
<1>6. current' = current \/ current' = base + 1 \/ current' = base
  BY <1>3 DEF FindSlot, Overwrite, InsertVersion, Advance, SaveCopy, Die
<1>7. current' <= saves + 2
  BY <1>3, <1>4, <1>6 DEF Bounded
<1>8. ASSUME NEW n \in Numbers' PROVE n <= saves + 2 /\ history'[n] <= saves
  <2>1. CASE UNCHANGED history
    BY <2>1 DEF Bounded, Numbers
  <2>2. CASE Overwrite(p)
    <3>1. history' = [history EXCEPT ![base] = content]
      BY <1>3, <2>2 DEF Overwrite
    <3>2. n \in Numbers /\ (history'[n] = content \/ history'[n] = history[n])
      BY <3>1 DEF Numbers
    <3>. QED  BY <1>3, <3>2 DEF Bounded
  <2>3. CASE InsertVersion(p) /\ ~UNCHANGED history
    <3>1. PICK m : /\ m = NumberFor(saver[p].kind, base)
                   /\ history' = [k \in Numbers \cup {m} |-> IF k = m THEN content ELSE history[k]]
      BY <1>3, <2>3 DEF InsertVersion
    <3>2. m = base \/ m = base + 1
      BY <3>1 DEF NumberFor
    <3>3. CASE n = m
      BY <1>3, <1>4, <3>1, <3>2, <3>3 DEF Numbers
    <3>4. CASE n # m
      BY <3>1, <3>4 DEF Bounded, Numbers
    <3>. QED  BY <3>3, <3>4
  <2>. QED  BY <2>1, <2>2, <2>3 DEF FindSlot, Advance, SaveCopy, Die
<1>. QED  BY <1>5, <1>7, <1>8 DEF Bounded

LEMMA BoundedHolds == VersionsInv /\ Bounded /\ [VersionsNext]_versions => Bounded'
<1> SUFFICES ASSUME VersionsInv, Bounded, [VersionsNext]_versions PROVE Bounded'
  OBVIOUS
<1>1. CASE UNCHANGED versions
  BY <1>1 DEF versions, Bounded, Numbers
<1>2. saves \in Nat /\ \A n \in Numbers : history[n] \in 0..saves
  BY DEF VersionsInv, VersionsShape, Bounded, Numbers
<1>3. ASSUME NEW p \in Savers, NEW kind \in Kinds, SaveContent(p, kind) PROVE Bounded'
  <2>1. saves + 1 \in 0..(saves + 1)
    BY <1>2
  <2>. QED  BY <1>3, <2>1, BoundsGrow DEF SaveContent
<1>4. ASSUME NEW p \in Savers, NEW n \in Numbers, Restore(p, n) PROVE Bounded'
  <2>1. history[n] \in 0..(saves + 1)
    BY <1>2
  <2>. QED  BY <1>4, <2>1, BoundsGrow DEF Restore
<1>5. ASSUME NEW p \in Savers, UpdateDocument(p) PROVE Bounded'
  <2>1. 0 \in 0..(saves + 1)
    BY <1>2
  <2>. QED  BY <1>5, <2>1, BoundsGrow DEF UpdateDocument
<1>6. ASSUME NEW p \in Savers,
             FindSlot(p) \/ Overwrite(p) \/ InsertVersion(p) \/ Advance(p) \/ SaveCopy(p) \/ Die(p)
      PROVE  Bounded'
  <2>1. saves' = saves
    BY <1>6 DEF FindSlot, Overwrite, InsertVersion, Advance, SaveCopy, Die
  <2>. QED  BY <1>6, <2>1, BoundsStay
<1>. QED  BY <1>1, <1>3, <1>4, <1>5, <1>6 DEF VersionsNext

\* A document has no version number that its saves do not account for, and every request in flight
\* is at one of its statements.
THEOREM VersionsTypeCorrect == VersionsSpec => []VersionsTypeOK
<1>1. VersionsInit => Bounded
  BY VersionsAssumption DEF VersionsInit, Bounded, Numbers, Resting
<1>2. VersionsInv /\ Bounded => VersionsTypeOK
  <2> SUFFICES ASSUME VersionsInv, Bounded PROVE VersionsTypeOK
    OBVIOUS
  <2>1. /\ current \in Positive /\ saves \in Nat /\ muddled \in BOOLEAN /\ MaxSaves \in Nat
        /\ \A n \in Numbers : n \in Positive /\ history[n] \in Nat
    BY VersionsAssumption DEF VersionsInv, VersionsShape
  <2>2. ASSUME NEW p \in Savers, saver[p] # Resting
        PROVE  /\ saver[p].pc \in {"find", "overwrite", "insert", "advance", "copy"}
               /\ saver[p].base \in Positive /\ saver[p].content \in Nat
    BY <2>2 DEF VersionsInv, VersionsShape, SaverRecord
  <2>3. current \in 1..(MaxSaves + 2) /\ saves \in 0..MaxSaves
    BY <2>1 DEF Bounded, Positive
  <2>4. \A n \in Numbers : n \in 1..(MaxSaves + 2) /\ history[n] \in 0..MaxSaves
    BY <2>1 DEF Bounded, Positive
  <2>5. \A p \in Savers : saver[p] # Resting =>
          saver[p].base \in 1..(MaxSaves + 2) /\ saver[p].content \in 0..MaxSaves
    BY <2>1, <2>2 DEF Bounded, Positive
  <2>. QED  BY <2>1, <2>2, <2>3, <2>4, <2>5 DEF VersionsTypeOK
<1>. QED  BY <1>1, <1>2, VersionsInitInv, VersionsStep, BoundedHolds, PTL DEF VersionsSpec

\* What the two parts keep, they keep together: the types hold in every behaviour of the composition.
THEOREM SecondEdmTypesCorrect == MCSpec => []SecondEdmTypeOK
<1>1. MCSpec => Spec /\ VersionsSpec
  <2>1. MCInit => Init /\ VersionsInit
    BY DEF MCInit
  <2>2. [MCNext]_<<vars, versions, part>> => [Next]_vars /\ [VersionsNext]_versions
    BY DEF MCNext
  <2>. QED  BY <2>1, <2>2, PTL DEF MCSpec, Spec, VersionsSpec
<1>. QED  BY <1>1, WorkflowTypeCorrect, VersionsTypeCorrect, PTL DEF SecondEdmTypeOK
==============================================================================
