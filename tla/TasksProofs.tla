----------------------------- MODULE TasksProofs -----------------------------
(***************************************************************************)
(* Theorems about tasks.  First the desk and the scheduler: what is left of *)
(* a task's consistency when requests and the scheduler save stale copies  *)
(* over each other, for any tasks, any requests and any page size: a status *)
(* was earned, a completion has its date, and the escalations in the       *)
(* history add up to the marks.                                            *)
(*                                                                         *)
(* The argument is one: a row and every copy of it that a request holds    *)
(* satisfy the same predicate (CopyOK), which speaks of the past and of    *)
(* the history rows only, and the past and the history only grow.  So it   *)
(* does not matter which copy is saved last.                               *)
(*                                                                         *)
(* Then the copies of a status, in the history and in the cache, on top of *)
(* that invariant; and the delegation: whoever holds a task is the one it  *)
(* shows.                                                                  *)
(***************************************************************************)
EXTENDS MCTasks, TLAPS

Past == [start : Status, seen : SUBSET Status, bulked : BOOLEAN, disturbed : BOOLEAN,
         stale : BOOLEAN, unmarked : Nat, lost : BOOLEAN]

Shape ==
  /\ rows \in [Tasks -> Row]
  /\ past \in [Tasks -> Past]
  /\ escalated \in [Tasks -> Nat]
  /\ sched = [at |-> sched.at, now |-> sched.now, offset |-> sched.offset, page |-> sched.page]
  /\ sched.at \in {"idle", "find", "mark", "log"} /\ sched.page \subseteq Tasks
  /\ admitted \in Nat /\ InFlight \subseteq 1 .. admitted

\* A call keeps what it asks, and its copies are of rows.
CallShape(c) ==
  /\ c = [ask |-> c.ask, at |-> c.at, copy |-> c.copy, drops |-> c.drops]
  /\ c.ask \in Writing \cup Reading
  /\ DOMAIN c.copy \subseteq Tasks
  /\ \A t \in DOMAIN c.copy : c.copy[t] \in Row

Pending(t)   == sched.at = "log" /\ t \in sched.page
Explained(t) == escalated[t] > 0 \/ past[t].lost \/ Pending(t)

\* What holds of a row, and of every copy of it.
CopyOK(t, row) ==
  /\ row.status \in past[t].seen
  /\ row.status \in {"completed", "closed"} /\ ~past[t].bulked => row.status \in row.dated
  /\ row.breached => Explained(t)

\* A request that is about to write a status has checked it against the copy it holds.
CallOK(c) ==
  /\ \A t \in DOMAIN c.copy : CopyOK(t, c.copy[t])
  /\ c.at = "save" /\ c.ask.kind \in {"status", "bulkStatus"} =>
       \A t \in DOMAIN c.copy : c.ask.to \in VALID_TRANSITIONS[c.copy[t].status]

Earned(t) ==
  \A s \in past[t].seen \ {past[t].start, "assigned"} :
    \E p \in past[t].seen : s \in VALID_TRANSITIONS[p]

\* Escalations in the history, and the one that is about to be written there, are covered by the
\* mark and by the marks that were taken away; a page that is about to be marked leaves room.
Covered(t) ==
  LET written == escalated[t] + (IF Pending(t) THEN 1 ELSE 0)
  IN /\ written <= 1 + past[t].unmarked
     /\ ~rows[t].breached => written <= past[t].unmarked
     /\ sched.at = "mark" /\ t \in sched.page => written <= past[t].unmarked

TaskInv ==
  /\ Shape
  /\ \A t \in Tasks : CopyOK(t, rows[t]) /\ Earned(t) /\ Covered(t)
  /\ \A r \in InFlight : CallShape(calls[r]) /\ CallOK(calls[r])

-----------------------------------------------------------------------------
LEMMA AskFacts ==
  ASSUME NEW ask \in Writing \cup Reading
  PROVE  /\ ask.on \subseteq Tasks
         /\ ask.kind \in {"update", "move", "status", "assign", "bulkAssign", "bulkStatus",
                         "remove", "bulkDelete", "read"}
         /\ ask.kind \in {"status", "bulkStatus"} => ask.to \in Status
         /\ ask.kind \in {"assign", "bulkAssign"} => ask.to = "assigned"
         /\ ask.kind = "update" => ask.due \in Dues
         /\ ask.kind = "move" => ask.column \in Columns
<1>1. Targets \subseteq Status
  BY DeskAssumption
<1>2. QED
  BY <1>1 DEF Writing, Copying, Reading, Single, Many

\* Copies and calls stay sound when the past and the history only grow.
Grows ==
  \A t \in Tasks :
    /\ past[t].seen \subseteq past'[t].seen
    /\ past[t].bulked => past'[t].bulked
    /\ Explained(t) => (escalated'[t] > 0 \/ past'[t].lost
                         \/ (sched'.at = "log" /\ t \in sched'.page))

LEMMA CopyStays ==
  ASSUME Grows, NEW t \in Tasks, NEW row, CopyOK(t, row)
  PROVE  CopyOK(t, row)'
BY DEF Grows, CopyOK, Explained, Pending

LEMMA CallStays ==
  ASSUME Grows, NEW c, CallShape(c), CallOK(c)
  PROVE  CallShape(c)' /\ CallOK(c)'
<1>1. \A t \in DOMAIN c.copy : CopyOK(t, c.copy[t])'
  BY CopyStays DEF CallShape, CallOK
<1>2. QED
  BY <1>1 DEF CallShape, CallOK

\* A call that moves on without new copies, and never back to the save.
LEMMA CallMovesOn ==
  ASSUME Grows, NEW c, CallShape(c), CallOK(c), NEW d,
         d = [ask |-> c.ask, at |-> d.at, copy |-> c.copy, drops |-> d.drops], d.at # "save"
  PROVE  CallShape(d)' /\ CallOK(d)'
<1>1. d.ask = c.ask /\ d.copy = c.copy
  OBVIOUS
<1>2. \A t \in DOMAIN d.copy : CopyOK(t, d.copy[t])'
  BY <1>1, CopyStays DEF CallShape, CallOK
<1>3. QED
  BY <1>1, <1>2 DEF CallShape, CallOK

-----------------------------------------------------------------------------
(***************************************************************************)
(* The steps of requests.                                                  *)
(***************************************************************************)
LEMMA InitInv == EscalationInit => TaskInv
<1> SUFFICES ASSUME EscalationInit PROVE TaskInv
  OBVIOUS
<1>1. rows \in [Tasks -> {row \in Row : Fresh(row)}]
  BY DeskAssumption DEF EscalationInit, DeskInit
<1>2. InFlight = {}
  BY DEF EscalationInit, DeskInit, InFlight
<1>3. /\ sched.at = "idle" /\ sched.page = {}
      /\ escalated = [t \in Tasks |-> 0]
      /\ past = [t \in Tasks |-> [start |-> rows[t].status, seen |-> {rows[t].status},
                                  bulked |-> FALSE, disturbed |-> FALSE, stale |-> FALSE,
                                  unmarked |-> 0, lost |-> FALSE]]
  BY DEF EscalationInit, DeskInit, Idle
<1>4. \A t \in Tasks : rows[t].status \in Status /\ Fresh(rows[t]) /\ rows[t] \in Row
  BY <1>1 DEF Row
<1>5. Shape
  <2>1. past \in [Tasks -> Past]
    BY <1>3, <1>4 DEF Past
  <2>2. admitted \in Nat
    BY DeskAssumption DEF EscalationInit, DeskInit
  <2>3. rows \in [Tasks -> Row] /\ escalated \in [Tasks -> Nat]
    BY <1>1, <1>3
  <2>4. sched = [at |-> sched.at, now |-> sched.now, offset |-> sched.offset,
                 page |-> sched.page]
    BY DEF EscalationInit, Idle
  <2>5. QED
    BY <1>2, <1>3, <2>1, <2>2, <2>3, <2>4 DEF Shape
<1>6. ASSUME NEW t \in Tasks PROVE CopyOK(t, rows[t]) /\ Earned(t) /\ Covered(t)
  <2>1. /\ escalated[t] = 0 /\ past[t].start = rows[t].status
        /\ past[t].seen = {rows[t].status} /\ past[t].unmarked = 0
    BY <1>3
  <2>2. ~rows[t].breached /\ rows[t].dated = {rows[t].status} \cap {"completed", "closed"}
    BY <1>4 DEF Fresh
  <2>3. sched.at # "log" /\ sched.at # "mark" /\ ~Pending(t)
    BY <1>3 DEF Pending
  <2>4. CopyOK(t, rows[t])
    BY <2>1, <2>2 DEF CopyOK
  <2>5. Earned(t)
    BY <2>1 DEF Earned
  <2>6. Covered(t)
    BY <2>1, <2>2, <2>3 DEF Covered
  <2>7. QED
    BY <2>4, <2>5, <2>6
<1>7. QED
  BY <1>2, <1>5, <1>6 DEF TaskInv

\* A request arrives with copies of the rows of the moment.
LEMMA EnterInv ==
  ASSUME TaskInv, NEW ask \in Writing \cup Reading, NEW found \in SUBSET Tasks, NEW at, NEW drops,
         Enter(ask, found, at, drops), UNCHANGED office,
         at = "save" /\ ask.kind \in {"status", "bulkStatus"} =>
           \A t \in found : ask.to \in VALID_TRANSITIONS[rows[t].status]
  PROVE  TaskInv'
<1> DEFINE copy == [t \in found |-> rows[t]]
           c    == [ask |-> ask, at |-> at, drops |-> drops, copy |-> copy]
<1>1. /\ admitted' = admitted + 1 /\ rows' = rows /\ escalated' = escalated /\ sched' = sched
      /\ calls' = [q \in InFlight \cup {admitted'} |-> IF q = admitted' THEN c ELSE calls[q]]
  BY DEF Enter, office
<1>2. /\ past' \in [Tasks -> Past]
      /\ \A t \in Tasks : /\ past'[t].start = past[t].start /\ past'[t].seen = past[t].seen
                          /\ past'[t].bulked = past[t].bulked /\ past'[t].lost = past[t].lost
                          /\ past'[t].unmarked = past[t].unmarked
  BY DEF Enter, TaskInv, Shape, Past
<1>3. Grows
  BY <1>1, <1>2 DEF Grows, Explained, Pending
<1>4. Shape'
  BY <1>1, <1>2 DEF TaskInv, Shape, InFlight
<1>5. \A t \in Tasks : CopyOK(t, rows[t])'
  BY <1>1, <1>2 DEF TaskInv, CopyOK, Explained, Pending
<1>6. \A t \in Tasks : Earned(t)' /\ Covered(t)'
  BY <1>1, <1>2 DEF TaskInv, Earned, Covered, Pending
<1>7. CallShape(c) /\ CallOK(c)
  <2>1. \A t \in found : copy[t] = rows[t] /\ copy[t] \in Row /\ CopyOK(t, copy[t])
    BY DEF TaskInv, Shape
  <2>2. c.ask = ask /\ c.at = at /\ c.copy = copy /\ c.drops = drops /\ DOMAIN copy = found
    OBVIOUS
  <2>3. QED
    BY <2>1, <2>2 DEF CallShape, CallOK
<1>8. ASSUME NEW q \in InFlight' PROVE CallShape(calls[q])' /\ CallOK(calls[q])'
  <2>1. CallShape(calls'[q]) /\ CallOK(calls'[q])
    BY <1>1, <1>7 DEF TaskInv, InFlight
  <2>2. PICK d : d = calls'[q]
    OBVIOUS
  <2>3. CallShape(d)' /\ CallOK(d)'
    BY <1>3, <2>1, <2>2, CallStays
  <2>4. QED
    BY <2>2, <2>3 DEF CallShape, CallOK, CopyOK, Explained, Pending
<1>9. QED
  BY <1>4, <1>5, <1>6, <1>8 DEF TaskInv

\* A step that writes no row: calls move on or leave, or take a fresh copy.
LEMMA NoWrite ==
  ASSUME TaskInv, rows' = rows, UNCHANGED office, admitted' = admitted,
         past' \in [Tasks -> Past],
         \A t \in Tasks : /\ past'[t].start = past[t].start /\ past'[t].seen = past[t].seen
                          /\ past'[t].bulked = past[t].bulked /\ past'[t].lost = past[t].lost
                          /\ past'[t].unmarked = past[t].unmarked,
         InFlight' \subseteq InFlight,
         \A q \in InFlight' : CallShape(calls'[q]) /\ CallOK(calls'[q])
  PROVE  TaskInv'
<1>1. escalated' = escalated /\ sched' = sched
  BY DEF office
<1>2. Grows
  BY <1>1 DEF Grows, Explained, Pending
<1>3. Shape'
  BY <1>1 DEF TaskInv, Shape
<1>4. \A t \in Tasks : CopyOK(t, rows[t])' /\ Earned(t)' /\ Covered(t)'
  BY <1>1 DEF TaskInv, CopyOK, Explained, Earned, Covered, Pending
<1>5. ASSUME NEW q \in InFlight' PROVE CallShape(calls[q])' /\ CallOK(calls[q])'
  <2>1. PICK d : d = calls'[q]
    OBVIOUS
  <2>2. CallShape(d)' /\ CallOK(d)'
    BY <1>2, <2>1, CallStays
  <2>3. QED
    BY <2>1, <2>2 DEF CallShape, CallOK, CopyOK, Explained, Pending
<1>6. QED
  BY <1>3, <1>4, <1>5 DEF TaskInv

LEMMA ArriveInv ==
  ASSUME TaskInv, Arrive, UNCHANGED office
  PROVE  TaskInv'
<1>1. ASSUME NEW ask \in Writing, Load(ask) PROVE TaskInv'
  <2> DEFINE found == CASE ask.kind \in {"status", "bulkStatus"} ->
                             {t \in Alive(ask.on) : Allowed(t, ask.to)}
                        [] ask.kind = "bulkDelete" -> ask.on
                        [] OTHER -> Alive(ask.on)
             drops == CASE ~Drops(ask.kind)        -> {}
                        [] ask.kind = "bulkStatus" -> found
                        [] OTHER                   -> ask.on
  <2>1. ask \in Writing \cup Reading
    OBVIOUS
  <2>2. found \in SUBSET Tasks
    BY <2>1, AskFacts DEF Alive
  <2>3. Enter(ask, found, "save", drops)
    BY <1>1 DEF Load
  <2>4. ask.kind \in {"status", "bulkStatus"} =>
          \A t \in found : ask.to \in VALID_TRANSITIONS[rows[t].status]
    BY DEF Allowed
  <2> HIDE DEF found, drops
  <2>5. QED
    BY <2>1, <2>2, <2>3, <2>4, EnterInv
<1>2. ASSUME NEW ask \in Reading, ReadRequest(ask) PROVE TaskInv'
  <2>1. Enter(ask, {}, "get", {})
    BY <1>2 DEF ReadRequest
  <2>2. ask \in Writing \cup Reading /\ {} \in SUBSET Tasks
    OBVIOUS
  <2>3. QED
    BY <2>1, <2>2, EnterInv
<1>3. QED
  BY <1>1, <1>2 DEF Arrive

\* What a step may write into a row: a status that the task had, an assignment, or a transition
\* from a status it had; a completion with its date; no mark without its history row.
Sound(t, row, undated) ==
  /\ \/ row.status \in past[t].seen \cup {"assigned"}
     \/ \E p \in past[t].seen : row.status \in VALID_TRANSITIONS[p]
  /\ row.status \in {"completed", "closed"} /\ ~past[t].bulked /\ ~undated
       => row.status \in row.dated
  /\ row.breached => Explained(t)

LEMMA WriteInv ==
  ASSUME TaskInv, NEW r \in InFlight, NEW S \in SUBSET Tasks, UNCHANGED office,
         rows' \in [Tasks -> Row], \A t \in Tasks \ S : rows'[t] = rows[t],
         AfterSave(r, S),
         \A t \in S : Sound(t, rows'[t], calls[r].ask.kind = "bulkStatus")
  PROVE  TaskInv'
<1>1. /\ escalated' = escalated /\ sched' = sched /\ admitted' = admitted
      /\ InFlight' = InFlight
      /\ calls' = [calls EXCEPT ![r].at =
                     IF calls[r].ask.kind = "move" THEN "get" ELSE "log"]
  BY DEF office, AfterSave, Goto, InFlight
<1>2. ASSUME NEW t \in Tasks
      PROVE  /\ past'[t] \in Past
             /\ t \notin S => past'[t] = past[t]
             /\ t \in S => /\ past'[t].start = past[t].start
                           /\ past'[t].seen = past[t].seen \cup {rows'[t].status}
                           /\ past'[t].bulked = (past[t].bulked
                                                  \/ calls[r].ask.kind = "bulkStatus")
                           /\ past'[t].lost = past[t].lost
                           /\ past'[t].unmarked = past[t].unmarked +
                                (IF rows[t].breached /\ ~rows'[t].breached THEN 1 ELSE 0)
  <2>1. past[t] \in Past /\ rows'[t].status \in Status
    BY DEF TaskInv, Shape, Row
  <2>2. CASE t \notin S
    BY <2>1, <2>2 DEF AfterSave
  <2>3. CASE t \in S
    <3>1. past'[t] = [past[t] EXCEPT !.seen = @ \cup {rows'[t].status},
                            !.bulked = @ \/ calls[r].ask.kind = "bulkStatus",
                            !.unmarked = @ + (IF rows[t].breached /\ ~rows'[t].breached
                                              THEN 1 ELSE 0),
                            !.stale = @ \/ Missed(calls[r].ask, t)]
      BY <2>3 DEF AfterSave
    <3>2. (calls[r].ask.kind = "bulkStatus") \in BOOLEAN /\ Missed(calls[r].ask, t) \in BOOLEAN
      BY DEF Missed
    <3>3. PICK p, b, m, u, e :
            /\ p = past[t] /\ b = (past[t].bulked \/ calls[r].ask.kind = "bulkStatus")
            /\ m = (past[t].stale \/ Missed(calls[r].ask, t))
            /\ u = past[t].unmarked + (IF rows[t].breached /\ ~rows'[t].breached THEN 1 ELSE 0)
            /\ e = past[t].seen \cup {rows'[t].status}
      OBVIOUS
    <3>4. past'[t] = [p EXCEPT !.seen = e, !.bulked = b, !.unmarked = u, !.stale = m]
      BY <3>1, <3>3, Zenon
    <3>5. b \in BOOLEAN /\ m \in BOOLEAN
      BY <2>1, <3>2, <3>3 DEF Past
    <3>6. u \in Nat /\ e \in SUBSET Status
      BY <2>1, <3>3 DEF Past
    <3>7. p \in Past
      BY <2>1, <3>3
    <3>8. /\ past'[t] \in Past
          /\ past'[t].start = p.start /\ past'[t].seen = e /\ past'[t].bulked = b
          /\ past'[t].lost = p.lost /\ past'[t].unmarked = u
      BY <3>4, <3>5, <3>6, <3>7 DEF Past
    <3>9. QED
      BY <2>3, <3>3, <3>8
  <2>4. QED
    BY <2>2, <2>3
<1>3. past' \in [Tasks -> Past]
  BY <1>2 DEF AfterSave
<1>4. Shape'
  BY <1>1, <1>3 DEF TaskInv, Shape
<1>5. Grows
  <2>1. ASSUME NEW t \in Tasks
        PROVE  /\ past[t].seen \subseteq past'[t].seen
               /\ past[t].bulked => past'[t].bulked
               /\ past'[t].lost = past[t].lost
    BY <1>2
  <2>2. QED
    BY <1>1, <2>1 DEF Grows, Explained, Pending
<1>6. ASSUME NEW t \in Tasks PROVE CopyOK(t, rows[t])' /\ Earned(t)' /\ Covered(t)'
  <2>1. CopyOK(t, rows[t]) /\ Earned(t) /\ Covered(t) /\ past[t] \in Past
    BY DEF TaskInv, Shape
  <2>2. CASE t \notin S
    <3>1. rows'[t] = rows[t] /\ past'[t] = past[t]
      BY <1>2, <2>2
    <3>2. QED
      BY <1>1, <2>1, <3>1 DEF CopyOK, Earned, Covered, Explained, Pending
  <2>3. CASE t \in S
    <3>1. Sound(t, rows'[t], calls[r].ask.kind = "bulkStatus")
      BY <2>3
    <3>2. CopyOK(t, rows[t])'
      BY <1>1, <1>2, <2>3, <3>1 DEF CopyOK, Sound, Explained, Pending
    <3>3. Earned(t)'
      BY <1>2, <2>1, <2>3, <3>1 DEF Earned, Sound
    <3>4. Covered(t)'
      <4>1. escalated[t] \in Nat /\ past[t].unmarked \in Nat
        BY <2>1 DEF TaskInv, Shape, Past
      <4>2. /\ past'[t].unmarked = past[t].unmarked +
                  (IF rows[t].breached /\ ~rows'[t].breached THEN 1 ELSE 0)
            /\ Pending(t)' = Pending(t) /\ escalated'[t] = escalated[t]
        BY <1>1, <1>2, <2>3 DEF Pending
      <4>3. QED
        BY <1>1, <2>1, <4>1, <4>2 DEF Covered
    <3>5. QED
      BY <3>2, <3>3, <3>4
  <2>4. QED
    BY <2>2, <2>3
<1>7. ASSUME NEW q \in InFlight' PROVE CallShape(calls[q])' /\ CallOK(calls[q])'
  <2>1. CallShape(calls[q]) /\ CallOK(calls[q])
    BY <1>1 DEF TaskInv
  <2>2. PICK d : d = calls'[q]
    OBVIOUS
  <2>3. CASE q # r
    <3>1. d = calls[q]
      BY <1>1, <2>2, <2>3 DEF InFlight
    <3>2. CallShape(d)' /\ CallOK(d)'
      BY <1>5, <2>1, <3>1, CallStays
    <3>3. QED
      BY <2>2, <3>2 DEF CallShape, CallOK, CopyOK, Explained, Pending
  <2>4. CASE q = r
    <3>1. /\ d = [calls[r] EXCEPT !.at = d.at]
          /\ d.at # "save"
      BY <1>1, <2>1, <2>2, <2>4 DEF InFlight, CallShape
    <3>2. d = [ask |-> calls[q].ask, at |-> d.at, copy |-> calls[q].copy, drops |-> d.drops]
      BY <2>1, <2>4, <3>1 DEF CallShape
    <3>3. CallShape(d)' /\ CallOK(d)'
      BY <1>5, <2>1, <3>1, <3>2, CallMovesOn
    <3>4. QED
      BY <2>2, <3>3 DEF CallShape, CallOK, CopyOK, Explained, Pending
  <2>5. QED
    BY <2>3, <2>4
<1>8. QED
  BY <1>4, <1>6, <1>7 DEF TaskInv

\* The saves: of a copy, of the status column, of the mark of deletion.
LEMMA SaveInv ==
  ASSUME TaskInv, NEW r \in InFlight, SaveCopy(r) \/ UpdateStatus(r) \/ SoftDelete(r),
         UNCHANGED office
  PROVE  TaskInv'
<1> DEFINE c == calls[r]
           S == DOMAIN c.copy
<1>1. /\ CallShape(c) /\ CallOK(c) /\ c.at = "save"
      /\ S \in SUBSET Tasks /\ AfterSave(r, S)
  BY DEF TaskInv, CallShape, SaveCopy, UpdateStatus, SoftDelete
<1>2. \A t \in Tasks : rows[t] \in Row /\ CopyOK(t, rows[t])
  BY DEF TaskInv, Shape
<1>3. \A t \in S : c.copy[t] \in Row /\ CopyOK(t, c.copy[t])
  BY <1>1 DEF CallShape, CallOK
<1>4. c.ask \in Writing \cup Reading
  BY <1>1 DEF CallShape
<1>5. CASE SaveCopy(r)
  <2>1. /\ c.ask \in Copying
        /\ rows' = [t \in Tasks |-> IF t \in S THEN Edit(c.ask, c.copy[t]) ELSE rows[t]]
    BY <1>5 DEF SaveCopy
  <2>2. c.ask.kind \in {"update", "move", "status", "assign", "bulkAssign"}
    BY <2>1 DEF Copying
  <2>3. ASSUME NEW t \in S
        PROVE  Edit(c.ask, c.copy[t]) \in Row /\ Sound(t, Edit(c.ask, c.copy[t]), FALSE)
    <3>1. PICK row : row = c.copy[t]
      OBVIOUS
    <3>2. PICK ask : ask = c.ask
      OBVIOUS
    <3>3. row \in Row /\ CopyOK(t, row) /\ ask \in Writing \cup Reading
      BY <1>3, <1>4, <3>1, <3>2
    <3>4. CASE ask.kind = "update"
      <4>1. Edit(ask, row) = [row EXCEPT !.due = ask.due] /\ ask.due \in Dues
        BY <3>3, <3>4, AskFacts DEF Edit
      <4>2. Edit(ask, row) \in Row /\ Sound(t, Edit(ask, row), FALSE)
        BY <3>3, <4>1 DEF Row, Sound, CopyOK
      <4>3. QED
        BY <3>1, <3>2, <4>2
    <3>5. CASE ask.kind = "move"
      <4>1. Edit(ask, row) = [row EXCEPT !.column = ask.column] /\ ask.column \in Columns
        BY <3>3, <3>5, AskFacts DEF Edit
      <4>2. Edit(ask, row) \in Row /\ Sound(t, Edit(ask, row), FALSE)
        BY <3>3, <4>1 DEF Row, Sound, CopyOK
      <4>3. QED
        BY <3>1, <3>2, <4>2
    <3>6. CASE ask.kind = "status"
      <4>1. /\ Edit(ask, row) = [row EXCEPT !.status = ask.to,
                                           !.dated = Dates(row.dated, ask.to)]
            /\ ask.to \in Status
        BY <3>3, <3>6, AskFacts DEF Edit
      <4>2. ask.to \in VALID_TRANSITIONS[row.status]
        BY <1>1, <3>1, <3>2, <3>6 DEF CallOK
      <4>3. /\ Dates(row.dated, ask.to) \in SUBSET {"completed", "closed"}
            /\ ask.to \in {"completed", "closed"} => ask.to \in Dates(row.dated, ask.to)
        BY <3>3 DEF Dates, Row
      <4>4. Edit(ask, row) \in Row /\ Sound(t, Edit(ask, row), FALSE)
        BY <3>3, <4>1, <4>2, <4>3 DEF Row, Sound, CopyOK
      <4>5. QED
        BY <3>1, <3>2, <4>4
    <3>7. CASE ask.kind \in {"assign", "bulkAssign"}
      <4>1. Edit(ask, row) = [row EXCEPT !.status = ask.to] /\ ask.to = "assigned"
        BY <3>3, <3>7, AskFacts DEF Edit
      <4>2. "assigned" \in Status
        BY DEF Status
      <4>3. Edit(ask, row) \in Row /\ Sound(t, Edit(ask, row), FALSE)
        BY <3>3, <4>1, <4>2 DEF Row, Sound, CopyOK
      <4>4. QED
        BY <3>1, <3>2, <4>3
    <3>8. QED
      BY <2>2, <3>2, <3>4, <3>5, <3>6, <3>7
  <2>4. rows' \in [Tasks -> Row] /\ \A t \in Tasks \ S : rows'[t] = rows[t]
    BY <1>2, <2>1, <2>3
  <2>5. \A t \in S : rows'[t] = Edit(c.ask, c.copy[t])
    BY <1>1, <2>1
  <2>6. \A t \in S : Sound(t, rows'[t], c.ask.kind = "bulkStatus")
    BY <2>2, <2>3, <2>5 DEF Sound
  <2> HIDE DEF c, S
  <2>7. QED
    BY <1>1, <2>4, <2>6, WriteInv DEF c
<1>6. CASE UpdateStatus(r)
  <2>1. /\ c.ask.kind = "bulkStatus"
        /\ rows' = [t \in Tasks |-> IF t \in S THEN [rows[t] EXCEPT !.status = c.ask.to]
                                    ELSE rows[t]]
    BY <1>6 DEF UpdateStatus
  <2>2. c.ask.to \in Status
    BY <1>4, <2>1, AskFacts
  <2>3. rows' \in [Tasks -> Row] /\ \A t \in Tasks \ S : rows'[t] = rows[t]
    BY <1>2, <2>1, <2>2 DEF Row
  <2>4. ASSUME NEW t \in S PROVE Sound(t, rows'[t], TRUE)
    <3>1. t \in Tasks
      BY <1>1
    <3>2. /\ rows'[t].status = c.ask.to /\ rows'[t].breached = rows[t].breached
      BY <1>2, <2>1, <3>1 DEF Row
    <3>3. /\ c.copy[t].status \in past[t].seen
          /\ c.ask.to \in VALID_TRANSITIONS[c.copy[t].status]
      BY <1>1, <1>3, <2>1 DEF CallOK, CopyOK
    <3>4. QED
      BY <1>2, <3>1, <3>2, <3>3 DEF Sound, CopyOK
  <2>5. \A t \in S : Sound(t, rows'[t], c.ask.kind = "bulkStatus")
    BY <2>1, <2>4
  <2> HIDE DEF c, S
  <2>6. QED
    BY <1>1, <2>3, <2>5, WriteInv DEF c
<1>7. CASE SoftDelete(r)
  <2>1. rows' = [t \in Tasks |-> IF t \in S THEN [rows[t] EXCEPT !.deleted = TRUE] ELSE rows[t]]
    BY <1>7 DEF SoftDelete
  <2>2. rows' \in [Tasks -> Row] /\ \A t \in Tasks \ S : rows'[t] = rows[t]
    BY <1>2, <2>1 DEF Row
  <2>3. ASSUME NEW t \in S PROVE Sound(t, rows'[t], c.ask.kind = "bulkStatus")
    <3>1. t \in Tasks
      BY <1>1
    <3>2. rows'[t] = [rows[t] EXCEPT !.deleted = TRUE]
      BY <2>1, <3>1
    <3>3. QED
      BY <1>2, <3>1, <3>2 DEF Sound, CopyOK, Row
  <2> HIDE DEF c, S
  <2>4. QED
    BY <1>1, <2>2, <2>3, WriteInv DEF c
<1>8. QED
  BY <1>5, <1>6, <1>7

\* Nothing but the history variables of the cache and of disturbed requests changes.
Quiet ==
  /\ rows' = rows /\ admitted' = admitted
  /\ \A t \in Tasks : past'[t] \in Past
  /\ past' = [t \in Tasks |-> past'[t]]
  /\ \A t \in Tasks : /\ past'[t].start = past[t].start /\ past'[t].seen = past[t].seen
                       /\ past'[t].bulked = past[t].bulked /\ past'[t].lost = past[t].lost
                       /\ past'[t].unmarked = past[t].unmarked

\* One request moves on without new copies, or leaves; the others stay where they are.
LEMMA StepOnInv ==
  ASSUME TaskInv, Quiet, UNCHANGED office, NEW r \in InFlight,
         InFlight' \subseteq InFlight,
         \A q \in InFlight' \ {r} : calls'[q] = calls[q],
         r \in InFlight' =>
           /\ calls'[r].at # "save"
           /\ CallShape(calls'[r]) /\ CallOK(calls'[r])
  PROVE  TaskInv'
<1>1. past' \in [Tasks -> Past]
  BY DEF Quiet
<1>2. \A q \in InFlight' : CallShape(calls'[q]) /\ CallOK(calls'[q])
  BY DEF TaskInv
<1>3. QED
  BY <1>1, <1>2, NoWrite DEF Quiet

\* A request that keeps its copies is as sound as it was, unless it is back at the save.
LEMMA SameCopies ==
  ASSUME NEW c, CallShape(c), CallOK(c), NEW at, NEW drops, at # "save"
  PROVE  /\ CallShape([ask |-> c.ask, at |-> at, copy |-> c.copy, drops |-> drops])
         /\ CallOK([ask |-> c.ask, at |-> at, copy |-> c.copy, drops |-> drops])
BY DEF CallShape, CallOK

LEMMA LogInv ==
  ASSUME TaskInv, NEW r \in InFlight, Log(r), UNCHANGED office
  PROVE  TaskInv'
<1>1. rows' = rows /\ admitted' = admitted /\ past' = past
  BY DEF Log
<1>2. Quiet
  BY <1>1 DEF Quiet, TaskInv, Shape
<1>3. PICK c : c = calls[r]
  OBVIOUS
<1>4. CallShape(c) /\ CallOK(c)
  BY <1>3 DEF TaskInv
<1>5. CASE Goto(r, "drop")
  <2>1. InFlight' = InFlight /\ \A q \in InFlight' \ {r} : calls'[q] = calls[q]
    BY <1>5 DEF Goto, InFlight
  <2>2. calls'[r] = [c EXCEPT !.at = "drop"]
    BY <1>3, <1>5 DEF Goto, InFlight
  <2>3. calls'[r] = [ask |-> c.ask, at |-> "drop", copy |-> c.copy, drops |-> c.drops]
    BY <1>4, <2>2 DEF CallShape
  <2>4. CallShape(calls'[r]) /\ CallOK(calls'[r]) /\ calls'[r].at # "save"
    BY <1>4, <2>3, SameCopies
  <2>5. QED
    BY <1>2, <2>1, <2>4, StepOnInv
<1>6. CASE Leave(r)
  <2>1. InFlight' = InFlight \ {r} /\ \A q \in InFlight' \ {r} : calls'[q] = calls[q]
    BY <1>6 DEF Leave, InFlight
  <2>2. QED
    BY <1>2, <2>1, StepOnInv
<1>7. QED
  BY <1>5, <1>6 DEF Log

LEMMA GetInv ==
  ASSUME TaskInv, NEW r \in InFlight, Get(r), UNCHANGED office
  PROVE  TaskInv'
<1>1. rows' = rows /\ admitted' = admitted /\ past' = past
  BY DEF Get
<1>2. Quiet
  BY <1>1 DEF Quiet, TaskInv, Shape
<1>3. PICK c : c = calls[r]
  OBVIOUS
<1>4. CallShape(c) /\ CallOK(c)
  BY <1>3 DEF TaskInv
<1>5. PICK t : t = CHOOSE u \in c.ask.on : TRUE
  OBVIOUS
<1>6. CASE Leave(r)
  <2>1. InFlight' = InFlight \ {r} /\ \A q \in InFlight' \ {r} : calls'[q] = calls[q]
    BY <1>6 DEF Leave, InFlight
  <2>2. QED
    BY <1>2, <2>1, StepOnInv
<1>7. CASE ~Leave(r)
  <2>1. calls' = [calls EXCEPT ![r].at = "fill", ![r].copy = [u \in {t} |-> rows[u]]]
    BY <1>3, <1>5, <1>7 DEF Get
  <2>2. InFlight' = InFlight /\ \A q \in InFlight' \ {r} : calls'[q] = calls[q]
    BY <2>1 DEF InFlight
  <2>3. PICK f : f = [u \in {t} |-> rows[u]]
    OBVIOUS
  <2>4. calls'[r] = [c EXCEPT !.at = "fill", !.copy = f]
    BY <1>3, <2>1, <2>3 DEF InFlight
  <2>5. calls'[r] = [ask |-> c.ask, at |-> "fill", copy |-> f, drops |-> c.drops]
    BY <1>4, <2>4 DEF CallShape
  <2>6. t \in Tasks
    <3>1. c.ask \in Writing \cup Reading /\ c.ask.on \subseteq Tasks
      BY <1>4, AskFacts DEF CallShape
    <3>2. c.ask.on # {}
      BY <3>1 DEF Writing, Copying, Reading, Single, Many
    <3>3. (CHOOSE u \in c.ask.on : TRUE) \in c.ask.on
      BY <3>2, Zenon
    <3>4. QED
      BY <1>5, <3>1, <3>3
  <2>7. DOMAIN f \subseteq Tasks /\ \A u \in DOMAIN f : f[u] \in Row /\ CopyOK(u, f[u])
    BY <2>3, <2>6 DEF TaskInv, Shape
  <2>8. CallShape(calls'[r]) /\ CallOK(calls'[r]) /\ calls'[r].at # "save"
    BY <1>4, <2>5, <2>7 DEF CallShape, CallOK
  <2>9. QED
    BY <1>2, <2>2, <2>8, StepOnInv
<1>8. QED
  BY <1>6, <1>7

LEMMA FillInv ==
  ASSUME TaskInv, NEW r \in InFlight, Fill(r), UNCHANGED office
  PROVE  TaskInv'
<1>1. rows' = rows /\ admitted' = admitted
      /\ InFlight' = InFlight \ {r} /\ \A q \in InFlight' \ {r} : calls'[q] = calls[q]
  BY DEF Fill, Leave, InFlight
<1>2. ASSUME NEW t \in Tasks
      PROVE  past[t] \in Past /\ \E s \in BOOLEAN : past'[t] = [past[t] EXCEPT !.stale = s]
  <2>1. past[t] \in Past
    BY DEF TaskInv, Shape
  <2>2. past[t] = [past[t] EXCEPT !.stale = past[t].stale] /\ past[t].stale \in BOOLEAN
    BY <2>1 DEF Past
  <2>3. CASE t \in DOMAIN calls[r].copy
    <3>1. past'[t] = [past[t] EXCEPT !.stale = calls[r].copy[t] # rows[t]]
      BY <2>3 DEF Fill
    <3>2. PICK s : s = (calls[r].copy[t] # rows[t])
      OBVIOUS
    <3>3. past'[t] = [past[t] EXCEPT !.stale = s] /\ s \in BOOLEAN
      BY <3>1, <3>2
    <3>4. QED
      BY <2>1, <3>3
  <2>4. CASE t \notin DOMAIN calls[r].copy
    <3>1. past'[t] = past[t]
      BY <2>4 DEF Fill
    <3>2. QED
      BY <2>1, <2>2, <3>1, Zenon
  <2>5. QED
    BY <2>3, <2>4
<1>3. Quiet
  <2>1. past' = [t \in Tasks |-> past'[t]]
    BY DEF Fill
  <2>2. QED
    BY <1>1, <1>2, <2>1 DEF Quiet, Past
<1>4. QED
  BY <1>1, <1>3, StepOnInv

LEMMA DropInv ==
  ASSUME TaskInv, NEW r \in InFlight, Drop(r), UNCHANGED office
  PROVE  TaskInv'
<1>1. PICK c : c = calls[r]
  OBVIOUS
<1>2. CallShape(c) /\ CallOK(c) /\ c.at = "drop" /\ rows' = rows /\ admitted' = admitted
  BY <1>1 DEF TaskInv, Drop
<1>3. PICK t \in c.drops, works \in BOOLEAN :
        /\ past' = [past EXCEPT ![t].stale = IF works THEN FALSE ELSE @ \/ cache[t] # NoEntry]
        /\ calls' = IF c.drops \ {t} # {} THEN [calls EXCEPT ![r].drops = c.drops \ {t}]
                    ELSE IF Answers(c.ask.kind)
                    THEN [calls EXCEPT ![r].drops = {}, ![r].at = "get"]
                    ELSE [q \in InFlight \ {r} |-> calls[q]]
  BY <1>1 DEF Drop
<1>4. Quiet
  <2>1. past \in [Tasks -> Past]
    BY DEF TaskInv, Shape
  <2>2. PICK s \in BOOLEAN : s = IF works THEN FALSE ELSE past[t].stale \/ cache[t] # NoEntry
    BY <2>1 DEF Past
  <2>3. past' = [past EXCEPT ![t] = [past[t] EXCEPT !.stale = s]]
    BY <1>3, <2>2
  <2>4. past' \in [Tasks -> Past]
    BY <2>1, <2>3 DEF Past
  <2>5. QED
    BY <1>2, <2>1, <2>3, <2>4 DEF Quiet, Past
<1>5. CASE calls' = [calls EXCEPT ![r].drops = c.drops \ {t}]
  <2>1. InFlight' = InFlight /\ \A q \in InFlight' \ {r} : calls'[q] = calls[q]
    BY <1>5 DEF InFlight
  <2>2. calls'[r] = [ask |-> c.ask, at |-> "drop", copy |-> c.copy, drops |-> c.drops \ {t}]
    <3>1. calls'[r] = [c EXCEPT !.drops = c.drops \ {t}]
      BY <1>1, <1>5 DEF InFlight
    <3>2. QED
      BY <1>2, <3>1 DEF CallShape
  <2>3. CallShape(calls'[r]) /\ CallOK(calls'[r]) /\ calls'[r].at # "save"
    BY <1>2, <2>2, SameCopies
  <2>4. QED
    BY <1>4, <2>1, <2>3, StepOnInv
<1>6. CASE calls' = [calls EXCEPT ![r].drops = {}, ![r].at = "get"]
  <2>1. InFlight' = InFlight /\ \A q \in InFlight' \ {r} : calls'[q] = calls[q]
    BY <1>6 DEF InFlight
  <2>2. calls'[r] = [ask |-> c.ask, at |-> "get", copy |-> c.copy, drops |-> {}]
    <3>1. calls'[r] = [c EXCEPT !.drops = {}, !.at = "get"]
      BY <1>1, <1>6 DEF InFlight
    <3>2. QED
      BY <1>2, <3>1 DEF CallShape
  <2>3. CallShape(calls'[r]) /\ CallOK(calls'[r]) /\ calls'[r].at # "save"
    BY <1>2, <2>2, SameCopies
  <2>4. QED
    BY <1>4, <2>1, <2>3, StepOnInv
<1>7. CASE calls' = [q \in InFlight \ {r} |-> calls[q]]
  <2>1. InFlight' = InFlight \ {r} /\ \A q \in InFlight' \ {r} : calls'[q] = calls[q]
    BY <1>7 DEF InFlight
  <2>2. QED
    BY <1>4, <2>1, StepOnInv
<1>8. QED
  BY <1>3, <1>5, <1>6, <1>7

LEMMA FailInv ==
  ASSUME TaskInv, NEW r \in InFlight, Fail(r), UNCHANGED office
  PROVE  TaskInv'
<1>1. /\ rows' = rows /\ admitted' = admitted
      /\ InFlight' = InFlight \ {r} /\ \A q \in InFlight' \ {r} : calls'[q] = calls[q]
  BY DEF Fail, Leave, InFlight
<1>2. ASSUME NEW t \in Tasks
      PROVE  /\ past[t] \in Past
             /\ \E d, s \in BOOLEAN : past'[t] = [past[t] EXCEPT !.disturbed = d, !.stale = s]
  <2>1. past[t] \in Past
    BY DEF TaskInv, Shape
  <2>2. PICK d, s :
          /\ d = (past[t].disturbed \/ (calls[r].at = "log" /\ t \in DOMAIN calls[r].copy))
          /\ s = (past[t].stale \/ (calls[r].at \in {"log", "drop"} /\ t \in calls[r].drops
                                     /\ cache[t] # NoEntry))
    OBVIOUS
  <2>3. past'[t] = [past[t] EXCEPT !.disturbed = d, !.stale = s]
    BY <2>2 DEF Fail
  <2>4. d \in BOOLEAN /\ s \in BOOLEAN
    BY <2>1, <2>2 DEF Past
  <2>5. QED
    BY <2>1, <2>3, <2>4
<1>3. Quiet
  <2>1. past' = [t \in Tasks |-> past'[t]]
    BY DEF Fail
  <2>2. ASSUME NEW t \in Tasks
        PROVE  /\ past'[t] \in Past
               /\ past'[t].start = past[t].start /\ past'[t].seen = past[t].seen
               /\ past'[t].bulked = past[t].bulked /\ past'[t].lost = past[t].lost
               /\ past'[t].unmarked = past[t].unmarked
    <3>1. PICK d \in BOOLEAN, s \in BOOLEAN :
            past'[t] = [past[t] EXCEPT !.disturbed = d, !.stale = s]
      BY <1>2
    <3>2. past[t] \in Past
      BY <1>2
    <3>3. QED
      BY <3>1, <3>2 DEF Past
  <2>3. QED
    BY <1>1, <2>1, <2>2 DEF Quiet
<1>4. QED
  BY <1>1, <1>3, StepOnInv

LEMMA ExpireInv ==
  ASSUME TaskInv, NEW t \in Tasks, Expire(t), UNCHANGED office
  PROVE  TaskInv'
<1>1. past \in [Tasks -> Past]
  BY DEF TaskInv, Shape
<1>2. past' = [past EXCEPT ![t] = [past[t] EXCEPT !.stale = FALSE]]
  BY DEF Expire
<1>3. past' \in [Tasks -> Past]
  BY <1>1, <1>2 DEF Past
<1>4. \A u \in Tasks : /\ past'[u].start = past[u].start /\ past'[u].seen = past[u].seen
                       /\ past'[u].bulked = past[u].bulked /\ past'[u].lost = past[u].lost
                       /\ past'[u].unmarked = past[u].unmarked
  BY <1>1, <1>2 DEF Past
<1>5. rows' = rows /\ admitted' = admitted /\ calls' = calls
  BY DEF Expire
<1>6. InFlight' = InFlight /\ \A q \in InFlight' : CallShape(calls'[q]) /\ CallOK(calls'[q])
  BY <1>5 DEF TaskInv, InFlight
<1>7. QED
  BY <1>3, <1>4, <1>5, <1>6, NoWrite

LEMMA DeskInv ==
  ASSUME TaskInv, DeskNext, UNCHANGED office
  PROVE  TaskInv'
<1>1. CASE Arrive
  BY <1>1, ArriveInv
<1>2. ASSUME NEW r \in InFlight, Proceed(r) PROVE TaskInv'
  BY <1>2, SaveInv, LogInv, GetInv, FillInv, DropInv, FailInv DEF Proceed
<1>3. ASSUME NEW t \in Tasks, Expire(t) PROVE TaskInv'
  BY <1>3, ExpireInv
<1>4. CASE Time
  <2>1. rows' = rows /\ admitted' = admitted /\ calls' = calls /\ past' = past
    BY <1>4 DEF Time, desk
  <2>2. InFlight' = InFlight /\ \A q \in InFlight' : CallShape(calls'[q]) /\ CallOK(calls'[q])
    BY <2>1 DEF TaskInv, InFlight
  <2>3. past' \in [Tasks -> Past]
    BY <2>1 DEF TaskInv, Shape
  <2>4. QED
    BY <2>1, <2>2, <2>3, NoWrite
<1>5. QED
  BY <1>1, <1>2, <1>3, <1>4 DEF DeskNext

-----------------------------------------------------------------------------
(***************************************************************************)
(* The steps of the scheduler.                                             *)
(***************************************************************************)

\* A step of the scheduler changes no request, and no row except its mark of a breach.
LEMMA SchedulerInv ==
  ASSUME TaskInv, calls' = calls, admitted' = admitted,
         rows' \in [Tasks -> Row], past' \in [Tasks -> Past], escalated' \in [Tasks -> Nat],
         sched'.at \in {"idle", "find", "mark", "log"}, sched'.page \subseteq Tasks,
         sched' = [at |-> sched'.at, now |-> sched'.now, offset |-> sched'.offset,
                   page |-> sched'.page],
         \A t \in Tasks :
           /\ rows'[t].status = rows[t].status /\ rows'[t].dated = rows[t].dated
           /\ past'[t].start = past[t].start /\ past'[t].seen = past[t].seen
           /\ past'[t].bulked = past[t].bulked /\ past'[t].unmarked = past[t].unmarked
           /\ Explained(t) => Explained(t)'
           /\ rows'[t].breached => rows[t].breached \/ Explained(t)'
           /\ Covered(t)'
  PROVE  TaskInv'
<1>1. Grows
  BY DEF Grows, Explained, Pending
<1>2. InFlight' = InFlight
  BY DEF InFlight
<1>3. Shape'
  BY <1>2 DEF TaskInv, Shape
<1>4. ASSUME NEW t \in Tasks PROVE CopyOK(t, rows[t])' /\ Earned(t)' /\ Covered(t)'
  <2>1. CopyOK(t, rows[t]) /\ Earned(t)
    BY DEF TaskInv
  <2>2. CopyOK(t, rows[t])'
    BY <2>1 DEF CopyOK
  <2>3. Earned(t)'
    BY <2>1 DEF Earned
  <2>4. QED
    BY <2>2, <2>3
<1>5. ASSUME NEW q \in InFlight' PROVE CallShape(calls[q])' /\ CallOK(calls[q])'
  <2>1. PICK d : d = calls[q]
    OBVIOUS
  <2>2. CallShape(d)' /\ CallOK(d)'
    BY <1>1, <1>2, <2>1, CallStays DEF TaskInv
  <2>3. QED
    BY <2>1, <2>2 DEF CallShape, CallOK, CopyOK, Explained, Pending
<1>6. QED
  BY <1>3, <1>4, <1>5 DEF TaskInv

LEMMA TickInv == TaskInv /\ Tick => TaskInv'
<1> SUFFICES ASSUME TaskInv, Tick PROVE TaskInv'
  OBVIOUS
<1>1. /\ rows' = rows /\ calls' = calls /\ admitted' = admitted /\ past' = past
      /\ escalated' = escalated /\ sched.at = "idle" /\ sched'.at = "find" /\ sched'.page = {}
  BY DEF Tick, desk
<1>2. /\ rows' \in [Tasks -> Row] /\ past' \in [Tasks -> Past] /\ escalated' \in [Tasks -> Nat]
  BY <1>1 DEF TaskInv, Shape
<1>3. \A t \in Tasks : /\ Explained(t) => Explained(t)'
                       /\ rows'[t].breached => rows[t].breached \/ Explained(t)'
                       /\ Covered(t)'
  BY <1>1 DEF TaskInv, Explained, Covered, Pending
<1>4. sched' = [at |-> sched'.at, now |-> sched'.now, offset |-> sched'.offset,
              page |-> sched'.page]
  BY DEF Tick
<1>5. QED
  BY <1>1, <1>2, <1>3, <1>4, SchedulerInv

\* A page is of tasks that are not marked.
LEMMA FindPageInv == TaskInv /\ FindPage => TaskInv'
<1> SUFFICES ASSUME TaskInv, FindPage PROVE TaskInv'
  OBVIOUS
<1>1. /\ rows' = rows /\ calls' = calls /\ admitted' = admitted /\ past' = past
      /\ escalated' = escalated /\ sched.at = "find"
  BY DEF FindPage, desk
<1>2. PICK page \in Pages({t \in Tasks : Overdue(t, sched.now)}, sched.offset, BREACH_BATCH_SIZE) :
        sched' = IF page = {} THEN Idle ELSE [sched EXCEPT !.at = "mark", !.page = page]
  BY DEF FindPage
<1>3. page \subseteq Tasks /\ \A t \in page : ~rows[t].breached
  BY <1>2 DEF Pages, Overdue
<1>4. /\ sched'.at \in {"idle", "mark"} /\ sched'.page \subseteq Tasks
      /\ sched'.at = "mark" => sched'.page = page
  <2>1. CASE page = {}
    BY <1>2, <2>1 DEF Idle
  <2>2. CASE page # {}
    <3>1. sched' = [sched EXCEPT !.at = "mark", !.page = page]
      BY <1>2, <2>2
    <3>2. sched'.at = "mark" /\ sched'.page = page
      BY <3>1 DEF TaskInv, Shape
    <3>3. QED
      BY <1>3, <3>2
  <2>3. QED
    BY <2>1, <2>2
<1>5. /\ rows' \in [Tasks -> Row] /\ past' \in [Tasks -> Past] /\ escalated' \in [Tasks -> Nat]
  BY <1>1 DEF TaskInv, Shape
<1>6. ASSUME NEW t \in Tasks
      PROVE  /\ Explained(t) => Explained(t)'
             /\ rows'[t].breached => rows[t].breached \/ Explained(t)'
             /\ Covered(t)'
  BY <1>1, <1>3, <1>4 DEF TaskInv, Explained, Covered, Pending
<1>7. sched' = [at |-> sched'.at, now |-> sched'.now, offset |-> sched'.offset,
              page |-> sched'.page]
  <2>1. CASE page = {}
    BY <1>2, <2>1 DEF Idle
  <2>2. CASE page # {}
    BY <1>2, <2>2 DEF TaskInv, Shape
  <2>3. QED
    BY <2>1, <2>2
<1>8. QED
  BY <1>1, <1>4, <1>5, <1>6, <1>7, SchedulerInv

LEMMA MarkPageInv == TaskInv /\ MarkPage => TaskInv'
<1> SUFFICES ASSUME TaskInv, MarkPage PROVE TaskInv'
  OBVIOUS
<1>1. /\ calls' = calls /\ admitted' = admitted /\ escalated' = escalated
      /\ sched.at = "mark" /\ sched'.at = "log" /\ sched'.page = sched.page
  BY DEF MarkPage, TaskInv, Shape
<1>2. ASSUME NEW t \in Tasks
      PROVE  /\ rows'[t] \in Row /\ past'[t] \in Past
             /\ rows'[t].status = rows[t].status /\ rows'[t].dated = rows[t].dated
             /\ past'[t].start = past[t].start /\ past'[t].seen = past[t].seen
             /\ past'[t].bulked = past[t].bulked /\ past'[t].unmarked = past[t].unmarked
             /\ past'[t].lost = past[t].lost
             /\ IF t \in sched.page THEN rows'[t].breached ELSE rows'[t] = rows[t]
  <2>1. rows[t] \in Row /\ past[t] \in Past
    BY DEF TaskInv, Shape
  <2>2. CASE t \notin sched.page
    BY <2>1, <2>2 DEF MarkPage
  <2>3. CASE t \in sched.page
    <3>1. PICK s : s = (past[t].stale \/ cache[t] # NoEntry)
      OBVIOUS
    <3>2. /\ rows'[t] = [rows[t] EXCEPT !.breached = TRUE]
          /\ past'[t] = [past[t] EXCEPT !.stale = s] /\ s \in BOOLEAN
      BY <2>1, <2>3, <3>1 DEF MarkPage, Past
    <3>3. QED
      BY <2>1, <2>3, <3>2 DEF Row, Past
  <2>4. QED
    BY <2>2, <2>3
<1>3. /\ rows' \in [Tasks -> Row] /\ past' \in [Tasks -> Past] /\ escalated' \in [Tasks -> Nat]
      /\ sched'.page \subseteq Tasks
  BY <1>1, <1>2 DEF MarkPage, TaskInv, Shape
<1>4. ASSUME NEW t \in Tasks
      PROVE  /\ Explained(t) => Explained(t)'
             /\ rows'[t].breached => rows[t].breached \/ Explained(t)'
             /\ Covered(t)'
  <2>1. /\ escalated[t] \in Nat /\ past[t].unmarked \in Nat /\ Covered(t) /\ ~Pending(t)
        /\ Pending(t)' <=> t \in sched.page
    BY <1>1 DEF TaskInv, Shape, Past, Pending
  <2>2. Explained(t) => Explained(t)'
    BY <1>1, <1>2 DEF Explained, Pending
  <2>3. rows'[t].breached => rows[t].breached \/ Explained(t)'
    BY <1>2, <2>1 DEF Explained
  <2>4. Covered(t)'
    BY <1>1, <1>2, <2>1 DEF Covered
  <2>5. QED
    BY <2>2, <2>3, <2>4
<1>5. sched' = [at |-> sched'.at, now |-> sched'.now, offset |-> sched'.offset,
              page |-> sched'.page]
  BY DEF MarkPage, TaskInv, Shape
<1>6. QED
  BY <1>1, <1>2, <1>3, <1>4, <1>5, SchedulerInv

LEMMA LogPageInv == TaskInv /\ LogPage => TaskInv'
<1> SUFFICES ASSUME TaskInv, LogPage PROVE TaskInv'
  OBVIOUS
<1>1. /\ rows' = rows /\ calls' = calls /\ admitted' = admitted /\ past' = past
      /\ sched.at = "log"
      /\ escalated' = [t \in Tasks |-> escalated[t] + (IF t \in sched.page THEN 1 ELSE 0)]
  BY DEF LogPage, desk
<1>2. sched'.at \in {"idle", "find"} /\ sched'.page = {}
  <2>1. CASE sched' = Idle
    BY <2>1 DEF Idle
  <2>2. CASE sched' = [sched EXCEPT !.at = "find", !.page = {}, !.offset = @ + BREACH_BATCH_SIZE]
    BY <2>2 DEF TaskInv, Shape
  <2>3. QED
    BY <2>1, <2>2 DEF LogPage
<1>3. /\ rows' \in [Tasks -> Row] /\ past' \in [Tasks -> Past] /\ escalated' \in [Tasks -> Nat]
  BY <1>1 DEF TaskInv, Shape
<1>4. ASSUME NEW t \in Tasks
      PROVE  /\ Explained(t) => Explained(t)'
             /\ rows'[t].breached => rows[t].breached \/ Explained(t)'
             /\ Covered(t)'
  <2>1. /\ escalated[t] \in Nat /\ Covered(t) /\ ~Pending(t)'
        /\ Pending(t) <=> t \in sched.page
        /\ escalated'[t] = escalated[t] + (IF t \in sched.page THEN 1 ELSE 0)
    BY <1>1, <1>2 DEF TaskInv, Shape, Pending
  <2>2. Explained(t) => Explained(t)'
    BY <1>1, <2>1 DEF Explained
  <2>3. Covered(t)'
    BY <1>1, <1>2, <2>1 DEF Covered
  <2>4. QED
    BY <1>1, <2>2, <2>3
<1>5. sched' = [at |-> sched'.at, now |-> sched'.now, offset |-> sched'.offset,
              page |-> sched'.page]
  <2>1. CASE sched' = Idle
    BY <2>1 DEF Idle
  <2>2. CASE sched' = [sched EXCEPT !.at = "find", !.page = {}, !.offset = @ + BREACH_BATCH_SIZE]
    BY <2>2 DEF TaskInv, Shape
  <2>3. QED
    BY <2>1, <2>2 DEF LogPage
<1>6. QED
  BY <1>1, <1>2, <1>3, <1>4, <1>5, SchedulerInv

LEMMA TickFailsInv == TaskInv /\ TickFails => TaskInv'
<1> SUFFICES ASSUME TaskInv, TickFails PROVE TaskInv'
  OBVIOUS
<1>1. /\ rows' = rows /\ calls' = calls /\ admitted' = admitted /\ escalated' = escalated
      /\ sched'.at = "idle" /\ sched'.page = {}
  BY DEF TickFails, Idle
<1>2. ASSUME NEW t \in Tasks
      PROVE  /\ past'[t] \in Past
             /\ past'[t].start = past[t].start /\ past'[t].seen = past[t].seen
             /\ past'[t].bulked = past[t].bulked /\ past'[t].unmarked = past[t].unmarked
             /\ past'[t].lost = (past[t].lost \/ Pending(t))
  <2>1. past[t] \in Past
    BY DEF TaskInv, Shape
  <2>2. PICK l : l = (past[t].lost \/ (sched.at = "log" /\ t \in sched.page))
    OBVIOUS
  <2>3. past'[t] = [past[t] EXCEPT !.lost = l] /\ l \in BOOLEAN
    BY <2>1, <2>2 DEF TickFails, Past
  <2>4. QED
    BY <2>1, <2>2, <2>3 DEF Past, Pending
<1>3. /\ rows' \in [Tasks -> Row] /\ past' \in [Tasks -> Past] /\ escalated' \in [Tasks -> Nat]
  BY <1>1, <1>2 DEF TickFails, TaskInv, Shape
<1>4. ASSUME NEW t \in Tasks
      PROVE  /\ Explained(t) => Explained(t)'
             /\ rows'[t].breached => rows[t].breached \/ Explained(t)'
             /\ Covered(t)'
  <2>1. /\ escalated[t] \in Nat /\ past[t].unmarked \in Nat /\ Covered(t) /\ ~Pending(t)'
    BY <1>1 DEF TaskInv, Shape, Past, Pending
  <2>2. Explained(t) => Explained(t)'
    BY <1>1, <1>2 DEF Explained
  <2>3. Covered(t)'
    BY <1>1, <1>2, <2>1 DEF Covered
  <2>4. QED
    BY <1>1, <2>2, <2>3
<1>5. sched' = [at |-> sched'.at, now |-> sched'.now, offset |-> sched'.offset,
              page |-> sched'.page]
  BY DEF TickFails, Idle
<1>6. QED
  BY <1>1, <1>2, <1>3, <1>4, <1>5, SchedulerInv

LEMMA StutterInv == TaskInv /\ UNCHANGED vars => TaskInv'
<1> SUFFICES ASSUME TaskInv, UNCHANGED vars PROVE TaskInv'
  OBVIOUS
<1>1. /\ rows' = rows /\ admitted' = admitted /\ calls' = calls /\ past' = past
      /\ UNCHANGED office
  BY DEF vars, office
<1>2. InFlight' = InFlight /\ \A q \in InFlight' : CallShape(calls'[q]) /\ CallOK(calls'[q])
  BY <1>1 DEF TaskInv, InFlight
<1>3. past' \in [Tasks -> Past]
  BY <1>1 DEF TaskInv, Shape
<1>4. QED
  BY <1>1, <1>2, <1>3, NoWrite

-----------------------------------------------------------------------------
LEMMA TaskStep == TaskInv /\ [EscalationNext]_vars => TaskInv'
BY DeskInv, TickInv, FindPageInv, MarkPageInv, LogPageInv, TickFailsInv, StutterInv
DEF EscalationNext, Scheduler

LEMMA TaskInvHolds == EscalationSpec => []TaskInv
BY InitInv, TaskStep, PTL DEF EscalationSpec

\* Whatever requests overlap and whatever stale copies they save, a task only ever has a status
\* that it started with, that an assignment gives, or that the workflow allows after one it had.
THEOREM StatusEarned == EscalationSpec => []StatusIsEarned
<1>1. TaskInv => StatusIsEarned
  BY DEF TaskInv, CopyOK, Earned, StatusIsEarned
<1>2. QED
  BY <1>1, TaskInvHolds, PTL

\* A completed or closed task that no bulk change touched has the date, also after saves of
\* stale copies.
THEOREM CompletionDated == EscalationSpec => []CompletionIsDated
<1>1. TaskInv => CompletionIsDated
  BY DEF TaskInv, CopyOK, CompletionIsDated
<1>2. QED
  BY <1>1, TaskInvHolds, PTL

\* The history of escalations accounts for the marks, for any page size and any overlap of the
\* scheduler with requests.
THEOREM EscalationsCounted == EscalationSpec => []EscalationsAddUp
<1>1. TaskInv => EscalationsAddUp
  <2> SUFFICES ASSUME TaskInv, NEW t \in Tasks
               PROVE  /\ rows[t].breached
                           => escalated[t] > 0 \/ past[t].lost
                                \/ (sched.at = "log" /\ t \in sched.page)
                      /\ escalated[t] <= 1 + past[t].unmarked
    BY DEF EscalationsAddUp
  <2>1. /\ CopyOK(t, rows[t]) /\ Covered(t)
        /\ escalated[t] \in Nat /\ past[t].unmarked \in Nat
    BY DEF TaskInv, Shape, Past
  <2>2. QED
    BY <2>1 DEF CopyOK, Explained, Covered, Pending
<1>2. QED
  BY <1>1, TaskInvHolds, PTL

-----------------------------------------------------------------------------
(***************************************************************************)
(* The copies of a status.  A request is at work on a task from its        *)
(* reading to its history row.  While a task is not disturbed at most one  *)
(* request is at work on it, so the copy that request holds is up to date  *)
(* until it is saved, and afterwards the history is one row behind.  What  *)
(* bulkAssign tells of a task that it did not find is told of a deleted    *)
(* one, and a task that nobody disturbs stays deleted.                     *)
(***************************************************************************)
Telling == {"status", "bulkStatus", "assign", "bulkAssign"}

Busy(c, t) == c.ask.kind # "read" /\ t \in DOMAIN c.copy /\ c.at \in {"save", "log"}

\* The history tells the status of a task, or an assignment that came after its deletion.
Tells(t) == told[t] = rows[t].status \/ (rows[t].deleted /\ told[t] = "assigned")

\* What the history tells, or will tell once the request has written its row.
ToldBy(t, c) ==
  \/ /\ c.at = "save" /\ Tells(t)
     /\ c.copy[t].status = rows[t].status /\ c.copy[t].deleted = rows[t].deleted
  \/ /\ c.at = "log"
     /\ IF c.ask.kind \in Telling THEN rows[t].status = c.ask.to ELSE Tells(t)

HistoryFits(t) ==
  \/ past[t].disturbed
  \/ /\ \A q, r \in Using(t) : q = r
     /\ \A r \in Using(t) : \A c \in {calls[r]} : ToldBy(t, c)
     /\ Using(t) = {} => Tells(t)

\* A task that bulkAssign was asked for and did not find.
Missing(c, t) ==
  /\ c.ask.kind = "bulkAssign" /\ c.at \in {"save", "log"}
  /\ t \in c.ask.on \ DOMAIN c.copy

Excused(t) == past[t].disturbed \/ rows[t].deleted

Dropping(c, t) == c.at \in {"log", "drop"} /\ t \in c.drops

CacheFits(t) ==
  \/ past[t].stale
  \/ \E r \in InFlight : Dropping(calls[r], t)
  \/ cache[t] \in {NoEntry, rows[t]}

\* A request holds copies of tasks that it was asked for.
Within(c) == c.ask.kind = "bulkAssign" /\ c.at \in {"save", "log"} => DOMAIN c.copy \subseteq c.ask.on

\* A request that invalidates will drop every task it writes.
Covers(c) == c.at = "save" /\ Drops(c.ask.kind) => DOMAIN c.copy \subseteq c.drops

CopiesInv ==
  /\ DOMAIN cache = Tasks
  /\ \A t \in Tasks : HistoryFits(t) /\ CacheFits(t)
  /\ \A r \in InFlight : Covers(calls[r]) /\ Within(calls[r])
  /\ \A r \in InFlight, t \in Tasks : Missing(calls[r], t) => Excused(t)

LEMMA CopiesInit == EscalationInit => CopiesInv
<1> SUFFICES ASSUME EscalationInit PROVE CopiesInv
  OBVIOUS
<1>1. InFlight = {} /\ cache = [t \in Tasks |-> NoEntry]
      /\ \A t \in Tasks : told[t] = rows[t].status
  BY DEF EscalationInit, DeskInit, InFlight
<1>2. \A t \in Tasks : Using(t) = {}
  BY <1>1 DEF Using
<1>3. QED
  BY <1>1, <1>2 DEF CopiesInv, HistoryFits, CacheFits, Tells

LEMMA UsingIs ==
  ASSUME NEW t, NEW r
  PROVE  r \in Using(t) <=> r \in InFlight /\ Busy(calls[r], t)
BY DEF Using, Busy

\* A step that leaves a task alone, or tells of an assignment after its deletion.
Unwritten(t) ==
  /\ rows'[t].status = rows[t].status /\ rows'[t].deleted = rows[t].deleted
  /\ told'[t] = told[t] \/ (rows[t].deleted /\ told'[t] = "assigned")

LEMMA UnwrittenTells ==
  ASSUME NEW t, Unwritten(t), Tells(t)
  PROVE  Tells(t)'
BY DEF Unwritten, Tells

LEMMA UnwrittenTold ==
  ASSUME NEW t, NEW c, Unwritten(t), ToldBy(t, c)
  PROVE  ToldBy(t, c)'
BY UnwrittenTells DEF Unwritten, ToldBy

\* The request c becomes d, or leaves: what must be true of t afterwards, unless it is disturbed.
HistoryFollows(t, c, d) ==
  IF Busy(c, t)
  THEN IF Busy(d, t) THEN ToldBy(t, d)' ELSE Tells(t)'
  ELSE ~Busy(d, t) /\ Unwritten(t)

\* One request goes on as d or leaves; the others stay where they are.
OneMoves(r, d) ==
  /\ InFlight' \subseteq InFlight
  /\ \A q \in InFlight \ {r} : q \in InFlight' /\ calls'[q] = calls[q]
  /\ r \in InFlight' => calls'[r] = d
  /\ r \notin InFlight' => d.at = "left"

LEMMA HistoryStep ==
  ASSUME NEW t \in Tasks, HistoryFits(t), NEW r \in InFlight, NEW c, c = calls[r], NEW d,
         OneMoves(r, d),
         past[t].disturbed => past'[t].disturbed,
         past'[t].disturbed \/ ((Busy(c, t) => ToldBy(t, c)) => HistoryFollows(t, c, d))
  PROVE  HistoryFits(t)'
<1>1. SUFFICES ASSUME ~past'[t].disturbed
               PROVE  /\ \A q, u \in Using(t)' : q = u
                      /\ \A q \in Using(t)' : \A x \in {calls'[q]} : ToldBy(t, x)'
                      /\ Using(t)' = {} => Tells(t)'
  BY DEF HistoryFits
<1>2. /\ \A q, u \in Using(t) : q = u
      /\ \A q \in Using(t) : \A x \in {calls[q]} : ToldBy(t, x)
      /\ Using(t) = {} => Tells(t)
  BY <1>1 DEF HistoryFits
<1>3. Busy(c, t) => ToldBy(t, c)
  BY <1>2, UsingIs
<1>4. HistoryFollows(t, c, d)
  BY <1>1, <1>3
<1>5. \A q : q \in Using(t)' <=> q \in InFlight' /\ Busy(calls'[q], t)
  BY DEF Using, Busy
<1>6. \A q \in Using(t)' : q # r => q \in Using(t) /\ calls'[q] = calls[q]
  BY <1>5, UsingIs DEF OneMoves
<1>7. CASE Busy(c, t)
  <2>1. Using(t) = {r}
    BY <1>2, <1>7, UsingIs
  <2>2. Using(t)' \subseteq {r}
    BY <1>6, <2>1
  <2>3. CASE Busy(d, t)
    <3>1. r \in InFlight' /\ calls'[r] = d
      BY <2>3 DEF OneMoves, Busy
    <3>2. ToldBy(t, d)'
      BY <1>4, <1>7, <2>3 DEF HistoryFollows
    <3>3. Using(t)' = {r}
      BY <1>5, <2>2, <2>3, <3>1
    <3>4. QED
      BY <3>1, <3>2, <3>3
  <2>4. CASE ~Busy(d, t)
    <3>1. Using(t)' = {}
      BY <1>5, <2>2, <2>4 DEF OneMoves
    <3>2. Tells(t)'
      BY <1>4, <1>7, <2>4 DEF HistoryFollows
    <3>3. QED
      BY <3>1, <3>2
  <2>5. QED
    BY <2>3, <2>4
<1>8. CASE ~Busy(c, t)
  <2>1. ~Busy(d, t) /\ Unwritten(t)
    BY <1>4, <1>8 DEF HistoryFollows
  <2>2. r \notin Using(t)' /\ r \notin Using(t)
    BY <1>5, <1>8, <2>1, UsingIs DEF OneMoves
  <2>3. Using(t)' = Using(t)
    <3>1. \A q \in Using(t) : q \in Using(t)'
      BY <1>5, <2>2, UsingIs DEF OneMoves
    <3>2. QED
      BY <1>6, <2>2, <3>1
  <2>4. ASSUME NEW q \in Using(t)', NEW x \in {calls'[q]}
        PROVE  ToldBy(t, x)'
    <3>1. ToldBy(t, x)
      BY <1>2, <1>6, <2>2, <2>4
    <3>2. QED
      BY <2>1, <3>1, UnwrittenTold
  <2>5. QED
    BY <1>2, <2>1, <2>3, <2>4, UnwrittenTells
<1>9. QED
  BY <1>7, <1>8

LEMMA CacheStep ==
  ASSUME NEW t \in Tasks, CacheFits(t), NEW r \in InFlight, NEW c, c = calls[r], NEW d,
         OneMoves(r, d),
         \/ past'[t].stale
         \/ cache'[t] \in {NoEntry, rows'[t]}
         \/ r \in InFlight' /\ Dropping(d, t)
         \/ /\ past[t].stale => past'[t].stale
            /\ cache'[t] = cache[t] /\ rows'[t] = rows[t] /\ ~Dropping(c, t)
  PROVE  CacheFits(t)'
<1>1. CASE r \in InFlight' /\ Dropping(d, t)
  BY <1>1 DEF OneMoves, CacheFits, Dropping
<1>2. CASE /\ past[t].stale => past'[t].stale
           /\ cache'[t] = cache[t] /\ rows'[t] = rows[t] /\ ~Dropping(c, t)
  <2>1. CASE \E q \in InFlight : Dropping(calls[q], t)
    <3>1. PICK q \in InFlight : Dropping(calls[q], t)
      BY <2>1
    <3>2. q \in InFlight' /\ calls'[q] = calls[q]
      BY <1>2, <3>1 DEF OneMoves
    <3>3. QED
      BY <3>1, <3>2 DEF CacheFits, Dropping
  <2>2. QED
    BY <1>2, <2>1 DEF CacheFits
<1>3. QED
  BY <1>1, <1>2 DEF CacheFits

\* Both at once, for every task.
Follows(t, c, d, stays) ==
  /\ past[t].disturbed => past'[t].disturbed
  /\ past'[t].disturbed \/ (rows[t].deleted => rows'[t].deleted)
  /\ past'[t].disturbed \/ ((Busy(c, t) => ToldBy(t, c)) => HistoryFollows(t, c, d))
  /\ \/ past'[t].stale
     \/ cache'[t] \in {NoEntry, rows'[t]}
     \/ stays /\ Dropping(d, t)
     \/ /\ past[t].stale => past'[t].stale
        /\ cache'[t] = cache[t] /\ rows'[t] = rows[t] /\ ~Dropping(c, t)

LEMMA CopiesStep ==
  ASSUME CopiesInv, NEW r \in InFlight, NEW c, c = calls[r], NEW d, OneMoves(r, d), d.at # "save",
         d.at = "log" => c.at = "save" /\ d.ask = c.ask /\ d.copy = c.copy,
         DOMAIN cache' = Tasks, \A t \in Tasks : Follows(t, c, d, r \in InFlight')
  PROVE  CopiesInv'
<1>1. ASSUME NEW t \in Tasks PROVE HistoryFits(t)' /\ CacheFits(t)'
  <2>1. HistoryFits(t) /\ CacheFits(t) /\ Follows(t, c, d, r \in InFlight')
    BY DEF CopiesInv
  <2>2. HistoryFits(t)'
    BY <2>1, HistoryStep DEF Follows
  <2>3. CacheFits(t)'
    BY <2>1, CacheStep DEF Follows
  <2>4. QED
    BY <2>2, <2>3
<1>2. ASSUME NEW q \in InFlight' PROVE Covers(calls'[q]) /\ Within(calls'[q])
  BY DEF OneMoves, CopiesInv, Covers, Within
<1>3. ASSUME NEW q \in InFlight', NEW t \in Tasks, Missing(calls'[q], t) PROVE Excused(t)'
  <2>1. Missing(calls[q], t) /\ q \in InFlight
    BY <1>3 DEF OneMoves, Missing
  <2>2. Excused(t) /\ Follows(t, c, d, r \in InFlight')
    BY <2>1 DEF CopiesInv
  <2>3. QED
    BY <2>2 DEF Excused, Follows
<1>4. QED
  BY <1>1, <1>2, <1>3 DEF CopiesInv, Covers, Within, Missing

\* A request as it goes on with the copies it has, or leaves.
Becomes(c, at, drops) == [ask |-> c.ask, at |-> at, copy |-> c.copy, drops |-> drops]

LEMMA BecomesIs ==
  ASSUME NEW c, NEW at, NEW drops, NEW d, d = Becomes(c, at, drops)
  PROVE  d.ask = c.ask /\ d.at = at /\ d.copy = c.copy /\ d.drops = drops
BY DEF Becomes

LEMMA GoesOn ==
  ASSUME TaskInv, NEW r \in InFlight, NEW c, c = calls[r], NEW at, Goto(r, at),
         NEW d, d = Becomes(c, at, c.drops)
  PROVE  OneMoves(r, d) /\ r \in InFlight'
<1>1. InFlight' = InFlight /\ \A q \in InFlight \ {r} : calls'[q] = calls[q]
  BY DEF Goto, InFlight
<1>2. calls'[r] = [c EXCEPT !.at = at]
  BY DEF Goto, InFlight
<1>3. c = [ask |-> c.ask, at |-> c.at, copy |-> c.copy, drops |-> c.drops]
  BY DEF TaskInv, CallShape
<1>4. calls'[r] = d
  BY <1>2, <1>3 DEF Becomes
<1>5. QED
  BY <1>1, <1>4 DEF OneMoves

LEMMA GoesAway ==
  ASSUME NEW r \in InFlight, NEW c, Leave(r), NEW d, d = Becomes(c, "left", {})
  PROVE  OneMoves(r, d) /\ r \notin InFlight' /\ d.at = "left"
<1>1. InFlight' = InFlight \ {r} /\ \A q \in InFlight \ {r} : calls'[q] = calls[q]
  BY DEF Leave, InFlight
<1>2. QED
  BY <1>1, BecomesIs DEF OneMoves

\* What saving the copy of c, or writing on its row, makes of a task.
SavedAs(c, t) ==
  /\ c.ask.kind \in Telling => rows'[t].status = c.ask.to
  /\ c.ask.kind \notin Telling => rows'[t].status \in {c.copy[t].status, rows[t].status}
  /\ rows'[t].deleted \in {c.copy[t].deleted, rows[t].deleted, TRUE}

LEMMA SavedCopies ==
  ASSUME TaskInv, CopiesInv, NEW r \in InFlight, NEW c, c = calls[r], NEW S, S = DOMAIN c.copy,
         AfterSave(r, S), c.at = "save", c.ask.kind # "read",
         \A t \in Tasks \ S : rows'[t] = rows[t],
         \A t \in S : SavedAs(c, t)
  PROVE  CopiesInv'
<1>0. /\ c.ask.kind \in Telling => \A t \in S : rows'[t].status = c.ask.to
      /\ c.ask.kind \notin Telling =>
           \A t \in S : rows'[t].status \in {c.copy[t].status, rows[t].status}
      /\ \A t \in S : rows'[t].deleted \in {c.copy[t].deleted, rows[t].deleted, TRUE}
  BY DEF SavedAs
<1>1. PICK d : d = Becomes(c, IF c.ask.kind = "move" THEN "get" ELSE "log", c.drops)
  OBVIOUS
<1>2. OneMoves(r, d) /\ r \in InFlight'
  <2>1. PICK at : at = IF c.ask.kind = "move" THEN "get" ELSE "log"
    OBVIOUS
  <2>2. Goto(r, at) /\ d = Becomes(c, at, c.drops)
    BY <1>1, <2>1 DEF AfterSave
  <2>3. QED
    BY <2>2, GoesOn
<1>3. /\ d.ask = c.ask /\ d.copy = c.copy /\ d.drops = c.drops
      /\ d.at = IF c.ask.kind = "move" THEN "get" ELSE "log"
  BY <1>1, BecomesIs
<1>4. told' = told /\ cache' = cache /\ DOMAIN cache' = Tasks
  BY DEF AfterSave, CopiesInv
<1>5. ASSUME NEW t \in Tasks
      PROVE  /\ past'[t].disturbed = past[t].disturbed
             /\ t \notin S => past'[t].stale = past[t].stale
             /\ t \in S => past'[t].stale = (past[t].stale \/ Missed(c.ask, t))
  <2>1. PICK p \in Past : p = past[t]
    BY DEF TaskInv, Shape
  <2>2. CASE t \notin S
    BY <2>2 DEF AfterSave
  <2>3. CASE t \in S
    <3>1. PICK b, m, u, e :
            /\ b = (p.bulked \/ c.ask.kind = "bulkStatus") /\ m = (p.stale \/ Missed(c.ask, t))
            /\ u = p.unmarked + (IF rows[t].breached /\ ~rows'[t].breached THEN 1 ELSE 0)
            /\ e = p.seen \cup {rows'[t].status}
      OBVIOUS
    <3>2. past'[t] = [p EXCEPT !.seen = e, !.bulked = b, !.unmarked = u, !.stale = m]
      BY <2>1, <2>3, <3>1, Zenon DEF AfterSave
    <3>3. past'[t].disturbed = p.disturbed /\ past'[t].stale = m
      BY <3>2 DEF Past
    <3>4. QED
      BY <2>1, <2>3, <3>1, <3>3
  <2>4. QED
    BY <2>2, <2>3
<1>6. ASSUME NEW t \in Tasks \ S PROVE Follows(t, c, d, r \in InFlight')
  <2>1. ~Busy(c, t) /\ ~Busy(d, t) /\ ~Dropping(c, t)
    BY <1>3 DEF Busy, Dropping
  <2>2. rows'[t] = rows[t] /\ past'[t].disturbed = past[t].disturbed
        /\ past'[t].stale = past[t].stale
    BY <1>5
  <2>3. QED
    BY <1>4, <2>1, <2>2 DEF Follows, HistoryFollows, Unwritten
<1>7. ASSUME NEW t \in S, t \in Tasks PROVE Follows(t, c, d, r \in InFlight')
  <2>1. Busy(c, t)
    BY <1>7 DEF Busy
  <2>2. ASSUME ToldBy(t, c) PROVE HistoryFollows(t, c, d)
    <3>1. c.copy[t].status = rows[t].status /\ c.copy[t].deleted = rows[t].deleted
          /\ Tells(t) /\ told'[t] = told[t]
      BY <1>4, <2>2 DEF ToldBy
    <3>2. CASE c.ask.kind \in Telling
      <4>1. d.at = "log" /\ rows'[t].status = d.ask.to /\ Busy(d, t)
        BY <1>0, <1>3, <1>7, <3>2 DEF Telling, Busy
      <4>2. QED
        BY <1>3, <2>1, <3>2, <4>1 DEF HistoryFollows, ToldBy
    <3>3. CASE c.ask.kind \notin Telling
      <4>0. rows'[t].status = rows[t].status /\ (rows[t].deleted => rows'[t].deleted)
        BY <1>0, <1>7, <3>1, <3>3
      <4>1. Tells(t)'
        BY <3>1, <4>0 DEF Tells
      <4>2. d.at = "log" \/ ~Busy(d, t)
        BY <1>3 DEF Busy
      <4>3. QED
        BY <1>3, <2>1, <3>3, <4>1, <4>2 DEF HistoryFollows, ToldBy
    <3>4. QED
      BY <3>2, <3>3
  <2>6. past'[t].disturbed \/ (rows[t].deleted => rows'[t].deleted)
    <3>1. past[t].disturbed \/ ToldBy(t, c)
      BY <1>7, <2>1, UsingIs DEF CopiesInv, HistoryFits
    <3>2. ToldBy(t, c) => c.copy[t].deleted = rows[t].deleted
      BY DEF ToldBy
    <3>3. QED
      BY <1>0, <1>5, <1>7, <3>1, <3>2
  <2>3. CASE Drops(c.ask.kind)
    <3>1. t \in d.drops /\ d.at = "log"
      BY <1>3, <1>7, <2>3 DEF CopiesInv, Covers, Drops
    <3>2. QED
      BY <1>2, <1>5, <1>7, <2>1, <2>2, <2>6, <3>1 DEF Follows, Dropping
  <2>4. CASE ~Drops(c.ask.kind)
    <3>1. past'[t].stale \/ cache'[t] = NoEntry
      BY <1>4, <1>5, <1>7, <2>4 DEF Missed
    <3>2. QED
      BY <1>5, <1>7, <2>1, <2>2, <2>6, <3>1 DEF Follows
  <2>5. QED
    BY <2>3, <2>4
<1>8. QED
  BY <1>2, <1>3, <1>4, <1>6, <1>7, CopiesStep

LEMMA SaveCopies ==
  ASSUME TaskInv, CopiesInv, NEW r \in InFlight, SaveCopy(r) \/ UpdateStatus(r) \/ SoftDelete(r)
  PROVE  CopiesInv'
<1>1. PICK c, S : c = calls[r] /\ S = DOMAIN c.copy
  OBVIOUS
<1>2. /\ CallShape(c) /\ c.at = "save" /\ S \subseteq Tasks /\ AfterSave(r, S)
      /\ rows \in [Tasks -> Row]
  BY <1>1 DEF TaskInv, Shape, CallShape, SaveCopy, UpdateStatus, SoftDelete
<1>3. CASE SaveCopy(r)
  <2>1. /\ c.ask \in Copying
        /\ rows' = [t \in Tasks |-> IF t \in S THEN Edit(c.ask, c.copy[t]) ELSE rows[t]]
    BY <1>1, <1>3 DEF SaveCopy
  <2>2. c.ask.kind \in {"update", "move", "status", "assign", "bulkAssign"}
    BY <2>1 DEF Copying
  <2>3. ASSUME NEW t \in S
        PROVE  rows'[t].status = IF c.ask.kind \in Telling THEN c.ask.to ELSE c.copy[t].status
    <3>1. PICK row \in Row : row = c.copy[t]
      BY <1>1, <1>2 DEF CallShape
    <3>2. PICK ask : ask = c.ask
      OBVIOUS
    <3>3. Edit(ask, row) =
            CASE ask.kind = "update" -> [row EXCEPT !.due = ask.due]
              [] ask.kind = "move"   -> [row EXCEPT !.column = ask.column]
              [] ask.kind = "status" -> [row EXCEPT !.status = ask.to, !.dated = Dates(row.dated, ask.to)]
              [] OTHER               -> [row EXCEPT !.status = ask.to]
      BY DEF Edit
    <3>4. ask.kind = "update" => Edit(ask, row).status = row.status
      BY <3>3 DEF Row
    <3>5. ask.kind = "move" => Edit(ask, row).status = row.status
      BY <3>3 DEF Row
    <3>6. ask.kind = "status" => Edit(ask, row).status = ask.to
      <4>1. ASSUME ask.kind = "status", NEW dated, dated = Dates(row.dated, ask.to)
            PROVE  Edit(ask, row).status = ask.to
        <5>1. Edit(ask, row) = [row EXCEPT !.status = ask.to, !.dated = dated]
          BY <3>3, <4>1
        <5>2. QED
          BY <5>1 DEF Row
      <4>2. QED
        BY <4>1
    <3>7. ask.kind \in {"assign", "bulkAssign"} => Edit(ask, row).status = ask.to
      BY <3>3 DEF Row
    <3>8. rows'[t] = Edit(ask, row)
      BY <1>2, <2>1, <3>1, <3>2
    <3>9. QED
      BY <2>2, <3>1, <3>2, <3>4, <3>5, <3>6, <3>7, <3>8 DEF Telling
  <2>4. \A t \in Tasks \ S : rows'[t] = rows[t]
    BY <2>1
  <2>5. c.ask.kind # "read"
    BY <2>2
  <2>7. ASSUME NEW t \in S PROVE rows'[t].deleted = c.copy[t].deleted
    <3>1. PICK row \in Row : row = c.copy[t]
      BY <1>1, <1>2 DEF CallShape
    <3>2. PICK ask, dated : ask = c.ask /\ dated = Dates(row.dated, ask.to)
      OBVIOUS
    <3>3. Edit(ask, row) =
            CASE ask.kind = "update" -> [row EXCEPT !.due = ask.due]
              [] ask.kind = "move"   -> [row EXCEPT !.column = ask.column]
              [] ask.kind = "status" -> [row EXCEPT !.status = ask.to, !.dated = dated]
              [] OTHER               -> [row EXCEPT !.status = ask.to]
      BY <3>2 DEF Edit
    <3>4. Edit(ask, row).deleted = row.deleted
      BY <3>3 DEF Row
    <3>5. rows'[t] = Edit(ask, row)
      BY <1>2, <2>1, <3>1, <3>2
    <3>6. QED
      BY <3>1, <3>4, <3>5
  <2>6. \A t \in S : SavedAs(c, t)
    BY <2>3, <2>7 DEF SavedAs
  <2>8. QED
    BY <1>1, <1>2, <2>4, <2>5, <2>6, SavedCopies
<1>4. CASE UpdateStatus(r)
  <2>1. /\ c.ask.kind = "bulkStatus"
        /\ rows' = [t \in Tasks |-> IF t \in S THEN [rows[t] EXCEPT !.status = c.ask.to]
                                    ELSE rows[t]]
    BY <1>1, <1>4 DEF UpdateStatus
  <2>2. \A t \in Tasks \ S : rows'[t] = rows[t]
    BY <2>1
  <2>3. \A t \in S : rows'[t].status = c.ask.to
    BY <1>2, <2>1 DEF Row
  <2>4. c.ask.kind # "read" /\ c.ask.kind \in Telling
    BY <2>1 DEF Telling
  <2>6. \A t \in S : rows'[t].deleted \in {c.copy[t].deleted, rows[t].deleted, TRUE}
    BY <1>2, <2>1 DEF Row
  <2>5. \A t \in S : SavedAs(c, t)
    BY <2>3, <2>4, <2>6 DEF SavedAs
  <2>7. QED
    BY <1>1, <1>2, <2>2, <2>4, <2>5, SavedCopies
<1>5. CASE SoftDelete(r)
  <2>1. /\ c.ask.kind \in {"remove", "bulkDelete"}
        /\ rows' = [t \in Tasks |-> IF t \in S THEN [rows[t] EXCEPT !.deleted = TRUE]
                                    ELSE rows[t]]
    BY <1>1, <1>5 DEF SoftDelete
  <2>2. \A t \in Tasks \ S : rows'[t] = rows[t]
    BY <2>1
  <2>3. \A t \in S : rows'[t].status = rows[t].status
    BY <1>2, <2>1 DEF Row
  <2>4. c.ask.kind # "read" /\ c.ask.kind \notin Telling
    BY <2>1 DEF Telling
  <2>6. \A t \in S : rows'[t].deleted \in {c.copy[t].deleted, rows[t].deleted, TRUE}
    BY <1>2, <2>1 DEF Row
  <2>5. \A t \in S : SavedAs(c, t)
    BY <2>3, <2>4, <2>6 DEF SavedAs
  <2>7. QED
    BY <1>1, <1>2, <2>2, <2>4, <2>5, SavedCopies
<1>6. QED
  BY <1>3, <1>4, <1>5

LEMMA LogCopies ==
  ASSUME TaskInv, CopiesInv, NEW r \in InFlight, Log(r)
  PROVE  CopiesInv'
<1>1. PICK c : c = calls[r]
  OBVIOUS
<1>2. /\ c.at = "log" /\ rows' = rows /\ cache' = cache /\ past' = past
      /\ told' = [t \in Tasks |-> IF t \in Listed(c) /\ c.ask.kind \in Telling
                                  THEN c.ask.to ELSE told[t]]
      /\ IF c.drops # {} THEN Goto(r, "drop") ELSE Leave(r)
  BY <1>1 DEF Log, Telling
<1>3. ASSUME NEW t \in Tasks
      PROVE  /\ t \in DOMAIN c.copy => told'[t] = IF c.ask.kind \in Telling THEN c.ask.to ELSE told[t]
             /\ t \notin DOMAIN c.copy => told'[t] = told[t] \/ (Missing(c, t) /\ told'[t] = "assigned")
  <2>1. c.ask \in Writing \cup Reading
    BY <1>1 DEF TaskInv, CallShape
  <2>2. c.ask.kind = "bulkAssign" => c.ask.to = "assigned"
    BY <2>1 DEF Writing, Copying, Reading
  <2>3. CASE t \in DOMAIN c.copy
    <3>1. DOMAIN c.copy \subseteq Listed(c) \/ c.ask.kind = "bulkAssign"
      BY DEF Listed
    <3>2. c.ask.kind = "bulkAssign" => t \in c.ask.on
      BY <1>1, <1>2, <2>3 DEF CopiesInv, Within
    <3>3. t \in Listed(c)
      BY <2>3, <3>2 DEF Listed
    <3>4. QED
      BY <1>2, <2>3, <3>3
  <2>4. CASE t \notin DOMAIN c.copy
    <3>1. CASE t \in Listed(c)
      <4>1. c.ask.kind = "bulkAssign" /\ Missing(c, t)
        BY <1>2, <2>4, <3>1 DEF Listed, Missing
      <4>2. QED
        BY <1>2, <2>2, <2>4, <4>1
    <3>2. CASE t \notin Listed(c)
      BY <1>2, <2>4, <3>2
    <3>3. QED
      BY <3>1, <3>2
  <2>5. QED
    BY <2>3, <2>4
<1>4. ASSUME NEW d, d.at \in {"drop", "left"}, NEW t \in Tasks, Busy(c, t) => ToldBy(t, c),
             ~past[t].disturbed
      PROVE  HistoryFollows(t, c, d)
  <2>1. ~Busy(d, t)
    BY <1>4 DEF Busy
  <2>2. CASE Busy(c, t)
    <3>1. IF c.ask.kind \in Telling THEN rows[t].status = c.ask.to ELSE Tells(t)
      BY <1>2, <1>4, <2>2 DEF ToldBy
    <3>2. told'[t] = IF c.ask.kind \in Telling THEN c.ask.to ELSE told[t]
      BY <1>3, <2>2 DEF Busy
    <3>3. Tells(t)'
      BY <1>2, <3>1, <3>2 DEF Tells
    <3>4. QED
      BY <2>1, <2>2, <3>3 DEF HistoryFollows
  <2>3. CASE ~Busy(c, t)
    <3>1. t \notin DOMAIN c.copy \/ c.ask.kind = "read"
      BY <1>2, <2>3 DEF Busy
    <3>2. Missing(c, t) => rows[t].deleted
      BY <1>1, <1>4 DEF CopiesInv, Excused
    <3>3. told'[t] = told[t] \/ (rows[t].deleted /\ told'[t] = "assigned")
      BY <1>3, <3>1, <3>2 DEF Telling
    <3>4. Unwritten(t)
      BY <1>2, <3>3 DEF Unwritten
    <3>5. QED
      BY <2>1, <2>3, <3>4 DEF HistoryFollows
  <2>4. QED
    BY <2>2, <2>3
<1>5. CASE c.drops # {}
  <2>1. PICK d : d = Becomes(c, "drop", c.drops)
    OBVIOUS
  <2>2. OneMoves(r, d) /\ r \in InFlight' /\ d.at = "drop" /\ d.drops = c.drops
    BY <1>1, <1>2, <1>5, <2>1, GoesOn, BecomesIs
  <2>3. ASSUME NEW t \in Tasks PROVE Follows(t, c, d, r \in InFlight')
    <3>1. past[t].disturbed \/ ((Busy(c, t) => ToldBy(t, c)) => HistoryFollows(t, c, d))
      BY <1>4, <2>2
    <3>2. Dropping(d, t) \/ ~Dropping(c, t)
      BY <2>2 DEF Dropping
    <3>3. QED
      BY <1>2, <2>2, <3>1, <3>2 DEF Follows
  <2>4. QED
    BY <1>1, <1>2, <2>2, <2>3, CopiesStep DEF CopiesInv
<1>6. CASE c.drops = {}
  <2>1. PICK d : d = Becomes(c, "left", {})
    OBVIOUS
  <2>2. OneMoves(r, d) /\ d.at = "left"
    BY <1>2, <1>6, <2>1, GoesAway
  <2>3. ASSUME NEW t \in Tasks PROVE Follows(t, c, d, r \in InFlight')
    <3>1. past[t].disturbed \/ ((Busy(c, t) => ToldBy(t, c)) => HistoryFollows(t, c, d))
      BY <1>4, <2>2
    <3>2. ~Dropping(c, t)
      BY <1>6 DEF Dropping
    <3>3. QED
      BY <1>2, <3>1, <3>2 DEF Follows
  <2>4. QED
    BY <1>1, <1>2, <2>2, <2>3, CopiesStep DEF CopiesInv
<1>7. QED
  BY <1>5, <1>6

\* Steps of a request that is not at work on any row: reading, filling and dropping entries.
LEMMA IdleFollows ==
  ASSUME NEW t \in Tasks, NEW c, NEW d, c.at \notin {"save", "log"}, d.at \notin {"save", "log"},
         told' = told, rows' = rows, past'[t].disturbed = past[t].disturbed
  PROVE  HistoryFollows(t, c, d) /\ (past[t].disturbed => past'[t].disturbed)
BY DEF HistoryFollows, Busy, Unwritten

LEMMA GetCopies ==
  ASSUME TaskInv, CopiesInv, NEW r \in InFlight, Get(r)
  PROVE  CopiesInv'
<1>1. PICK c : c = calls[r]
  OBVIOUS
<1>2. /\ CallShape(c) /\ c.at = "get" /\ rows' = rows /\ cache' = cache /\ past' = past
      /\ told' = told
  BY <1>1 DEF TaskInv, Get
<1>3. ASSUME NEW d, d.at \in {"fill", "left"}, OneMoves(r, d)
      PROVE  CopiesInv'
  <2>1. ASSUME NEW t \in Tasks PROVE Follows(t, c, d, r \in InFlight')
    <3>1. ~Dropping(c, t)
      BY <1>2 DEF Dropping
    <3>2. HistoryFollows(t, c, d)
      BY <1>2, <1>3, IdleFollows
    <3>3. QED
      BY <1>2, <3>1, <3>2 DEF Follows
  <2>2. QED
    BY <1>1, <1>2, <1>3, <2>1, CopiesStep DEF CopiesInv
<1>4. CASE Leave(r)
  <2>1. PICK d : d = Becomes(c, "left", {})
    OBVIOUS
  <2>2. OneMoves(r, d) /\ d.at = "left"
    BY <1>4, <2>1, GoesAway
  <2>3. QED
    BY <1>3, <2>2
<1>5. CASE ~Leave(r)
  <2>1. PICK t : calls' = [calls EXCEPT ![r].at = "fill", ![r].copy = [u \in {t} |-> rows[u]]]
    BY <1>1, <1>5 DEF Get
  <2>2. PICK f, d : f = [u \in {t} |-> rows[u]]
                    /\ d = [ask |-> c.ask, at |-> "fill", copy |-> f, drops |-> c.drops]
    OBVIOUS
  <2>3. calls' = [calls EXCEPT ![r] = [c EXCEPT !.at = "fill", !.copy = f]]
    BY <1>1, <2>1, <2>2
  <2>4. InFlight' = InFlight /\ \A q \in InFlight \ {r} : calls'[q] = calls[q]
    BY <2>3 DEF InFlight
  <2>5. calls'[r] = [c EXCEPT !.at = "fill", !.copy = f]
    BY <2>3 DEF InFlight
  <2>6. calls'[r] = d
    BY <1>2, <2>2, <2>5 DEF CallShape
  <2>7. d.at = "fill"
    BY <2>2
  <2>8. OneMoves(r, d)
    BY <2>4, <2>6 DEF OneMoves
  <2>9. QED
    BY <1>3, <2>7, <2>8
<1>6. QED
  BY <1>4, <1>5

LEMMA FillCopies ==
  ASSUME TaskInv, CopiesInv, NEW r \in InFlight, Fill(r)
  PROVE  CopiesInv'
<1>1. PICK c, d : c = calls[r] /\ d = Becomes(c, "left", {})
  OBVIOUS
<1>2. /\ c.at = "fill" /\ rows' = rows /\ told' = told /\ DOMAIN cache' = Tasks
      /\ OneMoves(r, d) /\ d.at = "left"
  BY <1>1, GoesAway DEF Fill
<1>3. ASSUME NEW t \in Tasks PROVE Follows(t, c, d, r \in InFlight')
  <2>1. PICK p \in Past : p = past[t]
    BY DEF TaskInv, Shape
  <2>2. CASE t \in DOMAIN c.copy
    <3>1. PICK s : s = (c.copy[t] # rows[t])
      OBVIOUS
    <3>2. past'[t] = [p EXCEPT !.stale = s] /\ cache'[t] = c.copy[t]
      BY <1>1, <2>1, <2>2, <3>1 DEF Fill
    <3>3. past'[t].disturbed = p.disturbed /\ past'[t].stale = s
      BY <3>2 DEF Past
    <3>4. past'[t].stale \/ cache'[t] = rows'[t]
      BY <1>2, <3>1, <3>2, <3>3
    <3>5. HistoryFollows(t, c, d)
      BY <1>2, <2>1, <3>3, IdleFollows
    <3>6. QED
      BY <1>2, <2>1, <3>3, <3>4, <3>5 DEF Follows
  <2>3. CASE t \notin DOMAIN c.copy
    <3>1. past'[t] = past[t] /\ cache'[t] = cache[t]
      BY <1>1, <2>3 DEF Fill
    <3>2. HistoryFollows(t, c, d)
      BY <1>2, <3>1, IdleFollows
    <3>3. ~Dropping(c, t)
      BY <1>2 DEF Dropping
    <3>4. QED
      BY <1>2, <3>1, <3>2, <3>3 DEF Follows
  <2>4. QED
    BY <2>2, <2>3
<1>4. QED
  BY <1>1, <1>2, <1>3, CopiesStep

LEMMA DropCopies ==
  ASSUME TaskInv, CopiesInv, NEW r \in InFlight, Drop(r)
  PROVE  CopiesInv'
<1>1. PICK c : c = calls[r]
  OBVIOUS
<1>2. CallShape(c) /\ c.at = "drop" /\ rows' = rows /\ told' = told
  BY <1>1 DEF TaskInv, Drop
<1>3. PICK t \in c.drops, works \in BOOLEAN :
        /\ cache' = IF works THEN [cache EXCEPT ![t] = NoEntry] ELSE cache
        /\ past' = [past EXCEPT ![t].stale = IF works THEN FALSE ELSE @ \/ cache[t] # NoEntry]
        /\ calls' = IF c.drops \ {t} # {} THEN [calls EXCEPT ![r].drops = c.drops \ {t}]
                    ELSE IF Answers(c.ask.kind)
                    THEN [calls EXCEPT ![r].drops = {}, ![r].at = "get"]
                    ELSE [q \in InFlight \ {r} |-> calls[q]]
  BY <1>1 DEF Drop
<1>4. ASSUME NEW u \in Tasks
      PROVE  /\ past'[u].disturbed = past[u].disturbed
             /\ u # t => past'[u].stale = past[u].stale /\ cache'[u] = cache[u]
             /\ u = t => past'[u].stale \/ cache'[u] = NoEntry
  <2>1. past \in [Tasks -> Past] /\ DOMAIN cache = Tasks
    BY DEF TaskInv, Shape, CopiesInv
  <2>2. PICK s \in BOOLEAN : s = IF works THEN FALSE ELSE past[t].stale \/ cache[t] # NoEntry
    OBVIOUS
  <2>3. past' = [past EXCEPT ![t] = [past[t] EXCEPT !.stale = s]]
    BY <1>3, <2>2
  <2>4. CASE u # t
    <3>1. past'[u] = past[u] /\ cache'[u] = cache[u]
      BY <1>3, <2>1, <2>3, <2>4
    <3>2. QED
      BY <2>4, <3>1
  <2>5. CASE u = t
    <3>1. PICK p \in Past : p = past[u]
      BY <2>1
    <3>2. past'[u] = [p EXCEPT !.stale = s]
      BY <2>1, <2>3, <2>5, <3>1
    <3>3. past'[u].disturbed = p.disturbed /\ past'[u].stale = s
      BY <3>2 DEF Past
    <3>4. s \/ cache'[u] = NoEntry
      <4>1. CASE works
        BY <1>3, <2>1, <2>5, <4>1
      <4>2. CASE ~works
        BY <1>3, <2>2, <2>5, <4>2
      <4>3. QED
        BY <4>1, <4>2
    <3>5. QED
      BY <2>5, <3>1, <3>3, <3>4
  <2>6. QED
    BY <2>4, <2>5
<1>5. ASSUME NEW d, OneMoves(r, d), d.at \in {"drop", "get", "left"},
             \A u \in c.drops \ {t} : r \in InFlight' /\ Dropping(d, u)
      PROVE  CopiesInv'
  <2>1. ASSUME NEW u \in Tasks PROVE Follows(u, c, d, r \in InFlight')
    <3>1. HistoryFollows(u, c, d) /\ (past[u].disturbed => past'[u].disturbed)
      <4>1. past'[u].disturbed = past[u].disturbed
        BY <1>4
      <4>2. QED
        BY <1>2, <1>5, <4>1, IdleFollows
    <3>2. CASE u = t
      BY <1>2, <1>4, <3>1, <3>2 DEF Follows
    <3>3. CASE u # t /\ u \in c.drops
      BY <1>2, <1>5, <3>1, <3>3 DEF Follows
    <3>4. CASE u # t /\ u \notin c.drops
      <4>1. ~Dropping(c, u)
        BY <3>4 DEF Dropping
      <4>2. past'[u].stale = past[u].stale /\ cache'[u] = cache[u] /\ rows'[u] = rows[u]
        BY <1>2, <1>4, <3>4
      <4>3. QED
        BY <3>1, <4>1, <4>2 DEF Follows
    <3>5. QED
      BY <3>2, <3>3, <3>4
  <2>2. DOMAIN cache' = Tasks /\ d.at # "save"
    BY <1>3, <1>5 DEF CopiesInv
  <2>3. QED
    BY <1>1, <1>5, <2>1, <2>2, CopiesStep
<1>6. CASE calls' = [calls EXCEPT ![r].drops = c.drops \ {t}]
  <2>1. PICK d : d = Becomes(c, "drop", c.drops \ {t})
    OBVIOUS
  <2>2. InFlight' = InFlight /\ \A q \in InFlight \ {r} : calls'[q] = calls[q]
    BY <1>6 DEF InFlight
  <2>3. calls'[r] = d
    <3>1. calls'[r] = [c EXCEPT !.drops = c.drops \ {t}]
      BY <1>1, <1>6 DEF InFlight
    <3>2. QED
      BY <1>2, <2>1, <3>1 DEF CallShape, Becomes
  <2>4. OneMoves(r, d) /\ r \in InFlight' /\ d.at = "drop" /\ d.drops = c.drops \ {t}
    BY <2>1, <2>2, <2>3, BecomesIs DEF OneMoves
  <2>5. \A u \in c.drops \ {t} : Dropping(d, u)
    BY <2>4 DEF Dropping
  <2>6. QED
    BY <1>5, <2>4, <2>5
<1>7. CASE c.drops \ {t} = {} /\ calls' = [calls EXCEPT ![r].drops = {}, ![r].at = "get"]
  <2>1. PICK d : d = Becomes(c, "get", {})
    OBVIOUS
  <2>2. InFlight' = InFlight /\ \A q \in InFlight \ {r} : calls'[q] = calls[q]
    BY <1>7 DEF InFlight
  <2>3. calls'[r] = d
    <3>1. calls'[r] = [c EXCEPT !.drops = {}, !.at = "get"]
      BY <1>1, <1>7 DEF InFlight
    <3>2. QED
      BY <1>2, <2>1, <3>1 DEF CallShape, Becomes
  <2>4. OneMoves(r, d) /\ d.at = "get"
    BY <2>1, <2>2, <2>3, BecomesIs DEF OneMoves
  <2>5. QED
    BY <1>5, <1>7, <2>4
<1>8. CASE c.drops \ {t} = {} /\ calls' = [q \in InFlight \ {r} |-> calls[q]]
  <2>1. PICK d : d = Becomes(c, "left", {})
    OBVIOUS
  <2>2. OneMoves(r, d) /\ d.at = "left"
    BY <1>8, <2>1, GoesAway DEF Leave
  <2>3. QED
    BY <1>5, <1>8, <2>2
<1>9. QED
  BY <1>3, <1>6, <1>7, <1>8

LEMMA FailCopies ==
  ASSUME TaskInv, CopiesInv, NEW r \in InFlight, Fail(r)
  PROVE  CopiesInv'
<1>1. PICK c, d : c = calls[r] /\ d = Becomes(c, "left", {})
  OBVIOUS
<1>2. /\ rows' = rows /\ told' = told /\ cache' = cache
      /\ OneMoves(r, d) /\ d.at = "left"
  BY <1>1, GoesAway DEF Fail
<1>3. ASSUME NEW t \in Tasks PROVE Follows(t, c, d, r \in InFlight')
  <2>1. PICK p \in Past : p = past[t]
    BY DEF TaskInv, Shape
  <2>2. PICK e, s :
          /\ e = (p.disturbed \/ (c.at = "log" /\ t \in DOMAIN c.copy))
          /\ s = (p.stale \/ (c.at \in {"log", "drop"} /\ t \in c.drops /\ cache[t] # NoEntry))
    OBVIOUS
  <2>3. past'[t] = [p EXCEPT !.disturbed = e, !.stale = s]
    BY <1>1, <2>1, <2>2 DEF Fail
  <2>4. past'[t].disturbed = e /\ past'[t].stale = s
    BY <2>3 DEF Past
  <2>5. ASSUME ~e, Busy(c, t) => ToldBy(t, c) PROVE HistoryFollows(t, c, d)
    <3>1. ~Busy(d, t)
      BY <1>2 DEF Busy
    <3>2. CASE Busy(c, t)
      <4>1. c.at = "save"
        BY <2>2, <2>5, <3>2 DEF Busy
      <4>2. Tells(t)'
        BY <1>2, <2>5, <3>2, <4>1 DEF ToldBy, Tells
      <4>3. QED
        BY <3>1, <3>2, <4>2 DEF HistoryFollows
    <3>3. CASE ~Busy(c, t)
      BY <1>2, <3>1, <3>3 DEF HistoryFollows, Unwritten
    <3>4. QED
      BY <3>2, <3>3
  <2>6. \/ s \/ cache'[t] = NoEntry
        \/ cache'[t] = cache[t] /\ rows'[t] = rows[t] /\ ~Dropping(c, t)
    BY <1>2, <2>2 DEF Dropping
  <2>7. (p.disturbed => e) /\ (p.stale => s)
    BY <2>2
  <2>8. /\ past[t].disturbed => past'[t].disturbed
        /\ past[t].stale => past'[t].stale
    BY <2>1, <2>4, <2>7
  <2>9. QED
    BY <1>2, <2>4, <2>5, <2>6, <2>8 DEF Follows
<1>4. QED
  BY <1>1, <1>2, <1>3, CopiesStep DEF CopiesInv

\* Steps that move no request.
LEMMA NoCallMoves ==
  ASSUME CopiesInv, calls' = calls, told' = told, DOMAIN cache' = Tasks,
         \A t \in Tasks :
           /\ rows'[t].status = rows[t].status /\ rows'[t].deleted = rows[t].deleted
           /\ past'[t].disturbed = past[t].disturbed
           /\ \/ past'[t].stale
              \/ cache'[t] = NoEntry
              \/ /\ past'[t].stale = past[t].stale
                 /\ cache'[t] = cache[t] /\ rows'[t] = rows[t]
  PROVE  CopiesInv'
<1>1. InFlight' = InFlight /\ \A t : Using(t)' = Using(t)
  BY DEF InFlight, Using
<1>2. ASSUME NEW t \in Tasks PROVE HistoryFits(t)' /\ CacheFits(t)'
  <2>1. HistoryFits(t) /\ CacheFits(t)
    BY DEF CopiesInv
  <2>2. HistoryFits(t)'
    BY <1>1, <2>1 DEF HistoryFits, ToldBy, Tells
  <2>3. CacheFits(t)'
    BY <1>1, <2>1 DEF CacheFits
  <2>4. QED
    BY <2>2, <2>3
<1>3. \A t \in Tasks : Excused(t)' = Excused(t)
  BY DEF Excused
<1>4. QED
  BY <1>1, <1>2, <1>3 DEF CopiesInv

LEMMA ExpireCopies ==
  ASSUME TaskInv, CopiesInv, NEW t \in Tasks, Expire(t)
  PROVE  CopiesInv'
<1>1. past \in [Tasks -> Past] /\ DOMAIN cache = Tasks
  BY DEF TaskInv, Shape, CopiesInv
<1>2. /\ past' = [past EXCEPT ![t] = [past[t] EXCEPT !.stale = FALSE]]
      /\ cache' = [cache EXCEPT ![t] = NoEntry]
      /\ rows' = rows /\ told' = told /\ calls' = calls
  BY DEF Expire
<1>3. ASSUME NEW u \in Tasks
      PROVE  /\ past'[u].disturbed = past[u].disturbed
             /\ \/ cache'[u] = NoEntry
                \/ past'[u].stale = past[u].stale /\ cache'[u] = cache[u]
  BY <1>1, <1>2 DEF Past
<1>4. DOMAIN cache' = Tasks
  BY <1>1, <1>2
<1>5. QED
  BY <1>2, <1>3, <1>4, NoCallMoves

LEMMA MarkPageCopies ==
  ASSUME TaskInv, CopiesInv, MarkPage
  PROVE  CopiesInv'
<1>1. cache' = cache /\ told' = told /\ calls' = calls
  BY DEF MarkPage
<1>2. ASSUME NEW t \in Tasks
      PROVE  /\ rows'[t].status = rows[t].status /\ rows'[t].deleted = rows[t].deleted
             /\ past'[t].disturbed = past[t].disturbed
             /\ \/ past'[t].stale
                \/ cache'[t] = NoEntry
                \/ past'[t].stale = past[t].stale /\ cache'[t] = cache[t] /\ rows'[t] = rows[t]
  <2>1. PICK p \in Past, row \in Row : p = past[t] /\ row = rows[t]
    BY DEF TaskInv, Shape
  <2>2. CASE t \in sched.page
    <3>1. PICK s : s = (p.stale \/ cache[t] # NoEntry)
      OBVIOUS
    <3>2. past'[t] = [p EXCEPT !.stale = s] /\ rows'[t] = [row EXCEPT !.breached = TRUE]
      BY <2>1, <2>2, <3>1 DEF MarkPage
    <3>3. past'[t].disturbed = p.disturbed /\ past'[t].stale = s /\ rows'[t].status = row.status
          /\ rows'[t].deleted = row.deleted
      BY <3>2 DEF Past, Row
    <3>4. s \/ cache'[t] = NoEntry
      BY <1>1, <3>1
    <3>5. QED
      BY <2>1, <3>3, <3>4
  <2>3. CASE t \notin sched.page
    BY <1>1, <2>3 DEF MarkPage
  <2>4. QED
    BY <2>2, <2>3
<1>3. QED
  BY <1>1, <1>2, NoCallMoves DEF CopiesInv

LEMMA OtherCopies ==
  ASSUME TaskInv, CopiesInv,
         \/ Time \/ UNCHANGED vars
         \/ Tick \/ FindPage \/ LogPage \/ TickFails
  PROVE  CopiesInv'
<1>1. rows' = rows /\ cache' = cache /\ told' = told /\ calls' = calls
  BY DEF Time, Tick, FindPage, LogPage, TickFails, vars, desk
<1>2. ASSUME NEW t \in Tasks
      PROVE  past'[t].disturbed = past[t].disturbed /\ past'[t].stale = past[t].stale
  <2>1. CASE TickFails
    <3>1. PICK p \in Past : p = past[t]
      BY DEF TaskInv, Shape
    <3>2. PICK l : l = (p.lost \/ (sched.at = "log" /\ t \in sched.page))
      OBVIOUS
    <3>3. past'[t] = [p EXCEPT !.lost = l]
      BY <2>1, <3>1, <3>2 DEF TickFails
    <3>4. QED
      BY <3>1, <3>3 DEF Past
  <2>2. CASE past' = past
    BY <2>2
  <2>3. QED
    BY <2>1, <2>2 DEF Time, Tick, FindPage, LogPage, vars, desk
<1>3. QED
  BY <1>1, <1>2, NoCallMoves DEF CopiesInv

\* A request arrives; it disturbs the tasks that another one is at work on.
LEMMA EnterCopies ==
  ASSUME TaskInv, CopiesInv, NEW ask, NEW found \in SUBSET Tasks, NEW at, NEW drops,
         Enter(ask, found, at, drops),
         at \in {"save", "get"},
         at = "save" /\ Drops(ask.kind) => found \subseteq drops,
         at = "save" /\ ask.kind = "bulkAssign" => found = Alive(ask.on)
  PROVE  CopiesInv'
<1>1. PICK new, c : new = admitted + 1
                    /\ c = [ask |-> ask, at |-> at, drops |-> drops, copy |-> [t \in found |-> rows[t]]]
  OBVIOUS
<1>2. /\ calls' = [q \in InFlight \cup {new} |-> IF q = new THEN c ELSE calls[q]]
      /\ rows' = rows /\ cache' = cache /\ told' = told
  BY <1>1 DEF Enter
<1>3. new \notin InFlight
  BY <1>1 DEF TaskInv, Shape
<1>4. /\ InFlight' = InFlight \cup {new} /\ calls'[new] = c
      /\ \A q \in InFlight : calls'[q] = calls[q]
  BY <1>2, <1>3 DEF InFlight
<1>5. /\ c.ask = ask /\ c.at = at /\ c.drops = drops /\ DOMAIN c.copy = found
      /\ \A t \in found : c.copy[t] = rows[t]
  BY <1>1
<1>6. ASSUME NEW t \in Tasks
      PROVE  /\ past'[t].disturbed = (past[t].disturbed \/ (t \in found /\ Using(t) # {}))
             /\ past'[t].stale = past[t].stale
  <2>1. PICK p \in Past : p = past[t]
    BY DEF TaskInv, Shape
  <2>2. PICK e : e = (p.disturbed \/ (t \in found /\ Using(t) # {}))
    OBVIOUS
  <2>3. past'[t] = [p EXCEPT !.disturbed = e]
    BY <2>1, <2>2 DEF Enter
  <2>4. QED
    BY <2>1, <2>2, <2>3 DEF Past
<1>7. \A t, q : q \in Using(t)' <=> \/ q \in Using(t)
                                    \/ q = new /\ Busy(c, t)
  <2>1. \A t, q : q \in Using(t)' <=> q \in InFlight' /\ Busy(calls'[q], t)
    BY DEF Using, Busy
  <2>2. QED
    BY <1>3, <1>4, <2>1, UsingIs
<1>8. ASSUME NEW t \in Tasks PROVE HistoryFits(t)'
  <2>1. HistoryFits(t)
    BY DEF CopiesInv
  <2>2. SUFFICES ASSUME ~past'[t].disturbed
                 PROVE  /\ \A q, u \in Using(t)' : q = u
                        /\ \A q \in Using(t)' : \A x \in {calls'[q]} : ToldBy(t, x)'
                        /\ Using(t)' = {} => Tells(t)'
    BY DEF HistoryFits
  <2>3. /\ \A q, u \in Using(t) : q = u
        /\ \A q \in Using(t) : \A x \in {calls[q]} : ToldBy(t, x)
        /\ Using(t) = {} => Tells(t)
        /\ ~(t \in found /\ Using(t) # {})
    BY <1>6, <2>1, <2>2 DEF HistoryFits
  <2>4. CASE t \notin found
    <3>0. ~Busy(c, t)
      BY <1>5, <2>4 DEF Busy
    <3>1. Using(t)' = Using(t)
      BY <1>7, <3>0
    <3>2. \A q \in Using(t) : calls'[q] = calls[q]
      BY <1>4, UsingIs
    <3>3. ASSUME NEW q \in Using(t)', NEW x \in {calls'[q]}
          PROVE  ToldBy(t, x)'
      <4>1. ToldBy(t, x)
        BY <2>3, <3>1, <3>2, <3>3
      <4>2. QED
        BY <1>2, <4>1 DEF ToldBy, Tells
    <3>4. Tells(t) => Tells(t)'
      BY <1>2 DEF Tells
    <3>5. QED
      BY <2>3, <3>1, <3>3, <3>4
  <2>5. CASE t \in found
    <3>1. Using(t)' \subseteq {new} /\ Tells(t)
      BY <1>7, <2>3, <2>5
    <3>2. new \in Using(t)' => at = "save"
      BY <1>5, <1>7, <1>3, UsingIs DEF Busy
    <3>3. at = "save" => ToldBy(t, c)'
      BY <1>2, <1>5, <2>5, <3>1 DEF ToldBy, Tells
    <3>4. ASSUME NEW q \in Using(t)', NEW x \in {calls'[q]}
          PROVE  ToldBy(t, x)'
      <4>1. q = new /\ x = c
        BY <1>4, <3>1, <3>4
      <4>2. QED
        BY <3>2, <3>3, <3>4, <4>1 DEF ToldBy
    <3>5. \A q, u \in Using(t)' : q = u
      BY <3>1
    <3>6. Tells(t)'
      BY <1>2, <3>1 DEF Tells
    <3>7. QED
      BY <3>4, <3>5, <3>6
  <2>6. QED
    BY <2>4, <2>5
<1>9. ASSUME NEW t \in Tasks PROVE CacheFits(t)'
  <2>1. CacheFits(t)
    BY DEF CopiesInv
  <2>2. QED
    BY <1>2, <1>4, <1>6, <2>1 DEF CacheFits
<1>10. ASSUME NEW q \in InFlight' PROVE Covers(calls'[q]) /\ Within(calls'[q])
  <2>1. Within(c)
    BY <1>5 DEF Within, Alive
  <2>2. QED
    BY <1>4, <1>5, <2>1 DEF CopiesInv, Covers
<1>11. ASSUME NEW q \in InFlight', NEW t \in Tasks, Missing(calls'[q], t) PROVE Excused(t)'
  <2>1. CASE q = new
    <3>1. ask.kind = "bulkAssign" /\ at = "save" /\ t \in ask.on \ found
      BY <1>4, <1>5, <1>11, <2>1 DEF Missing
    <3>2. rows[t].deleted
      BY <3>1 DEF Alive
    <3>3. QED
      BY <1>2, <3>2 DEF Excused
  <2>2. CASE q # new
    <3>1. q \in InFlight /\ Missing(calls[q], t)
      BY <1>4, <1>11, <2>2
    <3>2. Excused(t)
      BY <3>1 DEF CopiesInv
    <3>3. QED
      BY <1>2, <1>6, <3>2 DEF Excused
  <2>3. QED
    BY <2>1, <2>2
<1>12. QED
  BY <1>2, <1>8, <1>9, <1>10, <1>11 DEF CopiesInv, Covers, Within, Missing

LEMMA ArriveCopies ==
  ASSUME TaskInv, CopiesInv, Arrive
  PROVE  CopiesInv'
<1>1. ASSUME NEW ask \in Writing, Load(ask) PROVE CopiesInv'
  <2>1. PICK found, drops :
          /\ found = CASE ask.kind \in {"status", "bulkStatus"} ->
                            {t \in Alive(ask.on) : Allowed(t, ask.to)}
                       [] ask.kind = "bulkDelete" -> ask.on
                       [] OTHER -> Alive(ask.on)
          /\ drops = CASE ~Drops(ask.kind)        -> {}
                       [] ask.kind = "bulkStatus" -> found
                       [] OTHER                   -> ask.on
    OBVIOUS
  <2>2. Enter(ask, found, "save", drops)
    BY <1>1, <2>1 DEF Load
  <2>3. found \subseteq ask.on
    BY <2>1 DEF Alive
  <2>4. found \in SUBSET Tasks
    BY <2>3, AskFacts
  <2>5. Drops(ask.kind) => found \subseteq drops
    BY <2>1, <2>3
  <2>7. ask.kind = "bulkAssign" => found = Alive(ask.on)
    BY <2>1
  <2>6. QED
    BY <2>2, <2>4, <2>5, <2>7, EnterCopies
<1>2. ASSUME NEW ask \in Reading, ReadRequest(ask) PROVE CopiesInv'
  <2>1. Enter(ask, {}, "get", {})
    BY <1>2 DEF ReadRequest
  <2>2. {} \in SUBSET Tasks
    OBVIOUS
  <2>3. QED
    BY <2>1, <2>2, EnterCopies
<1>3. QED
  BY <1>1, <1>2 DEF Arrive

LEMMA CopiesNext == TaskInv /\ CopiesInv /\ [EscalationNext]_vars => CopiesInv'
<1> SUFFICES ASSUME TaskInv, CopiesInv, [EscalationNext]_vars PROVE CopiesInv'
  OBVIOUS
<1>1. ASSUME NEW r \in InFlight, Proceed(r) PROVE CopiesInv'
  BY <1>1, SaveCopies, LogCopies, GetCopies, FillCopies, DropCopies, FailCopies DEF Proceed
<1>2. CASE DeskNext
  BY <1>1, <1>2, ArriveCopies, ExpireCopies, OtherCopies DEF DeskNext
<1>3. CASE Scheduler \/ TickFails \/ UNCHANGED vars
  BY <1>3, MarkPageCopies, OtherCopies DEF Scheduler
<1>4. QED
  BY <1>2, <1>3 DEF EscalationNext

(***************************************************************************)
(* The copies of a status keep up with it, for any tasks and requests and  *)
(* whatever the scheduler does meanwhile: the history tells the status of  *)
(* a task on which no two requests overlapped and none failed before its   *)
(* row (or, of a deleted task, an assignment that came too late), and a    *)
(* cached task that nobody is about to drop is the task, except where a    *)
(* handler that does not invalidate wrote it, a DEL failed, or a reader    *)
(* overtaken by a writer filled it.                                        *)
(***************************************************************************)
THEOREM CopiesUpToDate == EscalationSpec => []CopiesKeepUp
<1>1. TaskInv /\ CopiesInv => CopiesKeepUp
  <2> SUFFICES ASSUME TaskInv, CopiesInv, NEW t \in Tasks
               PROVE  /\ \/ past[t].disturbed
                         \/ \E r \in InFlight : calls[r].at = "log" /\ t \in DOMAIN calls[r].copy
                         \/ told[t] = rows[t].status
                         \/ rows[t].deleted /\ told[t] = "assigned"
                      /\ \/ past[t].stale
                         \/ \E r \in InFlight : calls[r].at \in {"log", "drop"} /\ t \in calls[r].drops
                         \/ cache[t] \in {NoEntry, rows[t]}
    BY DEF CopiesKeepUp
  <2>1. HistoryFits(t) /\ CacheFits(t)
    BY DEF CopiesInv
  <2>2. CASE Using(t) = {}
    BY <2>1, <2>2 DEF HistoryFits, CacheFits, Dropping, Tells
  <2>3. ASSUME NEW r \in Using(t)
        PROVE  \/ past[t].disturbed
               \/ calls[r].at = "log" /\ t \in DOMAIN calls[r].copy
               \/ Tells(t)
    <3>1. Busy(calls[r], t)
      BY <2>3, UsingIs
    <3>2. past[t].disturbed \/ ToldBy(t, calls[r])
      BY <2>1, <2>3 DEF HistoryFits
    <3>3. QED
      BY <3>1, <3>2 DEF Busy, ToldBy
  <2>4. \A r \in Using(t) : r \in InFlight
    BY UsingIs
  <2>5. QED
    BY <2>1, <2>2, <2>3, <2>4 DEF CacheFits, Dropping, Tells
<1>2. TaskInv /\ CopiesInv /\ [EscalationNext]_vars /\ TaskInv' => CopiesInv'
  BY CopiesNext
<1>3. QED
  BY <1>1, <1>2, CopiesInit, TaskInvHolds, PTL DEF EscalationSpec

-----------------------------------------------------------------------------
(***************************************************************************)
(* A task shows what the last assignment that names a user, a department   *)
(* or a role says, for any of them and any number of requests, as long as  *)
(* they neither overlap nor fail.                                          *)
(***************************************************************************)

Assignment == [to : Wishes, active : BOOLEAN]

DelegationShape ==
  /\ assignments \in Seq(Assignment)
  /\ unrevoked \in Nat
  /\ assignee \in Shown
  /\ taken \in Nat /\ Waiting \subseteq 1 .. taken /\ taken <= MaxOrders
  /\ orders \in [Waiting -> Order]
  /\ muddled \in BOOLEAN /\ bulk \subseteq Fields

LastOnly == \A i \in DOMAIN assignments : assignments[i].active => i = Len(assignments)

\* The task shows in a field what the last assignment that names it says.
Right(f) == \A i \in DOMAIN assignments : NamesLast(i, f) => assignments[i].to[f] = assignee[f]
AllRight == \A f \in Fields \ bulk : Right(f)

\* What the one request in flight finds: it holds what the task shows; an assign has taken the
\* task from everybody between its first statement and its insert, and after that the fields it
\* leaves out are still right and its own is the last assignment.
Underway(o) ==
  /\ o.kind \in {"assign", "edit"} => o.copy = assignee
  /\ o.kind \in {"revoke", "edit"} => AllRight
  /\ o.kind = "assign" =>
       /\ o.at \in {"deactivate", "find", "insert"} => AllRight
       /\ o.at \in {"find", "insert"} => \A i \in DOMAIN assignments : ~assignments[i].active
       /\ o.at \in {"chain", "save"} =>
            /\ Len(assignments) > 0 /\ assignments[Len(assignments)].to = o.to
            /\ \A f \in (Fields \ bulk) \ DOMAIN o.to : Right(f)

Orderly ==
  /\ \A o, q \in Waiting : o = q
  /\ LastOnly
  /\ Waiting = {} => AllRight
  /\ \A o \in Waiting : Underway(orders[o])

\* A revocation speaks of an assignment that is there.
Known == \A o \in Waiting : orders[o].kind = "revoke" => orders[o].of \in DOMAIN assignments

HolderInv == DelegationShape /\ Known /\ (muddled \/ Orderly)

AssignOrder == [kind : {"assign"}, to : Wishes, at : {"deactivate", "find", "insert", "chain", "save"},
                parent : BOOLEAN, copy : Shown]
EditOrder   == [kind : {"edit"}, copy : Shown, at : {"save"}]
RevokeOrder == [kind : {"revoke"}, of : Nat \ {0}, at : {"deactivate", "chain"}]

LEMMA OrderKinds ==
  ASSUME DelegationShape, NEW o \in Waiting
  PROVE  /\ orders[o] \in AssignOrder \cup EditOrder \cup RevokeOrder
         /\ orders[o].kind = "assign" <=> orders[o] \in AssignOrder
         /\ orders[o].kind = "edit" <=> orders[o] \in EditOrder
         /\ orders[o].kind = "revoke" <=> orders[o] \in RevokeOrder
         /\ orders[o].at \in {"find", "insert"} => orders[o].kind = "assign"
BY DEF DelegationShape, Order, AssignOrder, EditOrder, RevokeOrder

LEMMA WishFacts ==
  ASSUME NEW to \in Wishes
  PROVE  DOMAIN to \subseteq Fields /\ \A f \in DOMAIN to : to[f] \in Assignees
<1>1. to \in Namings
  BY DelegationAssumption
<1>2. PICK S \in (SUBSET Fields) \ {{}} : to \in [S -> Assignees]
  BY <1>1 DEF Namings
<1>3. QED
  BY <1>2

\* Deactivating an assignment leaves what the assignments say.
LEMMA SameWords ==
  ASSUME NEW f, DOMAIN assignments' = DOMAIN assignments, assignee' = assignee,
         \A i \in DOMAIN assignments : assignments'[i].to = assignments[i].to, Right(f)
  PROVE  Right(f)'
BY DEF Right, NamesLast

LEMMA HolderInit == DelegationInit => HolderInv
<1> SUFFICES ASSUME DelegationInit PROVE HolderInv
  OBVIOUS
<1>1. Waiting = {} /\ orders \in [Waiting -> Order]
  BY DEF DelegationInit, Waiting
<1>2. assignments = << >> /\ DOMAIN assignments = {} /\ assignments \in Seq(Assignment)
  BY DEF DelegationInit
<1>3. DelegationShape
  <2>1. unrevoked \in Nat /\ taken \in Nat /\ taken <= MaxOrders /\ assignee \in Shown
    BY DelegationAssumption DEF DelegationInit, Shown
  <2>2. muddled \in BOOLEAN /\ bulk \subseteq Fields
    BY DEF DelegationInit
  <2>3. Waiting \subseteq 1 .. taken
    BY <1>1
  <2>4. QED
    BY <1>1, <1>2, <2>1, <2>2, <2>3 DEF DelegationShape
<1>4. Orderly /\ Known
  BY <1>1, <1>2 DEF Orderly, LastOnly, AllRight, Right, Known
<1>5. QED
  BY <1>3, <1>4 DEF HolderInv

\* A request arrives.
LEMMA TakeInv ==
  ASSUME HolderInv, NEW order \in Order,
         order.kind # "edit" => order.at = "deactivate",
         order.kind \in {"assign", "edit"} => order.copy = assignee,
         order.kind = "revoke" => order.of \in DOMAIN assignments,
         Take(order)
  PROVE  HolderInv'
<1>1. taken' = taken + 1 /\ taken' \notin Waiting /\ Waiting' = Waiting \cup {taken'}
  BY DEF Take, HolderInv, DelegationShape, Waiting
<1>2. /\ orders'[taken'] = order /\ \A q \in Waiting : orders'[q] = orders[q]
      /\ UNCHANGED <<assignments, unrevoked, assignee, bulk>>
  BY <1>1 DEF Take
<1>3. DelegationShape'
  <2>1. orders' \in [Waiting' -> Order]
    BY <1>1 DEF Take, HolderInv, DelegationShape
  <2>2. taken' \in Nat /\ taken' <= MaxOrders /\ Waiting' \subseteq 1 .. taken'
    BY <1>1, DelegationAssumption DEF Take, HolderInv, DelegationShape
  <2>3. muddled' \in BOOLEAN
    BY DEF Take
  <2>4. QED
    BY <1>2, <2>1, <2>2, <2>3 DEF HolderInv, DelegationShape
<1>4. Known'
  BY <1>1, <1>2 DEF HolderInv, Known
<1>5. ASSUME ~muddled' PROVE Orderly'
  <2>1. Waiting = {} /\ Orderly
    BY <1>5 DEF Take, HolderInv
  <2>2. AllRight' /\ LastOnly'
    BY <1>2, <2>1 DEF Orderly, AllRight, Right, NamesLast, LastOnly
  <2>3. Waiting' = {taken'}
    BY <1>1, <2>1
  <2>4. ASSUME NEW o, o \in Waiting' PROVE Underway(orders[o])' /\ o = taken'
    <3>1. o = taken' /\ orders'[o] = order
      BY <1>2, <2>3, <2>4
    <3>2. QED
      BY <1>2, <2>2, <3>1 DEF Underway
  <2>5. QED
    BY <2>2, <2>3, <2>4 DEF Orderly
<1>6. QED
  BY <1>3, <1>4, <1>5 DEF HolderInv

\* A request goes on to its next statement, or leaves.
LEMMA StepKeepsShape ==
  ASSUME HolderInv, NEW o \in Waiting, NEW order \in Order,
         \/ orders' = [orders EXCEPT ![o] = order]
         \/ Finish(o),
         taken' = taken, muddled' \in BOOLEAN, bulk' \subseteq Fields,
         assignments' \in Seq(Assignment), DOMAIN assignments \subseteq DOMAIN assignments',
         order.kind = orders[o].kind, order.kind = "revoke" => order.of = orders[o].of,
         unrevoked' \in Nat, assignee' \in Shown
  PROVE  DelegationShape' /\ Known'
<1>1. CASE orders' = [orders EXCEPT ![o] = order]
  <2>1. Waiting' = Waiting /\ orders' \in [Waiting -> Order] /\ orders'[o] = order
        /\ \A q \in Waiting \ {o} : orders'[q] = orders[q]
    BY <1>1 DEF HolderInv, DelegationShape, Waiting
  <2>2. DelegationShape'
    BY <2>1 DEF HolderInv, DelegationShape
  <2>3. Known'
    BY <2>1 DEF HolderInv, Known
  <2>4. QED
    BY <2>2, <2>3
<1>2. CASE Finish(o)
  <2>1. Waiting' = Waiting \ {o} /\ \A q \in Waiting' : orders'[q] = orders[q]
    BY <1>2 DEF Finish, Waiting
  <2>2. orders' \in [Waiting' -> Order]
    BY <1>2, <2>1 DEF Finish, HolderInv, DelegationShape
  <2>3. DelegationShape' /\ Known'
    BY <2>1, <2>2 DEF HolderInv, DelegationShape, Known
  <2>4. QED
    BY <2>3
<1>3. QED
  BY <1>1, <1>2

\* Orderly, step by step.  The one request in flight is o.
LEMMA Alone ==
  ASSUME HolderInv, ~muddled, NEW o \in Waiting
  PROVE  /\ Waiting = {o} /\ Orderly /\ Underway(orders[o])
BY DEF HolderInv, Orderly

LEMMA DeactivatePreviousInv ==
  ASSUME HolderInv, NEW o \in Waiting, DeactivatePrevious(o)
  PROVE  HolderInv'
<1> DEFINE order == [orders[o] EXCEPT !.at = "find"]
<1>1. orders[o] \in AssignOrder
  BY OrderKinds DEF DeactivatePrevious, HolderInv
<1>2. /\ order \in Order /\ order.kind = "assign" /\ order.kind = orders[o].kind
      /\ order.at = "find" /\ order.copy = orders[o].copy
  BY <1>1 DEF AssignOrder, Order
<1>3. /\ assignments' = [i \in DOMAIN assignments |-> [assignments[i] EXCEPT !.active = FALSE]]
      /\ orders' = [orders EXCEPT ![o] = order]
      /\ UNCHANGED <<unrevoked, assignee, taken, muddled, bulk>>
  BY DEF DeactivatePrevious, Goon
<1>4. assignments' \in Seq(Assignment) /\ DOMAIN assignments' = DOMAIN assignments
      /\ \A i \in DOMAIN assignments : ~assignments'[i].active /\ assignments'[i].to = assignments[i].to
  <2>1. \A i \in DOMAIN assignments : assignments[i] \in Assignment
    BY DEF HolderInv, DelegationShape
  <2>2. \A i \in DOMAIN assignments : /\ assignments'[i] \in Assignment
                                     /\ assignments'[i].active = FALSE
                                     /\ assignments'[i].to = assignments[i].to
    BY <1>3, <2>1 DEF Assignment
  <2>3. DOMAIN assignments' = DOMAIN assignments
    BY <1>3
  <2>4. assignments' \in Seq(Assignment)
    BY <1>3, <2>2, <2>3 DEF HolderInv, DelegationShape
  <2>5. QED
    BY <2>2, <2>3, <2>4
<1>5. DelegationShape' /\ Known'
  BY <1>2, <1>3, <1>4, StepKeepsShape DEF HolderInv, DelegationShape
<1>6. ASSUME ~muddled' PROVE Orderly'
  <2>1. Waiting' = {o} /\ orders'[o] = order /\ Underway(orders[o])
    BY <1>3, <1>6, Alone DEF Waiting
  <2>2. orders[o].kind = "assign" /\ orders[o].at = "deactivate"
    BY DEF DeactivatePrevious
  <2>3. LastOnly'
    BY <1>4 DEF LastOnly
  <2>6. AllRight'
    <3>1. AllRight
      BY <2>1, <2>2 DEF Underway
    <3>2. QED
      BY <1>3, <1>4, <3>1, SameWords DEF AllRight
  <2>4. ASSUME NEW q, q \in Waiting' PROVE Underway(orders[q])'
    <3>1. orders'[q] = order /\ orders[o].copy = assignee
      BY <2>1, <2>2, <2>4 DEF Underway
    <3>2. \A i \in DOMAIN assignments' : ~assignments'[i].active
      BY <1>4
    <3>3. QED
      BY <1>2, <1>3, <2>6, <3>1, <3>2 DEF Underway
  <2>5. QED
    BY <2>1, <2>3, <2>4 DEF Orderly
<1>7. QED
  BY <1>5, <1>6 DEF HolderInv

LEMMA FindLastChainInv ==
  ASSUME HolderInv, NEW o \in Waiting, FindLastChain(o)
  PROVE  HolderInv'
<1> DEFINE order == [orders[o] EXCEPT !.at = "insert", !.parent = unrevoked > 0]
<1>1. orders[o] \in AssignOrder /\ orders[o].kind = "assign" /\ orders[o].at = "find"
  BY OrderKinds DEF FindLastChain, HolderInv
<1>2. /\ order \in Order /\ order.kind = "assign" /\ order.kind = orders[o].kind
      /\ order.at = "insert" /\ order.copy = orders[o].copy
  <2>1. (unrevoked > 0) \in BOOLEAN
    BY DEF HolderInv, DelegationShape
  <2>2. QED
    BY <1>1, <2>1 DEF AssignOrder, Order
<1>3. /\ orders' = [orders EXCEPT ![o] = order]
      /\ UNCHANGED <<assignments, unrevoked, assignee, taken, muddled, bulk>>
  BY DEF FindLastChain
<1>4. DelegationShape' /\ Known'
  BY <1>2, <1>3, StepKeepsShape DEF HolderInv, DelegationShape
<1>5. ASSUME ~muddled' PROVE Orderly'
  <2>1. Waiting' = {o} /\ orders'[o] = order /\ Orderly /\ Underway(orders[o])
    BY <1>3, <1>5, Alone DEF Waiting
  <2>2. /\ \A i \in DOMAIN assignments : ~assignments[i].active
        /\ AllRight /\ orders[o].copy = assignee
    BY <1>1, <2>1 DEF Underway
  <2>3. AllRight'
    BY <1>3, <2>2 DEF AllRight, Right, NamesLast
  <2>4. ASSUME NEW q, q \in Waiting' PROVE Underway(orders[q])'
    BY <1>2, <1>3, <2>1, <2>2, <2>3, <2>4 DEF Underway
  <2>5. QED
    BY <1>3, <2>1, <2>4 DEF Orderly, LastOnly
<1>6. QED
  BY <1>4, <1>5 DEF HolderInv

LEMMA InsertAssignmentInv ==
  ASSUME HolderInv, NEW o \in Waiting, InsertAssignment(o)
  PROVE  HolderInv'
<1> DEFINE order == [orders[o] EXCEPT !.at = "chain"]
           new   == [to |-> orders[o].to, active |-> TRUE]
<1>1. orders[o] \in AssignOrder /\ orders[o].kind = "assign" /\ orders[o].at = "insert"
  BY OrderKinds DEF InsertAssignment, HolderInv
<1>2. /\ order \in Order /\ order.kind = "assign" /\ order.at = "chain"
      /\ order.kind = orders[o].kind /\ order.to = orders[o].to /\ order.copy = orders[o].copy
      /\ new \in Assignment
  BY <1>1 DEF AssignOrder, Order, Assignment
<1>3. UNCHANGED <<unrevoked, assignee, taken, muddled, bulk>>
  BY DEF InsertAssignment
<1>4. CASE orders[o].parent
  <2>1. Finish(o) /\ assignments' = assignments
    BY <1>4 DEF InsertAssignment
  <2>2. DelegationShape' /\ Known'
    BY <1>2, <1>3, <2>1, StepKeepsShape DEF HolderInv, DelegationShape
  <2>3. ASSUME ~muddled' PROVE Orderly'
    <3>1. Waiting' = {} /\ Orderly /\ Underway(orders[o])
      BY <1>3, <2>1, <2>3, Alone DEF Waiting, Finish
    <3>2. AllRight
      BY <1>1, <3>1 DEF Underway
    <3>3. AllRight' /\ LastOnly'
      BY <1>3, <2>1, <3>1, <3>2 DEF Orderly, LastOnly, AllRight, Right, NamesLast
    <3>4. QED
      BY <3>1, <3>3 DEF Orderly
  <2>4. QED
    BY <2>2, <2>3 DEF HolderInv
<1>5. CASE ~orders[o].parent
  <2>1. orders' = [orders EXCEPT ![o] = order] /\ assignments' = Append(assignments, new)
    BY <1>5 DEF InsertAssignment, Goon
  <2>2. /\ assignments' \in Seq(Assignment) /\ Len(assignments) \in Nat
        /\ DOMAIN assignments = 1 .. Len(assignments)
        /\ DOMAIN assignments' = 1 .. Len(assignments) + 1
        /\ assignments'[Len(assignments) + 1] = new
        /\ \A i \in DOMAIN assignments : assignments'[i] = assignments[i]
    BY <1>2, <2>1 DEF HolderInv, DelegationShape
  <2>3. DelegationShape' /\ Known'
    <3>1. DOMAIN assignments \subseteq DOMAIN assignments'
      BY <2>2
    <3>2. QED
      BY <1>2, <1>3, <2>1, <2>2, <3>1, StepKeepsShape DEF HolderInv, DelegationShape
  <2>4. ASSUME ~muddled' PROVE Orderly'
    <3>1. Waiting' = {o} /\ orders'[o] = order /\ Orderly /\ Underway(orders[o])
      BY <1>3, <2>1, <2>4, Alone DEF Waiting
    <3>2. /\ \A i \in DOMAIN assignments : ~assignments[i].active
          /\ AllRight /\ orders[o].copy = assignee
      BY <1>1, <3>1 DEF Underway
    <3>3. PICK n : n = Len(assignments) + 1
      OBVIOUS
    <3>7. /\ Len(assignments') = n /\ n > 0 /\ n \in DOMAIN assignments' /\ assignments'[n] = new
          /\ \A i \in DOMAIN assignments' : i = n \/ (i \in DOMAIN assignments /\ i < n)
          /\ DOMAIN assignments \subseteq DOMAIN assignments'
      BY <2>1, <2>2, <3>3
    <3>4. LastOnly'
      BY <2>2, <3>2, <3>7 DEF LastOnly
    <3>8. ASSUME NEW f \in (Fields \ bulk) \ DOMAIN orders[o].to PROVE Right(f)'
      <4>1. ASSUME NEW i \in DOMAIN assignments', NamesLast(i, f)'
            PROVE  assignments'[i].to[f] = assignee'[f]
        <5>1. i # n
          BY <3>7, <4>1 DEF NamesLast
        <5>2. i \in DOMAIN assignments /\ assignments'[i] = assignments[i]
          BY <2>2, <3>7, <5>1
        <5>3. NamesLast(i, f)
          BY <2>2, <3>7, <4>1, <5>2 DEF NamesLast
        <5>4. QED
          BY <1>3, <3>2, <5>2, <5>3 DEF AllRight, Right
      <4>2. QED
        BY <4>1 DEF Right
    <3>5. ASSUME NEW q, q \in Waiting' PROVE Underway(orders[q])'
      <4>1. orders'[q] = order
        BY <3>1, <3>5
      <4>2. assignments'[Len(assignments')].to = order.to
        BY <1>2, <3>7
      <4>3. QED
        BY <1>2, <1>3, <3>2, <3>7, <3>8, <4>1, <4>2 DEF Underway
    <3>6. QED
      BY <3>1, <3>4, <3>5 DEF Orderly
  <2>5. QED
    BY <2>3, <2>4 DEF HolderInv
<1>6. QED
  BY <1>4, <1>5

LEMMA InsertChainInv ==
  ASSUME HolderInv, NEW o \in Waiting, InsertChain(o)
  PROVE  HolderInv'
<1> DEFINE order == [orders[o] EXCEPT !.at = "save"]
<1>1. orders[o] \in AssignOrder /\ orders[o].kind = "assign" /\ orders[o].at = "chain"
  BY OrderKinds DEF InsertChain, HolderInv
<1>2. /\ order \in Order /\ order.kind = "assign" /\ order.at = "save"
      /\ order.kind = orders[o].kind /\ order.to = orders[o].to /\ order.copy = orders[o].copy
  BY <1>1 DEF AssignOrder, Order
<1>3. /\ orders' = [orders EXCEPT ![o] = order] /\ unrevoked' = unrevoked + 1
      /\ UNCHANGED <<assignments, assignee, taken, muddled, bulk>>
  BY DEF InsertChain, Goon
<1>4. DelegationShape' /\ Known'
  <2>1. unrevoked' \in Nat /\ DOMAIN assignments \subseteq DOMAIN assignments'
    BY <1>3 DEF HolderInv, DelegationShape
  <2>2. QED
    BY <1>2, <1>3, <2>1, StepKeepsShape DEF HolderInv, DelegationShape
<1>5. ASSUME ~muddled' PROVE Orderly'
  <2>1. Waiting' = {o} /\ orders'[o] = order /\ Orderly /\ Underway(orders[o])
    BY <1>3, <1>5, Alone DEF Waiting
  <2>2. /\ orders[o].copy = assignee
        /\ Len(assignments) > 0 /\ assignments[Len(assignments)].to = orders[o].to
        /\ \A f \in (Fields \ bulk) \ DOMAIN orders[o].to : Right(f)
    BY <1>1, <2>1 DEF Underway
  <2>5. \A f \in (Fields \ bulk) \ DOMAIN orders[o].to : Right(f)'
    BY <1>3, <2>2, SameWords
  <2>3. ASSUME NEW q, q \in Waiting' PROVE Underway(orders[q])'
    BY <1>2, <1>3, <2>1, <2>2, <2>3, <2>5 DEF Underway
  <2>4. QED
    BY <1>3, <2>1, <2>3 DEF Orderly, LastOnly
<1>6. QED
  BY <1>4, <1>5 DEF HolderInv

LEMMA SaveAssigneeInv ==
  ASSUME HolderInv, NEW o \in Waiting, SaveAssignee(o)
  PROVE  HolderInv'
<1>1. orders[o] \in AssignOrder /\ orders[o].kind = "assign" /\ orders[o].at = "save"
  BY OrderKinds DEF SaveAssignee, HolderInv
<1>2. PICK to, copy : to = orders[o].to /\ copy = orders[o].copy
  OBVIOUS
<1>3. to \in Wishes /\ copy \in Shown /\ orders[o] \in Order
  BY <1>1, <1>2 DEF AssignOrder, HolderInv, DelegationShape
<1>4. /\ Finish(o) /\ assignee' = [f \in Fields |-> IF f \in DOMAIN to THEN to[f] ELSE copy[f]]
      /\ UNCHANGED <<assignments, unrevoked, taken, muddled>> /\ bulk' = bulk \ DOMAIN to
  BY <1>2 DEF SaveAssignee
<1>5. assignee' \in Shown /\ bulk' \subseteq Fields
  BY <1>3, <1>4, WishFacts DEF Shown, HolderInv, DelegationShape
<1>6. DelegationShape' /\ Known'
  BY <1>3, <1>4, <1>5, StepKeepsShape DEF HolderInv, DelegationShape
<1>7. ASSUME ~muddled' PROVE Orderly'
  <2>1. Waiting' = {} /\ Orderly /\ Underway(orders[o])
    BY <1>4, <1>7, Alone DEF Waiting, Finish
  <2>2. /\ copy = assignee /\ Len(assignments) > 0 /\ assignments[Len(assignments)].to = to
        /\ \A f \in (Fields \ bulk) \ DOMAIN to : Right(f)
    BY <1>1, <1>2, <2>1 DEF Underway
  <2>3. ASSUME NEW f \in Fields \ bulk', NEW i \in DOMAIN assignments, NamesLast(i, f)
        PROVE  assignments[i].to[f] = assignee'[f]
    <3>1. CASE f \in DOMAIN to
      <4>1. Len(assignments) \in DOMAIN assignments /\ i \in 1 .. Len(assignments)
        BY <2>2 DEF HolderInv, DelegationShape
      <4>2. i = Len(assignments)
        BY <2>2, <2>3, <3>1, <4>1 DEF NamesLast
      <4>3. QED
        BY <1>4, <2>2, <3>1, <4>2
    <3>2. CASE f \notin DOMAIN to
      <4>1. Right(f)
        BY <1>4, <2>2, <3>2
      <4>2. QED
        BY <1>4, <2>2, <2>3, <3>2, <4>1 DEF Right
    <3>3. QED
      BY <3>1, <3>2
  <2>4. AllRight'
    <3>1. assignments' = assignments /\ \A i, f : NamesLast(i, f)' = NamesLast(i, f)
      BY <1>4 DEF NamesLast
    <3>2. QED
      BY <2>3, <3>1 DEF AllRight, Right
  <2>5. QED
    BY <1>4, <2>1, <2>4 DEF Orderly, LastOnly
<1>8. QED
  BY <1>6, <1>7 DEF HolderInv

LEMMA SaveEditedInv ==
  ASSUME HolderInv, NEW o \in Waiting, SaveEdited(o)
  PROVE  HolderInv'
<1>1. orders[o] \in EditOrder /\ orders[o].kind = "edit"
  BY OrderKinds DEF SaveEdited, HolderInv
<1>2. PICK copy : copy = orders[o].copy
  OBVIOUS
<1>3. copy \in Shown /\ orders[o] \in Order /\ assignee \in Shown
  BY <1>1, <1>2 DEF EditOrder, HolderInv, DelegationShape
<1>4. /\ Finish(o) /\ assignee' = [f \in Fields |-> IF f = "role" THEN copy[f] ELSE assignee[f]]
      /\ UNCHANGED <<assignments, unrevoked, taken, muddled, bulk>>
  BY <1>2 DEF SaveEdited
<1>5. assignee' \in Shown
  BY <1>3, <1>4 DEF Shown
<1>6. DelegationShape' /\ Known'
  BY <1>3, <1>4, <1>5, StepKeepsShape DEF HolderInv, DelegationShape
<1>7. ASSUME ~muddled' PROVE Orderly'
  <2>1. Waiting' = {} /\ Orderly /\ Underway(orders[o])
    BY <1>4, <1>7, Alone DEF Waiting, Finish
  <2>2. copy = assignee /\ AllRight
    BY <1>1, <1>2, <2>1 DEF Underway
  <2>3. \A f \in Fields : assignee'[f] = assignee[f]
    BY <1>4, <2>2
  <2>4. AllRight'
    BY <1>4, <2>2, <2>3 DEF AllRight, Right, NamesLast
  <2>5. QED
    BY <1>4, <2>1, <2>4 DEF Orderly, LastOnly
<1>8. QED
  BY <1>6, <1>7 DEF HolderInv

LEMMA BulkAssignInv ==
  ASSUME HolderInv, NEW to \in Wishes, BulkAssign(to)
  PROVE  HolderInv'
<1>1. /\ taken' = taken + 1 /\ taken < MaxOrders /\ bulk' = Fields
      /\ assignee' = [f \in Fields |-> IF f \in DOMAIN to THEN to[f] ELSE NoUser]
      /\ muddled' = (muddled \/ Waiting # {})
      /\ UNCHANGED <<assignments, unrevoked, orders>>
  BY DEF BulkAssign
<1>2. Waiting' = Waiting /\ Waiting \subseteq 1 .. taken'
  BY <1>1 DEF Waiting, HolderInv, DelegationShape
<1>3. assignee' \in Shown
  BY <1>1, WishFacts DEF Shown
<1>4. DelegationShape' /\ Known'
  BY <1>1, <1>2, <1>3, DelegationAssumption DEF HolderInv, DelegationShape, Known
<1>5. ASSUME ~muddled' PROVE Orderly'
  <2>1. Orderly /\ Waiting' = {}
    BY <1>1, <1>2, <1>5 DEF HolderInv
  <2>2. AllRight'
    BY <1>1 DEF AllRight
  <2>3. QED
    BY <1>1, <2>1, <2>2 DEF Orderly, LastOnly
<1>6. QED
  BY <1>4, <1>5 DEF HolderInv

LEMMA DeactivateRevokedInv ==
  ASSUME HolderInv, NEW o \in Waiting, DeactivateRevoked(o)
  PROVE  HolderInv'
<1> DEFINE order == [orders[o] EXCEPT !.at = "chain"]
           i0    == orders[o].of
<1>1. orders[o] \in RevokeOrder /\ orders[o].kind = "revoke" /\ i0 \in DOMAIN assignments
  BY OrderKinds DEF DeactivateRevoked, HolderInv, Known
<1>2. /\ order \in Order /\ order.kind = "revoke"
      /\ order.kind = orders[o].kind /\ order.of = orders[o].of
  BY <1>1 DEF RevokeOrder, Order
<1>3. /\ orders' = [orders EXCEPT ![o] = order]
      /\ assignments' = [assignments EXCEPT ![i0].active = FALSE]
      /\ UNCHANGED <<unrevoked, assignee, taken, muddled, bulk>>
  BY DEF DeactivateRevoked, Goon
<1>4. /\ assignments' \in Seq(Assignment) /\ DOMAIN assignments' = DOMAIN assignments
      /\ \A i \in DOMAIN assignments : /\ assignments'[i].to = assignments[i].to
                                       /\ assignments'[i].active => assignments[i].active
  <2>1. \A i \in DOMAIN assignments : assignments[i] \in Assignment
    BY DEF HolderInv, DelegationShape
  <2>2. assignments' = [assignments EXCEPT ![i0] = [assignments[i0] EXCEPT !.active = FALSE]]
    BY <1>1, <1>3
  <2>3. [assignments[i0] EXCEPT !.active = FALSE] \in Assignment
        /\ [assignments[i0] EXCEPT !.active = FALSE].to = assignments[i0].to
        /\ [assignments[i0] EXCEPT !.active = FALSE].active = FALSE
    BY <1>1, <2>1 DEF Assignment
  <2>4. assignments' \in Seq(Assignment) /\ DOMAIN assignments' = DOMAIN assignments
    BY <1>1, <2>2, <2>3 DEF HolderInv, DelegationShape
  <2>5. QED
    BY <1>1, <2>2, <2>3, <2>4
<1>5. DelegationShape' /\ Known'
  BY <1>2, <1>3, <1>4, StepKeepsShape DEF HolderInv, DelegationShape
<1>6. ASSUME ~muddled' PROVE Orderly'
  <2>1. Waiting' = {o} /\ orders'[o] = order /\ Orderly /\ Underway(orders[o])
    BY <1>3, <1>6, Alone DEF Waiting
  <2>2. AllRight
    BY <1>1, <2>1 DEF Underway
  <2>6. Len(assignments') = Len(assignments)
    BY <1>4 DEF HolderInv, DelegationShape
  <2>3. AllRight' /\ LastOnly'
    BY <1>3, <1>4, <2>1, <2>2, <2>6, SameWords DEF AllRight, LastOnly, Orderly
  <2>4. ASSUME NEW q, q \in Waiting' PROVE Underway(orders[q])'
    BY <1>2, <2>1, <2>3, <2>4 DEF Underway
  <2>5. QED
    BY <2>1, <2>3, <2>4 DEF Orderly
<1>7. QED
  BY <1>5, <1>6 DEF HolderInv

LEMMA RevokeChainsInv ==
  ASSUME HolderInv, NEW o \in Waiting, RevokeChains(o)
  PROVE  HolderInv'
<1>1. orders[o] \in Order /\ orders[o].kind = "revoke"
  BY DEF RevokeChains, HolderInv, DelegationShape
<1>2. /\ Finish(o) /\ unrevoked' = 0
      /\ UNCHANGED <<assignments, assignee, taken, muddled, bulk>>
  BY DEF RevokeChains
<1>3. DelegationShape' /\ Known'
  BY <1>1, <1>2, StepKeepsShape DEF HolderInv, DelegationShape
<1>4. ASSUME ~muddled' PROVE Orderly'
  <2>1. Waiting' = {} /\ Orderly /\ Underway(orders[o])
    BY <1>2, <1>4, Alone DEF Waiting, Finish
  <2>2. AllRight
    BY <1>1, <2>1 DEF Underway
  <2>3. AllRight'
    BY <1>2, <2>2, SameWords DEF AllRight
  <2>4. QED
    BY <1>2, <2>1, <2>3 DEF Orderly, LastOnly
<1>5. QED
  BY <1>3, <1>4 DEF HolderInv

LEMMA FailOrderInv ==
  ASSUME HolderInv, NEW o \in Waiting, FailOrder(o)
  PROVE  HolderInv'
<1>1. orders[o] \in Order
  BY DEF HolderInv, DelegationShape
<1>2. Finish(o) /\ muddled' = TRUE /\ UNCHANGED <<assignments, unrevoked, assignee, taken, bulk>>
  BY DEF FailOrder
<1>3. DelegationShape' /\ Known'
  BY <1>1, <1>2, StepKeepsShape DEF HolderInv, DelegationShape
<1>4. QED
  BY <1>2, <1>3 DEF HolderInv

LEMMA HolderStep == HolderInv /\ [DelegationNext]_delegation => HolderInv'
<1> SUFFICES ASSUME HolderInv, [DelegationNext]_delegation PROVE HolderInv'
  OBVIOUS
<1>1. CASE UNCHANGED delegation
  <2>1. UNCHANGED <<assignments, unrevoked, assignee, orders, taken, muddled, bulk>>
    BY <1>1 DEF delegation
  <2>2. AllRight' = AllRight /\ \A f : Right(f)' = Right(f)
    BY <2>1 DEF AllRight, Right, NamesLast
  <2>3. QED
    BY <2>1, <2>2 DEF HolderInv, DelegationShape, Known, Orderly, LastOnly, Underway, Waiting
<1>2. ASSUME NEW to \in Wishes, Assign(to) PROVE HolderInv'
  <2> DEFINE order == [kind |-> "assign", to |-> to, at |-> "deactivate", parent |-> FALSE,
                       copy |-> assignee]
  <2>1. order \in Order
    BY DEF Order, HolderInv, DelegationShape
  <2>2. QED
    BY <1>2, <2>1, TakeInv DEF Assign
<1>7. ASSUME EditTask PROVE HolderInv'
  <2> DEFINE order == [kind |-> "edit", copy |-> assignee, at |-> "save"]
  <2>1. order \in Order
    BY DEF Order, HolderInv, DelegationShape
  <2>2. QED
    BY <1>7, <2>1, TakeInv DEF EditTask
<1>3. ASSUME NEW i \in DOMAIN assignments, Revoke(i) PROVE HolderInv'
  <2> DEFINE order == [kind |-> "revoke", of |-> i, at |-> "deactivate"]
  <2>1. i \in Nat \ {0}
    BY DEF HolderInv, DelegationShape
  <2>2. order \in Order
    BY <2>1 DEF Order
  <2>3. QED
    BY <1>3, <2>2, TakeInv DEF Revoke
<1>4. ASSUME NEW to \in Wishes, BulkAssign(to) PROVE HolderInv'
  BY <1>4, BulkAssignInv
<1>5. ASSUME NEW o \in Waiting,
             \/ DeactivatePrevious(o) \/ FindLastChain(o) \/ InsertAssignment(o)
             \/ InsertChain(o) \/ SaveAssignee(o) \/ SaveEdited(o)
             \/ DeactivateRevoked(o) \/ RevokeChains(o) \/ FailOrder(o)
      PROVE  HolderInv'
  BY <1>5, DeactivatePreviousInv, FindLastChainInv, InsertAssignmentInv, InsertChainInv,
     SaveAssigneeInv, SaveEditedInv, DeactivateRevokedInv, RevokeChainsInv, FailOrderInv
<1>6. QED
  BY <1>1, <1>2, <1>3, <1>4, <1>5, <1>7 DEF DelegationNext

\* As long as requests neither overlap nor fail: no assignment but the last is active, and what
\* the task shows as its user, department and role is what the last assignment that names one
\* said, unless a bulk assignment wrote it, whoever is assigned and however often.
THEOREM HolderShown == DelegationSpec => []HolderIsShown
<1>1. HolderInv => HolderIsShown
  BY DEF HolderInv, Orderly, LastOnly, AllRight, Right, HolderIsShown
<1>2. QED
  BY HolderInit, HolderStep, <1>1, PTL DEF DelegationSpec

-----------------------------------------------------------------------------
(***************************************************************************)
(* The types.  What TaskInv and HolderInv do not say yet: the bounds, the  *)
(* copies of a status, and where a request may be.                         *)
(***************************************************************************)
Statements == {"save", "log", "drop", "get", "fill"}

Underways(c) ==
  /\ c.at \in Statements /\ c.drops \subseteq Tasks
  /\ c.copy = [t \in DOMAIN c.copy |-> c.copy[t]]

DeskBounds ==
  /\ cache \in [Tasks -> Row \cup {NoEntry}] /\ told \in [Tasks -> Status]
  /\ admitted <= MaxCalls /\ clock \in 0..MaxTime /\ faults \in 0..MaxFaults
  /\ sched.now \in Int /\ sched.offset \in Nat
  /\ \A r \in InFlight : Underways(calls[r])

\* One request moves on or leaves.
LEMMA BoundsMove ==
  ASSUME DeskBounds, NEW r \in InFlight, NEW d, OneMoves(r, d), r \in InFlight' => Underways(d),
         cache' \in [Tasks -> Row \cup {NoEntry}], told' \in [Tasks -> Status],
         admitted' = admitted, clock' = clock, faults' \in 0..MaxFaults, sched' = sched
  PROVE  DeskBounds'
<1>1. ASSUME NEW q \in InFlight' PROVE Underways(calls'[q])
  BY DEF OneMoves, DeskBounds
<1>. QED  BY <1>1 DEF DeskBounds, Underways

LEMMA BoundsGoOn ==
  ASSUME TaskInv, DeskBounds, NEW r \in InFlight, NEW at \in Statements, Goto(r, at) \/ Leave(r),
         cache' \in [Tasks -> Row \cup {NoEntry}], told' \in [Tasks -> Status],
         admitted' = admitted, clock' = clock, faults' \in 0..MaxFaults, sched' = sched
  PROVE  DeskBounds'
<1>1. PICK c : c = calls[r]
  OBVIOUS
<1>2. CASE Goto(r, at)
  <2>1. PICK d : d = Becomes(c, at, c.drops)
    OBVIOUS
  <2>2. OneMoves(r, d) /\ Underways(d)
    BY <1>1, <1>2, <2>1, GoesOn, BecomesIs DEF DeskBounds, Underways
  <2>. QED  BY <2>2, BoundsMove
<1>3. CASE Leave(r)
  <2>1. PICK d : d = Becomes(c, "left", {})
    OBVIOUS
  <2>2. OneMoves(r, d) /\ r \notin InFlight'
    BY <1>3, <2>1, GoesAway
  <2>. QED  BY <2>2, BoundsMove
<1>. QED  BY <1>2, <1>3

\* No request moves.
LEMMA BoundsRest ==
  ASSUME DeskBounds, calls' = calls, told' = told, admitted' = admitted,
         cache' \in [Tasks -> Row \cup {NoEntry}],
         clock' \in 0..MaxTime, faults' \in 0..MaxFaults, sched'.now \in Int, sched'.offset \in Nat
  PROVE  DeskBounds'
BY DEF DeskBounds, InFlight, Underways

LEMMA EnterBounds ==
  ASSUME TaskInv, DeskBounds, NEW ask, NEW found, NEW at \in Statements, NEW drops \in SUBSET Tasks,
         Enter(ask, found, at, drops), UNCHANGED <<clock, faults, sched>>
  PROVE  DeskBounds'
<1>1. PICK new, c : new = admitted + 1
                    /\ c = [ask |-> ask, at |-> at, drops |-> drops, copy |-> [t \in found |-> rows[t]]]
  OBVIOUS
<1>2. calls' = [q \in InFlight \cup {new} |-> IF q = new THEN c ELSE calls[q]]
  BY <1>1 DEF Enter
<1>3. ASSUME NEW q \in InFlight' PROVE Underways(calls'[q])
  BY <1>1, <1>2 DEF InFlight, DeskBounds, Underways
<1>4. admitted' <= MaxCalls
  BY DeskAssumption DEF Enter, TaskInv, Shape
<1>. QED  BY <1>3, <1>4 DEF DeskBounds, Underways, Enter

LEMMA DropBounds ==
  ASSUME TaskInv, DeskBounds, NEW r \in InFlight, Drop(r), sched' = sched
  PROVE  DeskBounds'
<1>1. PICK c : c = calls[r]
  OBVIOUS
<1>2. CallShape(c) /\ Underways(c) /\ c.drops \subseteq Tasks
  BY <1>1 DEF TaskInv, DeskBounds, Underways
<1>3. PICK t \in c.drops, works \in BOOLEAN :
        /\ works \/ faults < MaxFaults
        /\ faults' = IF works THEN faults ELSE faults + 1
        /\ cache' = IF works THEN [cache EXCEPT ![t] = NoEntry] ELSE cache
        /\ calls' = IF c.drops \ {t} # {} THEN [calls EXCEPT ![r].drops = c.drops \ {t}]
                    ELSE IF Answers(c.ask.kind)
                    THEN [calls EXCEPT ![r].drops = {}, ![r].at = "get"]
                    ELSE [q \in InFlight \ {r} |-> calls[q]]
  BY <1>1 DEF Drop
<1>4. cache' \in [Tasks -> Row \cup {NoEntry}]
  BY <1>3 DEF DeskBounds
<1>5. faults' \in 0..MaxFaults
  BY <1>3, DeskAssumption DEF DeskBounds
<1>6. told' = told /\ admitted' = admitted /\ clock' = clock
  BY DEF Drop
<1>7. PICK left : left = c.drops \ {t} /\ left \subseteq Tasks
  BY <1>2
<1>8. CASE left # {}
  <2>1. PICK d : d = Becomes(c, "drop", left)
    OBVIOUS
  <2>2. calls' = [calls EXCEPT ![r] = [c EXCEPT !.drops = left]]
    BY <1>1, <1>3, <1>7, <1>8
  <2>3. [c EXCEPT !.drops = left] = d
    <3>1. c.at = "drop"
      BY <1>1 DEF Drop
    <3>. QED  BY <1>2, <2>1, <3>1 DEF CallShape, Becomes
  <2>4. InFlight' = InFlight /\ calls'[r] = d /\ \A q \in InFlight \ {r} : calls'[q] = calls[q]
    BY <2>2, <2>3 DEF InFlight
  <2>5. Underways(d)
    <3>1. d.at \in {"drop", "get"} /\ d.copy = c.copy /\ d.drops = left
      BY <2>1, BecomesIs
    <3>. QED  BY <1>2, <1>7, <3>1 DEF Underways, Statements
  <2>. QED  BY <1>4, <1>5, <1>6, <2>4, <2>5, BoundsMove DEF DeskBounds, OneMoves
<1>9. CASE left = {} /\ Answers(c.ask.kind)
  <2>1. PICK d : d = Becomes(c, "get", left)
    OBVIOUS
  <2>2. calls' = [calls EXCEPT ![r].drops = left, ![r].at = "get"]
    BY <1>3, <1>7, <1>9
  <2>3. calls'[r] = [c EXCEPT !.drops = left, !.at = "get"]
    BY <1>1, <2>2 DEF InFlight
  <2>4. InFlight' = InFlight /\ calls'[r] = d /\ \A q \in InFlight \ {r} : calls'[q] = calls[q]
    <3>1. calls'[r] = d
      BY <1>2, <2>1, <2>3 DEF CallShape, Becomes
    <3>. QED  BY <2>2, <3>1 DEF InFlight
  <2>5. Underways(d)
    <3>1. d.at \in {"drop", "get"} /\ d.copy = c.copy /\ d.drops = left
      BY <2>1, BecomesIs
    <3>. QED  BY <1>2, <1>7, <3>1 DEF Underways, Statements
  <2>. QED  BY <1>4, <1>5, <1>6, <2>4, <2>5, BoundsMove DEF DeskBounds, OneMoves
<1>10. CASE left = {} /\ ~Answers(c.ask.kind)
  <2>1. Leave(r)
    BY <1>3, <1>7, <1>10 DEF Leave
  <2>2. "drop" \in Statements
    BY DEF Statements
  <2>. QED  BY <1>4, <1>5, <1>6, <2>1, <2>2, BoundsGoOn DEF DeskBounds
<1>. QED  BY <1>8, <1>9, <1>10

LEMMA ProceedBounds ==
  ASSUME TaskInv, DeskBounds, NEW r \in InFlight, Proceed(r), sched' = sched
  PROVE  DeskBounds'
<1>1. PICK c : c = calls[r]
  OBVIOUS
<1>2. CallShape(c) /\ c.ask \in Writing \cup Reading /\ c.ask.on \subseteq Tasks
  BY <1>1, AskFacts DEF TaskInv, CallShape
<1>3. /\ cache \in [Tasks -> Row \cup {NoEntry}] /\ told \in [Tasks -> Status]
      /\ faults \in 0..MaxFaults
  BY DEF DeskBounds
<1>4. {"save", "log", "drop", "get", "fill"} \subseteq Statements
  BY DEF Statements
<1>5. CASE (SaveCopy(r) \/ UpdateStatus(r) \/ SoftDelete(r)) /\ UNCHANGED <<clock, faults>>
  <2>1. PICK at \in Statements : Goto(r, at)
    BY <1>4, <1>5 DEF SaveCopy, UpdateStatus, SoftDelete, AfterSave
  <2>2. cache' = cache /\ told' = told /\ admitted' = admitted
    BY <1>5 DEF SaveCopy, UpdateStatus, SoftDelete, AfterSave
  <2>. QED  BY <1>3, <1>5, <2>1, <2>2, BoundsGoOn
<1>6. CASE Log(r) /\ UNCHANGED <<clock, faults>>
  <2>1. Goto(r, "drop") \/ Leave(r)
    BY <1>6 DEF Log
  <2>2. c.ask.kind \in {"status", "bulkStatus", "assign", "bulkAssign"} => c.ask.to \in Status
    BY <1>2, AskFacts DEF Status
  <2>3. told' \in [Tasks -> Status]
    BY <1>1, <1>3, <1>6, <2>2 DEF Log
  <2>. QED  BY <1>3, <1>4, <1>6, <2>1, <2>3, BoundsGoOn DEF Log
<1>7. CASE Get(r) /\ UNCHANGED <<clock, faults>>
  <2>1. PICK t : t = CHOOSE u \in c.ask.on : TRUE
    OBVIOUS
  <2>2. CASE Leave(r)
    BY <1>3, <1>4, <1>7, <2>2, BoundsGoOn DEF Get
  <2>3. CASE calls' = [calls EXCEPT ![r].at = "fill", ![r].copy = [u \in {t} |-> rows[u]]]
    <3>1. PICK copy : copy = [u \in {t} |-> rows[u]]
      OBVIOUS
    <3>2. PICK d : d = [ask |-> c.ask, at |-> "fill", copy |-> copy, drops |-> c.drops]
      OBVIOUS
    <3>3. calls'[r] = [c EXCEPT !.at = "fill", !.copy = copy]
      BY <1>1, <2>3, <3>1 DEF InFlight
    <3>4. calls'[r] = d
      BY <1>2, <3>2, <3>3 DEF CallShape
    <3>5. InFlight' = InFlight /\ \A q \in InFlight \ {r} : calls'[q] = calls[q]
      BY <2>3 DEF InFlight
    <3>6. Underways(d)
      <4>1. d.at = "fill" /\ d.copy = copy /\ d.drops = c.drops /\ c.drops \subseteq Tasks
        BY <1>1, <3>2 DEF Underways, DeskBounds
      <4>2. copy = [u \in DOMAIN copy |-> copy[u]]
        BY <3>1
      <4>. QED  BY <1>4, <4>1, <4>2 DEF Underways
    <3>. QED  BY <1>3, <1>7, <3>4, <3>5, <3>6, BoundsMove DEF OneMoves, Get
  <2>. QED  BY <1>1, <1>7, <2>1, <2>2, <2>3 DEF Get
<1>8. CASE Fill(r) /\ UNCHANGED <<clock, faults>>
  <2>1. \A t \in DOMAIN c.copy : c.copy[t] \in Row
    BY <1>2 DEF CallShape
  <2>2. cache' \in [Tasks -> Row \cup {NoEntry}]
    BY <1>1, <1>3, <1>8, <2>1 DEF Fill
  <2>. QED  BY <1>3, <1>4, <1>8, <2>2, BoundsGoOn DEF Fill
<1>9. CASE Fail(r)
  <2>1. faults' \in 0..MaxFaults
    <3>1. faults < MaxFaults /\ faults' = faults + 1
      BY <1>9, Zenon DEF Fail
    <3>. QED  BY <1>3, <3>1, DeskAssumption
  <2>. QED  BY <1>3, <1>4, <1>9, <2>1, BoundsGoOn DEF Fail
<1>. QED  BY <1>5, <1>6, <1>7, <1>8, <1>9, DropBounds DEF Proceed

LEMMA ArriveBounds ==
  ASSUME TaskInv, DeskBounds, Arrive, sched' = sched
  PROVE  DeskBounds'
<1>1. UNCHANGED <<clock, faults>> /\ "save" \in Statements /\ "get" \in Statements
  BY DEF Arrive, Statements
<1>2. ASSUME NEW ask \in Writing, Load(ask) PROVE DeskBounds'
  <2>1. ask.on \subseteq Tasks
    BY AskFacts
  <2>2. PICK found, drops : /\ Enter(ask, found, "save", drops)
                            /\ found = (CASE ask.kind \in {"status", "bulkStatus"} ->
                                             {t \in Alive(ask.on) : Allowed(t, ask.to)}
                                        [] ask.kind = "bulkDelete" -> ask.on
                                        [] OTHER -> Alive(ask.on))
                            /\ drops \in {{}, found, ask.on}
    BY <1>2, Zenon DEF Load
  <2>3. drops \in SUBSET Tasks
    BY <2>1, <2>2 DEF Alive
  <2>. QED  BY <1>1, <2>2, <2>3, EnterBounds
<1>3. ASSUME NEW ask \in Reading, ReadRequest(ask) PROVE DeskBounds'
  BY <1>1, <1>3, EnterBounds DEF ReadRequest
<1>. QED  BY <1>2, <1>3 DEF Arrive

LEMMA BoundsHold == TaskInv /\ DeskBounds /\ [EscalationNext]_vars => DeskBounds'
<1> SUFFICES ASSUME TaskInv, DeskBounds, [EscalationNext]_vars PROVE DeskBounds'
  OBVIOUS
<1>1. /\ MaxTime \in Nat /\ MaxFaults \in Nat /\ BREACH_BATCH_SIZE \in Nat
      /\ sched.offset \in Nat /\ clock \in 0..MaxTime /\ faults \in 0..MaxFaults
  BY DeskAssumption, BatchAssumption DEF DeskBounds
<1>2. CASE DeskNext /\ UNCHANGED office
  <2>1. sched' = sched
    BY <1>2 DEF office
  <2>2. ASSUME NEW t \in Tasks, Expire(t), UNCHANGED <<clock, faults>> PROVE DeskBounds'
    <3>1. cache' \in [Tasks -> Row \cup {NoEntry}]
      BY <2>2 DEF Expire, DeskBounds
    <3>. QED  BY <1>1, <2>1, <2>2, <3>1, BoundsRest DEF Expire, DeskBounds
  <2>3. CASE Time
    <3>1. clock' \in 0..MaxTime
      BY <1>1, <2>3 DEF Time
    <3>. QED  BY <1>1, <2>1, <2>3, <3>1, BoundsRest DEF Time, desk, DeskBounds
  <2>. QED  BY <1>2, <2>1, <2>2, <2>3, ProceedBounds, ArriveBounds DEF DeskNext
<1>3. CASE Scheduler \/ TickFails \/ UNCHANGED vars
  <2>1. calls' = calls /\ told' = told /\ admitted' = admitted /\ cache' = cache /\ clock' = clock
    BY <1>3 DEF Scheduler, Tick, FindPage, MarkPage, LogPage, TickFails, desk, vars
  <2>2. faults' \in 0..MaxFaults
    <3>1. faults' = faults \/ (faults < MaxFaults /\ faults' = faults + 1)
      BY <1>3, Zenon DEF Scheduler, Tick, FindPage, MarkPage, LogPage, TickFails, vars
    <3>. QED  BY <1>1, <3>1
  <2>3. sched'.now \in Int /\ sched'.offset \in Nat
    <3>1. PICK a, n, o, g : /\ sched = [at |-> a, now |-> n, offset |-> o, page |-> g]
                            /\ n \in Int /\ o \in Nat
      BY DEF TaskInv, Shape, DeskBounds
    <3>2. CASE Tick
      BY <1>1, <3>2 DEF Tick
    <3>3. CASE FindPage
      <4>1. PICK page : sched' = IF page = {} THEN Idle ELSE [sched EXCEPT !.at = "mark", !.page = page]
        BY <3>3 DEF FindPage
      <4>. QED  BY <3>1, <4>1 DEF Idle
    <3>4. CASE MarkPage
      BY <3>1, <3>4 DEF MarkPage
    <3>5. CASE LogPage
      <4>1. \/ sched' = Idle
            \/ sched' = [sched EXCEPT !.at = "find", !.page = {}, !.offset = o + BREACH_BATCH_SIZE]
        BY <3>1, <3>5 DEF LogPage
      <4>2. o + BREACH_BATCH_SIZE \in Nat
        BY <1>1, <3>1
      <4>3. PICK m : m = o + BREACH_BATCH_SIZE
        OBVIOUS
      <4>4. sched' = Idle \/ sched' = [sched EXCEPT !.at = "find", !.page = {}, !.offset = m]
        BY <4>1, <4>3
      <4>5. sched' = Idle \/ sched' = [at |-> "find", now |-> n, offset |-> m, page |-> {}]
        BY <3>1, <4>4
      <4>. QED  BY <3>1, <4>2, <4>3, <4>5 DEF Idle
    <3>6. CASE TickFails
      BY <3>6 DEF TickFails, Idle
    <3>7. CASE UNCHANGED vars
      BY <3>7 DEF vars, DeskBounds
    <3>. QED  BY <1>3, <3>2, <3>3, <3>4, <3>5, <3>6, <3>7 DEF Scheduler
  <2>. QED  BY <1>1, <2>1, <2>2, <2>3, BoundsRest DEF DeskBounds
<1>. QED  BY <1>2, <1>3 DEF EscalationNext

LEMMA BoundsInit == EscalationInit => DeskBounds
<1> SUFFICES ASSUME EscalationInit PROVE DeskBounds
  OBVIOUS
<1>1. rows \in [Tasks -> Row] /\ MaxTime \in Nat /\ MaxFaults \in Nat /\ MaxCalls \in Nat
  BY InitInv, DeskAssumption DEF TaskInv, Shape
<1>2. /\ cache = [t \in Tasks |-> NoEntry] /\ told = [t \in Tasks |-> rows[t].status]
      /\ admitted \in 0..MaxCalls /\ clock = 0 /\ faults = 0 /\ InFlight = {}
  BY DEF EscalationInit, DeskInit, InFlight
<1>3. sched.now = 0 /\ sched.offset = 0
  BY DEF EscalationInit, Idle
<1>. QED  BY <1>1, <1>2, <1>3 DEF DeskBounds, Row

\* Whatever overlaps, the desk and the scheduler stay well formed: every request in flight is at
\* one of its statements, holds copies of rows, and drops entries of tasks.
LEMMA DeskTypes == EscalationInit /\ [][EscalationNext]_vars => []TaskTypeOK
<1>1. TaskInv /\ DeskBounds => TaskTypeOK
  <2> SUFFICES ASSUME TaskInv, DeskBounds PROVE TaskTypeOK
    OBVIOUS
  <2>1. ASSUME NEW r \in InFlight PROVE calls[r] \in Call
    <3>1. PICK c : c = calls[r]
      OBVIOUS
    <3>2. CallShape(c) /\ Underways(c)
      BY <3>1 DEF TaskInv, DeskBounds
    <3>3. PICK S : S \in SUBSET Tasks /\ S = DOMAIN c.copy
      BY <3>2 DEF CallShape
    <3>4. c.copy \in [S -> Row]
      BY <3>2, <3>3 DEF CallShape, Underways
    <3>. QED  BY <3>1, <3>2, <3>3, <3>4 DEF CallShape, Underways, Call, Statements
  <2>2. InFlight \subseteq 1..MaxCalls /\ admitted \in 0..MaxCalls
    BY DeskAssumption DEF TaskInv, Shape, DeskBounds
  <2>3. past \in [Tasks -> [start : Status, seen : SUBSET Status, bulked : BOOLEAN,
                            disturbed : BOOLEAN, stale : BOOLEAN, unmarked : Nat,
                            lost : BOOLEAN]]
    BY DEF TaskInv, Shape, Past
  <2>4. DeskTypeOK
    BY <2>1, <2>2, <2>3 DEF DeskTypeOK, TaskInv, Shape, DeskBounds
  <2>5. sched \in [at : {"idle", "find", "mark", "log"}, now : Int, offset : Nat, page : SUBSET Tasks]
    BY DEF TaskInv, Shape, DeskBounds
  <2>. QED  BY <2>4, <2>5 DEF TaskTypeOK, TaskInv, Shape
<1>. QED  BY <1>1, BoundsInit, BoundsHold, InitInv, TaskStep, PTL

\* The delegation stays well formed.
LEMMA DelegationTypes == DelegationSpec => []DelegationTypeOK
<1>1. HolderInv => DelegationTypeOK
  <2> SUFFICES ASSUME HolderInv PROVE DelegationTypeOK
    OBVIOUS
  <2>1. taken \in 0..MaxOrders /\ Waiting \subseteq 1..MaxOrders
    BY DelegationAssumption DEF HolderInv, DelegationShape
  <2>2. \A o \in Waiting : orders[o] \in Order
    BY DEF HolderInv, DelegationShape
  <2>. QED  BY <2>1, <2>2 DEF HolderInv, DelegationShape, DelegationTypeOK, Assignment
<1>. QED  BY <1>1, HolderInit, HolderStep, PTL DEF DelegationSpec

\* What the two parts keep, they keep together: the desk with its scheduler and the delegation
\* stay well formed in every behaviour of the module that TLC checks.
THEOREM TasksTypesCorrect == MCSpec => []TasksTypeOK
<1>1. MCSpec => EscalationInit /\ [][EscalationNext]_vars /\ DelegationSpec
  <2>1. MCInit => EscalationInit /\ DelegationInit
    BY DEF MCInit
  <2>2. [MCNext]_<<vars, delegation, part>> => [EscalationNext]_vars /\ [DelegationNext]_delegation
    BY DEF MCNext
  <2>. QED  BY <2>1, <2>2, PTL DEF MCSpec, DelegationSpec
<1>. QED  BY <1>1, DeskTypes, DelegationTypes, PTL DEF TasksTypeOK
==============================================================================
