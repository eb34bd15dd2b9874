------------------------------ MODULE TaskDesk ------------------------------
(***************************************************************************)
(* The task desk: rows of tm_tasks, the request handlers of TmTaskService  *)
(* and the assignment of TmTaskDelegationService as far as they touch      *)
(* those rows, and the Redis cache in front of findOne.  No handler opens  *)
(* a transaction: each statement and each call to Redis is a step, and a   *)
(* request may end between any two of them (an error, or a restart).       *)
(*                                                                         *)
(*   rows    tm_tasks; dated says which of completed_at and closed_at are  *)
(*           set, breached is sla_breached, deleted is deleted_at          *)
(*   cache   tm:task:<id>, a copy of the row with a time to live           *)
(*   told    the status that the latest row of tm_task_history speaks of   *)
(*   calls   the requests in flight, numbered as they come                 *)
(*   clock   the time, only compared with due_at                           *)
(*   past    history variables, read by properties only                    *)
(*                                                                         *)
(* A task is there from the start: create writes it in one statement.      *)
(* Titles, reasons, checklists and events are left out, sla_deadline too:  *)
(* only a listener of an event that nothing emits ever sets it.            *)
(***************************************************************************)
EXTENDS Integers, FiniteSets

CONSTANTS Tasks, Columns,
          Dues,       \* the due dates tasks may have
          Starts,     \* the tables of tasks the system may start with
          Targets,    \* the statuses requests ask for
          MaxCalls,   \* bound: requests in all
          MaxTime,    \* bound: the clock
          MaxFaults,  \* bound: failures of requests, of Redis and of the scheduler
          NoEntry     \* nothing cached

Status == {"draft", "created", "assigned", "in_progress", "in_review", "completed",
           "closed", "blocked", "rejected", "reopened"}

Row == [status : Status, due : Dues, dated : SUBSET {"completed", "closed"},
        breached : BOOLEAN, column : Columns, deleted : BOOLEAN]

\* A task at the start: not marked, with the dates its status has.
Fresh(row) ==
  /\ ~row.breached
  /\ row.dated = {row.status} \cap {"completed", "closed"}

ASSUME DeskAssumption ==
  /\ Dues \subseteq Int /\ Targets \subseteq Status
  /\ Starts \subseteq [Tasks -> {row \in Row : Fresh(row)}]
  /\ MaxTime \in Nat /\ MaxCalls \in Nat /\ MaxFaults \in Nat

VARIABLES rows, cache, told, calls, admitted, clock, faults, past

desk == <<rows, cache, told, calls, admitted, past>>

-----------------------------------------------------------------------------
(* The status workflow. *)

VALID_TRANSITIONS ==
  [draft       |-> {"created"},
   created     |-> {"assigned", "draft"},
   assigned    |-> {"in_progress", "blocked", "rejected"},
   in_progress |-> {"in_review", "blocked"},
   in_review   |-> {"completed", "rejected", "in_progress"},
   completed   |-> {"closed", "reopened"},
   closed      |-> {"reopened"},
   blocked     |-> {"assigned"},
   rejected    |-> {"assigned", "closed"},
   reopened    |-> {"assigned"}]

\* Bug: a reopened task keeps its dates, and closing sets none.
DatesKept(dated, to) == IF to = "completed" THEN dated \cup {to} ELSE dated

\* completed_at and closed_at after a change of the status.
Dates(dated, to) ==
  CASE to \in {"completed", "closed"} -> dated \cup {to}
    [] to = "reopened"                -> {}
    [] OTHER                          -> dated

-----------------------------------------------------------------------------
(* Requests.  A request is what it asks (kind, on which tasks, to what)    *)
(* and how far it has come: the next statement, the copies it read, the    *)
(* cache entries it still has to drop.                                     *)

Single == {{t} : t \in Tasks}
Many   == (SUBSET Tasks) \ {{}}

\* Requests that save the entities they read, and those that do not.
Copying == [kind : {"update"}, on : Single, due : Dues]
             \cup [kind : {"move"}, on : Single, column : Columns]
             \cup [kind : {"status"}, on : Single, to : Targets]
             \cup [kind : {"assign"}, on : Single, to : {"assigned"}]
             \cup [kind : {"bulkAssign"}, on : Many, to : {"assigned"}]
Writing == Copying \cup [kind : {"bulkStatus"}, on : Many, to : Targets]
             \cup [kind : {"remove"}, on : Single] \cup [kind : {"bulkDelete"}, on : Many]
Reading == [kind : {"read"}, on : Single]

Answers(kind) == kind \in {"update", "status", "move"}  \* the handlers that end with findOne
Drops(kind)   == kind \notin {"move", "assign"}         \* the handlers that invalidate

Call == [ask : Writing \cup Reading, at : {"save", "log", "drop", "get", "fill"},
         copy : UNION {[S -> Row] : S \in SUBSET Tasks}, drops : SUBSET Tasks]

InFlight == DOMAIN calls
Using(t) == {r \in InFlight : calls[r].ask.kind # "read" /\ t \in DOMAIN calls[r].copy
                                /\ calls[r].at \in {"save", "log"}}

Goto(r, at)  == calls' = [calls EXCEPT ![r].at = at]
Leave(r)     == calls' = [q \in InFlight \ {r} |-> calls[q]]
Alive(S)     == {t \in S : ~rows[t].deleted}
Allowed(t, to) == to \in VALID_TRANSITIONS[rows[t].status]

-----------------------------------------------------------------------------
(* Reading and checking.  *)

Enter(ask, found, at, drops) ==
  /\ admitted < MaxCalls
  /\ admitted' = admitted + 1
  /\ calls' = [q \in InFlight \cup {admitted'} |->
                 IF q = admitted' THEN [ask |-> ask, at |-> at, drops |-> drops,
                                copy |-> [t \in found |-> rows[t]]]
                 ELSE calls[q]]
  /\ past' = [t \in Tasks |->
                [past[t] EXCEPT !.disturbed = @ \/ (t \in found /\ Using(t) # {})]]
  /\ UNCHANGED <<rows, cache, told>>

\* Bug: the transition is not checked.
LoadUnchecked(ask) ==
  LET found == Alive(ask.on)
  IN /\ found # {}
     /\ Enter(ask, found, "save", IF Drops(ask.kind) THEN ask.on ELSE {})

\* A single request stops with an error when the task is not there or the transition is not
\* allowed; the bulk change of status skips such tasks, and stops when none is left.  bulkDelete
\* reads nothing, and bulkAssign goes on with the tasks it finds, none if need be.
Load(ask) ==
  LET found == CASE ask.kind \in {"status", "bulkStatus"} ->
                      {t \in Alive(ask.on) : Allowed(t, ask.to)}
                 [] ask.kind = "bulkDelete" -> ask.on
                 [] OTHER -> Alive(ask.on)
  IN /\ found # {} \/ ask.kind = "bulkAssign"
     /\ Enter(ask, found, "save",
              CASE ~Drops(ask.kind)        -> {}
                [] ask.kind = "bulkStatus" -> found
                [] OTHER                   -> ask.on)

ReadRequest(ask) == Enter(ask, {}, "get", {})

-----------------------------------------------------------------------------
(* Writing.  save() writes every column in which the copy, edited, differs *)
(* from the row: the copy wins.                                            *)

Edit(ask, copy) ==
  CASE ask.kind = "update" -> [copy EXCEPT !.due = ask.due]
    [] ask.kind = "move"   -> [copy EXCEPT !.column = ask.column]
    [] ask.kind = "status" -> [copy EXCEPT !.status = ask.to, !.dated = Dates(@, ask.to)]
    [] OTHER               -> [copy EXCEPT !.status = ask.to]

\* The cache entry of a task is out of date and no handler is going to drop it.
Missed(ask, t) == ~Drops(ask.kind) /\ cache[t] # NoEntry

AfterSave(r, S) ==
  /\ Goto(r, IF calls[r].ask.kind = "move" THEN "get" ELSE "log")
  /\ past' = [t \in Tasks |->
       IF t \notin S THEN past[t]
       ELSE [past[t] EXCEPT !.seen = @ \cup {rows'[t].status},
                            !.bulked = @ \/ calls[r].ask.kind = "bulkStatus",
                            !.unmarked = @ + (IF rows[t].breached /\ ~rows'[t].breached
                                              THEN 1 ELSE 0),
                            !.stale = @ \/ Missed(calls[r].ask, t)]]
  /\ UNCHANGED <<cache, told, admitted>>

SaveCopy(r) ==
  LET c == calls[r]
  IN /\ c.at = "save" /\ c.ask \in Copying
     /\ rows' = [t \in Tasks |-> IF t \in DOMAIN c.copy THEN Edit(c.ask, c.copy[t]) ELSE rows[t]]
     /\ AfterSave(r, DOMAIN c.copy)

\* The bulk change of status is one UPDATE of that column.
UpdateStatus(r) ==
  LET c == calls[r]
  IN /\ c.at = "save" /\ c.ask.kind = "bulkStatus"
     /\ rows' = [t \in Tasks |-> IF t \in DOMAIN c.copy
                                 THEN [rows[t] EXCEPT !.status = c.ask.to] ELSE rows[t]]
     /\ AfterSave(r, DOMAIN c.copy)

SoftDelete(r) ==
  LET c == calls[r]
  IN /\ c.at = "save" /\ c.ask.kind \in {"remove", "bulkDelete"}
     /\ rows' = [t \in Tasks |-> IF t \in DOMAIN c.copy
                                 THEN [rows[t] EXCEPT !.deleted = TRUE] ELSE rows[t]]
     /\ AfterSave(r, DOMAIN c.copy)

\* The tasks the history rows of a request are about: bulkAssign writes one for every id it was
\* given, also for a deleted task that it did not find.  (An id that no row ever had is refused
\* by the foreign key: Fail.)
Listed(c) == IF c.ask.kind = "bulkAssign" THEN c.ask.on ELSE DOMAIN c.copy

\* The history rows; only some speak of a status.
Log(r) ==
  LET c == calls[r]
  IN /\ c.at = "log"
     /\ told' = [t \in Tasks |->
                   IF t \in Listed(c)
                      /\ c.ask.kind \in {"status", "bulkStatus", "assign", "bulkAssign"}
                   THEN c.ask.to ELSE told[t]]
     /\ IF c.drops # {} THEN Goto(r, "drop") ELSE Leave(r)
     /\ UNCHANGED <<rows, cache, admitted, past>>

-----------------------------------------------------------------------------
(* The cache. *)

\* Bug: changing the status leaves the cache alone.
DropNothing(r) ==
  /\ calls[r].at = "drop" /\ calls[r].ask.kind = "status"
  /\ Leave(r)
  /\ UNCHANGED <<rows, cache, told, admitted, past, faults, clock>>

\* Entries are dropped one by one; a DEL that fails is only logged.
Drop(r) ==
  LET c == calls[r]
  IN /\ c.at = "drop"
     /\ \E t \in c.drops, works \in BOOLEAN :
          /\ works \/ faults < MaxFaults
          /\ faults' = IF works THEN faults ELSE faults + 1
          /\ cache' = IF works THEN [cache EXCEPT ![t] = NoEntry] ELSE cache
          /\ past' = [past EXCEPT ![t].stale = IF works THEN FALSE
                                               ELSE @ \/ cache[t] # NoEntry]
          /\ LET left == c.drops \ {t}
             IN calls' = IF left # {} THEN [calls EXCEPT ![r].drops = left]
                         ELSE IF Answers(c.ask.kind)
                         THEN [calls EXCEPT ![r].drops = {}, ![r].at = "get"]
                         ELSE [q \in InFlight \ {r} |-> calls[q]]
     /\ UNCHANGED <<rows, told, admitted, clock>>

\* findOne: the cached copy if there is one, else the row, which is cached in a later step.
Get(r) ==
  LET c == calls[r]
  IN /\ c.at = "get"
     /\ LET t == CHOOSE u \in c.ask.on : TRUE
        IN IF cache[t] # NoEntry \/ rows[t].deleted THEN Leave(r)
           ELSE calls' = [calls EXCEPT ![r].at = "fill", ![r].copy = [u \in {t} |-> rows[u]]]
     /\ UNCHANGED <<rows, cache, told, admitted, past>>

Fill(r) ==
  LET c == calls[r]
  IN /\ c.at = "fill"
     /\ cache' = [t \in Tasks |-> IF t \in DOMAIN c.copy THEN c.copy[t] ELSE cache[t]]
     /\ past' = [t \in Tasks |-> IF t \in DOMAIN c.copy
                                 THEN [past[t] EXCEPT !.stale = c.copy[t] # rows[t]]
                                 ELSE past[t]]
     /\ Leave(r)
     /\ UNCHANGED <<rows, told, admitted>>

Expire(t) ==
  /\ cache[t] # NoEntry
  /\ cache' = [cache EXCEPT ![t] = NoEntry]
  /\ past' = [past EXCEPT ![t].stale = FALSE]
  /\ UNCHANGED <<rows, told, calls, admitted>>

-----------------------------------------------------------------------------
(* A request ends early.  What it has written stays. *)

Fail(r) ==
  LET c == calls[r]
  IN /\ faults < MaxFaults
     /\ faults' = faults + 1
     /\ past' = [t \in Tasks |->
                   [past[t] EXCEPT
                      !.disturbed = @ \/ (c.at = "log" /\ t \in DOMAIN c.copy),
                      !.stale = @ \/ (c.at \in {"log", "drop"} /\ t \in c.drops
                                        /\ cache[t] # NoEntry)]]
     /\ Leave(r)
     /\ UNCHANGED <<rows, cache, told, admitted, clock>>

Time ==
  /\ clock < MaxTime
  /\ clock' = clock + 1
  /\ UNCHANGED <<desk, faults>>

-----------------------------------------------------------------------------

DeskInit ==
  /\ rows \in Starts
  /\ cache = [t \in Tasks |-> NoEntry]
  /\ told = [t \in Tasks |-> rows[t].status]
  /\ calls = [r \in {} |-> NoEntry]
  /\ admitted \in 0..MaxCalls   \* how much of the bound is spent already
  /\ clock = 0
  /\ faults = 0
  /\ past = [t \in Tasks |-> [start |-> rows[t].status, seen |-> {rows[t].status},
                              bulked |-> FALSE, disturbed |-> FALSE, stale |-> FALSE,
                              unmarked |-> 0, lost |-> FALSE]]

Arrive ==
  /\ \/ \E ask \in Writing : Load(ask)
     \/ \E ask \in Reading : ReadRequest(ask)
  /\ UNCHANGED <<clock, faults>>

Proceed(r) ==
  \/ /\ \/ SaveCopy(r) \/ UpdateStatus(r) \/ SoftDelete(r)
        \/ Log(r) \/ Get(r) \/ Fill(r)
     /\ UNCHANGED <<clock, faults>>
  \/ Drop(r)
  \/ Fail(r)

DeskNext ==
  \/ Arrive
  \/ \E r \in InFlight : Proceed(r)
  \/ \E t \in Tasks : Expire(t) /\ UNCHANGED <<clock, faults>>
  \/ Time

-----------------------------------------------------------------------------
(* Properties of the desk. *)

DeskTypeOK ==
  /\ rows \in [Tasks -> Row]
  /\ cache \in [Tasks -> Row \cup {NoEntry}]
  /\ told \in [Tasks -> Status]
  /\ InFlight \subseteq 1..MaxCalls
  /\ \A r \in InFlight : calls[r] \in Call
  /\ admitted \in 0..MaxCalls
  /\ clock \in 0..MaxTime
  /\ faults \in 0..MaxFaults
  /\ past \in [Tasks -> [start : Status, seen : SUBSET Status, bulked : BOOLEAN,
                         disturbed : BOOLEAN, stale : BOOLEAN, unmarked : Nat,
                         lost : BOOLEAN]]

\* Whatever overlaps, and although stale copies are saved, a task only ever has a status that
\* it started with, that an assignment gives, or that VALID_TRANSITIONS allows after one the
\* task has had (changeStatus and bulkChangeStatus check a copy they read earlier).
StatusIsEarned ==
  \A t \in Tasks :
    /\ rows[t].status \in past[t].seen
    /\ \A s \in past[t].seen \ {past[t].start, "assigned"} :
         \E p \in past[t].seen : s \in VALID_TRANSITIONS[p]

\* A completed task has the date of its completion and a closed one that of its closing, also
\* after saves of stale copies, unless bulkChangeStatus changed the task: it sets no date.
CompletionIsDated ==
  \A t \in Tasks :
    rows[t].status \in {"completed", "closed"} /\ ~past[t].bulked
      => rows[t].status \in rows[t].dated

\* The copies of a status keep up with it.  As long as no two requests on a task overlapped and
\* none failed before its history row, the history tells the status the task has, or, of a
\* deleted task, an assignment that never reached it (bulkAssign); and when no request is about
\* to drop it, a cached task is the task, except where a handler that does not invalidate wrote
\* it (moveToColumn, assign, the scheduler), a DEL failed, or a reader overtaken by a writer
\* filled it.
CopiesKeepUp ==
  \A t \in Tasks :
    /\ \/ past[t].disturbed
       \/ \E r \in InFlight : calls[r].at = "log" /\ t \in DOMAIN calls[r].copy
       \/ told[t] = rows[t].status
       \/ rows[t].deleted /\ told[t] = "assigned"
    /\ \/ past[t].stale
       \/ \E r \in InFlight : calls[r].at \in {"log", "drop"} /\ t \in calls[r].drops
       \/ cache[t] \in {NoEntry, rows[t]}
=============================================================================
