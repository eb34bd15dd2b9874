--------------------------- MODULE TaskEscalation ---------------------------
(***************************************************************************)
(* The task desk together with the scheduler that marks overdue tasks.     *)
(* The cron job calls runTick again and again; a tick that finds another   *)
(* one running returns.  checkSlaBreaches pages through the tasks that are *)
(* overdue and not marked, with an offset that grows by a page although    *)
(* the rows of the page have just left the result; it marks a page,        *)
(* then writes its history.  An error ends the tick, and a restart of the  *)
(* process ends it as well.                                                *)
(*                                                                         *)
(*   sched      the tick: what comes next, its time, offset, current page  *)
(*   escalated  history rows "escalated" per task                          *)
(*                                                                         *)
(* Left out: checkEscalationRules, which sends the same notifications at   *)
(* every tick and changes no task.                                         *)
(***************************************************************************)
EXTENDS TaskDesk

CONSTANT BREACH_BATCH_SIZE

ASSUME BatchAssumption == BREACH_BATCH_SIZE \in Nat \ {0}

VARIABLES sched, escalated

office == <<sched, escalated>>
vars == <<rows, cache, told, calls, admitted, clock, faults, past, sched, escalated>>

TERMINAL_STATUSES == {"completed", "closed"}

\* Bug: the query asks for marked tasks again.
OverdueOrMarked(t, now) ==
  /\ ~rows[t].deleted
  /\ rows[t].due < now
  /\ rows[t].status \notin TERMINAL_STATUSES

Overdue(t, now) ==
  /\ ~rows[t].breached /\ ~rows[t].deleted
  /\ rows[t].due < now
  /\ rows[t].status \notin TERMINAL_STATUSES

Idle == [at |-> "idle", now |-> 0, offset |-> 0, page |-> {}]

\* The least of two numbers.
Least(a, b) == IF a < b THEN a ELSE b

\* The rows a query returns that skips so many rows and takes at most so many, in the order of
\* due_at; rows that are due at the same time come in any order.
Pages(found, skip, take) ==
  { page \in SUBSET found :
      \E before \in SUBSET (found \ page) :
        /\ Cardinality(before) = Least(skip, Cardinality(found))
        /\ Cardinality(page) = Least(take, Cardinality(found \ before))
        /\ \A a \in before, b \in found \ before : rows[a].due <= rows[b].due
        /\ \A b \in page, c \in found \ (before \cup page) : rows[b].due <= rows[c].due }

-----------------------------------------------------------------------------

\* Bug: the first page is skipped too.
TickPastFirst ==
  /\ sched.at = "idle"
  /\ sched' = [at |-> "find", now |-> clock, offset |-> BREACH_BATCH_SIZE, page |-> {}]
  /\ UNCHANGED <<desk, clock, faults, escalated>>

Tick ==
  /\ sched.at = "idle"
  /\ sched' = [at |-> "find", now |-> clock, offset |-> 0, page |-> {}]
  /\ UNCHANGED <<desk, clock, faults, escalated>>

FindPage ==
  /\ sched.at = "find"
  /\ \E page \in Pages({t \in Tasks : Overdue(t, sched.now)}, sched.offset, BREACH_BATCH_SIZE) :
       sched' = IF page = {} THEN Idle ELSE [sched EXCEPT !.at = "mark", !.page = page]
  /\ UNCHANGED <<desk, clock, faults, escalated>>

MarkPage ==
  /\ sched.at = "mark"
  /\ rows' = [t \in Tasks |-> IF t \in sched.page THEN [rows[t] EXCEPT !.breached = TRUE]
                              ELSE rows[t]]
  /\ past' = [t \in Tasks |-> IF t \in sched.page
                              THEN [past[t] EXCEPT !.stale = @ \/ cache[t] # NoEntry]
                              ELSE past[t]]
  /\ sched' = [sched EXCEPT !.at = "log"]
  /\ UNCHANGED <<cache, told, calls, admitted, clock, faults, escalated>>

LogPage ==
  /\ sched.at = "log"
  /\ escalated' = [t \in Tasks |-> escalated[t] + (IF t \in sched.page THEN 1 ELSE 0)]
  /\ sched' = IF Cardinality(sched.page) < BREACH_BATCH_SIZE THEN Idle
              ELSE [sched EXCEPT !.at = "find", !.page = {},
                                 !.offset = @ + BREACH_BATCH_SIZE]
  /\ UNCHANGED <<desk, clock, faults>>

\* Bug: isRunning is not reset after an error.
TickFailsForGood ==
  /\ sched.at \in {"find", "mark", "log"} /\ faults < MaxFaults
  /\ faults' = faults + 1
  /\ past' = [t \in Tasks |-> [past[t] EXCEPT !.lost = @ \/ (sched.at = "log" /\ t \in sched.page)]]
  /\ sched' = [Idle EXCEPT !.at = "running"]
  /\ UNCHANGED <<rows, cache, told, calls, admitted, clock, escalated>>

TickFails ==
  /\ sched.at \in {"find", "mark", "log"} /\ faults < MaxFaults
  /\ faults' = faults + 1
  /\ past' = [t \in Tasks |-> [past[t] EXCEPT !.lost = @ \/ (sched.at = "log" /\ t \in sched.page)]]
  /\ sched' = Idle
  /\ UNCHANGED <<rows, cache, told, calls, admitted, clock, escalated>>

Scheduler == Tick \/ FindPage \/ MarkPage \/ LogPage

EscalationInit ==
  /\ DeskInit
  /\ sched = Idle
  /\ escalated = [t \in Tasks |-> 0]

EscalationNext ==
  \/ DeskNext /\ UNCHANGED office
  \/ Scheduler
  \/ TickFails

\* The cron job fires for ever, and every statement of a tick returns or throws.
EscalationSpec == EscalationInit /\ [][EscalationNext]_vars /\ WF_vars(Scheduler)

-----------------------------------------------------------------------------

TaskTypeOK ==
  /\ DeskTypeOK
  /\ sched \in [at : {"idle", "find", "mark", "log"}, now : Int, offset : Nat, page : SUBSET Tasks]
  /\ escalated \in [Tasks -> Nat]

\* A marked task has its history row, unless the scheduler is about to write it or lost it
\* between the two statements; and it has a second one only when the save of a stale copy took
\* a mark away (checkSlaBreaches selects what is not marked, and ticks do not overlap).
EscalationsAddUp ==
  \A t \in Tasks :
    /\ rows[t].breached
         => escalated[t] > 0 \/ past[t].lost \/ (sched.at = "log" /\ t \in sched.page)
    /\ escalated[t] <= 1 + past[t].unmarked

=============================================================================
