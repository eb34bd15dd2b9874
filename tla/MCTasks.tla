------------------------------ MODULE MCTasks ------------------------------
(***************************************************************************)
(* The task component for TLC: TaskEscalation with two tasks, or           *)
(* TaskDelegation with one.  The two share no variable, so a behaviour is  *)
(* of one of them, which part chooses, and the states add up instead of    *)
(* multiplying.                                                            *)
(*                                                                         *)
(* The desk starts with a task in review and an assigned one, both due     *)
(* before the clock moves, and has one request left; or with one task and  *)
(* two requests, the other task having been deleted long ago.              *)
(***************************************************************************)
EXTENDS TaskEscalation, TaskDelegation

CONSTANTS t1, t2

VARIABLE part

MCTaskSet == {t1, t2}

Started(status, deleted) ==
  [status |-> status, due |-> 0, dated |-> {}, breached |-> FALSE, column |-> "todo",
   deleted |-> deleted]

MCStarts ==
  { [t \in MCTaskSet |-> IF t = t1 THEN Started("in_review", FALSE)
                         ELSE Started("assigned", gone)] : gone \in BOOLEAN }

\* Two users, a role, and both at once.
MCWishes ==
  { [f \in {"user"} |-> "ann"], [f \in {"user"} |-> "bob"], [f \in {"role"} |-> "head"],
    [f \in {"user", "role"} |-> IF f = "user" THEN "bob" ELSE "head"] }

MCInit ==
  /\ part \in {"desk", "delegation"}
  /\ EscalationInit
  /\ admitted = CASE part = "delegation" -> MaxCalls
                  [] rows[t2].deleted    -> 0
                  [] OTHER               -> MaxCalls - 1
  /\ DelegationInit

MCNext ==
  /\ UNCHANGED part
  /\ \/ part = "desk" /\ EscalationNext /\ UNCHANGED delegation
     \/ part = "delegation" /\ DelegationNext /\ UNCHANGED vars

MCSpec == MCInit /\ [][MCNext]_<<vars, delegation, part>> /\ WF_vars(part = "desk" /\ Scheduler)

\* The types of both parts.
TasksTypeOK == TaskTypeOK /\ DelegationTypeOK

\* Although a tick skips pages, may fail in the middle, and loses marks to stale copies, a task
\* that is overdue does not stay unmarked: it is marked, or finished, deleted or given more
\* time.
OverdueTaskIsMarked ==
  \A t \in Tasks : (part = "desk" /\ Overdue(t, clock)) ~> ~Overdue(t, clock)
=============================================================================
