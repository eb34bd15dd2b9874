--------------------------- MODULE TaskDelegation ---------------------------
(***************************************************************************)
(* Who holds a task: the assignments of one task and its delegation chain, *)
(* as TmTaskDelegationService writes them, statement by statement and      *)
(* without a transaction.                                                  *)
(*                                                                         *)
(*   assignments  tm_task_assignments, in the order of insertion           *)
(*   unrevoked    the rows of tm_task_delegation_chains not revoked        *)
(*   assignee     what the task shows: assignee_user_id,                   *)
(*                assignee_department_id and assignee_role; NoUser is null *)
(*   orders       the requests in flight, numbered as they come            *)
(*   taken        requests so far; only the bound reads it                 *)
(*   muddled      history: two requests overlapped, or one failed          *)
(*   bulk         history: the fields that bulkAssign wrote last           *)
(*                                                                         *)
(* An assignment names a user, a department, a role, or several of them;   *)
(* the task keeps what it shows in a field that the assignment leaves out. *)
(*                                                                         *)
(* assign stores the id of a chain row as delegated_from, a reference to   *)
(* an assignment: the database refuses the insert whenever a chain row is  *)
(* unrevoked.  So every stored row has no parent, every chain row has      *)
(* level 1, and the branch of revoke that reactivates a parent never runs. *)
(***************************************************************************)
EXTENDS Naturals, Sequences, FiniteSets

CONSTANTS Fields,     \* of "user", "department" and "role"
          Assignees,  \* what a field may name
          NoUser,
          Wishes,     \* the assignments that are asked for
          MaxOrders   \* bound: requests in all

\* What an assignment may say: at least one field.
Namings == UNION {[S -> Assignees] : S \in (SUBSET Fields) \ {{}}}

ASSUME DelegationAssumption ==
  /\ Fields \subseteq {"user", "department", "role"}
  /\ Wishes \subseteq Namings
  /\ MaxOrders \in Nat /\ NoUser \notin Assignees

VARIABLES assignments, unrevoked, assignee, orders, taken, muddled, bulk

delegation == <<assignments, unrevoked, assignee, orders, taken, muddled, bulk>>

\* What the task may show.
Shown == [Fields -> Assignees \cup {NoUser}]

Waiting == DOMAIN orders
Order == [kind : {"assign"}, to : Wishes, at : {"deactivate", "find", "insert", "chain", "save"},
          parent : BOOLEAN, copy : Shown]
           \cup [kind : {"edit"}, copy : Shown, at : {"save"}]
           \cup [kind : {"revoke"}, of : Nat \ {0}, at : {"deactivate", "chain"}]

Take(order) ==
  /\ taken < MaxOrders
  /\ taken' = taken + 1
  /\ orders' = [q \in Waiting \cup {taken'} |-> IF q = taken' THEN order ELSE orders[q]]
  /\ muddled' = (muddled \/ Waiting # {})
  /\ UNCHANGED <<assignments, unrevoked, assignee, bulk>>

Goon(o, at) == orders' = [orders EXCEPT ![o].at = at]
Finish(o)    == orders' = [q \in Waiting \ {o} |-> orders[q]]

-----------------------------------------------------------------------------

\* The task is read first, with what it shows.
Assign(to) ==
  Take([kind |-> "assign", to |-> to, at |-> "deactivate", parent |-> FALSE, copy |-> assignee])

DeactivatePrevious(o) ==
  /\ orders[o].kind = "assign" /\ orders[o].at = "deactivate"
  /\ assignments' = [i \in DOMAIN assignments |-> [assignments[i] EXCEPT !.active = FALSE]]
  /\ Goon(o, "find")
  /\ UNCHANGED <<unrevoked, assignee, taken, muddled, bulk>>

FindLastChain(o) ==
  /\ orders[o].at = "find"
  /\ orders' = [orders EXCEPT ![o].at = "insert", ![o].parent = unrevoked > 0]
  /\ UNCHANGED <<assignments, unrevoked, assignee, taken, muddled, bulk>>

\* The foreign key refuses a parent, and the request ends with the error.
InsertAssignment(o) ==
  /\ orders[o].at = "insert"
  /\ IF orders[o].parent THEN Finish(o) /\ UNCHANGED assignments
     ELSE /\ assignments' = Append(assignments, [to |-> orders[o].to, active |-> TRUE])
          /\ Goon(o, "chain")
  /\ UNCHANGED <<unrevoked, assignee, taken, muddled, bulk>>

InsertChain(o) ==
  /\ orders[o].kind = "assign" /\ orders[o].at = "chain"
  /\ unrevoked' = unrevoked + 1
  /\ Goon(o, "save")
  /\ UNCHANGED <<assignments, assignee, taken, muddled, bulk>>

\* Bug: a field that the assignment leaves out is cleared.
SaveAllFields(o) ==
  /\ orders[o].kind = "assign" /\ orders[o].at = "save"
  /\ assignee' = [f \in Fields |-> IF f \in DOMAIN orders[o].to THEN orders[o].to[f] ELSE NoUser]
  /\ bulk' = bulk \ DOMAIN orders[o].to
  /\ Finish(o)
  /\ UNCHANGED <<assignments, unrevoked, taken, muddled>>

\* The fields that the assignment leaves out are saved as they were read.
SaveAssignee(o) ==
  /\ orders[o].kind = "assign" /\ orders[o].at = "save"
  /\ assignee' = [f \in Fields |->
                    IF f \in DOMAIN orders[o].to THEN orders[o].to[f] ELSE orders[o].copy[f]]
  /\ bulk' = bulk \ DOMAIN orders[o].to
  /\ Finish(o)
  /\ UNCHANGED <<assignments, unrevoked, taken, muddled>>

\* TmTaskService.bulkAssign writes the task alone, and every field: no assignment, no chain.
BulkAssign(to) ==
  /\ taken < MaxOrders
  /\ taken' = taken + 1
  /\ assignee' = [f \in Fields |-> IF f \in DOMAIN to THEN to[f] ELSE NoUser]
  /\ bulk' = Fields
  /\ muddled' = (muddled \/ Waiting # {})
  /\ UNCHANGED <<assignments, unrevoked, orders>>

\* update, changeStatus and moveToColumn read the task without its user and department, and save
\* the copy: of the three fields only the role, a plain column, is written back.
EditTask == Take([kind |-> "edit", copy |-> assignee, at |-> "save"])

SaveEdited(o) ==
  /\ orders[o].kind = "edit"
  /\ assignee' = [f \in Fields |-> IF f = "role" THEN orders[o].copy[f] ELSE assignee[f]]
  /\ Finish(o)
  /\ UNCHANGED <<assignments, unrevoked, taken, muddled, bulk>>

-----------------------------------------------------------------------------

Revoke(i) == Take([kind |-> "revoke", of |-> i, at |-> "deactivate"])

DeactivateRevoked(o) ==
  /\ orders[o].kind = "revoke" /\ orders[o].at = "deactivate"
  /\ assignments' = [assignments EXCEPT ![orders[o].of].active = FALSE]
  /\ Goon(o, "chain")
  /\ UNCHANGED <<unrevoked, assignee, taken, muddled, bulk>>

\* Every unrevoked row of the task, not only the one of this assignment.
RevokeChains(o) ==
  /\ orders[o].kind = "revoke" /\ orders[o].at = "chain"
  /\ unrevoked' = 0
  /\ Finish(o)
  /\ UNCHANGED <<assignments, assignee, taken, muddled, bulk>>

FailOrder(o) ==
  /\ Finish(o)
  /\ muddled' = TRUE
  /\ UNCHANGED <<assignments, unrevoked, assignee, taken, bulk>>

-----------------------------------------------------------------------------

DelegationInit ==
  /\ assignments = << >>
  /\ unrevoked = 0
  /\ assignee = [f \in Fields |-> NoUser]
  /\ orders = [o \in {} |-> NoUser]
  /\ taken = 0
  /\ muddled = FALSE
  /\ bulk = {}

DelegationNext ==
  \/ \E to \in Wishes : Assign(to) \/ BulkAssign(to)
  \/ EditTask
  \/ \E i \in DOMAIN assignments : Revoke(i)
  \/ \E o \in Waiting :
       \/ DeactivatePrevious(o) \/ FindLastChain(o) \/ InsertAssignment(o)
       \/ InsertChain(o) \/ SaveAssignee(o) \/ SaveEdited(o)
       \/ DeactivateRevoked(o) \/ RevokeChains(o)
       \/ FailOrder(o)

DelegationSpec == DelegationInit /\ [][DelegationNext]_delegation

-----------------------------------------------------------------------------

DelegationTypeOK ==
  /\ assignments \in Seq([to : Wishes, active : BOOLEAN])
  /\ unrevoked \in Nat
  /\ assignee \in Shown
  /\ Waiting \subseteq 1..MaxOrders
  /\ \A o \in Waiting : orders[o] \in Order
  /\ taken \in 0..MaxOrders
  /\ muddled \in BOOLEAN /\ bulk \subseteq Fields

\* The last assignment that names a user (a department, a role).
NamesLast(i, f) ==
  /\ f \in DOMAIN assignments[i].to
  /\ \A j \in DOMAIN assignments : j > i => f \notin DOMAIN assignments[j].to

\* As long as requests neither overlapped nor failed, no assignment is active but the last, and
\* when no request is running, the task shows in each of its fields what the last assignment
\* that names one said, unless bulkAssign wrote the field since: so the active assignment of a
\* user is shown, one of a department or a role leaves the user before it there, and a handover
\* that the database refuses takes the task from its holder, but gives it to nobody else.
HolderIsShown ==
  ~muddled =>
    /\ \A i \in DOMAIN assignments : assignments[i].active => i = Len(assignments)
    /\ Waiting = {} =>
         \A i \in DOMAIN assignments, f \in Fields \ bulk :
           NamesLast(i, f) => assignments[i].to[f] = assignee[f]
=============================================================================
