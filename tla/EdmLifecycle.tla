---------------------------- MODULE EdmLifecycle ----------------------------
(***************************************************************************)
(* What a client of the documents API may rely on about the life of one    *)
(* EDM document, whatever its routes look like inside.  A document is a    *)
(* status, the version of its latest route, and whether it already has a   *)
(* registration number.                                                    *)
(*                                                                         *)
(* This is the promise the code keeps, which is weaker than the table in   *)
(* docs/architecture/edm-functional-spec-v1.md: a route that was rejected  *)
(* or returned can still be decided again by a stage that stayed open, and *)
(* an override ends any routed document, whatever its status.  What does   *)
(* hold is that a stage decision never reaches a document that is          *)
(* approved or archived, that only an approved document is archived, and   *)
(* that a new route is opened only for a draft or a returned document.     *)
(***************************************************************************)
EXTENDS Naturals

CONSTANT MaxVersions     \* bound: submissions of one document

VARIABLES status, version, numbered

lifecycleVars == <<status, version, numbered>>

DocStatuses ==
  {"draft", "in_route", "approved", "rejected", "returned_for_revision",
   "archived"}

\* What one decision can make of a routed document.
Verdicts == {"approved", "rejected", "returned_for_revision"}

LifecycleInit ==
  /\ status = "draft"
  /\ version = 0
  /\ numbered = FALSE

Register ==
  /\ ~numbered
  /\ numbered' = TRUE
  /\ UNCHANGED <<status, version>>

SubmitDocument ==
  /\ status \in {"draft", "returned_for_revision"}
  /\ version < MaxVersions
  /\ status' = "in_route"
  /\ version' = version + 1
  /\ numbered' = TRUE

DecideByStage(verdict) ==
  /\ status \in {"in_route", "rejected", "returned_for_revision"}
  /\ version > 0
  /\ status' = verdict
  /\ UNCHANGED <<version, numbered>>

DecideByOverride(verdict) ==
  /\ version > 0
  /\ verdict # "returned_for_revision"
  /\ status' = verdict
  /\ UNCHANGED <<version, numbered>>

ArchiveDocument ==
  /\ status = "approved"
  /\ status' = "archived"
  /\ UNCHANGED <<version, numbered>>

LifecycleNext ==
  \/ Register
  \/ SubmitDocument
  \/ \E verdict \in Verdicts : DecideByStage(verdict) \/ DecideByOverride(verdict)
  \/ ArchiveDocument

LifecycleSpec == LifecycleInit /\ [][LifecycleNext]_lifecycleVars
=============================================================================
