---------------------------- MODULE EdmTemplates ----------------------------
(***************************************************************************)
(* A route template: an update saves the template it has read, and then    *)
(* deletes the stages and inserts the new ones, each statement for itself. *)
(* A submission that names the template gets the stages of that moment.    *)
(*                                                                         *)
(*   template  the row of edm_route_templates, and which edits the rows of *)
(*             edm_route_template_stages come from that belong to it       *)
(*   edits     the requests that are running                               *)
(*   edited    requests so far; the number of the request is the edit      *)
(*   newest    history: the edit whose stages were inserted last           *)
(*   mingled   history: two requests overlapped, and one replaced stages   *)
(*                                                                         *)
(* The stages of one edit are inserted by one save, and read, copied and   *)
(* deleted together, so the number of the edit stands for all of them.     *)
(* The relation to the stages cascades: the template is saved with the     *)
(* stages it was read with, which come back when they have been deleted    *)
(* since, and put off those that came since.  Left out: document templates *)
(* and saved filters, which are written the same way but give a document   *)
(* only its default values.                                                *)
(***************************************************************************)
EXTENDS Naturals

CONSTANTS Editors,
          MaxUpdates   \* bound: requests in all

ASSUME TemplatesAssumption == MaxUpdates \in Nat

VARIABLES template, edits, edited, newest, mingled

templating == <<template, edits, edited, newest, mingled>>

Template == [active : BOOLEAN, deleted : BOOLEAN, stages : SUBSET (0..MaxUpdates)]
Editing  == DOMAIN edits

\* What an update does to the stages: nothing, refuse an empty list, or replace them by stages
\* of which the check of the assignees accepts all or not.
Stagings == {"keep", "none", "good", "bad"}

\* Requests overlap of which one at least replaces the stages.
Replacing == {q \in Editing : edits[q].staging \in {"good", "bad"}}
Meets(p)  == mingled' = (mingled \/ (Editing # {} /\ Replacing \cup Replacing' # {}))

-----------------------------------------------------------------------------

\* findRouteTemplate and assertTemplateWriteScope, in updateRouteTemplate...
UpdateTemplate(p, active, staging) ==
  /\ p \notin Editing /\ edited < MaxUpdates /\ ~template.deleted
  /\ edited' = edited + 1
  /\ edits' = [q \in Editing \cup {p} |->
                 IF q = p THEN [at |-> "save", nr |-> edited', staging |-> staging,
                                copy |-> [template EXCEPT !.active = active]]
                 ELSE edits[q]]
  /\ Meets(p)
  /\ UNCHANGED <<template, newest>>

\* ... and in deleteRouteTemplate.
DeleteTemplate(p) ==
  /\ p \notin Editing /\ edited < MaxUpdates /\ ~template.deleted
  /\ edited' = edited + 1
  /\ edits' = [q \in Editing \cup {p} |->
                 IF q = p THEN [at |-> "save", nr |-> edited', staging |-> "keep",
                                copy |-> [template EXCEPT !.active = FALSE, !.deleted = TRUE]]
                 ELSE edits[q]]
  /\ Meets(p)
  /\ UNCHANGED <<template, newest>>

EndEdit(p) == edits' = [q \in Editing \ {p} |-> edits[q]]

\* The list of stages is looked at after the save.
SaveTemplate(p) ==
  /\ edits[p].at = "save"
  /\ template' = edits[p].copy
  /\ IF edits[p].staging \in {"keep", "none"} THEN EndEdit(p)
     ELSE edits' = [edits EXCEPT ![p].at = "delete"]
  /\ UNCHANGED <<edited, newest, mingled>>

\* Bug: the stages that were there stay.
DeleteNothing(p) ==
  /\ edits[p].at = "delete"
  /\ edits' = [edits EXCEPT ![p].at = "insert"]
  /\ UNCHANGED <<template, edited, newest, mingled>>

DeleteStages(p) ==
  /\ edits[p].at = "delete"
  /\ template' = [template EXCEPT !.stages = {}]
  /\ edits' = [edits EXCEPT ![p].at = "insert"]
  /\ UNCHANGED <<edited, newest, mingled>>

\* assertAssigneeConsistency throws when the old stages have gone.
RefuseStages(p) ==
  /\ edits[p].at = "insert" /\ edits[p].staging = "bad"
  /\ EndEdit(p)
  /\ UNCHANGED <<template, edited, newest, mingled>>

InsertStages(p) ==
  /\ edits[p].at = "insert" /\ edits[p].staging = "good"
  /\ template' = [template EXCEPT !.stages = @ \cup {edits[p].nr}]
  /\ newest' = edits[p].nr
  /\ EndEdit(p)
  /\ UNCHANGED <<edited, mingled>>

\* An error or a restart between two statements.
BreakEdit(p) ==
  /\ EndEdit(p)
  /\ UNCHANGED <<template, edited, newest, mingled>>

-----------------------------------------------------------------------------

\* buildStagesFromTemplate: the stages a submission would get now; none, and it is refused, when
\* the template is deleted, inactive or empty.
Offered == IF template.deleted \/ ~template.active THEN {} ELSE template.stages

\* createRouteTemplate has saved the template and its stages.
TemplatesInit ==
  /\ template = [active |-> TRUE, deleted |-> FALSE, stages |-> {0}]
  /\ edits = [p \in {} |-> 0]
  /\ edited = 0 /\ newest = 0 /\ mingled = FALSE

TemplatesNext ==
  \/ \E p \in Editors :
       \/ \E active \in BOOLEAN, staging \in Stagings : UpdateTemplate(p, active, staging)
       \/ DeleteTemplate(p)
  \/ \E p \in Editing : \/ SaveTemplate(p) \/ DeleteStages(p)
                        \/ RefuseStages(p) \/ InsertStages(p) \/ BreakEdit(p)

TemplatesSpec == TemplatesInit /\ [][TemplatesNext]_templating

-----------------------------------------------------------------------------

TemplatesTypeOK ==
  /\ template \in Template
  /\ Editing \subseteq Editors
  /\ \A p \in Editing :
       edits[p] \in [at : {"save", "delete", "insert"}, nr : 1..MaxUpdates, staging : Stagings,
                     copy : Template]
  /\ edited \in 0..MaxUpdates /\ newest \in 0..MaxUpdates /\ mingled \in BOOLEAN

\* A submission that meets an update half way, or comes after one that died or was refused half
\* way, gets the stages of one edit, the newest, or is refused: never a mixture or a part.  Only
\* when updates overlap, and one replaces the stages, can stages of both be left, or old ones
\* come back; other updates and deletions, which save the stages they read, may overlap.
PlanIsOneEdit == mingled \/ Offered \subseteq {newest}
=============================================================================
