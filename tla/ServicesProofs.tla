---------------------------- MODULE ServicesProofs ----------------------------
(***************************************************************************)
(* Theorems about six of the services that MCServices checks: route        *)
(* templates, bulk import, deadline alerts, sessions, chat and files.      *)
(***************************************************************************)
EXTENDS MCServices, OrgUnitsProofs, FiniteSetTheorems, TLAPS

-----------------------------------------------------------------------------
(* Route templates.  As long as no two requests were mingled, the stages   *)
(* come from one edit, and so do those of every copy that will be saved;   *)
(* whoever replaces the stages is alone.                                   *)

EditRow == [at : {"save", "delete", "insert"}, nr : 1..MaxUpdates, staging : Stagings,
            copy : Template]

TemplateShape ==
  /\ template \in Template
  /\ \A p \in Editing : edits[p] \in EditRow
  /\ edited \in 0..MaxUpdates /\ mingled \in BOOLEAN

OneEdit ==
  /\ template.stages \subseteq {newest}
  /\ \A p \in Editing : /\ edits[p].copy.stages \subseteq {newest}
                        /\ edits[p].staging \in {"good", "bad"} => Editing = {p}
                        /\ edits[p].at # "save" => edits[p].staging \in {"good", "bad"}
                        /\ edits[p].at = "insert" => template.stages = {}

TemplateInv == TemplateShape /\ (mingled \/ OneEdit)

LEMMA TemplatesInitially == TemplatesInit => TemplateInv
<1> SUFFICES ASSUME TemplatesInit PROVE TemplateInv
  OBVIOUS
<1>1. Editing = {}
  BY DEF TemplatesInit, Editing
<1>2. template \in Template /\ template.stages = {0}
  BY TemplatesAssumption DEF TemplatesInit, Template
<1>3. edited \in 0..MaxUpdates /\ newest = 0
  BY TemplatesAssumption DEF TemplatesInit
<1>4. mingled \in BOOLEAN
  BY DEF TemplatesInit
<1>. QED  BY <1>1, <1>2, <1>3, <1>4 DEF TemplateInv, TemplateShape, OneEdit

\* Whoever begins, in updateRouteTemplate or deleteRouteTemplate, brings a copy of the template.
LEMMA EditBegins ==
  ASSUME TemplateInv, NEW p, p \notin Editing, edited < MaxUpdates,
         NEW staging \in Stagings, NEW copy \in Template, copy.stages = template.stages,
         edited' = edited + 1,
         edits' = [q \in Editing \cup {p} |->
                     IF q = p THEN [at |-> "save", nr |-> edited', staging |-> staging, copy |-> copy]
                     ELSE edits[q]],
         Meets(p), UNCHANGED <<template, newest>>
  PROVE  TemplateInv'
<1>1. /\ DOMAIN edits' = Editing \cup {p}
      /\ edits'[p] = [at |-> "save", nr |-> edited', staging |-> staging, copy |-> copy]
      /\ \A q \in Editing : edits'[q] = edits[q]
  BY DEF Editing
<1>2. edited' \in 1..MaxUpdates /\ edits'[p] \in EditRow
  BY <1>1, TemplatesAssumption DEF TemplateInv, TemplateShape, EditRow
<1>3. TemplateShape'
  BY <1>1, <1>2, TemplatesAssumption DEF TemplateInv, TemplateShape, Meets, Editing
<1>4. ASSUME ~mingled' PROVE OneEdit'
  <2>1. ~mingled /\ (Editing = {} \/ Replacing \cup Replacing' = {})
    BY <1>4 DEF Meets, TemplateInv, TemplateShape
  <2>2. OneEdit
    BY <2>1 DEF TemplateInv
  <2>3. \A q \in DOMAIN edits' : edits'[q].staging \in {"good", "bad"} => DOMAIN edits' = {q}
    BY <1>1, <2>1 DEF Replacing, Editing
  <2>. QED  BY <1>1, <2>2, <2>3 DEF OneEdit, Editing
<1>. QED  BY <1>3, <1>4 DEF TemplateInv

\* A request is between two statements and writes one of them.
LEMMA EditGoesOn ==
  ASSUME TemplateInv, NEW p \in Editing,
         SaveTemplate(p) \/ DeleteStages(p) \/ RefuseStages(p) \/ InsertStages(p) \/ BreakEdit(p)
  PROVE  TemplateInv'
<1> USE DEF TemplateInv, Editing
<1>0. PICK row \in EditRow : row = edits[p]
  BY DEF TemplateShape
<1>1. ASSUME SaveTemplate(p) PROVE TemplateInv'
  <2>1. template' = row.copy /\ newest' = newest /\ mingled' = mingled /\ edited' = edited
        /\ \A q \in DOMAIN edits' : q \in DOMAIN edits /\ (q # p => edits'[q] = edits[q])
    BY <1>0, <1>1 DEF SaveTemplate, EndEdit
  <2>2. ASSUME p \in DOMAIN edits'
        PROVE  /\ edits'[p] \in EditRow /\ edits'[p].at = "delete"
               /\ edits'[p].staging = row.staging /\ edits'[p].copy = row.copy
               /\ row.staging \in {"good", "bad"}
    BY <1>0, <1>1, <2>2 DEF SaveTemplate, EndEdit, EditRow, Stagings
  <2>3. row.copy \in Template
    BY <1>0 DEF EditRow
  <2>4. TemplateShape'
    BY <2>1, <2>2, <2>3 DEF TemplateShape
  <2>5. ASSUME ~mingled PROVE OneEdit'
    <3>1. OneEdit
      BY <2>5
    <3>2. row.copy.stages \subseteq {newest}
      BY <1>0, <3>1 DEF OneEdit
    <3>3. row.staging \in {"good", "bad"} => DOMAIN edits = {p}
      BY <1>0, <3>1 DEF OneEdit
    <3>4. template'.stages \subseteq {newest'}
      BY <2>1, <3>2
    <3>5. ASSUME NEW q \in DOMAIN edits'
          PROVE  /\ edits'[q].copy.stages \subseteq {newest'}
                 /\ edits'[q].staging \in {"good", "bad"} => DOMAIN edits' = {q}
                 /\ edits'[q].at # "save" => edits'[q].staging \in {"good", "bad"}
                 /\ edits'[q].at = "insert" => template'.stages = {}
      <4>1. CASE q = p
        BY <2>1, <2>2, <3>2, <3>3, <4>1
      <4>2. CASE q # p
        <5>1. q \in DOMAIN edits /\ edits'[q] = edits[q] /\ DOMAIN edits # {q}
          BY <2>1, <4>2
        <5>2. PICK other : /\ other = edits[q] /\ other.copy.stages \subseteq {newest}
                           /\ other.staging \notin {"good", "bad"} /\ other.at = "save"
          BY <3>1, <5>1 DEF OneEdit
        <5>. QED  BY <2>1, <5>1, <5>2
      <4>. QED  BY <4>1, <4>2
    <3>. QED  BY <3>4, <3>5 DEF OneEdit
  <2>. QED  BY <2>1, <2>4, <2>5 DEF TemplateShape
<1>2. ASSUME DeleteStages(p) PROVE TemplateInv'
  <2>0. PICK was \in Template : was = template
    BY DEF TemplateShape
  <2>1. /\ template' = [was EXCEPT !.stages = {}] /\ newest' = newest /\ mingled' = mingled
        /\ edited' = edited /\ DOMAIN edits' = DOMAIN edits
        /\ \A q \in DOMAIN edits : q # p => edits'[q] = edits[q]
        /\ edits'[p] = [row EXCEPT !.at = "insert"] /\ row.at = "delete"
    BY <1>0, <1>2, <2>0 DEF DeleteStages
  <2>2. template' \in Template /\ template'.stages = {}
    BY <2>1 DEF Template
  <2>3. edits'[p] \in EditRow /\ edits'[p].staging = row.staging /\ edits'[p].copy = row.copy
    BY <2>1 DEF EditRow
  <2>4. TemplateShape'
    BY <2>1, <2>2, <2>3 DEF TemplateShape
  <2>5. ASSUME ~mingled PROVE OneEdit'
    BY <1>0, <2>1, <2>2, <2>3, <2>5 DEF OneEdit
  <2>. QED  BY <2>1, <2>4, <2>5 DEF TemplateShape
<1>3. ASSUME RefuseStages(p) \/ BreakEdit(p) PROVE TemplateInv'
  <2>1. /\ UNCHANGED <<template, edited, newest, mingled>> /\ DOMAIN edits' = DOMAIN edits \ {p}
        /\ \A q \in DOMAIN edits' : edits'[q] = edits[q]
    BY <1>3 DEF RefuseStages, BreakEdit, EndEdit
  <2>. QED  BY <2>1 DEF TemplateShape, OneEdit
<1>4. ASSUME InsertStages(p) PROVE TemplateInv'
  <2>0. PICK was \in Template : was = template
    BY DEF TemplateShape
  <2>1. /\ template' = [was EXCEPT !.stages = was.stages \cup {row.nr}] /\ newest' = row.nr
        /\ mingled' = mingled /\ edited' = edited /\ DOMAIN edits' = DOMAIN edits \ {p}
        /\ \A q \in DOMAIN edits' : edits'[q] = edits[q]
        /\ row.at = "insert" /\ row.staging = "good"
    BY <1>0, <1>4, <2>0 DEF InsertStages, EndEdit
  <2>2. template' \in Template /\ template'.stages = was.stages \cup {row.nr}
    BY <1>0, <2>1, TemplatesAssumption DEF Template, EditRow
  <2>3. TemplateShape'
    BY <2>1, <2>2 DEF TemplateShape
  <2>4. ASSUME ~mingled PROVE OneEdit'
    <3>1. DOMAIN edits = {p} /\ was.stages = {}
      BY <1>0, <2>0, <2>1, <2>4 DEF OneEdit
    <3>. QED  BY <2>1, <2>2, <3>1 DEF OneEdit
  <2>. QED  BY <2>1, <2>3, <2>4 DEF TemplateShape
<1>. QED  BY <1>1, <1>2, <1>3, <1>4

LEMMA TemplatesStepKeeps == TemplateInv /\ [TemplatesNext]_templating => TemplateInv'
<1> SUFFICES ASSUME TemplateInv, [TemplatesNext]_templating PROVE TemplateInv'
  OBVIOUS
<1>1. CASE UNCHANGED templating
  BY <1>1 DEF templating, TemplateInv, TemplateShape, OneEdit, Editing
<1>2. ASSUME NEW p \in Editors, NEW offered \in BOOLEAN, NEW staging \in Stagings,
             UpdateTemplate(p, offered, staging)
      PROVE  TemplateInv'
  <2>1. PICK was \in Template : was = template
    BY DEF TemplateInv, TemplateShape
  <2> DEFINE copy == [was EXCEPT !.active = offered]
  <2>2. copy \in Template /\ copy.stages = template.stages
    BY <2>1 DEF Template
  <2>3. /\ p \notin Editing /\ edited < MaxUpdates /\ edited' = edited + 1
        /\ edits' = [q \in Editing \cup {p} |->
                       IF q = p THEN [at |-> "save", nr |-> edited', staging |-> staging,
                                      copy |-> copy]
                       ELSE edits[q]]
        /\ Meets(p) /\ UNCHANGED <<template, newest>>
    BY <1>2, <2>1 DEF UpdateTemplate
  <2> HIDE DEF copy
  <2>. QED  BY <2>2, <2>3, EditBegins
<1>3. ASSUME NEW p \in Editors, DeleteTemplate(p) PROVE TemplateInv'
  <2>1. PICK was \in Template : was = template
    BY DEF TemplateInv, TemplateShape
  <2> DEFINE copy == [was EXCEPT !.active = FALSE, !.deleted = TRUE]
  <2>2. copy \in Template /\ copy.stages = template.stages
    BY <2>1 DEF Template
  <2>3. /\ p \notin Editing /\ edited < MaxUpdates /\ edited' = edited + 1
        /\ edits' = [q \in Editing \cup {p} |->
                       IF q = p THEN [at |-> "save", nr |-> edited', staging |-> "keep",
                                      copy |-> copy]
                       ELSE edits[q]]
        /\ Meets(p) /\ UNCHANGED <<template, newest>>
    BY <1>3, <2>1 DEF DeleteTemplate
  <2> HIDE DEF copy
  <2>4. "keep" \in Stagings
    BY DEF Stagings
  <2>. QED  BY <2>2, <2>3, <2>4, EditBegins
<1>4. ASSUME NEW p \in Editing,
             SaveTemplate(p) \/ DeleteStages(p) \/ RefuseStages(p) \/ InsertStages(p) \/ BreakEdit(p)
      PROVE  TemplateInv'
  BY <1>4, EditGoesOn
<1>. QED  BY <1>1, <1>2, <1>3, <1>4 DEF TemplatesNext

\* updateRouteTemplate, deleteRouteTemplate: for any number of requests that fail or are refused
\* between any two statements, a submission gets the stages of the newest edit or none, unless
\* requests of which one replaces the stages overlapped.
THEOREM OneEditOffered == TemplatesSpec => []PlanIsOneEdit
<1>1. TemplateInv => PlanIsOneEdit
  BY DEF TemplateInv, TemplateShape, OneEdit, PlanIsOneEdit, Offered
<1>. QED  BY TemplatesInitially, TemplatesStepKeeps, <1>1, PTL DEF TemplatesSpec

-----------------------------------------------------------------------------
(* The bulk import.  A call that repeats one that has been answered finds  *)
(* the result, as long as its session lasts: results go after all sessions *)
(* there were when they were kept, and a session that has been applied     *)
(* with a key was there when the key's result was kept.                    *)
(*                                                                         *)
(* And a run that nobody disturbed knows of every row either the user as   *)
(* it read him, or that the user has what the row asks for; and of a row   *)
(* it is through with, that the row failed or the latter.  Its own saves   *)
(* do not spoil this, as no two rows share a user.                         *)

RunRecord ==
  [of : Nat, key : Keys,
   at : {"session", "lookup", "index", "places", "rows", "audit", "store"}, row : Nat,
   index : [Emails -> User \cup {Absent}], places : SUBSET Places, saved : SUBSET Nat,
   audited : SUBSET Nat, failures : SUBSET Nat, calm : BOOLEAN, repeats : BOOLEAN]

InFile(run) ==
  /\ run.of \in DOMAIN sessions
  /\ run.at \in {"session", "lookup", "index", "places"} => run.row = 1
  /\ run.at \in {"rows", "audit"} => run.row \in DOMAIN Rows(run)
  /\ run.saved \cup run.audited \cup run.failures \subseteq DOMAIN Rows(run)

\* There is a result under the key, kept when the session was there.
HasResult(s, k) == results[k] # NoResult /\ s <= results[k].since

Repeating(run) ==
  run.repeats => \/ run.at = "session" /\ run.key \in sessions[run.of].done
                 \/ run.at = "lookup" /\ HasResult(run.of, run.key)

\* The user has what the row asks for; x is the run, or the result of it.
InEffect(user, row, x) ==
  /\ user # Absent /\ user.profile = "sheet" /\ user.place = Found(x.places, row.place)
  /\ sessions[x.of].allowRoleUpdate => user.role = row.role

UserOf(x, i)  == users[Rows(x)[i].email]
IsDone(x, i)  == InEffect(UserOf(x, i), Rows(x)[i], x)
AsRead(run, i) == UserOf(run, i) = run.index[Rows(run)[i].email]

\* The run is through with the row i.
Through(run, i) == run.at = "store" \/ i < run.row \/ (i = run.row /\ run.at = "audit")

Audited(run) ==
  run.saved \subseteq run.audited \cup run.failures \cup (IF run.at = "audit" THEN {run.row} ELSE {})

Knows(run, i) ==
  /\ AsRead(run, i) \/ IsDone(run, i)
  /\ Through(run, i) => i \in run.failures \/ IsDone(run, i)

Faithful(run) ==
  /\ Audited(run)
  /\ run.calm /\ run.at = "places" => \A i \in DOMAIN Rows(run) : AsRead(run, i)
  /\ run.calm /\ run.at \in {"rows", "audit", "store"} => \A i \in DOMAIN Rows(run) : Knows(run, i)

RunOk(run) == InFile(run) /\ Repeating(run) /\ Faithful(run)

TrueOf(result) ==
  /\ result.of \in DOMAIN sessions /\ result.since <= Len(sessions)
  /\ result.saved \subseteq result.audited \cup result.failures
  /\ result.calm => \A i \in DOMAIN Rows(result) : i \in result.failures \/ IsDone(result, i)

KeysKept ==
  \A s \in DOMAIN sessions : \A k \in sessions[s].done : sessions[s].fresh => HasResult(s, k)

ImportShape ==
  /\ users \in [Emails -> User \cup {Absent}] /\ places \in SUBSET Places
  /\ sessions \in Seq(Session)
  /\ DOMAIN results = Keys /\ \A k \in Keys : results[k] = NoResult \/ results[k] \in Kept

ImportInv ==
  /\ ImportShape /\ KeysKept
  /\ \A r \in Running : runs[r] \in RunRecord /\ RunOk(runs[r])
  /\ \A k \in Keys : results[k] # NoResult => TrueOf(results[k])

LEMMA ImportInitially == ImportInit => ImportInv
<1> SUFFICES ASSUME ImportInit PROVE ImportInv
  OBVIOUS
<1>1. Running = {} /\ sessions = <<>> /\ sessions \in Seq(Session) /\ DOMAIN sessions = {}
      /\ \A k \in Keys : results[k] = NoResult
  BY DEF ImportInit, Running
<1>2. /\ users \in [Emails -> User \cup {Absent}] /\ DOMAIN results = Keys /\ places \in SUBSET Places
  BY BulkImportAssumption DEF ImportInit
<1>. QED  BY <1>1, <1>2 DEF ImportInv, ImportShape, KeysKept

\* Files have rows, each of a user of its own.
LEMMA FilesAre ==
  ASSUME ImportShape, NEW x, x.of \in DOMAIN sessions
  PROVE  /\ sessions[x.of] \in Session /\ Len(Rows(x)) \in Nat \ {0}
         /\ DOMAIN Rows(x) = 1..Len(Rows(x)) /\ \A i \in DOMAIN Rows(x) : Rows(x)[i] \in Row
         /\ \A i, j \in DOMAIN Rows(x) : Rows(x)[i].email = Rows(x)[j].email => i = j
<1>1. PICK session \in Session : session = sessions[x.of]
  BY DEF ImportShape
<1>2. PICK file \in Files : file = Rows(x)
  BY <1>1 DEF Session, Rows
<1>3. /\ file \in Seq(Row) /\ file # <<>>
      /\ \A i, j \in DOMAIN file : file[i].email = file[j].email => i = j
  BY BulkImportAssumption
<1>4. Len(file) \in Nat /\ DOMAIN file = 1..Len(file) /\ \A i \in DOMAIN file : file[i] \in Row
  BY <1>3
<1>5. Len(file) # 0
  BY <1>3
<1>. QED  BY <1>1, <1>2, <1>3, <1>4, <1>5

-----------------------------------------------------------------------------
(* What goes on around a run and a result. *)

SessionsGoOn ==
  /\ Len(sessions) <= Len(sessions')
  /\ \A s \in DOMAIN sessions :
       /\ s \in DOMAIN sessions' /\ sessions'[s].file = sessions[s].file
       /\ sessions'[s].allowRoleUpdate = sessions[s].allowRoleUpdate
       /\ sessions[s].done \subseteq sessions'[s].done

ResultsGoOn ==
  \A k \in Keys : \A s \in Nat : HasResult(s, k) => HasResult(s, k)'

LEMMA InFileStays ==
  ASSUME SessionsGoOn, NEW run, InFile(run) PROVE InFile(run)'
<1>1. run.of \in DOMAIN sessions /\ Rows(run)' = Rows(run)
  BY DEF SessionsGoOn, InFile, Rows
<1>. QED  BY <1>1 DEF SessionsGoOn, InFile

LEMMA RepeatingStays ==
  ASSUME SessionsGoOn, ResultsGoOn, NEW run \in RunRecord, run.of \in DOMAIN sessions, Repeating(run)
  PROVE  Repeating(run)'
<1>1. run.key \in sessions[run.of].done => run.key \in sessions'[run.of].done
  BY DEF SessionsGoOn
<1>2. HasResult(run.of, run.key) => HasResult(run.of, run.key)'
  BY DEF ResultsGoOn, RunRecord
<1>. QED  BY <1>1, <1>2 DEF Repeating

LEMMA EffectsStay ==
  ASSUME SessionsGoOn, NEW x, x.of \in DOMAIN sessions
  PROVE  /\ Rows(x)' = Rows(x)
         /\ \A i \in DOMAIN Rows(x) :
              UserOf(x, i)' = UserOf(x, i) => IsDone(x, i)' = IsDone(x, i)
<1>1. Rows(x)' = Rows(x) /\ sessions'[x.of].allowRoleUpdate = sessions[x.of].allowRoleUpdate
  BY DEF SessionsGoOn, Rows
<1>. QED  BY <1>1 DEF IsDone, InEffect

LEMMA RunStaysOk ==
  ASSUME SessionsGoOn, ResultsGoOn, users' = users, NEW run \in RunRecord, RunOk(run)
  PROVE  RunOk(run)'
<1>0. run.of \in DOMAIN sessions
  BY DEF RunOk, InFile
<1>1. Rows(run)' = Rows(run) /\ \A i : UserOf(run, i)' = UserOf(run, i)
  BY <1>0, EffectsStay DEF UserOf
<1>2. \A i \in DOMAIN Rows(run) : AsRead(run, i)' = AsRead(run, i) /\ Knows(run, i)' = Knows(run, i)
  BY <1>0, <1>1, EffectsStay DEF AsRead, Knows, Through
<1>3. Faithful(run)'
  BY <1>1, <1>2 DEF Faithful, Audited, RunOk
<1>. QED  BY <1>0, <1>3, InFileStays, RepeatingStays DEF RunOk

LEMMA ResultStaysTrue ==
  ASSUME SessionsGoOn, users' = users, NEW result \in Kept, TrueOf(result), ImportShape, ImportShape'
  PROVE  TrueOf(result)'
<1>0. result.of \in DOMAIN sessions
  BY DEF TrueOf
<1>1. Rows(result)' = Rows(result) /\ \A i : UserOf(result, i)' = UserOf(result, i)
  BY <1>0, EffectsStay DEF UserOf
<1>2. \A i \in DOMAIN Rows(result) : IsDone(result, i)' = IsDone(result, i)
  BY <1>0, <1>1, EffectsStay
<1>3. result.of \in DOMAIN sessions' /\ result.since <= Len(sessions')
  <2>1. Len(sessions) \in Nat /\ Len(sessions') \in Nat /\ result.since \in Nat
    BY DEF ImportShape, Kept
  <2>. QED  BY <1>0, <2>1 DEF TrueOf, SessionsGoOn
<1>. QED  BY <1>1, <1>2, <1>3 DEF TrueOf

\* Whoever loses his calm claims nothing of the users.
LEMMA RunUncalmed ==
  ASSUME SessionsGoOn, ResultsGoOn, NEW others, NEW r \in Running \cap others,
         runs[r] \in RunRecord, RunOk(runs[r])
  PROVE  \E run \in RunRecord : run = Disturbed(others)[r] /\ RunOk(run)'
<1>1. PICK old \in RunRecord : old = runs[r] /\ RunOk(old)
  OBVIOUS
<1>2. PICK run : run = [old EXCEPT !.calm = FALSE]
  OBVIOUS
<1>3. Disturbed(others)[r] = run
  BY <1>1, <1>2 DEF Disturbed
<1>4. /\ run \in RunRecord /\ run.calm = FALSE /\ run.at = old.at /\ run.row = old.row
      /\ run.saved = old.saved /\ run.audited = old.audited /\ run.failures = old.failures
      /\ run.of = old.of /\ run.key = old.key /\ run.repeats = old.repeats
  BY <1>2 DEF RunRecord
<1>5. InFile(run) /\ Repeating(run) /\ Audited(run) /\ run.of \in DOMAIN sessions
  BY <1>1, <1>4 DEF RunOk, InFile, Repeating, Faithful, Audited, Rows
<1>6. InFile(run)' /\ Repeating(run)'
  BY <1>4, <1>5, InFileStays, RepeatingStays
<1>7. Audited(run)'
  BY <1>5 DEF Audited
<1>8. Faithful(run)'
  BY <1>4, <1>7 DEF Faithful
<1>. QED  BY <1>3, <1>4, <1>6, <1>8 DEF RunOk

LEMMA ResultsUncalmed ==
  ASSUME ImportInv, ImportShape', SessionsGoOn, results' = DisturbedResults
  PROVE  /\ ResultsGoOn
         /\ \A k \in Keys : results'[k] # NoResult => TrueOf(results[k])'
<1>0. ASSUME NEW k \in Keys, results[k] # NoResult
      PROVE  \E new \in Kept : /\ new = results'[k] /\ new.since = results[k].since
                               /\ TrueOf(new)'
  <2>1. PICK old \in Kept : old = results[k] /\ TrueOf(old)
    BY <1>0 DEF ImportInv, ImportShape
  <2>2. PICK new : new = [old EXCEPT !.calm = FALSE]
    OBVIOUS
  <2>3. /\ new \in Kept /\ new.calm = FALSE /\ new.saved = old.saved /\ new.audited = old.audited
        /\ new.failures = old.failures /\ new.since = old.since /\ new.of = old.of
    BY <2>2 DEF Kept
  <2>4. results'[k] = new
    BY <1>0, <2>1, <2>2 DEF DisturbedResults
  <2>5. new.of \in DOMAIN sessions' /\ new.since <= Len(sessions')
    <3>1. Len(sessions) \in Nat /\ Len(sessions') \in Nat /\ new.since \in Nat
      BY <2>3 DEF ImportInv, ImportShape, Kept
    <3>. QED  BY <2>1, <2>3, <3>1 DEF TrueOf, SessionsGoOn
  <2>6. TrueOf(new)'
    BY <2>1, <2>3, <2>5 DEF TrueOf
  <2>. QED  BY <2>1, <2>3, <2>4, <2>6
<1>1. ASSUME NEW k \in Keys, results[k] = NoResult PROVE results'[k] = NoResult
  BY <1>1 DEF DisturbedResults
<1>2. \A k \in Keys : results[k] # NoResult => results'[k] # NoResult /\ results'[k].since = results[k].since
  <2> SUFFICES ASSUME NEW k \in Keys, results[k] # NoResult
               PROVE  results'[k] # NoResult /\ results'[k].since = results[k].since
    OBVIOUS
  <2>. QED  BY <1>0, BulkImportAssumption
<1>3. ResultsGoOn
  BY <1>2 DEF ResultsGoOn, HasResult
<1>4. ASSUME NEW k \in Keys, results'[k] # NoResult PROVE TrueOf(results[k])'
  BY <1>0, <1>1, <1>4
<1>. QED  BY <1>3, <1>4

\* What the sessions' keys have is kept.
LEMMA KeysStayKept ==
  ASSUME ImportInv, ResultsGoOn, DOMAIN sessions' = DOMAIN sessions,
         \A s \in DOMAIN sessions : /\ sessions'[s].done = sessions[s].done
                                    /\ sessions'[s].fresh => sessions[s].fresh
  PROVE  KeysKept'
<1> SUFFICES ASSUME NEW s \in DOMAIN sessions, NEW k \in sessions[s].done, sessions'[s].fresh
             PROVE  HasResult(s, k)'
  BY DEF KeysKept
<1>1. sessions[s] \in Session /\ s \in Nat
  BY DEF ImportInv, ImportShape
<1>2. HasResult(s, k) /\ k \in Keys
  BY <1>1 DEF ImportInv, KeysKept, Session
<1>. QED  BY <1>1, <1>2 DEF ResultsGoOn

-----------------------------------------------------------------------------
(* The runs' own steps. *)

LEMMA SetRunIs ==
  ASSUME NEW r \in Running, NEW run, SetRun(r, run)
  PROVE  Running' = Running /\ runs'[r] = run /\ \A q \in Running \ {r} : runs'[q] = runs[q]
  BY DEF SetRun, Running

LEMMA DropRunsIs ==
  ASSUME NEW gone, DropRuns(gone)
  PROVE  Running' = Running \ gone /\ \A q \in Running' : runs'[q] = runs[q]
  BY DEF DropRuns, Running

LEMMA SameWorld ==
  ASSUME UNCHANGED <<users, sessions, results>>
  PROVE  SessionsGoOn /\ ResultsGoOn /\ users' = users
<1>1. users' = users /\ sessions' = sessions /\ results' = results
  OBVIOUS
<1>2. Len(sessions) <= Len(sessions') /\ ResultsGoOn
  BY <1>1 DEF ResultsGoOn, HasResult
<1>. QED  BY <1>1, <1>2 DEF SessionsGoOn

\* The runs that go on are what they were, or fit the state that has not changed.
LEMMA RunsGoOn ==
  ASSUME ImportInv, UNCHANGED <<users, sessions, results>>, places' \in SUBSET Places,
         \A r \in Running' : \/ r \in Running /\ runs'[r] = runs[r]
                             \/ \E run \in RunRecord : run = runs'[r] /\ RunOk(run)
  PROVE  ImportInv'
<1>1. SessionsGoOn /\ ResultsGoOn /\ users' = users /\ sessions' = sessions /\ results' = results
  BY SameWorld
<1>2. ImportShape'
  BY <1>1 DEF ImportInv, ImportShape
<1>3. KeysKept'
  BY <1>1, KeysStayKept
<1>4. ASSUME NEW r \in Running' PROVE runs'[r] \in RunRecord /\ RunOk(runs[r])'
  <2>1. PICK run \in RunRecord : run = runs'[r] /\ RunOk(run)
    BY DEF ImportInv
  <2>2. RunOk(run)'
    BY <1>1, <2>1, RunStaysOk
  <2>. QED  BY <2>1, <2>2
<1>5. ASSUME NEW k \in Keys, results'[k] # NoResult PROVE TrueOf(results[k])'
  <2>1. PICK result \in Kept : result = results[k] /\ TrueOf(result)
    BY <1>1, <1>5 DEF ImportInv, ImportShape
  <2>2. TrueOf(result)'
    BY <1>1, <1>2, <2>1, ResultStaysTrue DEF ImportInv
  <2>. QED  BY <1>1, <2>1, <2>2
<1>. QED  BY <1>2, <1>3, <1>4, <1>5 DEF ImportInv

LEMMA RunWalks ==
  ASSUME ImportInv, NEW r \in Running, NEW run \in RunRecord, RunOk(run), SetRun(r, run),
         UNCHANGED <<users, places, sessions, results>>
  PROVE  ImportInv'
<1>1. Running' = Running /\ runs'[r] = run /\ \A q \in Running \ {r} : runs'[q] = runs[q]
  BY SetRunIs
<1>2. places' \in SUBSET Places
  BY DEF ImportInv, ImportShape
<1>. QED  BY <1>1, <1>2, RunsGoOn

LEMMA RunsLeave ==
  ASSUME ImportInv, NEW gone, DropRuns(gone), UNCHANGED <<users, places, sessions, results>>
  PROVE  ImportInv'
<1>1. Running' = Running \ gone /\ \A q \in Running' : runs'[q] = runs[q]
  BY DropRunsIs
<1>2. places' \in SUBSET Places
  BY DEF ImportInv, ImportShape
<1>. QED  BY <1>1, <1>2, RunsGoOn

\* Before the rows.
LEMMA ReadsKeep ==
  ASSUME ImportInv, NEW r \in Running,
         ReadSession(r) \/ Lookup(r) \/ ReadIndex(r) \/ ReadPlaces(r) \/ CallFails(r)
  PROVE  ImportInv'
<1>0. PICK run \in RunRecord : run = runs[r] /\ RunOk(run)
  BY DEF ImportInv
<1>1. /\ Len(Rows(run)) \in Nat \ {0} /\ DOMAIN Rows(run) = 1..Len(Rows(run))
      /\ run.of \in DOMAIN sessions
  BY <1>0, FilesAre DEF RunOk, InFile, ImportInv
<1>2. CASE DropRuns({r}) /\ UNCHANGED <<users, places, sessions, results>>
  BY <1>2, RunsLeave
<1>3. ASSUME NEW at \in {"lookup", "index"}, run.at \in {"session", "lookup"},
             SetRun(r, [run EXCEPT !.at = at]), UNCHANGED <<users, places, sessions, results>>,
             run.repeats => at = "lookup" /\ HasResult(run.of, run.key)
      PROVE  ImportInv'
  <2>1. PICK next : next = [run EXCEPT !.at = at]
    OBVIOUS
  <2>2. /\ next \in RunRecord /\ next.at = at /\ next.row = run.row /\ next.of = run.of
        /\ next.key = run.key /\ next.repeats = run.repeats
        /\ next.saved = run.saved /\ next.audited = run.audited /\ next.failures = run.failures
    BY <2>1 DEF RunRecord
  <2>3. InFile(next) /\ Repeating(next) /\ Faithful(next)
    BY <1>0, <1>3, <2>2 DEF RunOk, InFile, Rows, Repeating, Faithful, Audited
  <2>. QED  BY <1>3, <2>1, <2>2, <2>3, RunWalks DEF RunOk
<1>4. CASE ReadSession(r)
  <2>1. CASE sessions[run.of].fresh /\ ~sessions[run.of].invalidRows
    <3>1. run.at = "session" /\ SetRun(r, [run EXCEPT !.at = "lookup"])
          /\ UNCHANGED <<users, places, sessions, results>>
      BY <1>0, <1>4, <2>1 DEF ReadSession
    <3>2. run.repeats => HasResult(run.of, run.key)
      BY <1>0, <1>1, <2>1, <3>1 DEF RunOk, Repeating, ImportInv, KeysKept
    <3>. QED  BY <1>3, <3>1, <3>2
  <2>2. CASE ~(sessions[run.of].fresh /\ ~sessions[run.of].invalidRows)
    BY <1>0, <1>2, <1>4, <2>2 DEF ReadSession
  <2>. QED  BY <2>1, <2>2
<1>5. CASE Lookup(r)
  <2>1. CASE results[run.key] # NoResult
    BY <1>0, <1>2, <1>5, <2>1 DEF Lookup
  <2>2. CASE results[run.key] = NoResult
    <3>1. run.at = "lookup" /\ SetRun(r, [run EXCEPT !.at = "index"])
          /\ UNCHANGED <<users, places, sessions, results>>
      BY <1>0, <1>5, <2>2 DEF Lookup
    <3>2. ~run.repeats
      BY <1>0, <2>2, <3>1 DEF RunOk, Repeating, HasResult
    <3>. QED  BY <1>3, <3>1, <3>2
  <2>. QED  BY <2>1, <2>2
<1>6. CASE ReadIndex(r)
  <2>1. PICK next : next = [run EXCEPT !.at = "places", !.index = users, !.calm = TRUE]
    OBVIOUS
  <2>2. /\ next \in RunRecord /\ next.at = "places" /\ next.row = run.row /\ next.of = run.of
        /\ next.index = users /\ next.key = run.key /\ next.repeats = run.repeats
        /\ next.saved = run.saved /\ next.audited = run.audited /\ next.failures = run.failures
    BY <2>1 DEF RunRecord, ImportInv, ImportShape
  <2>3. run.at = "index" /\ SetRun(r, next) /\ UNCHANGED <<users, places, sessions, results>>
    BY <1>0, <1>6, <2>1 DEF ReadIndex
  <2>4. InFile(next) /\ Repeating(next)
    BY <1>0, <2>2, <2>3 DEF RunOk, InFile, Rows, Repeating
  <2>5. Faithful(next)
    BY <1>0, <2>2, <2>3 DEF RunOk, Faithful, Audited, AsRead, UserOf
  <2>. QED  BY <2>2, <2>3, <2>4, <2>5, RunWalks DEF RunOk
<1>7. CASE ReadPlaces(r)
  <2>1. PICK next : next = [run EXCEPT !.at = "rows", !.places = places]
    OBVIOUS
  <2>2. /\ next \in RunRecord /\ next.at = "rows" /\ next.row = run.row /\ next.of = run.of
        /\ next.index = run.index /\ next.key = run.key /\ next.repeats = run.repeats
        /\ next.saved = run.saved /\ next.audited = run.audited /\ next.failures = run.failures
        /\ next.calm = run.calm
    BY <2>1 DEF RunRecord, ImportInv, ImportShape
  <2>3. run.at = "places" /\ SetRun(r, next) /\ UNCHANGED <<users, places, sessions, results>>
    BY <1>0, <1>7, <2>1 DEF ReadPlaces
  <2>4. Rows(next) = Rows(run)
    BY <2>2 DEF Rows
  <2>5. InFile(next) /\ Repeating(next) /\ next.row = 1
    BY <1>0, <1>1, <2>2, <2>3, <2>4 DEF RunOk, InFile, Repeating
  <2>6. ASSUME NEW i \in DOMAIN Rows(next), next.calm PROVE Knows(next, i)
    <3>1. AsRead(next, i)
      BY <1>0, <2>2, <2>3, <2>4, <2>6 DEF RunOk, Faithful, AsRead, UserOf
    <3>2. ~Through(next, i)
      BY <1>1, <2>2, <2>4, <2>5, <2>6 DEF Through
    <3>. QED  BY <3>1, <3>2 DEF Knows
  <2>7. Faithful(next)
    BY <1>0, <2>2, <2>3, <2>6 DEF RunOk, Faithful, Audited
  <2>. QED  BY <2>2, <2>3, <2>5, <2>7, RunWalks DEF RunOk
<1>8. CASE CallFails(r)
  BY <1>2, <1>8 DEF CallFails
<1>. QED  BY <1>4, <1>5, <1>6, <1>7, <1>8

\* A run goes on after a row, of which it knows how it went.
LEMMA RowIsOver ==
  ASSUME ImportShape, NEW run \in RunRecord, InFile(run), run.row \in DOMAIN Rows(run), ~run.repeats,
         run.saved \subseteq run.audited \cup run.failures,
         run.calm => \A i \in DOMAIN Rows(run) :
           /\ AsRead(run, i) \/ IsDone(run, i)
           /\ i <= run.row => i \in run.failures \/ IsDone(run, i)
  PROVE  NextRow(run) \in RunRecord /\ RunOk(NextRow(run))
<1>1. /\ Len(Rows(run)) \in Nat \ {0} /\ DOMAIN Rows(run) = 1..Len(Rows(run))
      /\ run.of \in DOMAIN sessions
  BY FilesAre DEF InFile
<1>2. PICK at : at = (IF run.row = Len(Rows(run)) THEN "store" ELSE "rows") /\ at \in {"store", "rows"}
  OBVIOUS
<1>3. PICK next : next = NextRow(run)
  OBVIOUS
<1>4. PICK nr \in Nat : nr = run.row + 1 /\ next = [run EXCEPT !.row = nr, !.at = at]
  <2>1. next = [run EXCEPT !.row = run.row + 1, !.at = at]
    BY <1>2, <1>3 DEF NextRow
  <2>2. PICK nr \in Nat : nr = run.row + 1
    BY DEF RunRecord
  <2>. QED  BY <2>1, <2>2
<1>5. /\ next \in RunRecord /\ next.row = run.row + 1 /\ next.at = at /\ next.index = run.index
      /\ next.saved = run.saved /\ next.audited = run.audited /\ next.failures = run.failures
      /\ next.calm = run.calm /\ next.of = run.of /\ next.places = run.places /\ ~next.repeats
  BY <1>2, <1>4 DEF RunRecord
<1>6. Rows(next) = Rows(run)
  BY <1>5 DEF Rows
<1>7. next.at = "rows" => next.row \in DOMAIN Rows(next)
  BY <1>1, <1>2, <1>5, <1>6
<1>8. ASSUME NEW i \in DOMAIN Rows(next), next.calm PROVE Knows(next, i)
  <2>1. i <= run.row \/ ~Through(next, i)
    <3>1. run.row \in 1..Len(Rows(run)) /\ i \in 1..Len(Rows(run))
      BY <1>1, <1>6
    <3>2. CASE at = "store"
      <4>1. run.row = Len(Rows(run))
        BY <1>2, <3>2
      <4>. QED  BY <1>1, <3>1, <4>1
    <3>3. CASE at = "rows"
      <4>1. Through(next, i) => i < run.row + 1
        BY <1>5, <3>3 DEF Through
      <4>. QED  BY <1>1, <3>1, <4>1
    <3>. QED  BY <1>2, <3>2, <3>3
  <2>2. (AsRead(next, i) <=> AsRead(run, i)) /\ (IsDone(next, i) <=> IsDone(run, i))
    BY <1>5, <1>6 DEF AsRead, IsDone, InEffect, UserOf
  <2>3. i \in DOMAIN Rows(run) /\ run.calm
    BY <1>5, <1>6, <1>8
  <2>. QED  BY <1>5, <2>1, <2>2, <2>3 DEF Knows
<1>9. InFile(next) /\ Repeating(next)
  BY <1>2, <1>5, <1>6, <1>7 DEF InFile, Repeating
<1>10. Faithful(next)
  BY <1>2, <1>5, <1>8 DEF Faithful, Audited
<1>. QED  BY <1>3, <1>5, <1>9, <1>10 DEF RunOk

\* A run at its rows.
LEMMA AtTheRows ==
  ASSUME ImportShape, NEW run \in RunRecord, RunOk(run), run.at \in {"rows", "audit"}
  PROVE  /\ run.row \in DOMAIN Rows(run) /\ ~run.repeats /\ run.of \in DOMAIN sessions
         /\ run.calm => \A i \in DOMAIN Rows(run) :
              /\ AsRead(run, i) \/ IsDone(run, i)
              /\ i < run.row \/ (run.at = "audit" /\ i <= run.row)
                   => i \in run.failures \/ IsDone(run, i)
              /\ i <= run.row => i = run.row \/ i < run.row
<1>1. run.row \in DOMAIN Rows(run) /\ ~run.repeats /\ run.of \in DOMAIN sessions
  BY DEF RunOk, InFile, Repeating
<1>2. ASSUME NEW i \in DOMAIN Rows(run), run.calm PROVE Knows(run, i)
  BY <1>2 DEF RunOk, Faithful
<1>3. DOMAIN Rows(run) = 1..Len(Rows(run)) /\ Len(Rows(run)) \in Nat
  BY <1>1, FilesAre
<1>4. ASSUME NEW i \in DOMAIN Rows(run), run.calm
      PROVE  /\ AsRead(run, i) \/ IsDone(run, i)
             /\ i < run.row \/ (run.at = "audit" /\ i <= run.row)
                  => i \in run.failures \/ IsDone(run, i)
             /\ i <= run.row => i = run.row \/ i < run.row
  <2>1. Knows(run, i) /\ i \in Nat /\ run.row \in Nat
    BY <1>1, <1>2, <1>3, <1>4
  <2>2. i < run.row \/ (run.at = "audit" /\ i <= run.row) => Through(run, i)
    BY <2>1 DEF Through
  <2>. QED  BY <2>1, <2>2 DEF Knows
<1>. QED  BY <1>1, <1>4

\* A row that fails.
LEMMA FailsFaithfully ==
  ASSUME ImportShape, NEW run \in RunRecord, RunOk(run), run.at \in {"rows", "audit"}
  PROVE  Fail(run) \in RunRecord /\ RunOk(Fail(run))
<1>1. PICK failed : failed = [run EXCEPT !.failures = run.failures \cup {run.row}]
  OBVIOUS
<1>2. /\ failed \in RunRecord /\ failed.row = run.row /\ failed.at = run.at /\ failed.of = run.of
      /\ failed.index = run.index /\ failed.saved = run.saved /\ failed.audited = run.audited
      /\ failed.failures = run.failures \cup {run.row} /\ failed.calm = run.calm
      /\ failed.places = run.places /\ failed.repeats = run.repeats
  BY <1>1 DEF RunRecord
<1>3. Rows(failed) = Rows(run)
  BY <1>2 DEF Rows
<1>4. /\ InFile(failed) /\ failed.row \in DOMAIN Rows(failed) /\ ~failed.repeats
      /\ failed.saved \subseteq failed.audited \cup failed.failures
  BY <1>2, <1>3, AtTheRows DEF RunOk, InFile, Faithful, Audited
<1>5. ASSUME NEW i \in DOMAIN Rows(failed), failed.calm
      PROVE  /\ AsRead(failed, i) \/ IsDone(failed, i)
             /\ i <= failed.row => i \in failed.failures \/ IsDone(failed, i)
  <2>1. (AsRead(failed, i) <=> AsRead(run, i)) /\ (IsDone(failed, i) <=> IsDone(run, i))
    BY <1>2, <1>3 DEF AsRead, IsDone, InEffect, UserOf
  <2>. QED  BY <1>2, <1>3, <1>5, <2>1, AtTheRows
<1>6. NextRow(failed) \in RunRecord /\ RunOk(NextRow(failed))
  BY <1>2, <1>4, <1>5, RowIsOver
<1>. QED  BY <1>1, <1>6 DEF Fail

LEMMA AuditsFaithfully ==
  ASSUME ImportInv, NEW r \in Running, Audit(r) PROVE ImportInv'
<1>1. PICK run \in RunRecord : run = runs[r] /\ RunOk(run)
  BY DEF ImportInv
<1>2. PICK next : next = [run EXCEPT !.audited = run.audited \cup {run.row}]
  OBVIOUS
<1>3. /\ next \in RunRecord /\ next.row = run.row /\ next.at = run.at /\ next.of = run.of
      /\ next.index = run.index /\ next.saved = run.saved
      /\ next.audited = run.audited \cup {run.row} /\ next.failures = run.failures
      /\ next.calm = run.calm /\ next.places = run.places /\ next.repeats = run.repeats
  BY <1>2 DEF RunRecord
<1>4. run.at = "audit" /\ SetRun(r, NextRow(next)) /\ UNCHANGED <<users, places, sessions, results>>
  BY <1>1, <1>2 DEF Audit
<1>5. Rows(next) = Rows(run) /\ ImportShape
  BY <1>3 DEF Rows, ImportInv
<1>6. /\ InFile(next) /\ next.row \in DOMAIN Rows(next) /\ ~next.repeats
      /\ next.saved \subseteq next.audited \cup next.failures
  BY <1>1, <1>3, <1>4, <1>5, AtTheRows DEF RunOk, InFile, Faithful, Audited
<1>7. ASSUME NEW i \in DOMAIN Rows(next), next.calm
      PROVE  /\ AsRead(next, i) \/ IsDone(next, i)
             /\ i <= next.row => i \in next.failures \/ IsDone(next, i)
  <2>1. (AsRead(next, i) <=> AsRead(run, i)) /\ (IsDone(next, i) <=> IsDone(run, i))
    BY <1>3, <1>5 DEF AsRead, IsDone, InEffect, UserOf
  <2>. QED  BY <1>1, <1>3, <1>4, <1>5, <1>7, <2>1, AtTheRows
<1>8. NextRow(next) \in RunRecord /\ RunOk(NextRow(next))
  BY <1>3, <1>5, <1>6, <1>7, RowIsOver
<1>. QED  BY <1>4, <1>8, RunWalks

\* What a row makes of a copy is a user, and what the row asks for.
LEMMA UpdatedIs ==
  ASSUME ImportShape, NEW run \in RunRecord, RunOk(run), run.at = "rows"
  PROVE  /\ RowOf(run) \in Row /\ run.index[RowOf(run).email] \in User \cup {Absent}
         /\ Updated(run) \in User /\ Updated(run) # Absent /\ InEffect(Updated(run), RowOf(run), run)
<1>1. /\ run.row \in DOMAIN Rows(run) /\ run.of \in DOMAIN sessions /\ RowOf(run) \in Row
  BY AtTheRows, FilesAre DEF RowOf
<1>2. PICK row \in Row : row = RowOf(run)
  BY <1>1
<1>3. PICK copy \in User \cup {Absent} : copy = run.index[row.email]
  BY <1>2 DEF RunRecord, Row
<1>4. PICK place \in Places \cup {NoPlace} : place = Found(run.places, row.place)
  BY <1>2 DEF Found, Row, RunRecord
<1>5. PICK role \in Roles :
        role = IF copy = Absent \/ sessions[run.of].allowRoleUpdate THEN row.role ELSE copy.role
  BY <1>2, <1>3 DEF Row, User
<1>6. PICK user : user = [profile |-> "sheet", place |-> place, role |-> role]
  OBVIOUS
<1>7. user = Updated(run)
  BY <1>2, <1>3, <1>4, <1>5, <1>6 DEF Updated
<1>8. user \in User /\ user.profile = "sheet" /\ user.place = place /\ user.role = role
  BY <1>6 DEF User, Profiles
<1>9. user # Absent
  BY <1>8, BulkImportAssumption
<1>10. InEffect(user, row, run)
  BY <1>4, <1>5, <1>8, <1>9 DEF InEffect
<1>. QED  BY <1>1, <1>2, <1>3, <1>7, <1>8, <1>9, <1>10

\* Users change: the runs but some lose their calm, and so do all results.
LEMMA OthersUncalmed ==
  ASSUME ImportInv, users' \in [Emails -> User \cup {Absent}], places' \in SUBSET Places,
         sessions' = sessions, results' = DisturbedResults, NEW others \in SUBSET Running,
         Running' = Running, \A r \in others : runs'[r] = Disturbed(others)[r],
         \A r \in Running \ others : \E run \in RunRecord : run = runs'[r] /\ RunOk(run)'
  PROVE  ImportInv'
<1>1. SessionsGoOn
  BY DEF SessionsGoOn, ImportInv, ImportShape
<1>2. ImportShape'
  <2>1. \A k \in Keys : results'[k] = NoResult \/ results'[k] \in Kept
    <3> SUFFICES ASSUME NEW k \in Keys, results[k] # NoResult PROVE results'[k] \in Kept
      BY DEF DisturbedResults
    <3>1. PICK old \in Kept : old = results[k]
      BY DEF ImportInv, ImportShape
    <3>2. results'[k] = [old EXCEPT !.calm = FALSE]
      BY <3>1 DEF DisturbedResults
    <3>. QED  BY <3>2 DEF Kept
  <2>. QED  BY <2>1 DEF ImportInv, ImportShape, DisturbedResults
<1>3. ResultsGoOn /\ \A k \in Keys : results'[k] # NoResult => TrueOf(results[k])'
  BY <1>1, <1>2, ResultsUncalmed
<1>4. KeysKept'
  BY <1>3, KeysStayKept
<1>5. ASSUME NEW r \in Running' PROVE runs'[r] \in RunRecord /\ RunOk(runs[r])'
  <2>1. CASE r \in others
    <3>1. r \in Running \cap others /\ runs[r] \in RunRecord /\ RunOk(runs[r])
      BY <2>1 DEF ImportInv
    <3>2. PICK run \in RunRecord : run = Disturbed(others)[r] /\ RunOk(run)'
      BY <1>1, <1>3, <3>1, RunUncalmed
    <3>3. run = runs'[r]
      BY <2>1, <3>2
    <3>. QED  BY <3>2, <3>3
  <2>2. CASE r \notin others
    BY <2>2
  <2>. QED  BY <2>1, <2>2
<1>. QED  BY <1>2, <1>3, <1>4, <1>5 DEF ImportInv

\* A row that is saved, over whatever is there.
LEMMA SavesFaithfully ==
  ASSUME ImportInv, NEW r \in Running, NEW run \in RunRecord, run = runs[r], run.at = "rows",
         NEW user, user = Updated(run),
         users' = [users EXCEPT ![RowOf(run).email] = user],
         runs' = [Disturbed(Running \ {r}) EXCEPT
                    ![r] = [run EXCEPT !.at = "audit", !.saved = @ \cup {run.row}]],
         results' = DisturbedResults, places' = places, sessions' = sessions
  PROVE  ImportInv'
<1>1. /\ RunOk(run) /\ RowOf(run) \in Row /\ user \in User /\ InEffect(user, RowOf(run), run)
      /\ ImportShape
  BY UpdatedIs DEF ImportInv
<1>2. /\ run.row \in DOMAIN Rows(run) /\ ~run.repeats /\ run.of \in DOMAIN sessions
      /\ \A i \in DOMAIN Rows(run) : Rows(run)[i] \in Row
      /\ \A i, j \in DOMAIN Rows(run) : Rows(run)[i].email = Rows(run)[j].email => i = j
  BY <1>1, AtTheRows, FilesAre
<1>3. PICK email \in Emails : email = RowOf(run).email
  BY <1>1 DEF Row
<1>4. /\ users' \in [Emails -> User \cup {Absent}] /\ users'[email] = user
      /\ \A e \in Emails : e # email => users'[e] = users[e]
  BY <1>1, <1>3 DEF ImportShape
<1>5. SessionsGoOn
  BY <1>1 DEF SessionsGoOn, ImportShape
<1>6. Rows(run)' = Rows(run)
  BY DEF Rows
<1>7. IsDone(run, run.row)'
  <2>1. UserOf(run, run.row)' = user
    BY <1>3, <1>4, <1>6 DEF UserOf, RowOf
  <2>2. InEffect(user, RowOf(run), run)'
    BY <1>1 DEF InEffect, RowOf, Rows
  <2>. QED  BY <1>6, <2>1, <2>2 DEF IsDone, RowOf
<1>8. ASSUME NEW i \in DOMAIN Rows(run), i # run.row
      PROVE  (AsRead(run, i)' <=> AsRead(run, i)) /\ (IsDone(run, i)' <=> IsDone(run, i))
  <2>1. Rows(run)[i].email \in Emails /\ Rows(run)[i].email # email
    BY <1>2, <1>3, <1>8 DEF Row, RowOf
  <2>2. UserOf(run, i)' = UserOf(run, i)
    BY <1>4, <1>6, <2>1 DEF UserOf
  <2>3. IsDone(run, i)' = IsDone(run, i)
    BY <1>2, <1>5, <2>2, EffectsStay
  <2>4. AsRead(run, i)' = AsRead(run, i)
    BY <1>6, <2>2 DEF AsRead
  <2>. QED  BY <2>3, <2>4
<1>9. PICK next : next = [run EXCEPT !.at = "audit", !.saved = run.saved \cup {run.row}]
  OBVIOUS
<1>10. /\ next \in RunRecord /\ next.at = "audit" /\ next.row = run.row /\ next.index = run.index
       /\ next.saved = run.saved \cup {run.row} /\ next.audited = run.audited
       /\ next.failures = run.failures /\ next.calm = run.calm /\ next.of = run.of
       /\ next.places = run.places /\ next.repeats = run.repeats
  <2>1. run.row \in Nat
    BY DEF RunRecord
  <2>. QED  BY <1>9, <2>1 DEF RunRecord
<1>11. RunOk(next)'
  <2>1. InFile(next) /\ Repeating(next)'
    BY <1>1, <1>2, <1>10 DEF RunOk, InFile, Rows, Repeating
  <2>2. InFile(next)'
    BY <1>5, <2>1, InFileStays
  <2>3. Audited(next)'
    BY <1>1, <1>10 DEF RunOk, Faithful, Audited
  <2>4. ASSUME NEW i \in DOMAIN Rows(next)', next.calm PROVE Knows(next, i)'
    <3>1. Rows(next)' = Rows(run) /\ i \in DOMAIN Rows(run) /\ run.calm
      BY <1>10, <2>4 DEF Rows
    <3>2. (AsRead(next, i)' <=> AsRead(run, i)') /\ (IsDone(next, i)' <=> IsDone(run, i)')
      BY <1>6, <1>10, <3>1 DEF AsRead, IsDone, InEffect, UserOf, Rows
    <3>3. CASE i = run.row
      BY <1>7, <3>2, <3>3 DEF Knows
    <3>4. CASE i # run.row
      <4>1. AsRead(run, i) \/ IsDone(run, i)
        BY <1>1, <3>1, AtTheRows
      <4>2. i < run.row => i \in run.failures \/ IsDone(run, i)
        BY <1>1, <3>1, AtTheRows
      <4>3. Through(next, i)' => i < run.row
        BY <1>10, <3>4 DEF Through
      <4>. QED  BY <1>8, <1>10, <3>1, <3>2, <3>4, <4>1, <4>2, <4>3 DEF Knows
    <3>. QED  BY <3>3, <3>4
  <2>. QED  BY <1>10, <2>1, <2>2, <2>3, <2>4 DEF RunOk, Faithful
<1>12. PICK calmer : calmer = Disturbed(Running \ {r})
  OBVIOUS
<1>13. runs' = [calmer EXCEPT ![r] = next] /\ DOMAIN calmer = Running
  BY <1>9, <1>12 DEF Disturbed
<1>14. Running' = Running /\ runs'[r] = next /\ \A q \in Running \ {r} : runs'[q] = calmer[q]
  BY <1>13 DEF Running
<1>15. \A q \in Running \ (Running \ {r}) : q = r
  OBVIOUS
<1>16. places' \in SUBSET Places
  BY <1>1 DEF ImportShape
<1>. QED  BY <1>4, <1>10, <1>11, <1>12, <1>14, <1>15, <1>16, OthersUncalmed

LEMMA SaveRowKeeps ==
  ASSUME ImportInv, NEW r \in Running, SaveRow(r) PROVE ImportInv'
<1>1. PICK run \in RunRecord : run = runs[r] /\ RunOk(run)
  BY DEF ImportInv
<1>2. PICK row, copy, user : row = RowOf(run) /\ copy = run.index[row.email] /\ user = Updated(run)
  OBVIOUS
<1>3. run.at = "rows" /\ UNCHANGED <<places, sessions>> /\ ImportShape
  BY <1>1 DEF SaveRow, ImportInv
<1>4. \/ /\ users' = [users EXCEPT ![row.email] = user]
         /\ runs' = [Disturbed(Running \ {r}) EXCEPT
                       ![r] = [run EXCEPT !.at = "audit", !.saved = @ \cup {run.row}]]
         /\ results' = DisturbedResults
      \/ SetRun(r, Fail(run)) /\ UNCHANGED <<users, results>>
      \/ user = copy /\ SetRun(r, NextRow(run)) /\ UNCHANGED <<users, results>>
  BY <1>1, <1>2 DEF SaveRow
<1>5. CASE SetRun(r, Fail(run)) /\ UNCHANGED <<users, results>>
  <2>1. Fail(run) \in RunRecord /\ RunOk(Fail(run))
    BY <1>1, <1>3, FailsFaithfully
  <2>. QED  BY <1>3, <1>5, <2>1, RunWalks
<1>6. CASE user = copy /\ SetRun(r, NextRow(run)) /\ UNCHANGED <<users, results>>
  <2>1. run.row \in DOMAIN Rows(run) /\ ~run.repeats /\ InEffect(copy, row, run)
    BY <1>1, <1>2, <1>3, <1>6, AtTheRows, UpdatedIs
  <2>2. InFile(run) /\ run.saved \subseteq run.audited \cup run.failures
    BY <1>1, <1>3 DEF RunOk, Faithful, Audited
  <2>3. ASSUME NEW i \in DOMAIN Rows(run), run.calm
        PROVE  /\ AsRead(run, i) \/ IsDone(run, i)
               /\ i <= run.row => i \in run.failures \/ IsDone(run, i)
    <3>1. /\ AsRead(run, i) \/ IsDone(run, i)
          /\ i < run.row => i \in run.failures \/ IsDone(run, i)
          /\ i <= run.row => i = run.row \/ i < run.row
      BY <1>1, <1>3, <2>3, AtTheRows
    <3>2. i = run.row /\ AsRead(run, i) => IsDone(run, i)
      BY <1>2, <2>1 DEF AsRead, IsDone, RowOf
    <3>. QED  BY <3>1, <3>2
  <2>4. NextRow(run) \in RunRecord /\ RunOk(NextRow(run))
    BY <1>3, <2>1, <2>2, <2>3, RowIsOver
  <2>. QED  BY <1>3, <1>6, <2>4, RunWalks
<1>7. CASE /\ users' = [users EXCEPT ![row.email] = user]
           /\ runs' = [Disturbed(Running \ {r}) EXCEPT
                         ![r] = [run EXCEPT !.at = "audit", !.saved = @ \cup {run.row}]]
           /\ results' = DisturbedResults
  BY <1>1, <1>2, <1>3, <1>7, SavesFaithfully
<1>. QED  BY <1>4, <1>5, <1>6, <1>7

LEMMA RowFailsKeeps ==
  ASSUME ImportInv, NEW r \in Running, RowFails(r) PROVE ImportInv'
<1>1. PICK run \in RunRecord : run = runs[r] /\ RunOk(run)
  BY DEF ImportInv
<1>2. /\ run.at \in {"rows", "audit"} /\ SetRun(r, Fail(run))
      /\ UNCHANGED <<users, places, sessions, results>> /\ ImportShape
  BY <1>1 DEF RowFails, ImportInv
<1>3. Fail(run) \in RunRecord /\ RunOk(Fail(run))
  BY <1>1, <1>2, FailsFaithfully
<1>. QED  BY <1>2, <1>3, RunWalks

\* A call that begins.
LEMMA CallKeeps ==
  ASSUME ImportInv, NEW r \in Runs, NEW k \in Keys, NEW s \in DOMAIN sessions, Call(r, k, s)
  PROVE  ImportInv'
<1> DEFINE run(repeats) ==
      [of |-> s, key |-> k, at |-> "session", row |-> 1, index |-> Unread, places |-> {},
       saved |-> {}, audited |-> {}, failures |-> {}, calm |-> TRUE, repeats |-> repeats]
<1>1. SetRun(r, run(k \in sessions[s].done)) /\ UNCHANGED <<users, places, sessions, results>>
  BY DEF Call
<1>2. PICK repeats \in BOOLEAN : repeats = (k \in sessions[s].done)
  <2>1. CASE k \in sessions[s].done
    <3>1. (k \in sessions[s].done) = TRUE
      BY <2>1
    <3>. QED  BY <3>1
  <2>2. CASE k \notin sessions[s].done
    <3>1. (k \in sessions[s].done) = FALSE
      BY <2>2
    <3>. QED  BY <3>1
  <2>. QED  BY <2>1, <2>2
<1>3. PICK next : next = run(repeats)
  OBVIOUS
<1>4. SetRun(r, next)
  BY <1>1, <1>2, <1>3
<1>5. s \in Nat
  BY DEF ImportInv, ImportShape
<1>6. /\ next \in RunRecord /\ next.at = "session" /\ next.row = 1 /\ next.of = s /\ next.key = k
      /\ next.saved = {} /\ next.audited = {} /\ next.failures = {} /\ next.repeats = repeats
  BY <1>3, <1>5 DEF RunRecord, Unread
<1> HIDE DEF run
<1>7. RunOk(next)
  BY <1>2, <1>6 DEF RunOk, InFile, Repeating, Faithful, Audited
<1>8. \A q \in Running' : runs'[q] = next \/ (q \in Running /\ runs'[q] = runs[q])
  BY <1>4 DEF SetRun, Running
<1>9. places' \in SUBSET Places
  BY <1>1 DEF ImportInv, ImportShape
<1>. QED  BY <1>1, <1>6, <1>7, <1>8, <1>9, RunsGoOn

\* The end of a run: the key has a result, kept when all sessions were there.
LEMMA StoreKeeps ==
  ASSUME ImportInv, NEW r \in Running, Store(r) PROVE ImportInv'
<1>1. PICK run \in RunRecord : run = runs[r] /\ RunOk(run)
  BY DEF ImportInv
<1>2. PICK n \in Nat : n = Len(sessions)
  BY DEF ImportInv, ImportShape
<1>3. PICK kept : kept = [of |-> run.of, since |-> n, places |-> run.places, saved |-> run.saved,
                          audited |-> run.audited, failures |-> run.failures, calm |-> run.calm]
  OBVIOUS
<1>4. PICK session \in Session : session = sessions[run.of]
  BY <1>1, FilesAre DEF ImportInv, RunOk, InFile
<1>5. PICK next : next = [session EXCEPT !.done = session.done \cup {run.key}]
  OBVIOUS
<1>6. /\ run.at = "store" /\ results' = [results EXCEPT ![run.key] = kept]
      /\ sessions' = [sessions EXCEPT ![run.of] = next] /\ DropRuns({r})
      /\ users' = users /\ places' = places
  BY <1>1, <1>2, <1>3, <1>4, <1>5 DEF Store
<1>7. /\ next \in Session /\ next.file = session.file /\ next.fresh = session.fresh
      /\ next.allowRoleUpdate = session.allowRoleUpdate /\ next.done = session.done \cup {run.key}
  BY <1>5 DEF Session, RunRecord
<1>8. /\ kept \in Kept /\ kept.of = run.of /\ kept.since = n /\ kept.places = run.places
      /\ kept.saved = run.saved /\ kept.audited = run.audited /\ kept.failures = run.failures
      /\ kept.calm = run.calm
  BY <1>3 DEF Kept, RunRecord
<1>9. run.of \in DOMAIN sessions /\ sessions \in Seq(Session) /\ run.key \in Keys /\ DOMAIN results = Keys
  BY <1>1 DEF RunOk, InFile, ImportInv, ImportShape, RunRecord
<1>10. /\ sessions' \in Seq(Session) /\ DOMAIN sessions' = DOMAIN sessions /\ Len(sessions') = n
       /\ sessions'[run.of] = next /\ \A s \in DOMAIN sessions : s # run.of => sessions'[s] = sessions[s]
  BY <1>2, <1>6, <1>7, <1>9
<1>11. SessionsGoOn
  BY <1>2, <1>4, <1>7, <1>10 DEF SessionsGoOn
<1>12. ResultsGoOn
  <2> SUFFICES ASSUME NEW k \in Keys, NEW s \in Nat, HasResult(s, k) PROVE HasResult(s, k)'
    BY DEF ResultsGoOn
  <2>1. CASE k = run.key
    <3>1. PICK old \in Kept : old = results[k] /\ TrueOf(old) /\ s <= old.since
      BY DEF HasResult, ImportInv, ImportShape
    <3>2. s <= n
      BY <1>2, <3>1 DEF TrueOf, Kept
    <3>3. results'[k] = kept /\ kept # NoResult
      BY <1>6, <1>8, <1>9, <2>1, BulkImportAssumption
    <3>. QED  BY <1>8, <3>2, <3>3 DEF HasResult
  <2>2. CASE k # run.key
    BY <1>6, <1>9, <2>2 DEF HasResult
  <2>. QED  BY <2>1, <2>2
<1>13. KeysKept'
  <2> SUFFICES ASSUME NEW s \in DOMAIN sessions', NEW k \in sessions'[s].done, sessions'[s].fresh
               PROVE  HasResult(s, k)'
    BY DEF KeysKept
  <2>1. s \in 1..n
    BY <1>2, <1>9, <1>10
  <2>2. CASE k = run.key
    <3>1. results'[k] = kept /\ kept # NoResult
      BY <1>6, <1>8, <1>9, <2>2, BulkImportAssumption
    <3>. QED  BY <1>8, <2>1, <3>1 DEF HasResult
  <2>3. CASE k # run.key
    <3>1. s \in DOMAIN sessions /\ k \in sessions[s].done /\ sessions[s].fresh
      BY <1>4, <1>7, <1>10, <2>3
    <3>2. sessions[s] \in Session
      BY <1>9, <3>1
    <3>3. k \in Keys /\ HasResult(s, k)
      BY <3>1, <3>2 DEF ImportInv, KeysKept, Session
    <3>. QED  BY <1>12, <2>1, <3>3 DEF ResultsGoOn
  <2>. QED  BY <2>2, <2>3
<1>14. ImportShape'
  <2>1. \A k \in Keys : results'[k] = results[k] \/ results'[k] = kept
    BY <1>6, <1>9
  <2>2. DOMAIN results' = Keys
    BY <1>6, <1>9
  <2>. QED  BY <1>6, <1>8, <1>10, <2>1, <2>2 DEF ImportInv, ImportShape
<1>15. TrueOf(kept)
  <2>1. kept.of \in DOMAIN sessions /\ kept.since <= Len(sessions) /\ Rows(kept) = Rows(run)
    BY <1>2, <1>8, <1>9 DEF Rows
  <2>2. kept.saved \subseteq kept.audited \cup kept.failures
    BY <1>1, <1>6, <1>8 DEF RunOk, Faithful, Audited
  <2>3. ASSUME NEW i \in DOMAIN Rows(kept), kept.calm PROVE i \in kept.failures \/ IsDone(kept, i)
    <3>1. Knows(run, i) /\ Through(run, i)
      BY <1>1, <1>6, <1>8, <2>1, <2>3 DEF RunOk, Faithful, Through
    <3>2. IsDone(run, i) => IsDone(kept, i)
      BY <1>8, <2>1 DEF IsDone, InEffect, UserOf
    <3>. QED  BY <1>8, <3>1, <3>2 DEF Knows
  <2>. QED  BY <2>1, <2>2, <2>3 DEF TrueOf
<1>16. ASSUME NEW k \in Keys, results'[k] # NoResult PROVE TrueOf(results[k])'
  <2>1. PICK result \in Kept : result = results'[k] /\ TrueOf(result)
    BY <1>6, <1>8, <1>9, <1>15, <1>16 DEF ImportInv, ImportShape
  <2>2. TrueOf(result)'
    BY <1>6, <1>11, <1>14, <2>1, ResultStaysTrue DEF ImportInv
  <2>. QED  BY <2>1, <2>2
<1>17. ASSUME NEW q \in Running' PROVE runs'[q] \in RunRecord /\ RunOk(runs[q])'
  <2>1. q \in Running /\ runs'[q] = runs[q]
    BY <1>6, DropRunsIs
  <2>2. PICK other \in RunRecord : other = runs[q] /\ RunOk(other)
    BY <2>1 DEF ImportInv
  <2>3. RunOk(other)'
    BY <1>6, <1>11, <1>12, <2>2, RunStaysOk
  <2>. QED  BY <2>1, <2>2, <2>3
<1>. QED  BY <1>13, <1>14, <1>16, <1>17 DEF ImportInv

\* A result goes when none of the sessions is fresh that could have been applied with the key.
LEMMA ResultDropsKeeps ==
  ASSUME ImportInv, NEW key \in Keys, ResultDrops(key) PROVE ImportInv'
<1>1. /\ results' = [results EXCEPT ![key] = NoResult] /\ runs' = HeldUp(key)
      /\ users' = users /\ places' = places /\ sessions' = sessions /\ results[key] # NoResult
      /\ \A s \in 1..results[key].since : ~sessions[s].fresh
  BY DEF ResultDrops
<1>2. DOMAIN results = Keys /\ ImportShape
  BY DEF ImportInv, ImportShape
<1>3. DOMAIN results' = Keys /\ results'[key] = NoResult
      /\ \A k \in Keys : k # key => results'[k] = results[k]
  BY <1>1, <1>2
<1>4. ImportShape'
  BY <1>1, <1>3 DEF ImportInv, ImportShape
<1>5. SessionsGoOn
  BY <1>1 DEF SessionsGoOn, ImportInv, ImportShape
<1>6. KeysKept'
  <2> SUFFICES ASSUME NEW s \in DOMAIN sessions, NEW k \in sessions[s].done, sessions[s].fresh
               PROVE  HasResult(s, k)'
    BY <1>1 DEF KeysKept
  <2>1. sessions[s] \in Session /\ s \in Nat \ {0}
    BY <1>2 DEF ImportShape
  <2>2. HasResult(s, k) /\ k \in Keys
    BY <2>1 DEF ImportInv, KeysKept, Session
  <2>3. k # key
    <3> SUFFICES ASSUME k = key PROVE FALSE
      OBVIOUS
    <3>1. results[key] \in Kept /\ s <= results[key].since
      BY <1>1, <2>2 DEF HasResult, ImportInv, ImportShape
    <3>2. s \in 1..results[key].since
      BY <2>1, <3>1 DEF Kept
    <3>. QED  BY <1>1, <3>2
  <2>. QED  BY <1>3, <2>2, <2>3 DEF HasResult
<1>7. ASSUME NEW k \in Keys, results'[k] # NoResult PROVE TrueOf(results[k])'
  <2>1. PICK result \in Kept : result = results'[k] /\ TrueOf(result)
    BY <1>3, <1>7 DEF ImportInv, ImportShape
  <2>2. TrueOf(result)'
    BY <1>1, <1>2, <1>4, <1>5, <2>1, ResultStaysTrue
  <2>. QED  BY <2>1, <2>2
<1>8. ASSUME NEW q \in Running' PROVE runs'[q] \in RunRecord /\ RunOk(runs[q])'
  <2>1. PICK old \in RunRecord : old = runs[q] /\ RunOk(old) /\ q \in Running
    BY <1>1 DEF ImportInv, HeldUp, Running
  <2>2. PICK repeats \in BOOLEAN : repeats = (old.repeats /\ ~(old.key = key /\ old.at = "lookup"))
    OBVIOUS
  <2>3. PICK new : new = [old EXCEPT !.repeats = repeats]
    OBVIOUS
  <2>4. runs'[q] = new
    BY <1>1, <2>1, <2>2, <2>3 DEF HeldUp
  <2>5. /\ new \in RunRecord /\ new.repeats = repeats /\ new.at = old.at /\ new.row = old.row
        /\ new.of = old.of /\ new.key = old.key /\ new.index = old.index /\ new.places = old.places
        /\ new.saved = old.saved /\ new.audited = old.audited /\ new.failures = old.failures
        /\ new.calm = old.calm
    BY <2>3 DEF RunRecord
  <2>6. Rows(new) = Rows(old) /\ Rows(new)' = Rows(new)
    BY <1>1, <2>5 DEF Rows
  <2>7. InFile(new)'
    BY <1>1, <2>1, <2>5, <2>6 DEF RunOk, InFile
  <2>8. Repeating(new)'
    <3>1. CASE ~repeats
      BY <2>5, <3>1 DEF Repeating
    <3>2. CASE repeats
      BY <1>1, <1>3, <2>1, <2>2, <2>5, <3>2 DEF RunOk, Repeating, HasResult, RunRecord
    <3>. QED  BY <3>1, <3>2
  <2>9. Faithful(new)'
    <3>1. \A i : (AsRead(new, i)' <=> AsRead(old, i)) /\ (IsDone(new, i)' <=> IsDone(old, i))
                 /\ (Through(new, i)' <=> Through(old, i))
      BY <1>1, <2>5, <2>6 DEF AsRead, IsDone, InEffect, UserOf, Through
    <3>2. \A i : Knows(new, i)' <=> Knows(old, i)
      BY <2>5, <3>1 DEF Knows
    <3>3. Audited(new)'
      BY <2>1, <2>5 DEF RunOk, Faithful, Audited
    <3>. QED  BY <2>1, <2>5, <2>6, <3>1, <3>2, <3>3 DEF RunOk, Faithful
  <2>. QED  BY <2>4, <2>5, <2>7, <2>8, <2>9 DEF RunOk
<1>. QED  BY <1>4, <1>6, <1>7, <1>8 DEF ImportInv

\* DryRun, SessionEnds: the results' sessions stay.
LEMMA SessionsKeep ==
  ASSUME ImportInv, DryRun \/ \E s \in DOMAIN sessions : SessionEnds(s) PROVE ImportInv'
<1>1. UNCHANGED <<users, places, results, runs>>
  BY DEF DryRun, SessionEnds
<1>2. /\ sessions' \in Seq(Session) /\ SessionsGoOn
      /\ \A s \in DOMAIN sessions' : \A k \in sessions'[s].done :
           sessions'[s].fresh => s \in DOMAIN sessions /\ k \in sessions[s].done /\ sessions[s].fresh
  <2>1. CASE DryRun
    <3>1. PICK f \in Files, allow \in BOOLEAN, invalid \in BOOLEAN :
            sessions' = Append(sessions, [fresh |-> TRUE, file |-> f, allowRoleUpdate |-> allow,
                                          done |-> {}, invalidRows |-> invalid])
      BY <2>1 DEF DryRun
    <3>2. PICK new : new = [fresh |-> TRUE, file |-> f, allowRoleUpdate |-> allow,
                            done |-> {}, invalidRows |-> invalid]
      OBVIOUS
    <3>3. new \in Session /\ new.done = {} /\ sessions' = Append(sessions, new)
      BY <3>1, <3>2 DEF Session
    <3>4. sessions \in Seq(Session)
      BY DEF ImportInv, ImportShape
    <3>5. /\ sessions' \in Seq(Session) /\ Len(sessions') = Len(sessions) + 1
          /\ Len(sessions) \in Nat /\ DOMAIN sessions = 1..Len(sessions)
          /\ DOMAIN sessions' = 1..Len(sessions) + 1 /\ sessions'[Len(sessions) + 1] = new
          /\ \A s \in 1..Len(sessions) : sessions'[s] = sessions[s]
      BY <3>3, <3>4
    <3>6. SessionsGoOn
      BY <3>5 DEF SessionsGoOn
    <3>7. \A s \in DOMAIN sessions' : s \in DOMAIN sessions \/ s = Len(sessions) + 1
      BY <3>5
    <3>. QED  BY <3>3, <3>5, <3>6, <3>7
  <2>2. ASSUME NEW t \in DOMAIN sessions, SessionEnds(t)
        PROVE  /\ sessions' \in Seq(Session) /\ SessionsGoOn
               /\ \A s \in DOMAIN sessions' : \A k \in sessions'[s].done :
                    sessions'[s].fresh => s \in DOMAIN sessions /\ k \in sessions[s].done /\ sessions[s].fresh
    <3>1. PICK session \in Session : session = sessions[t]
      BY DEF ImportInv, ImportShape
    <3>2. PICK next : next = [session EXCEPT !.fresh = FALSE]
      OBVIOUS
    <3>3. /\ next \in Session /\ next.fresh = FALSE /\ next.file = session.file
          /\ next.allowRoleUpdate = session.allowRoleUpdate /\ next.done = session.done
      BY <3>2 DEF Session
    <3>4. sessions' = [sessions EXCEPT ![t] = next] /\ sessions \in Seq(Session)
      BY <2>2, <3>1, <3>2 DEF SessionEnds, ImportInv, ImportShape
    <3>5. /\ sessions' \in Seq(Session) /\ DOMAIN sessions' = DOMAIN sessions
          /\ Len(sessions') = Len(sessions) /\ Len(sessions) \in Nat
          /\ sessions'[t] = next /\ \A s \in DOMAIN sessions : s # t => sessions'[s] = sessions[s]
      BY <3>3, <3>4
    <3>6. SessionsGoOn
      BY <3>1, <3>3, <3>5 DEF SessionsGoOn
    <3>. QED  BY <3>1, <3>3, <3>5, <3>6
  <2>. QED  BY <2>1, <2>2
<1>3. ResultsGoOn
  BY <1>1 DEF ResultsGoOn, HasResult
<1>4. ImportShape'
  BY <1>1, <1>2 DEF ImportInv, ImportShape
<1>5. KeysKept'
  <2> SUFFICES ASSUME NEW s \in DOMAIN sessions', NEW k \in sessions'[s].done, sessions'[s].fresh
               PROVE  HasResult(s, k)'
    BY DEF KeysKept
  <2>1. s \in DOMAIN sessions /\ k \in sessions[s].done /\ sessions[s].fresh
    BY <1>2
  <2>2. HasResult(s, k)
    BY <2>1 DEF ImportInv, KeysKept
  <2>. QED  BY <1>1, <2>2 DEF HasResult
<1>6. ASSUME NEW r \in Running' PROVE runs'[r] \in RunRecord /\ RunOk(runs[r])'
  <2>1. PICK run \in RunRecord : run = runs[r] /\ RunOk(run) /\ runs' = runs
    BY <1>1 DEF ImportInv, Running
  <2>2. RunOk(run)'
    BY <1>1, <1>2, <1>3, <2>1, RunStaysOk
  <2>. QED  BY <2>1, <2>2
<1>7. ASSUME NEW k \in Keys, results'[k] # NoResult PROVE TrueOf(results[k])'
  <2>1. PICK result \in Kept : result = results[k] /\ TrueOf(result) /\ results' = results
    BY <1>1, <1>7 DEF ImportInv, ImportShape
  <2>2. TrueOf(result)'
    BY <1>1, <1>2, <1>4, <2>1, ResultStaysTrue DEF ImportInv
  <2>. QED  BY <2>1, <2>2
<1>. QED  BY <1>4, <1>5, <1>6, <1>7 DEF ImportInv

\* Administrators take everybody's calm, but with a place that nobody had.
LEMMA AdministratorsKeep ==
  ASSUME ImportInv, (\E e \in Emails : Administer(e)) \/ (\E p \in Places : RemovePlace(p))
  PROVE  ImportInv'
<1>1. sessions' = sessions /\ places' \in SUBSET Places
  BY DEF Administer, RemovePlace, ImportInv, ImportShape
<1>2. users' \in [Emails -> User \cup {Absent}]
  <2>1. ASSUME NEW e \in Emails, Administer(e) PROVE users' \in [Emails -> User \cup {Absent}]
    <3>1. PICK u \in {Absent} \cup UsersEdited : users' = [users EXCEPT ![e] = u]
      BY <2>1 DEF Administer
    <3>. QED  BY <3>1, BulkImportAssumption DEF ImportInv, ImportShape
  <2>2. ASSUME NEW p \in Places, RemovePlace(p) PROVE users' \in [Emails -> User \cup {Absent}]
    <3>1. users' = [e \in Emails |-> IF users[e] # Absent /\ users[e].place = p
                                     THEN [users[e] EXCEPT !.place = NoPlace] ELSE users[e]]
      BY <2>2 DEF RemovePlace
    <3>2. ASSUME NEW e \in Emails, users[e] # Absent PROVE [users[e] EXCEPT !.place = NoPlace] \in User
      <4>1. users[e] \in User
        BY <3>2 DEF ImportInv, ImportShape
      <4>. QED  BY <4>1 DEF User
    <3>3. \A e \in Emails : users[e] \in User \cup {Absent}
      BY DEF ImportInv, ImportShape
    <3>. QED  BY <3>1, <3>2, <3>3
  <2>. QED  BY <2>1, <2>2
<1>3. CASE runs' = Disturbed(Running) /\ results' = DisturbedResults
  <2>1. Running' = Running /\ \A r \in Running : runs'[r] = Disturbed(Running)[r]
    BY <1>3 DEF Running, Disturbed
  <2>. QED  BY <1>1, <1>2, <1>3, <2>1, OthersUncalmed
<1>4. CASE users' = users /\ UNCHANGED <<runs, results>>
  BY <1>1, <1>4, RunsGoOn DEF Running
<1>. QED  BY <1>3, <1>4 DEF Administer, RemovePlace

LEMMA ImportStepKeeps == ImportInv /\ [ImportNext]_import => ImportInv'
<1> SUFFICES ASSUME ImportInv, [ImportNext]_import PROVE ImportInv'
  OBVIOUS
<1>1. CASE UNCHANGED import
  BY <1>1, RunsGoOn DEF import, ImportInv, ImportShape, Running
<1>2. CASE DryRun \/ \E s \in DOMAIN sessions : SessionEnds(s)
  BY <1>2, SessionsKeep
<1>3. CASE Crash
  BY <1>3, RunsLeave DEF Crash
<1>4. ASSUME NEW k \in Keys, ResultDrops(k) PROVE ImportInv'
  BY <1>4, ResultDropsKeeps
<1>5. ASSUME NEW k \in Keys, NEW r \in Runs, NEW s \in DOMAIN sessions, Call(r, k, s) PROVE ImportInv'
  BY <1>5, CallKeeps
<1>6. ASSUME NEW r \in Running, Step(r) PROVE ImportInv'
  BY <1>6, ReadsKeep, SaveRowKeeps, AuditsFaithfully, RowFailsKeeps, StoreKeeps DEF Step
<1>7. CASE (\E e \in Emails : Administer(e)) \/ (\E p \in Places : RemovePlace(p))
  BY <1>7, AdministratorsKeep
<1>. QED  BY <1>1, <1>2, <1>3, <1>4, <1>5, <1>6, <1>7 DEF ImportNext

\* apply: for any files, any number of sessions, keys and calls, and any failures and crashes, a
\* call that repeats one that has been answered does not go through the rows again, unless the
\* result went while it was about to look.
THEOREM ImportedOnce == ImportSpec => []AppliedOnce
<1>1. ImportInv => AppliedOnce
  BY DEF ImportInv, RunOk, Repeating, AppliedOnce
<1>. QED  BY ImportInitially, ImportStepKeeps, <1>1, PTL DEF ImportSpec

\* apply: for any files without duplicates, any keys, any number of sessions and calls, and any
\* failures and crashes, what a call reports is true of the users for as long as nobody else has
\* touched them since the call read them: a row that did not fail has made its user what it asks
\* for, with the place only when it was there as the call read the places, and whoever was saved
\* is in the audit trail or among the failures.
THEOREM ReportIsTrue == ImportSpec => []ImportTakesEffect
<1>1. ImportInv => ImportTakesEffect
  <2> SUFFICES ASSUME ImportInv, NEW k \in Keys, results[k] # NoResult
               PROVE  /\ results[k].saved \subseteq results[k].audited \cup results[k].failures
                      /\ results[k].calm => \A i \in DOMAIN Rows(results[k]) \ results[k].failures :
                           LET row  == Rows(results[k])[i]
                               user == users[row.email]
                           IN /\ user # Absent /\ user.profile = "sheet"
                              /\ user.place = Found(results[k].places, row.place)
                              /\ sessions[results[k].of].allowRoleUpdate => user.role = row.role
    BY DEF ImportTakesEffect
  <2>. QED  BY DEF ImportInv, TrueOf, IsDone, InEffect, UserOf
<1>. QED  BY ImportInitially, ImportStepKeeps, <1>1, PTL DEF ImportSpec

-----------------------------------------------------------------------------
(* Deadline alerts.  The unread rows of an alert and the scans about to    *)
(* insert one more are together no more than one and the scans that a      *)
(* request started and that met another: at most one scan is the           *)
(* scheduler's, and as soon as there are two, all of them have met.        *)

ScanShape(scan) ==
  /\ {"by", "todo", "missing", "met"} \subseteq DOMAIN scan
  /\ scan.by \in {"cron", "request"} /\ scan.met \in BOOLEAN

AlertShape ==
  /\ Scanning \subseteq Scans /\ \A p \in Scanning : ScanShape(scans[p])
  /\ unread \in [Alert -> Nat] /\ met \in Nat

About(a) == {p \in Scanning : a \in scans[p].missing}
Met      == {p \in Scanning : scans[p].by = "request" /\ scans[p].met}

AlertInv ==
  /\ AlertShape
  /\ \A p, q \in Scanning : scans[p].by = "cron" /\ scans[q].by = "cron" => p = q
  /\ \A p, q \in Scanning : p # q => scans[p].met
  /\ Cardinality(Met) <= met
  /\ \A a \in Alert : unread[a] + Cardinality(About(a)) <= 1 + met

LEMMA ScansAreFinite ==
  ASSUME AlertShape, NEW some \in SUBSET Scanning
  PROVE  /\ IsFiniteSet(some) /\ Cardinality(some) \in Nat
         /\ (some = {} => Cardinality(some) = 0)
         /\ \A p : p \notin some => Cardinality(some \cup {p}) = Cardinality(some) + 1
         /\ \A p \in some : Cardinality(some \ {p}) = Cardinality(some) - 1
         /\ \A less \in SUBSET some : Cardinality(less) \in Nat /\ Cardinality(less) <= Cardinality(some)
<1>1. IsFiniteSet(some)
  BY FS_Subset, AlertsAssumption DEF AlertShape
<1>. QED  BY <1>1, FS_CardinalityType, FS_EmptySet, FS_AddElement, FS_RemoveElement, FS_Subset

\* There are no more scans than one and those that count as met.
LEMMA FewScans ==
  ASSUME AlertInv PROVE Cardinality(Scanning) \in Nat /\ Cardinality(Scanning) <= 1 + met
<1>1. Met \subseteq Scanning /\ Cardinality(Met) <= met /\ Cardinality(Met) \in Nat /\ met \in Nat
  BY ScansAreFinite DEF AlertInv, Met, AlertShape
<1>2. Cardinality(Scanning) \in Nat
  BY ScansAreFinite DEF AlertInv
<1>3. CASE \E c \in Scanning : c \notin Met
  <2>1. PICK c \in Scanning : c \notin Met
    BY <1>3
  <2>2. \A q \in Scanning \ {c} : q \in Met
    BY <2>1 DEF AlertInv, AlertShape, ScanShape, Met
  <2>3. Scanning = Met \cup {c}
    BY <1>1, <2>1, <2>2
  <2>4. Cardinality(Met \cup {c}) = Cardinality(Met) + 1
    BY <1>1, <2>1, ScansAreFinite DEF AlertInv
  <2>. QED  BY <1>1, <1>2, <2>3, <2>4
<1>4. CASE Scanning \subseteq Met
  <2>1. Scanning = Met
    BY <1>1, <1>4
  <2>. QED  BY <1>1, <2>1
<1>. QED  BY <1>3, <1>4

LEMMA AlertsInitially == AlertsInit => AlertInv
<1> SUFFICES ASSUME AlertsInit PROVE AlertInv
  OBVIOUS
<1>1. Scanning = {} /\ unread \in [Alert -> Nat] /\ met = 0
  BY DEF AlertsInit, Scanning
<1>2. \A a \in Alert : unread[a] = 0
  BY DEF AlertsInit
<1>3. Met = {} /\ Cardinality(Met) = 0
  BY <1>1, FS_EmptySet DEF Met
<1>4. \A a \in Alert : About(a) = {} /\ Cardinality(About(a)) = 0
  BY <1>1, FS_EmptySet DEF About
<1>. QED  BY <1>1, <1>2, <1>3, <1>4 DEF AlertInv, AlertShape

LEMMA StartScanKeeps ==
  ASSUME AlertInv, NEW p \in Scans, NEW by \in {"cron", "request"}, StartScan(p, by),
         by = "cron" => \A q \in Scanning : scans[q].by # "cron",
         UNCHANGED unread
  PROVE  AlertInv'
<1> DEFINE unmet == {q \in Scanning : scans[q].by = "request" /\ ~scans[q].met}
<1> DEFINE scan == [by |-> by, todo |-> Called, missing |-> {}, met |-> Scanning # {}]
<1>1. /\ p \notin Scanning
      /\ scans' = [q \in Scanning \cup {p} |-> IF q = p THEN scan ELSE [scans[q] EXCEPT !.met = TRUE]]
      /\ met' = met + Cardinality(unmet) + (IF by = "request" /\ Scanning # {} THEN 1 ELSE 0)
  BY DEF StartScan
<1>2. Scanning' = Scanning \cup {p} /\ scans'[p] = scan
  BY <1>1 DEF Scanning
<1>3. ScanShape(scan) /\ scan.by = by /\ scan.missing = {} /\ (scan.met <=> Scanning # {})
  BY DEF ScanShape
<1> HIDE DEF scan
<1>4. ASSUME NEW q \in Scanning
      PROVE  /\ ScanShape(scans'[q]) /\ scans'[q].by = scans[q].by /\ scans'[q].met
             /\ scans'[q].missing = scans[q].missing
  <2>1. PICK old : old = scans[q] /\ ScanShape(old)
    BY DEF AlertInv, AlertShape
  <2>2. scans'[q] = [old EXCEPT !.met = TRUE]
    BY <1>1, <2>1
  <2>. QED  BY <2>1, <2>2 DEF ScanShape
<1>5. /\ Cardinality(unmet) \in Nat /\ Cardinality(Met) \in Nat /\ met \in Nat
      /\ Cardinality(Met) <= met /\ IsFiniteSet(unmet) /\ IsFiniteSet(Met)
      /\ Cardinality(Met \cup unmet) = Cardinality(Met) + Cardinality(unmet)
      /\ p \notin Met \cup unmet /\ IsFiniteSet(Met \cup unmet)
  <2>1. Met \in SUBSET Scanning /\ unmet \in SUBSET Scanning /\ Met \cap unmet = {}
    BY DEF Met
  <2>2. IsFiniteSet(Met) /\ IsFiniteSet(unmet) /\ Cardinality(Met) \in Nat /\ Cardinality(unmet) \in Nat
    BY <2>1, ScansAreFinite DEF AlertInv
  <2>3. Cardinality(Met \cup unmet) = Cardinality(Met) + Cardinality(unmet) - Cardinality(Met \cap unmet)
        /\ IsFiniteSet(Met \cup unmet)
    BY <2>2, FS_Union
  <2>4. Cardinality(Met \cap unmet) = 0
    BY <2>1, FS_EmptySet
  <2>. QED  BY <1>1, <2>1, <2>2, <2>3, <2>4 DEF AlertInv, AlertShape
<1>6. Met' \subseteq Met \cup unmet \cup (IF by = "request" /\ Scanning # {} THEN {p} ELSE {})
  BY <1>2, <1>3, <1>4 DEF Met, AlertInv, AlertShape, ScanShape
<1> HIDE DEF unmet
<1>7. Cardinality(Met)' <= met' /\ met' \in Nat /\ met' >= met
  <2>1. CASE by = "request" /\ Scanning # {}
    <3>1. Cardinality(Met \cup unmet \cup {p}) = Cardinality(Met) + Cardinality(unmet) + 1
          /\ IsFiniteSet(Met \cup unmet \cup {p})
      BY <1>5, FS_AddElement
    <3>2. Met' \subseteq Met \cup unmet \cup {p}
      BY <1>6, <2>1
    <3>3. Cardinality(Met)' <= Cardinality(Met \cup unmet \cup {p})
      BY <3>1, <3>2, FS_Subset
    <3>4. Cardinality(Met)' \in Nat
      BY <3>1, <3>2, FS_Subset, FS_CardinalityType
    <3>. QED  BY <1>1, <1>5, <2>1, <3>1, <3>3, <3>4
  <2>2. CASE ~(by = "request" /\ Scanning # {})
    <3>1. Met' \subseteq Met \cup unmet
      BY <1>6, <2>2
    <3>2. Cardinality(Met)' <= Cardinality(Met \cup unmet) /\ Cardinality(Met)' \in Nat
      BY <1>5, <3>1, FS_Subset, FS_CardinalityType
    <3>. QED  BY <1>1, <1>5, <2>2, <3>2
  <2>. QED  BY <2>1, <2>2
<1>8. \A a \in Alert : About(a)' = About(a)
  BY <1>1, <1>2, <1>3, <1>4 DEF About
<1>9. AlertShape'
  BY <1>2, <1>3, <1>4, <1>7 DEF AlertInv, AlertShape
<1>10. ASSUME NEW a \in Alert PROVE unread'[a] + Cardinality(About(a))' <= 1 + met'
  <2>1. unread[a] + Cardinality(About(a)) <= 1 + met /\ unread[a] \in Nat
    BY DEF AlertInv, AlertShape
  <2>2. Cardinality(About(a)) \in Nat
    BY ScansAreFinite DEF AlertInv, About
  <2>. QED  BY <1>5, <1>7, <1>8, <2>1, <2>2
<1>11. \A q1, q2 \in Scanning' : scans'[q1].by = "cron" /\ scans'[q2].by = "cron" => q1 = q2
  BY <1>2, <1>3, <1>4 DEF AlertInv
<1>12. \A q1, q2 \in Scanning' : q1 # q2 => scans'[q1].met
  BY <1>2, <1>3, <1>4
<1>. QED  BY <1>7, <1>9, <1>10, <1>11, <1>12 DEF AlertInv

\* One scan goes on: it stays whose it is and whether it was met.
LEMMA ScanGoesOn ==
  ASSUME AlertInv, NEW p \in Scanning, Scanning' = Scanning, UNCHANGED met,
         ScanShape(scans'[p]), scans'[p].by = scans[p].by, scans'[p].met = scans[p].met,
         \A q \in Scanning \ {p} : scans'[q] = scans[q],
         unread' \in [Alert -> Nat],
         \A a \in Alert : unread'[a] + Cardinality(About(a))' <= 1 + met
  PROVE  AlertInv'
<1>1. AlertShape'
  BY DEF AlertInv, AlertShape
<1>2. \A q \in Scanning : scans'[q].by = scans[q].by /\ scans'[q].met = scans[q].met
  OBVIOUS
<1>3. Met' = Met
  BY <1>2 DEF Met
<1>. QED  BY <1>1, <1>2, <1>3 DEF AlertInv

LEMMA LookForAlertKeeps ==
  ASSUME AlertInv, NEW p \in Scanning, LookForAlert(p) PROVE AlertInv'
<1>0. PICK scan : scan = scans[p] /\ ScanShape(scan)
  BY DEF AlertInv, AlertShape
<1>1. PICK a : /\ scan.missing = {}
               /\ scans' = [scans EXCEPT ![p] = [scan EXCEPT !.todo = scan.todo \ {a},
                                                !.missing = IF Told(a) THEN {} ELSE {a}]]
               /\ UNCHANGED <<unread, met>>
  BY <1>0 DEF LookForAlert
<1>2. PICK next : next = [scan EXCEPT !.todo = scan.todo \ {a},
                                     !.missing = IF Told(a) THEN {} ELSE {a}]
  OBVIOUS
<1>3. /\ ScanShape(next) /\ next.by = scan.by /\ next.met = scan.met
      /\ next.missing = IF Told(a) THEN {} ELSE {a}
  BY <1>0, <1>2 DEF ScanShape
<1>4. Scanning' = Scanning /\ scans'[p] = next /\ \A q \in Scanning \ {p} : scans'[q] = scans[q]
  BY <1>1, <1>2 DEF Scanning
<1>5. ASSUME NEW b \in Alert PROVE unread'[b] + Cardinality(About(b))' <= 1 + met
  <2>0. /\ unread[b] + Cardinality(About(b)) <= 1 + met /\ unread[b] \in Nat /\ met \in Nat
        /\ Cardinality(About(b)) \in Nat
    BY ScansAreFinite DEF AlertInv, AlertShape, About
  <2>1. CASE Told(a) \/ b # a
    <3>1. About(b)' = About(b)
      BY <1>0, <1>1, <1>3, <1>4, <2>1 DEF About
    <3>. QED  BY <1>1, <2>0, <3>1
  <2>2. CASE ~Told(a) /\ b = a
    <3>1. unread[b] = 0
      BY <2>0, <2>2 DEF Told
    <3>2. About(b)' \subseteq Scanning
      BY <1>4 DEF About
    <3>3. Cardinality(About(b))' <= Cardinality(Scanning) /\ Cardinality(About(b))' \in Nat
      BY <3>2, ScansAreFinite DEF AlertInv
    <3>. QED  BY <1>1, <2>0, <3>1, <3>3, FewScans
  <2>. QED  BY <2>1, <2>2
<1>6. unread' \in [Alert -> Nat]
  BY <1>1 DEF AlertInv, AlertShape
<1>. QED  BY <1>0, <1>1, <1>3, <1>4, <1>5, <1>6, ScanGoesOn

LEMMA InsertAlertKeeps ==
  ASSUME AlertInv, NEW p \in Scanning, InsertAlert(p) PROVE AlertInv'
<1>0. PICK scan : scan = scans[p] /\ ScanShape(scan)
  BY DEF AlertInv, AlertShape
<1>1. /\ unread' = [a \in Alert |-> unread[a] + (IF a \in scan.missing THEN 1 ELSE 0)]
      /\ scans' = [scans EXCEPT ![p] = [scan EXCEPT !.missing = {}]]
      /\ UNCHANGED met
  BY <1>0 DEF InsertAlert
<1>2. PICK next : next = [scan EXCEPT !.missing = {}]
  OBVIOUS
<1>3. ScanShape(next) /\ next.by = scan.by /\ next.met = scan.met /\ next.missing = {}
  BY <1>0, <1>2 DEF ScanShape
<1>4. Scanning' = Scanning /\ scans'[p] = next /\ \A q \in Scanning \ {p} : scans'[q] = scans[q]
  BY <1>1, <1>2 DEF Scanning
<1>5. unread' \in [Alert -> Nat]
  BY <1>1 DEF AlertInv, AlertShape
<1>6. ASSUME NEW b \in Alert PROVE unread'[b] + Cardinality(About(b))' <= 1 + met
  <2>0. /\ unread[b] + Cardinality(About(b)) <= 1 + met /\ unread[b] \in Nat /\ met \in Nat
        /\ Cardinality(About(b)) \in Nat
        /\ p \in About(b) => Cardinality(About(b) \ {p}) = Cardinality(About(b)) - 1
    BY ScansAreFinite DEF AlertInv, AlertShape, About
  <2>1. About(b)' = About(b) \ {p}
    BY <1>3, <1>4 DEF About
  <2>2. CASE b \in scan.missing
    <3>1. p \in About(b) /\ unread'[b] = unread[b] + 1
      BY <1>0, <1>1, <2>2 DEF About
    <3>. QED  BY <2>0, <2>1, <3>1
  <2>3. CASE b \notin scan.missing
    <3>1. About(b) \ {p} = About(b) /\ unread'[b] = unread[b]
      BY <1>0, <1>1, <2>0, <2>3 DEF About
    <3>. QED  BY <2>0, <2>1, <3>1
  <2>. QED  BY <2>2, <2>3
<1>. QED  BY <1>0, <1>1, <1>3, <1>4, <1>5, <1>6, ScanGoesOn

\* FinishScan, LoseScan.
LEMMA ScanEnds ==
  ASSUME AlertInv, NEW p \in Scanning, WithoutScan(p), UNCHANGED <<unread, met>>
  PROVE  AlertInv'
<1>1. Scanning' = Scanning \ {p} /\ \A q \in Scanning' : scans'[q] = scans[q]
  BY DEF WithoutScan, Scanning
<1>2. AlertShape'
  BY <1>1 DEF AlertInv, AlertShape
<1>3. Met' \subseteq Met /\ Met \subseteq Scanning
  BY <1>1 DEF Met
<1>4. Cardinality(Met)' <= met
  <2>1. Cardinality(Met)' <= Cardinality(Met) /\ Cardinality(Met)' \in Nat /\ Cardinality(Met) \in Nat
    BY <1>3, ScansAreFinite DEF AlertInv
  <2>. QED  BY <2>1 DEF AlertInv, AlertShape
<1>5. ASSUME NEW b \in Alert PROVE unread'[b] + Cardinality(About(b))' <= 1 + met
  <2>1. About(b)' \subseteq About(b) /\ About(b) \subseteq Scanning
    BY <1>1 DEF About
  <2>2. /\ Cardinality(About(b))' <= Cardinality(About(b)) /\ Cardinality(About(b))' \in Nat
        /\ Cardinality(About(b)) \in Nat
    BY <2>1, ScansAreFinite DEF AlertInv
  <2>. QED  BY <2>2 DEF AlertInv, AlertShape
<1>. QED  BY <1>1, <1>2, <1>4, <1>5 DEF AlertInv

LEMMA AlertsStepKeeps == AlertInv /\ [AlertsNext]_alerting => AlertInv'
<1> SUFFICES ASSUME AlertInv, [AlertsNext]_alerting PROVE AlertInv'
  OBVIOUS
<1>1. CASE UNCHANGED <<unread, scans, met>>
  BY <1>1 DEF AlertInv, AlertShape, ScanShape, About, Met, Scanning
<1>2. ASSUME NEW p \in Scans, Tick(p) PROVE AlertInv'
  BY <1>2, StartScanKeeps DEF Tick
<1>3. ASSUME NEW p \in Scans, AskForScan(p) PROVE AlertInv'
  BY <1>3, StartScanKeeps DEF AskForScan
<1>4. ASSUME NEW p \in Scanning, LookForAlert(p) \/ InsertAlert(p) PROVE AlertInv'
  BY <1>4, LookForAlertKeeps, InsertAlertKeeps
<1>5. ASSUME NEW p \in Scanning, FinishScan(p) \/ LoseScan(p) PROVE AlertInv'
  BY <1>5, ScanEnds DEF FinishScan, LoseScan
<1>6. ASSUME NEW a \in Alert, Acknowledge(a) PROVE AlertInv'
  <2>1. /\ unread[a] > 0 /\ unread' = [unread EXCEPT ![a] = unread[a] - 1] /\ UNCHANGED <<scans, met>>
    BY <1>6 DEF Acknowledge
  <2>2. unread' \in [Alert -> Nat] /\ \A b \in Alert : unread'[b] <= unread[b]
    BY <2>1 DEF AlertInv, AlertShape
  <2>3. ASSUME NEW b \in Alert PROVE unread'[b] + Cardinality(About(b))' <= 1 + met'
    <3>1. About(b)' = About(b) /\ Cardinality(About(b)) \in Nat
      BY <2>1, ScansAreFinite DEF AlertInv, About, Scanning
    <3>. QED  BY <2>1, <2>2, <3>1 DEF AlertInv, AlertShape
  <2>4. Scanning' = Scanning /\ Met' = Met
    BY <2>1 DEF Scanning, Met
  <2>. QED  BY <2>1, <2>2, <2>3, <2>4 DEF AlertInv, AlertShape
<1>7. ASSUME (\E s \in Stages : DecideStage(s)) \/ HourPasses PROVE AlertInv'
  BY <1>1, <1>7 DEF DecideStage, HourPasses
<1>. QED  BY <1>1, <1>2, <1>3, <1>4, <1>5, <1>6, <1>7 DEF AlertsNext, alerting

\* createAlertIfMissing, runTick: for any stages, recipients and scans that fail, nobody has the
\* same unread alert twice but for one more for every scan of a request that met another scan.
THEOREM OneAlert == AlertsSpec => []AlertsAreSingle
<1>1. AlertInv => AlertsAreSingle
  <2> SUFFICES ASSUME AlertInv, NEW a \in Alert PROVE unread[a] <= 1 + met
    BY DEF AlertsAreSingle
  <2>1. Cardinality(About(a)) \in Nat
    BY ScansAreFinite DEF AlertInv, About
  <2>. QED  BY <2>1 DEF AlertInv, AlertShape
<1>. QED  BY AlertsInitially, AlertsStepKeeps, <1>1, PTL DEF AlertsSpec

-----------------------------------------------------------------------------
(* Sessions.  Of a user nobody disturbed there is one refresh at most, it  *)
(* carries the id that Redis keeps, and the page waits for it.             *)

RequestShape(r) ==
  /\ {"kind", "at", "depth", "retried", "token", "sent", "got"} \subseteq DOMAIN r
  /\ r.at = "api" => r.kind = "api" /\ r.depth = 0

OwnRefresh(c) ==
  /\ Refreshing = {c} /\ requests[c].kind # "orphan"
  /\ requests[c].at \in {"limit", "user", "validate", "invalidate"} =>
       stored = requests[c].sent /\ stored # 0
  /\ requests[c].at = "reply" => stored = requests[c].got /\ stored # 0

Calm ==
  /\ page # "signin" /\ active
  /\ Refreshing = {} => cookie = stored /\ stored # 0
  /\ \A c \in Refreshing : OwnRefresh(c)

SessionInv ==
  /\ \A c \in InFlight : RequestShape(requests[c])
  /\ disturbed \in BOOLEAN
  /\ ~disturbed => Calm

LEMMA SessionsInitially == SessionsInit => SessionInv
<1> SUFFICES ASSUME SessionsInit PROVE SessionInv
  OBVIOUS
<1>1. InFlight = {} /\ Refreshing = {}
  BY DEF SessionsInit, InFlight, Refreshing
<1>2. disturbed = FALSE /\ page = "app" /\ cookie = stored /\ stored # 0 /\ active
  BY DEF SessionsInit
<1>. QED  BY <1>1, <1>2 DEF SessionInv, Calm

LEMMA WithIs ==
  ASSUME NEW c, NEW r, With(c, r)
  PROVE  InFlight' = InFlight \cup {c} /\ requests'[c] = r
         /\ \A d \in InFlight \ {c} : requests'[d] = requests[d]
  BY DEF With, InFlight

LEMMA SettleIs ==
  ASSUME NEW c, Settle(c)
  PROVE  InFlight' = InFlight \ {c} /\ \A d \in InFlight' : requests'[d] = requests[d]
  BY DEF Settle, InFlight

\* A refresh begins, with the cookie of the moment: of a page that loads, of a call that was
\* answered with 401, or after signing in.
LEMMA RefreshBegins ==
  ASSUME SessionInv, NEW c, NEW r, RequestShape(r), r.at = "limit", With(c, r),
         disturbed' \in BOOLEAN,
         ~disturbed' => /\ Refreshing \ {c} = {} /\ c \notin Refreshing
                        /\ r.kind # "orphan" /\ r.sent = stored' /\ stored' # 0
                        /\ page' # "signin" /\ active'
  PROVE  SessionInv'
<1>1. /\ InFlight' = InFlight \cup {c} /\ requests'[c] = r
      /\ \A d \in InFlight \ {c} : requests'[d] = requests[d]
  BY WithIs
<1>2. \A d \in InFlight' : RequestShape(requests'[d])
  BY <1>1 DEF SessionInv
<1>3. ASSUME ~disturbed' PROVE Calm'
  <2>1. Refreshing' = {c}
    BY <1>1, <1>3 DEF Refreshing
  <2>. QED  BY <1>1, <1>3, <2>1 DEF Calm, OwnRefresh
<1>. QED  BY <1>2, <1>3 DEF SessionInv

\* A refresh is at the server and stays a refresh.
LEMMA RefreshGoesOn ==
  ASSUME SessionInv, NEW c \in Refreshing, NEW r, RequestShape(r), r.at # "api",
         r.kind = requests[c].kind, With(c, r), UNCHANGED <<active, page, disturbed>>,
         ~disturbed => /\ r.at \in {"limit", "user", "validate", "invalidate"} =>
                            stored' = r.sent /\ stored' # 0
                       /\ r.at = "reply" => stored' = r.got /\ stored' # 0
  PROVE  SessionInv'
<1>0. c \in InFlight
  BY DEF Refreshing
<1>1. /\ InFlight' = InFlight /\ requests'[c] = r
      /\ \A d \in InFlight \ {c} : requests'[d] = requests[d]
  BY <1>0, WithIs
<1>2. \A d \in InFlight' : RequestShape(requests'[d])
  BY <1>1 DEF SessionInv
<1>3. ASSUME ~disturbed PROVE Calm'
  <2>1. Refreshing = {c} /\ requests[c].kind # "orphan" /\ page # "signin" /\ active
    BY <1>3 DEF SessionInv, Calm, OwnRefresh
  <2>2. Refreshing' = {c}
    BY <1>0, <1>1, <2>1 DEF Refreshing
  <2>. QED  BY <1>1, <1>3, <2>1, <2>2 DEF Calm, OwnRefresh
<1>. QED  BY <1>2, <1>3 DEF SessionInv

\* The requests that are left keep their shape; whoever disturbs need not say more.
LEMMA DisturbedKeeps ==
  ASSUME SessionInv, disturbed' = TRUE,
         \A d \in InFlight' : RequestShape(requests'[d])
  PROVE  SessionInv'
  BY DEF SessionInv

LEMMA OrphansAre ==
  ASSUME SessionInv, NEW gone, requests' = Orphans(gone)
  PROVE  /\ InFlight' = {d \in InFlight \ gone : requests[d].at # "api"}
         /\ \A d \in InFlight' : RequestShape(requests'[d]) /\ requests'[d].at = requests[d].at
<1>1. InFlight' = {d \in InFlight \ gone : requests[d].at # "api"}
  BY DEF Orphans, InFlight
<1>2. ASSUME NEW d \in InFlight' PROVE RequestShape(requests'[d]) /\ requests'[d].at = requests[d].at
  <2>1. PICK r : r = requests[d] /\ RequestShape(r) /\ r.at # "api"
    BY <1>1 DEF SessionInv
  <2>2. requests'[d] = [r EXCEPT !.kind = "orphan"]
    BY <1>1, <2>1 DEF Orphans, InFlight
  <2>. QED  BY <2>1, <2>2 DEF RequestShape
<1>. QED  BY <1>1, <1>2

LEMMA RejectLeavesShape ==
  ASSUME SessionInv, NEW c \in InFlight, Reject(c)
  PROVE  \A d \in InFlight' : RequestShape(requests'[d])
<1>1. CASE Settle(c)
  BY <1>1, SettleIs DEF SessionInv
<1>2. CASE requests' = Orphans({c})
  BY <1>2, OrphansAre
<1>. QED  BY <1>1, <1>2 DEF Reject

LEMMA WithLeavesShape ==
  ASSUME SessionInv, NEW c, NEW r, RequestShape(r), With(c, r)
  PROVE  \A d \in InFlight' : RequestShape(requests'[d])
<1>1. /\ InFlight' = InFlight \cup {c} /\ requests'[c] = r
      /\ \A d \in InFlight \ {c} : requests'[d] = requests[d]
  BY WithIs
<1>. QED  BY <1>1 DEF SessionInv

\* What the interceptor and the handler make of a request keeps its shape.
LEMMA RefreshIs ==
  ASSUME NEW r, RequestShape(r), NEW depth, NEW retried
  PROVE  /\ RequestShape(Refresh(r, depth, retried)) /\ Refresh(r, depth, retried).at = "limit"
         /\ Refresh(r, depth, retried).kind = r.kind /\ Refresh(r, depth, retried).sent = cookie
<1>1. PICK next : next = [r EXCEPT !.at = "limit", !.depth = depth, !.retried = retried, !.sent = cookie]
  OBVIOUS
<1>2. RequestShape(next) /\ next.at = "limit" /\ next.kind = r.kind /\ next.sent = cookie
  BY <1>1 DEF RequestShape
<1>. QED  BY <1>1, <1>2 DEF Refresh

\* A refresh goes on to its next step at the server.
LEMMA MovesOn ==
  ASSUME SessionInv, NEW c \in Refreshing, NEW r, r = requests[c], RequestShape(r),
         NEW at, at \in {"user", "validate", "invalidate", "insert"}, With(c, [r EXCEPT !.at = at]),
         UNCHANGED <<active, page, disturbed>>,
         ~disturbed /\ at # "insert" => stored' = r.sent /\ stored' # 0
  PROVE  SessionInv'
<1>1. PICK next : next = [r EXCEPT !.at = at]
  OBVIOUS
<1>2. RequestShape(next) /\ next.at = at /\ next.kind = r.kind /\ next.sent = r.sent
  BY <1>1 DEF RequestShape
<1>3. With(c, next)
  BY <1>1
<1>4. ~disturbed => /\ next.at \in {"limit", "user", "validate", "invalidate"} =>
                         stored' = next.sent /\ stored' # 0
                    /\ next.at = "reply" => stored' = next.got /\ stored' # 0
  BY <1>2
<1>. QED  BY <1>2, <1>3, <1>4, RefreshGoesOn

\* A call of the API ends, or what is left of a page: no refresh is touched.
LEMMA CallEnds ==
  ASSUME SessionInv, NEW c \in InFlight, c \notin Refreshing, Settle(c),
         UNCHANGED <<active, page, cookie, stored, disturbed>>
  PROVE  SessionInv'
<1>1. InFlight' = InFlight \ {c} /\ \A d \in InFlight' : requests'[d] = requests[d]
  BY SettleIs
<1>2. Refreshing' = Refreshing /\ \A d \in Refreshing : requests'[d] = requests[d]
  BY <1>1 DEF Refreshing
<1>3. Calm => Calm'
  BY <1>2 DEF Calm, OwnRefresh
<1>. QED  BY <1>1, <1>3 DEF SessionInv

LEMMA AnswerApiKeeps ==
  ASSUME SessionInv, NEW c \in InFlight, AnswerApi(c) PROVE SessionInv'
<1>0. PICK r : r = requests[c] /\ RequestShape(r)
  BY DEF SessionInv
<1>1. /\ r.at = "api" /\ r.kind = "api" /\ r.depth = 0 /\ c \notin Refreshing
      /\ UNCHANGED <<active, stored, cookie>>
  BY <1>0 DEF AnswerApi, RequestShape, Refreshing
<1>2. CASE r.token > expired /\ active
  BY <1>0, <1>1, <1>2, CallEnds DEF AnswerApi
<1>3. CASE ~(r.token > expired /\ active)
  <2>1. Unauthorized(c)
    BY <1>0, <1>3 DEF AnswerApi
  <2>2. CASE ~r.retried /\ access # 0
    <3>1. /\ With(c, Refresh(r, Deeper(r.depth), FALSE)) /\ Overlaps(c) /\ UNCHANGED page
      BY <1>0, <1>1, <2>1, <2>2 DEF Unauthorized
    <3>2. disturbed' \in BOOLEAN /\ (~disturbed' => ~disturbed /\ Refreshing \ {c} = {})
      BY <3>1 DEF Overlaps
    <3>3. ~disturbed' => cookie = stored' /\ stored' # 0 /\ page' # "signin" /\ active'
      BY <1>1, <3>1, <3>2 DEF SessionInv, Calm
    <3>. QED  BY <1>0, <1>1, <3>1, <3>2, <3>3, RefreshIs, RefreshBegins
  <2>3. CASE ~(~r.retried /\ access # 0)
    <3>1. Reject(c) /\ UNCHANGED disturbed
      BY <1>0, <1>1, <2>1, <2>3 DEF Unauthorized
    <3>2. Settle(c) /\ UNCHANGED page
      BY <1>0, <1>1, <3>1 DEF Reject
    <3>. QED  BY <1>1, <3>1, <3>2, CallEnds
  <2>. QED  BY <2>2, <2>3
<1>. QED  BY <1>2, <1>3

\* A refresh that is answered with 401 was disturbed before.
LEMMA RefusedKeeps ==
  ASSUME SessionInv, disturbed, NEW c \in InFlight, Unauthorized(c) PROVE SessionInv'
<1>0. PICK r : r = requests[c] /\ RequestShape(r)
  BY DEF SessionInv
<1>1. CASE r.kind # "orphan" /\ ~r.retried /\ access # 0
  <2>1. With(c, Refresh(r, Deeper(r.depth), FALSE)) /\ Overlaps(c)
    BY <1>0, <1>1 DEF Unauthorized
  <2>2. disturbed' = TRUE
    BY <2>1 DEF Overlaps
  <2>3. PICK next : next = Refresh(r, Deeper(r.depth), FALSE)
    OBVIOUS
  <2>4. RequestShape(next) /\ With(c, next)
    BY <1>0, <2>1, <2>3, RefreshIs
  <2>. QED  BY <2>2, <2>4, WithLeavesShape, DisturbedKeeps
<1>2. CASE ~(r.kind # "orphan" /\ ~r.retried /\ access # 0)
  <2>1. Reject(c) /\ disturbed' = disturbed
    BY <1>0, <1>2 DEF Unauthorized
  <2>2. disturbed' = TRUE
    BY <2>1 DEF SessionInv
  <2>. QED  BY <2>1, <2>2, RejectLeavesShape, DisturbedKeeps
<1>. QED  BY <1>1, <1>2

\* A check of refreshTokens that a refresh nobody disturbed passes.
LEMMA PassKeeps ==
  ASSUME SessionInv, NEW c \in Refreshing, NEW r, r = requests[c], RequestShape(r),
         NEW at, at \in {"validate", "invalidate"},
         \/ With(c, [r EXCEPT !.at = at]) /\ UNCHANGED <<page, disturbed>>
         \/ Unauthorized(c) /\ disturbed,
         UNCHANGED <<active, stored>>, ~disturbed => stored = r.sent /\ stored # 0
  PROVE  SessionInv'
<1>0. c \in InFlight
  BY DEF Refreshing
<1>. QED  BY <1>0, MovesOn, RefusedKeeps

LEMMA ServerKeeps ==
  ASSUME SessionInv, issued \in Nat, NEW c \in InFlight,
         Limit(c) \/ FindUser(c) \/ Validate(c) \/ Invalidate(c) \/ Insert(c)
  PROVE  SessionInv'
<1>0. PICK r : r = requests[c] /\ RequestShape(r)
  BY DEF SessionInv
<1>1. c \in Refreshing
  BY DEF Limit, FindUser, Validate, Invalidate, Insert, Refreshing
<1>2. ~disturbed => OwnRefresh(c) /\ active
  BY <1>1 DEF SessionInv, Calm
<1>3. CASE Limit(c)
  <2>0. ~disturbed => stored = r.sent /\ stored # 0
    BY <1>0, <1>2, <1>3 DEF OwnRefresh, Limit
  <2>1. CASE Reject(c) /\ disturbed' = TRUE
    BY <2>1, RejectLeavesShape, DisturbedKeeps
  <2>2. CASE r.sent = 0 /\ Reject(c) /\ UNCHANGED disturbed
    <3>1. disturbed' = TRUE
      BY <2>0, <2>2 DEF SessionInv
    <3>. QED  BY <2>2, <3>1, RejectLeavesShape, DisturbedKeeps
  <2>3. CASE With(c, [r EXCEPT !.at = "user"]) /\ UNCHANGED <<access, page, disturbed>>
    <3>1. UNCHANGED <<active, stored>>
      BY <1>3 DEF Limit
    <3>. QED  BY <1>0, <1>1, <2>0, <2>3, <3>1, MovesOn
  <2>. QED  BY <1>0, <1>3, <2>1, <2>2, <2>3 DEF Limit
<1>4. CASE FindUser(c)
  <2>1. Pass(c, active, "validate") /\ UNCHANGED <<active, stored>> /\ r.at = "user"
    BY <1>0, <1>4 DEF FindUser
  <2>2. ~disturbed => active
    BY <1>2
  <2>3. ~disturbed => stored = r.sent /\ stored # 0
    BY <1>0, <1>2, <2>1 DEF OwnRefresh
  <2>4. \/ With(c, [r EXCEPT !.at = "validate"]) /\ UNCHANGED <<page, disturbed>>
        \/ Unauthorized(c) /\ disturbed
    <3>1. CASE active
      BY <1>0, <2>1, <3>1, Zenon DEF Pass
    <3>2. CASE ~active
      BY <2>1, <2>2, <3>2, Zenon DEF Pass
    <3>. QED  BY <3>1, <3>2
  <2>. QED  BY <1>0, <1>1, <2>1, <2>3, <2>4, PassKeeps
<1>5. CASE Validate(c)
  <2>1. /\ Pass(c, stored = r.sent, "invalidate") /\ UNCHANGED <<active, stored>>
        /\ r.at = "validate"
    BY <1>0, <1>5 DEF Validate
  <2>2. ~disturbed => stored = r.sent /\ stored # 0
    BY <1>0, <1>2, <2>1 DEF OwnRefresh
  <2>3. \/ With(c, [r EXCEPT !.at = "invalidate"]) /\ UNCHANGED <<page, disturbed>>
        \/ Unauthorized(c) /\ disturbed
    BY <1>0, <2>1, <2>2 DEF Pass
  <2>. QED  BY <1>0, <1>1, <2>1, <2>2, <2>3, PassKeeps
<1>6. CASE Invalidate(c)
  <2>1. With(c, [r EXCEPT !.at = "insert"]) /\ UNCHANGED <<active, page, disturbed>>
    BY <1>0, <1>6 DEF Invalidate
  <2>. QED  BY <1>0, <1>1, <2>1, MovesOn
<1>7. CASE Insert(c)
  <2>1. PICK next : next = [r EXCEPT !.at = "reply", !.got = issued']
    OBVIOUS
  <2>2. /\ With(c, next) /\ UNCHANGED <<active, page, disturbed>> /\ stored' = issued'
        /\ issued' = issued + 1
    BY <1>0, <1>7, <2>1 DEF Insert
  <2>3. RequestShape(next) /\ next.at = "reply" /\ next.kind = r.kind /\ next.got = issued'
    BY <1>0, <2>1 DEF RequestShape
  <2>4. stored' # 0
    BY <2>2
  <2>. QED  BY <1>0, <1>1, <2>2, <2>3, <2>4, RefreshGoesOn
<1>. QED  BY <1>3, <1>4, <1>5, <1>6, <1>7

LEMMA ReplyKeeps ==
  ASSUME SessionInv, NEW c \in InFlight, Reply(c) PROVE SessionInv'
<1>0. PICK r : r = requests[c] /\ RequestShape(r)
  BY DEF SessionInv
<1>1. r.at = "reply" /\ c \in Refreshing /\ UNCHANGED <<active, stored>>
  BY <1>0 DEF Reply, Refreshing
<1>2. ~disturbed => /\ Refreshing = {c} /\ r.kind # "orphan" /\ stored = r.got /\ stored # 0
                    /\ page # "signin" /\ active
  BY <1>0, <1>1 DEF SessionInv, Calm, OwnRefresh
<1>3. disturbed \in BOOLEAN
  BY DEF SessionInv
<1>4. CASE r.kind = "orphan"
  <2>1. Settle(c) /\ UNCHANGED disturbed
    BY <1>0, <1>4 DEF Reply
  <2>2. disturbed' = TRUE
    BY <1>2, <1>3, <1>4, <2>1
  <2>. QED  BY <2>1, <2>2, SettleIs, DisturbedKeeps DEF SessionInv
<1>5. CASE r.kind # "orphan" /\ r.depth = 0
  <2>1. Settle(c) /\ page' = "app" /\ cookie' = r.got /\ UNCHANGED disturbed
    BY <1>0, <1>5 DEF Reply
  <2>2. InFlight' = InFlight \ {c} /\ \A d \in InFlight' : requests'[d] = requests[d]
    BY <2>1, SettleIs
  <2>3. \A d \in InFlight' : RequestShape(requests'[d])
    BY <2>2 DEF SessionInv
  <2>4. Refreshing' = Refreshing \ {c}
    BY <2>2 DEF Refreshing
  <2>5. ~disturbed => Calm'
    BY <1>1, <1>2, <2>1, <2>4 DEF Calm
  <2>. QED  BY <1>3, <2>1, <2>3, <2>5 DEF SessionInv
<1>6. CASE r.kind # "orphan" /\ r.depth = 1 /\ r.kind = "api"
  <2>1. PICK next : next = [r EXCEPT !.at = "api", !.depth = 0, !.retried = TRUE, !.token = r.got]
    OBVIOUS
  <2>2. RequestShape(next) /\ next.at = "api"
    BY <1>0, <1>6, <2>1 DEF RequestShape
  <2>3. With(c, next) /\ cookie' = r.got /\ UNCHANGED <<page, disturbed>>
    BY <1>0, <1>6, <2>1 DEF Reply
  <2>4. /\ InFlight' = InFlight \cup {c} /\ requests'[c] = next
        /\ \A d \in InFlight \ {c} : requests'[d] = requests[d]
    BY <2>3, WithIs
  <2>5. \A d \in InFlight' : RequestShape(requests'[d])
    BY <2>2, <2>4 DEF SessionInv
  <2>6. Refreshing' = Refreshing \ {c}
    BY <2>2, <2>4 DEF Refreshing
  <2>7. ~disturbed => Calm'
    BY <1>1, <1>2, <2>3, <2>6 DEF Calm
  <2>. QED  BY <1>3, <2>3, <2>5, <2>7 DEF SessionInv
<1>7. CASE r.kind # "orphan" /\ r.depth # 0 /\ ~(r.depth = 1 /\ r.kind = "api")
  <2>1. PICK next : next = [Refresh(r, r.depth - 1, TRUE) EXCEPT !.sent = r.got]
    OBVIOUS
  <2>2. With(c, next) /\ Overlaps(c) /\ UNCHANGED page
    BY <1>0, <1>7, <2>1 DEF Reply
  <2>3. PICK retry : retry = Refresh(r, r.depth - 1, TRUE)
    OBVIOUS
  <2>4. RequestShape(retry) /\ retry.at = "limit" /\ retry.kind = r.kind
    <3>1. PICK depth : depth = r.depth - 1
      OBVIOUS
    <3>2. retry = [r EXCEPT !.at = "limit", !.depth = depth, !.retried = TRUE, !.sent = cookie]
      BY <2>3, <3>1 DEF Refresh
    <3>. QED  BY <1>0, <3>2 DEF RequestShape
  <2>5. next = [retry EXCEPT !.sent = r.got]
    BY <2>1, <2>3
  <2>6. RequestShape(next) /\ next.at = "limit" /\ next.kind = r.kind /\ next.sent = r.got
    BY <2>4, <2>5 DEF RequestShape
  <2>7. CASE disturbed
    <3>1. disturbed' = TRUE
      BY <2>2, <2>7 DEF Overlaps
    <3>2. \A d \in InFlight' : RequestShape(requests'[d])
      BY <2>2, <2>6, WithLeavesShape
    <3>. QED  BY <3>1, <3>2, DisturbedKeeps
  <2>8. CASE ~disturbed
    <3>1. UNCHANGED disturbed
      BY <1>2, <1>3, <2>2, <2>8 DEF Overlaps
    <3>. QED  BY <1>0, <1>1, <1>2, <2>2, <2>6, <3>1, RefreshGoesOn
  <2>. QED  BY <2>7, <2>8
<1>. QED  BY <1>4, <1>5, <1>6, <1>7

\* Ids are numbers from 1.
LEMMA IdsAreNumbers == SessionsInit /\ [][SessionsNext]_sessionVars => [](issued \in Nat)
<1>1. SessionsInit => issued \in Nat
  BY DEF SessionsInit
<1>2. issued \in Nat /\ [SessionsNext]_sessionVars => (issued \in Nat)'
  <2> SUFFICES ASSUME issued \in Nat, [SessionsNext]_sessionVars PROVE issued' \in {issued, issued + 1}
    OBVIOUS
  <2>. QED
    BY DEF SessionsNext, sessionVars, CallApi, Initialize, SignIn, Answer, AnswerApi, Reply, Limit,
           FindUser, Validate, Invalidate, Insert, LoseReply, Reload, SignInElsewhere,
           SignOutEverywhere, Deactivate, Activate, AccessExpires, IdExpires, CookieExpires,
           WindowPasses
<1>. QED  BY <1>1, <1>2, PTL

LEMMA SessionsStepKeeps == SessionInv /\ issued \in Nat /\ [SessionsNext]_sessionVars => SessionInv'
<1> SUFFICES ASSUME SessionInv, issued \in Nat, [SessionsNext]_sessionVars PROVE SessionInv'
  OBVIOUS
<1>0. disturbed \in BOOLEAN /\ (~disturbed => Calm)
  BY DEF SessionInv
<1>1. CASE UNCHANGED <<active, stored, cookie, page, requests, disturbed>>
  BY <1>1 DEF SessionInv, Calm, OwnRefresh, Refreshing, InFlight
<1>2. ASSUME NEW c, CallApi(c) PROVE SessionInv'
  <2>1. PICK r : r = New("api")
    OBVIOUS
  <2>2. RequestShape(r) /\ r.at = "api"
    BY <2>1 DEF New, RequestShape
  <2>3. With(c, r) /\ c \notin InFlight /\ UNCHANGED <<active, stored, cookie, page, disturbed>>
    BY <1>2, <2>1 DEF CallApi
  <2>4. /\ InFlight' = InFlight \cup {c} /\ requests'[c] = r
        /\ \A d \in InFlight : requests'[d] = requests[d]
    BY <2>3, WithIs
  <2>5. \A d \in InFlight' : RequestShape(requests'[d])
    BY <2>2, <2>4 DEF SessionInv
  <2>6. Refreshing' = Refreshing /\ \A d \in Refreshing : requests'[d] = requests[d]
    BY <2>2, <2>4 DEF Refreshing
  <2>7. Calm => Calm'
    BY <2>3, <2>6 DEF Calm, OwnRefresh
  <2>. QED  BY <1>0, <2>3, <2>5, <2>7 DEF SessionInv
<1>3. ASSUME NEW c, Initialize(c) PROVE SessionInv'
  <2>1. PICK new : new = New("init")
    OBVIOUS
  <2>2. PICK r : r = [new EXCEPT !.at = "limit", !.depth = 0, !.retried = FALSE, !.sent = cookie]
    OBVIOUS
  <2>3. RequestShape(r) /\ r.at = "limit" /\ r.kind = "init" /\ r.sent = cookie
    BY <2>1, <2>2 DEF New, RequestShape
  <2>4. With(c, r) /\ Overlaps(c) /\ c \notin InFlight /\ UNCHANGED <<active, stored, page>>
    BY <1>3, <2>1, <2>2 DEF Initialize, Refresh
  <2>5. c \notin Refreshing
    BY <2>4 DEF Refreshing
  <2>6. disturbed' \in BOOLEAN /\ (~disturbed' => ~disturbed /\ Refreshing \ {c} = {})
    BY <2>4 DEF Overlaps
  <2>7. ~disturbed' => cookie = stored' /\ stored' # 0 /\ page' # "signin" /\ active'
    BY <1>0, <2>4, <2>5, <2>6 DEF Calm
  <2>. QED  BY <2>3, <2>4, <2>5, <2>6, <2>7, RefreshBegins
<1>4. ASSUME NEW c, SignIn(c) PROVE SessionInv'
  <2>1. PICK new : new = New("init")
    OBVIOUS
  <2>2. PICK r : r = [new EXCEPT !.at = "limit", !.sent = issued']
    OBVIOUS
  <2>3. RequestShape(r) /\ r.at = "limit" /\ r.kind = "init" /\ r.sent = issued'
    BY <2>1, <2>2 DEF New, RequestShape
  <2>4. /\ With(c, r) /\ c \notin InFlight /\ stored' = issued' /\ page' = "app"
        /\ disturbed' = (Refreshing # {}) /\ active' /\ issued' = issued + 1
    BY <1>4, <2>1, <2>2 DEF SignIn
  <2>5. c \notin Refreshing
    BY <2>4 DEF Refreshing
  <2>6. stored' # 0
    BY <2>4
  <2>. QED  BY <2>3, <2>4, <2>5, <2>6, RefreshBegins
<1>5. ASSUME NEW c \in InFlight, Answer(c) PROVE SessionInv'
  BY <1>5, AnswerApiKeeps, ReplyKeeps, ServerKeeps DEF Answer
<1>6. ASSUME NEW c \in InFlight, LoseReply(c) PROVE SessionInv'
  BY <1>6, RejectLeavesShape, DisturbedKeeps DEF LoseReply
<1>7. CASE Reload
  <2>1. /\ requests' = Orphans({}) /\ page' = "loading" /\ UNCHANGED <<active, stored, cookie>>
        /\ disturbed' = (disturbed \/ Refreshing # {})
    BY <1>7 DEF Reload
  <2>2. /\ InFlight' = {d \in InFlight \ {} : requests[d].at # "api"}
        /\ \A d \in InFlight' : RequestShape(requests'[d]) /\ requests'[d].at = requests[d].at
    BY <2>1, OrphansAre
  <2>3. Refreshing' = Refreshing
    BY <2>2 DEF Refreshing
  <2>4. ASSUME ~disturbed' PROVE Calm'
    BY <1>0, <2>1, <2>3, <2>4 DEF Calm
  <2>5. disturbed' \in BOOLEAN
    BY <2>1
  <2>. QED  BY <2>2, <2>4, <2>5 DEF SessionInv
<1>8. CASE SignInElsewhere \/ SignOutEverywhere \/ Deactivate \/ IdExpires
  <2>1. disturbed' = TRUE /\ UNCHANGED requests
    BY <1>8 DEF SignInElsewhere, SignOutEverywhere, Deactivate, IdExpires
  <2>2. \A d \in InFlight' : RequestShape(requests'[d])
    BY <2>1 DEF SessionInv, InFlight
  <2>. QED  BY <2>1, <2>2, DisturbedKeeps
<1>9. CASE AccessExpires \/ WindowPasses
  BY <1>1, <1>9 DEF AccessExpires, WindowPasses
<1>10. CASE Activate
  <2>1. disturbed
    BY <1>0, <1>10 DEF Activate, Calm
  <2>2. disturbed' = TRUE /\ UNCHANGED requests
    BY <1>0, <1>10, <2>1 DEF Activate
  <2>3. \A d \in InFlight' : RequestShape(requests'[d])
    BY <2>2 DEF SessionInv, InFlight
  <2>. QED  BY <2>2, <2>3, DisturbedKeeps
<1>11. CASE CookieExpires
  <2>1. stored # cookie /\ UNCHANGED <<active, stored, page, requests, disturbed>>
    BY <1>11 DEF CookieExpires
  <2>2. InFlight' = InFlight /\ Refreshing' = Refreshing
    BY <2>1 DEF InFlight, Refreshing
  <2>3. Calm => Calm'
    BY <2>1, <2>2 DEF Calm, OwnRefresh
  <2>. QED  BY <1>0, <2>1, <2>2, <2>3 DEF SessionInv
<1>. QED
  BY <1>1, <1>2, <1>3, <1>4, <1>5, <1>6, <1>7, <1>8, <1>9, <1>10, <1>11
     DEF SessionsNext, Answer, sessionVars

\* AuthenticationService.refreshTokens, axios.ts: for any number of requests and any limit, an
\* active user who comes back before the id runs out, and whose refreshes do not overlap and get
\* through, stays signed in, and between refreshes the cookie is the id that Redis keeps.
THEOREM CalmStaysSignedIn == SessionsSpec => []UndisturbedStaysSignedIn
<1>1. SessionInv => UndisturbedStaysSignedIn
  BY DEF SessionInv, Calm, UndisturbedStaysSignedIn
<1>. QED  BY SessionsInitially, IdsAreNumbers, SessionsStepKeeps, <1>1, PTL DEF SessionsSpec

-----------------------------------------------------------------------------
(* Chat.  The list of a tab, the history read for it and the history on    *)
(* the wire have messages of its room only, each once.  Whatever of the    *)
(* newest messages was emitted, and not while the history was on the way,  *)
(* is on its way into the list: it is in the history that was read; or in  *)
(* the one on the wire, or a message behind it; or, when no history is on  *)
(* the wire, in the list or a message to come.                             *)

PacketRow == [kind : {"joined", "message", "history"}, id : Nat, items : Seq(Nat)]

Links == {"down", "join", "joined", "history", "reading", "settled"}

ChatShape ==
  /\ saved \in Seq(Rooms) /\ sending \subseteq DOMAIN saved
  /\ viewing \in [Tabs -> Rooms] /\ listed \in [Tabs -> Seq(Nat)] /\ link \in [Tabs -> Links]
  /\ entered \in [Tabs -> SUBSET Rooms] /\ reading \in [Tabs -> Seq(Nat)]
  /\ wire \in [Tabs -> Seq(PacketRow)] /\ overtaken \in [Tabs -> SUBSET Nat]

\* Messages of a room, each once.
OfRoom(items, r) ==
  /\ \A i \in DOMAIN items : items[i] \in DOMAIN saved /\ saved[items[i]] = r
  /\ \A i, j \in DOMAIN items : items[i] = items[j] => i = j

WireFits(w, status, r) ==
  /\ \A i \in DOMAIN w :
       /\ w[i].kind = "history" => status = "settled" /\ OfRoom(w[i].items, r)
       /\ w[i].kind = "joined" => status = "joined"
       /\ w[i].kind = "message" => w[i].id \in DOMAIN saved
  /\ \A i, j \in DOMAIN w : w[i].kind = w[j].kind /\ w[i].kind # "message" => i = j

Coming(w, list, m) ==
  \/ \E i \in DOMAIN w : w[i].kind = "history" /\ m \in Range(w[i].items)
  \/ m \in Range(list) /\ \A i \in DOMAIN w : w[i].kind # "history"
  \/ \E i \in DOMAIN w : /\ w[i].kind = "message" /\ w[i].id = m
                         /\ \A j \in DOMAIN w : w[j].kind = "history" => j < i

\* A tab that shows the room r: its list, the state of its socket and the rooms it is in, the
\* history read for it, its wire, and what overtook the history.
TabFits(r, list, status, rooms, history, w, missed) ==
  /\ OfRoom(list, r) /\ OfRoom(history, r) /\ WireFits(w, status, r)
  /\ status \in {"joined", "history", "reading", "settled"} => r \in rooms
  /\ status = "reading" => Newest(r) \ (sending \cup missed) \subseteq Range(history)
  /\ status = "settled" => \A m \in Newest(r) \ (sending \cup missed) : Coming(w, list, m)

TabInv(t) ==
  \E r, list, status, rooms, history, w, missed :
    /\ r = viewing[t] /\ list = listed[t] /\ status = link[t] /\ rooms = entered[t]
    /\ history = reading[t] /\ w = wire[t] /\ missed = overtaken[t]
    /\ TabFits(r, list, status, rooms, history, w, missed)

ChatInv == ChatShape /\ \A t \in Tabs : TabInv(t)

LEMMA ChatInitially == ChatInit => ChatInv
<1> SUFFICES ASSUME ChatInit PROVE ChatInv
  OBVIOUS
<1>1. ChatShape
  BY DEF ChatInit, ChatShape, Links
<1>2. ASSUME NEW t \in Tabs PROVE TabInv(t)
  <2>1. PICK empty : empty = <<>> /\ DOMAIN empty = {}
    OBVIOUS
  <2>2. OfRoom(empty, viewing[t]) /\ WireFits(empty, "down", viewing[t])
    BY <2>1 DEF OfRoom, WireFits
  <2>3. "down" \notin {"joined", "history", "reading", "settled"}
    OBVIOUS
  <2>4. TabFits(viewing[t], empty, "down", {}, empty, empty, {})
    BY <2>2, <2>3 DEF TabFits
  <2>5. /\ empty = listed[t] /\ "down" = link[t] /\ {} = entered[t] /\ empty = reading[t]
        /\ empty = wire[t] /\ {} = overtaken[t]
    BY <2>1 DEF ChatInit
  <2>. QED  BY <2>4, <2>5, Zenon DEF TabInv
<1>. QED  BY <1>1, <1>2 DEF ChatInv

\* What is on its way stays so when something but a history follows it; and what follows, or is
\* in the history that follows, is on its way as well.
LEMMA ComingGoesOn ==
  ASSUME NEW w \in Seq(PacketRow), NEW packet \in PacketRow, NEW list, NEW m, NEW longer,
         longer = Append(w, packet)
  PROVE  /\ packet.kind # "history" /\ Coming(w, list, m) => Coming(longer, list, m)
         /\ packet.kind = "message" /\ packet.id = m => Coming(longer, list, m)
         /\ packet.kind = "history" /\ m \in Range(packet.items) => Coming(longer, list, m)
<1>1. /\ Len(w) \in Nat /\ DOMAIN w = 1..Len(w) /\ DOMAIN longer = 1..(Len(w) + 1)
      /\ longer[Len(w) + 1] = packet /\ \A i \in DOMAIN w : i \in DOMAIN longer /\ longer[i] = w[i]
  OBVIOUS
<1>2. \A i \in DOMAIN longer : i \in DOMAIN w \/ (i = Len(w) + 1 /\ longer[i] = packet)
  BY <1>1
<1>3. ASSUME packet.kind # "history", Coming(w, list, m) PROVE Coming(longer, list, m)
  <2>1. CASE \E i \in DOMAIN w : w[i].kind = "history" /\ m \in Range(w[i].items)
    BY <1>1, <2>1 DEF Coming
  <2>2. CASE m \in Range(list) /\ \A i \in DOMAIN w : w[i].kind # "history"
    BY <1>1, <1>2, <1>3, <2>2 DEF Coming
  <2>3. CASE \E i \in DOMAIN w : /\ w[i].kind = "message" /\ w[i].id = m
                                 /\ \A j \in DOMAIN w : w[j].kind = "history" => j < i
    <3>1. PICK i \in DOMAIN w : /\ w[i].kind = "message" /\ w[i].id = m
                                /\ \A j \in DOMAIN w : w[j].kind = "history" => j < i
      BY <2>3
    <3>2. \A j \in DOMAIN longer : longer[j].kind = "history" => j < i
      BY <1>1, <1>2, <1>3, <3>1
    <3>. QED  BY <1>1, <3>1, <3>2 DEF Coming
  <2>. QED  BY <1>3, <2>1, <2>2, <2>3 DEF Coming
<1>4. ASSUME packet.kind = "message", packet.id = m PROVE Coming(longer, list, m)
  <2>1. Len(w) + 1 \in DOMAIN longer
    BY <1>1
  <2>2. \A j \in DOMAIN longer : longer[j].kind = "history" => j < Len(w) + 1
    BY <1>1, <1>2, <1>4
  <2>. QED  BY <1>1, <1>4, <2>1, <2>2 DEF Coming
<1>5. ASSUME packet.kind = "history", m \in Range(packet.items) PROVE Coming(longer, list, m)
  <2>1. Len(w) + 1 \in DOMAIN longer
    BY <1>1
  <2>. QED  BY <1>1, <1>5, <2>1 DEF Coming
<1>. QED  BY <1>3, <1>4, <1>5

\* What is on its way stays so when the tab sees a packet.
LEMMA ComingIsSeen ==
  ASSUME NEW w \in Seq(PacketRow), w # <<>>, NEW list, NEW more, NEW m, NEW rest, rest = Tail(w),
         Coming(w, list, m),
         \A i, j \in DOMAIN w : w[i].kind = w[j].kind /\ w[i].kind # "message" => i = j,
         w[1].kind = "history" => more = w[1].items,
         w[1].kind # "history" => Range(list) \subseteq Range(more),
         w[1].kind = "message" /\ w[1].id = m => m \in Range(more)
  PROVE  Coming(rest, more, m)
<1>1. /\ Len(w) \in Nat \ {0} /\ DOMAIN w = 1..Len(w) /\ DOMAIN rest = 1..(Len(w) - 1)
      /\ \A i \in DOMAIN rest : i + 1 \in DOMAIN w /\ rest[i] = w[i + 1]
  OBVIOUS
<1>2. 1 \in DOMAIN w /\ \A i \in DOMAIN w : i = 1 \/ (i - 1 \in DOMAIN rest /\ rest[i - 1] = w[i])
  BY <1>1
<1>3. w[1].kind = "history" => \A i \in DOMAIN rest : rest[i].kind # "history"
  BY <1>1, <1>2
<1>4. CASE \E i \in DOMAIN w : w[i].kind = "history" /\ m \in Range(w[i].items)
  BY <1>2, <1>3, <1>4 DEF Coming
<1>5. CASE m \in Range(list) /\ \A i \in DOMAIN w : w[i].kind # "history"
  BY <1>1, <1>2, <1>5 DEF Coming
<1>6. CASE \E i \in DOMAIN w : /\ w[i].kind = "message" /\ w[i].id = m
                               /\ \A j \in DOMAIN w : w[j].kind = "history" => j < i
  <2>1. PICK i \in DOMAIN w : /\ w[i].kind = "message" /\ w[i].id = m
                              /\ \A j \in DOMAIN w : w[j].kind = "history" => j < i
    BY <1>6
  <2>2. CASE i = 1
    <3>1. \A j \in DOMAIN rest : rest[j].kind # "history"
      BY <1>1, <2>1, <2>2
    <3>. QED  BY <2>1, <2>2, <3>1 DEF Coming
  <2>3. CASE i # 1
    <3>1. PICK k \in DOMAIN rest : k = i - 1 /\ rest[k] = w[i]
      BY <1>2, <2>3
    <3>2. \A j \in DOMAIN rest : rest[j].kind = "history" => j < k
      BY <1>1, <2>1, <3>1
    <3>. QED  BY <2>1, <3>1, <3>2 DEF Coming
  <2>. QED  BY <2>2, <2>3
<1>. QED  BY <1>4, <1>5, <1>6 DEF Coming

\* A wire that gets one packet more, or one less, still fits.
LEMMA WireGrows ==
  ASSUME NEW w \in Seq(PacketRow), NEW packet \in PacketRow, NEW longer, longer = Append(w, packet),
         NEW status, NEW r, WireFits(w, status, r),
         packet.kind = "history" =>
           /\ status = "settled" /\ OfRoom(packet.items, r)
           /\ \A i \in DOMAIN w : w[i].kind # "history",
         packet.kind = "joined" => status = "joined" /\ \A i \in DOMAIN w : w[i].kind # "joined",
         packet.kind = "message" => packet.id \in DOMAIN saved
  PROVE  longer \in Seq(PacketRow) /\ WireFits(longer, status, r)
<1>1. /\ Len(w) \in Nat /\ DOMAIN w = 1..Len(w) /\ DOMAIN longer = 1..(Len(w) + 1)
      /\ longer[Len(w) + 1] = packet /\ \A i \in DOMAIN w : i \in DOMAIN longer /\ longer[i] = w[i]
      /\ longer \in Seq(PacketRow)
  OBVIOUS
<1>2. \A i \in DOMAIN longer : (i \in DOMAIN w /\ longer[i] = w[i]) \/ (i = Len(w) + 1 /\ longer[i] = packet)
  BY <1>1
<1>3. ASSUME NEW i \in DOMAIN longer
      PROVE  /\ longer[i].kind = "history" => status = "settled" /\ OfRoom(longer[i].items, r)
             /\ longer[i].kind = "joined" => status = "joined"
             /\ longer[i].kind = "message" => longer[i].id \in DOMAIN saved
  BY <1>2 DEF WireFits
<1>4. packet.kind # "message" => \A i \in DOMAIN w : w[i].kind # packet.kind
  BY DEF PacketRow
<1>5. ASSUME NEW i \in DOMAIN longer, NEW j \in DOMAIN longer,
             longer[i].kind = longer[j].kind, longer[i].kind # "message"
      PROVE  i = j
  BY <1>2, <1>4, <1>5 DEF WireFits
<1>. QED  BY <1>1, <1>3, <1>5 DEF WireFits

\* The request that a "joined" answers is over, and no other packet waits for it.
LEMMA WireShrinks ==
  ASSUME NEW w \in Seq(PacketRow), w # <<>>, NEW rest, rest = Tail(w),
         NEW status, NEW after, NEW r, WireFits(w, status, r),
         after = status \/ w[1].kind = "joined"
  PROVE  rest \in Seq(PacketRow) /\ WireFits(rest, after, r)
<1>1. /\ Len(w) \in Nat \ {0} /\ DOMAIN w = 1..Len(w) /\ DOMAIN rest = 1..(Len(w) - 1)
      /\ \A i \in DOMAIN rest : i + 1 \in DOMAIN w /\ rest[i] = w[i + 1]
      /\ rest \in Seq(PacketRow) /\ 1 \in DOMAIN w
  OBVIOUS
<1>2. ASSUME w[1].kind = "joined", NEW i \in DOMAIN rest
      PROVE  rest[i].kind # "joined" /\ rest[i].kind # "history"
  <2>1. i + 1 # 1
    BY <1>1
  <2>2. status = "joined" /\ w[i + 1].kind # "joined"
    BY <1>1, <1>2, <2>1 DEF WireFits
  <2>. QED  BY <1>1, <2>2 DEF WireFits
<1>3. ASSUME NEW i \in DOMAIN rest
      PROVE  /\ rest[i].kind = "history" => after = "settled" /\ OfRoom(rest[i].items, r)
             /\ rest[i].kind = "joined" => after = "joined"
             /\ rest[i].kind = "message" => rest[i].id \in DOMAIN saved
  BY <1>1, <1>2 DEF WireFits
<1>4. ASSUME NEW i \in DOMAIN rest, NEW j \in DOMAIN rest,
             rest[i].kind = rest[j].kind, rest[i].kind # "message"
      PROVE  i = j
  <2>1. i + 1 = j + 1
    BY <1>1, <1>4 DEF WireFits
  <2>. QED  BY <1>1, <2>1
<1>. QED  BY <1>1, <1>3, <1>4 DEF WireFits

\* The messages that were there stay, and none but the new one joins the newest of a room.
LEMMA NewestAfterSave ==
  ASSUME ChatShape, NEW q \in Rooms, saved' = Append(saved, q), NEW r
  PROVE  /\ \A k \in DOMAIN saved : k \in DOMAIN saved' /\ saved'[k] = saved[k]
         /\ Newest(r)' \subseteq Newest(r) \cup {Len(saved) + 1}
<1>1. /\ Len(saved) \in Nat /\ DOMAIN saved = 1..Len(saved) /\ DOMAIN saved' = 1..(Len(saved) + 1)
      /\ \A k \in DOMAIN saved : k \in DOMAIN saved' /\ saved'[k] = saved[k]
  BY DEF ChatShape
<1>2. ASSUME NEW m \in Newest(r)', m # Len(saved) + 1 PROVE m \in Newest(r)
  <2>1. PICK fore : fore = {k \in DOMAIN saved : saved[k] = r /\ k > m}
    OBVIOUS
  <2>2. PICK aft : aft = {k \in DOMAIN saved' : saved'[k] = r /\ k > m}
    OBVIOUS
  <2>3. m \in DOMAIN saved' /\ saved'[m] = r /\ Cardinality({k \in {j \in DOMAIN saved' : saved'[j] = r} : k > m}) < HistoryLimit
    BY DEF Newest
  <2>4. {k \in {j \in DOMAIN saved' : saved'[j] = r} : k > m} = aft
    BY <2>2
  <2>5. m \in DOMAIN saved /\ saved[m] = r
    BY <1>1, <1>2, <2>3
  <2>6. IsFiniteSet(1..(Len(saved) + 1)) /\ IsFiniteSet(aft)
    <3>1. Len(saved) + 1 \in Nat
      BY <1>1
    <3>2. IsFiniteSet(1..(Len(saved) + 1))
      BY <3>1, FS_Interval
    <3>3. aft \subseteq 1..(Len(saved) + 1)
      BY <1>1, <2>2
    <3>. QED  BY <3>2, <3>3, FS_Subset
  <2>7. fore \subseteq aft
    BY <1>1, <2>1, <2>2
  <2>8. Cardinality(fore) \in Nat /\ Cardinality(aft) \in Nat /\ Cardinality(fore) <= Cardinality(aft)
    BY <2>6, <2>7, FS_Subset, FS_CardinalityType
  <2>9. Cardinality(fore) < HistoryLimit
    <3>1. HistoryLimit \in Nat
      BY ChatAssumption
    <3>2. PICK big, small : big = Cardinality(aft) /\ small = Cardinality(fore)
      OBVIOUS
    <3>3. big < HistoryLimit
      BY <2>3, <2>4, <3>2
    <3>. QED  BY <2>8, <3>1, <3>2, <3>3
  <2>10. {k \in {j \in DOMAIN saved : saved[j] = r} : k > m} = fore
    BY <2>1
  <2>. QED  BY <2>5, <2>9, <2>10 DEF Newest
<1>. QED  BY <1>1, <1>2

\* What a tab has fits on when messages are added and no older one comes back.
LEMMA FitsOn ==
  ASSUME NEW r, NEW list, NEW status, NEW rooms, NEW history, NEW w, NEW missed,
         TabFits(r, list, status, rooms, history, w, missed),
         \A k \in DOMAIN saved : k \in DOMAIN saved' /\ saved'[k] = saved[k],
         Newest(r)' \ sending' \subseteq Newest(r) \ sending
  PROVE  TabFits(r, list, status, rooms, history, w, missed)'
<1>1. ASSUME NEW items, OfRoom(items, r) PROVE OfRoom(items, r)'
  BY <1>1 DEF OfRoom
<1>2. WireFits(w, status, r)'
  BY <1>1 DEF TabFits, WireFits
<1>3. OfRoom(list, r)' /\ OfRoom(history, r)'
  BY <1>1 DEF TabFits
<1>4. Newest(r)' \ (sending' \cup missed) \subseteq Newest(r) \ (sending \cup missed)
  OBVIOUS
<1>5. PICK due, later : due = Newest(r) \ (sending \cup missed) /\ later = Newest(r)' \ (sending' \cup missed)
  OBVIOUS
<1>6. status = "reading" => later \subseteq Range(history)
  BY <1>4, <1>5 DEF TabFits
<1>7. status = "settled" => \A m \in later : Coming(w, list, m)
  BY <1>4, <1>5 DEF TabFits
<1>. QED  BY <1>2, <1>3, <1>5, <1>6, <1>7 DEF TabFits

\* A tab that nothing happens to.
LEMMA TabStays ==
  ASSUME NEW t, TabInv(t),
         viewing'[t] = viewing[t], listed'[t] = listed[t], link'[t] = link[t],
         entered'[t] = entered[t], reading'[t] = reading[t], wire'[t] = wire[t],
         overtaken'[t] = overtaken[t],
         \A k \in DOMAIN saved : k \in DOMAIN saved' /\ saved'[k] = saved[k],
         Newest(viewing[t])' \ sending' \subseteq Newest(viewing[t]) \ sending
  PROVE  TabInv(t)'
<1>1. PICK r, list, status, rooms, history, w, missed :
        /\ r = viewing[t] /\ list = listed[t] /\ status = link[t] /\ rooms = entered[t]
        /\ history = reading[t] /\ w = wire[t] /\ missed = overtaken[t]
        /\ TabFits(r, list, status, rooms, history, w, missed)
  BY DEF TabInv
<1>2. Newest(r)' \ sending' \subseteq Newest(r) \ sending
  BY <1>1
<1>3. TabFits(r, list, status, rooms, history, w, missed)'
  BY <1>1, <1>2, FitsOn
<1>. QED  BY <1>1, <1>3 DEF TabInv

\* Saving a message: it is not sent yet.
LEMMA SavingKeeps ==
  ASSUME ChatInv, NEW q \in Rooms, SaveMessage(q) PROVE ChatInv'
<1>1. ChatShape /\ saved' = Append(saved, q) /\ sending' = sending \cup {Len(saved) + 1}
  BY DEF ChatInv, SaveMessage
<1>2. UNCHANGED <<viewing, listed, link, entered, reading, wire, overtaken>>
  BY DEF SaveMessage, tabVars
<1>3. ChatShape'
  <2>1. saved' \in Seq(Rooms) /\ sending' \subseteq DOMAIN saved'
    BY <1>1 DEF ChatShape
  <2>. QED  BY <1>1, <1>2, <2>1 DEF ChatShape
<1>4. ASSUME NEW t \in Tabs PROVE TabInv(t)'
  <2>1. PICK r : r = viewing[t]
    OBVIOUS
  <2>2. /\ \A k \in DOMAIN saved : k \in DOMAIN saved' /\ saved'[k] = saved[k]
        /\ Newest(r)' \subseteq Newest(r) \cup {Len(saved) + 1}
    BY <1>1, NewestAfterSave
  <2>3. Newest(r)' \ sending' \subseteq Newest(r) \ sending
    BY <1>1, <2>2
  <2>4. Newest(viewing[t])' \ sending' \subseteq Newest(viewing[t]) \ sending
    <3>1. viewing'[t] = r
      BY <1>2, <2>1
    <3>. QED  BY <2>1, <2>3, <3>1 DEF Newest
  <2>5. TabInv(t)
    BY DEF ChatInv
  <2>. QED  BY <1>2, <2>2, <2>4, <2>5, TabStays
<1>. QED  BY <1>3, <1>4 DEF ChatInv

\* A tab whose socket is gone keeps its list, or empties it.
LEMMA TabUnplugged ==
  ASSUME NEW t, TabInv(t), saved' = saved,
         link'[t] = "down", reading'[t] = <<>>, wire'[t] = <<>>,
         listed'[t] = <<>> \/ (listed'[t] = listed[t] /\ viewing'[t] = viewing[t])
  PROVE  TabInv(t)'
<1>1. PICK r, list, rooms, missed :
        r = viewing'[t] /\ list = listed'[t] /\ rooms = entered'[t] /\ missed = overtaken'[t]
  OBVIOUS
<1>2. OfRoom(<<>>, r)' /\ WireFits(<<>>, "down", r)'
  BY DEF OfRoom, WireFits
<1>3. OfRoom(list, r)'
  <2>1. CASE listed'[t] = <<>>
    BY <1>1, <1>2, <2>1
  <2>2. CASE listed'[t] = listed[t] /\ viewing'[t] = viewing[t]
    <3>1. OfRoom(list, r)
      BY <1>1, <2>2 DEF TabInv, TabFits
    <3>. QED  BY <3>1 DEF OfRoom
  <2>. QED  BY <2>1, <2>2
<1>4. TabFits(r, list, "down", rooms, <<>>, <<>>, missed)'
  BY <1>2, <1>3 DEF TabFits
<1>. QED  BY <1>1, <1>4 DEF TabInv

LEMMA UnplugKeepsShape ==
  ASSUME ChatShape, NEW gone \in SUBSET Tabs, Unplug(gone)
  PROVE  /\ link' \in [Tabs -> Links] /\ entered' \in [Tabs -> SUBSET Rooms]
         /\ reading' \in [Tabs -> Seq(Nat)] /\ wire' \in [Tabs -> Seq(PacketRow)]
         /\ overtaken' \in [Tabs -> SUBSET Nat]
<1>1. link' \in [Tabs -> Links]
  BY DEF ChatShape, Unplug, Links
<1>2. entered' \in [Tabs -> SUBSET Rooms] /\ overtaken' \in [Tabs -> SUBSET Nat]
  BY DEF ChatShape, Unplug
<1>3. reading' \in [Tabs -> Seq(Nat)] /\ wire' \in [Tabs -> Seq(PacketRow)]
  BY DEF ChatShape, Unplug
<1>. QED  BY <1>1, <1>2, <1>3

LEMMA UnplugEffect ==
  ASSUME NEW gone \in SUBSET Tabs, Unplug(gone), NEW t \in Tabs
  PROVE  /\ t \in gone => link'[t] = "down" /\ reading'[t] = <<>> /\ wire'[t] = <<>>
         /\ t \notin gone => /\ link'[t] = link[t] /\ entered'[t] = entered[t]
                             /\ reading'[t] = reading[t] /\ wire'[t] = wire[t]
                             /\ overtaken'[t] = overtaken[t]
BY DEF Unplug

LEMMA ChangingKeeps ==
  ASSUME ChatInv, NEW t \in Tabs, NEW q \in Rooms, ChangeRoom(t, q) PROVE ChatInv'
<1>1. /\ ChatShape /\ Unplug({t}) /\ saved' = saved /\ sending' = sending
      /\ viewing' = [viewing EXCEPT ![t] = q] /\ listed' = [listed EXCEPT ![t] = <<>>]
  BY DEF ChatInv, ChangeRoom
<1>2. ChatShape'
  <2>1. viewing' \in [Tabs -> Rooms] /\ listed' \in [Tabs -> Seq(Nat)]
    BY <1>1 DEF ChatShape
  <2>. QED  BY <1>1, <2>1, UnplugKeepsShape DEF ChatShape
<1>3. ASSUME NEW s \in Tabs PROVE TabInv(s)'
  <2>1. TabInv(s)
    BY DEF ChatInv
  <2>2. CASE s = t
    <3>1. listed'[s] = <<>>
      BY <1>1, <2>2 DEF ChatShape
    <3>2. link'[s] = "down" /\ reading'[s] = <<>> /\ wire'[s] = <<>>
      BY <1>1, <2>2, UnplugEffect
    <3>. QED  BY <1>1, <2>1, <3>1, <3>2, TabUnplugged
  <2>3. CASE s # t
    <3>1. viewing'[s] = viewing[s] /\ listed'[s] = listed[s]
      BY <1>1, <2>3 DEF ChatShape
    <3>2. /\ link'[s] = link[s] /\ entered'[s] = entered[s] /\ reading'[s] = reading[s]
          /\ wire'[s] = wire[s] /\ overtaken'[s] = overtaken[s]
      BY <1>1, <2>3, UnplugEffect
    <3>3. Newest(viewing[s])' \ sending' \subseteq Newest(viewing[s]) \ sending
      BY <1>1, <3>1 DEF Newest
    <3>. QED  BY <1>1, <2>1, <3>1, <3>2, <3>3, TabStays
  <2>. QED  BY <2>2, <2>3
<1>. QED  BY <1>2, <1>3 DEF ChatInv

LEMMA LosingKeeps ==
  ASSUME ChatInv, NEW t \in Tabs, LoseConnection(t) PROVE ChatInv'
<1>1. ChatShape /\ Unplug({t}) /\ UNCHANGED <<saved, sending, viewing, listed>>
  BY DEF ChatInv, LoseConnection
<1>2. ChatShape'
  BY <1>1, UnplugKeepsShape DEF ChatShape
<1>3. ASSUME NEW s \in Tabs PROVE TabInv(s)'
  <2>1. TabInv(s)
    BY DEF ChatInv
  <2>2. CASE s = t
    <3>1. link'[s] = "down" /\ reading'[s] = <<>> /\ wire'[s] = <<>>
      BY <1>1, <2>2, UnplugEffect
    <3>. QED  BY <1>1, <2>1, <3>1, TabUnplugged
  <2>3. CASE s # t
    <3>1. /\ link'[s] = link[s] /\ entered'[s] = entered[s] /\ reading'[s] = reading[s]
          /\ wire'[s] = wire[s] /\ overtaken'[s] = overtaken[s]
      BY <1>1, <2>3, UnplugEffect
    <3>2. Newest(viewing[s])' \ sending' \subseteq Newest(viewing[s]) \ sending
      BY <1>1 DEF Newest
    <3>. QED  BY <1>1, <2>1, <3>1, <3>2, TabStays
  <2>. QED  BY <2>2, <2>3
<1>. QED  BY <1>2, <1>3 DEF ChatInv

LEMMA RestartingKeeps ==
  ASSUME ChatInv, RestartChat PROVE ChatInv'
<1>1. ChatShape /\ Unplug(Tabs) /\ sending' = {} /\ UNCHANGED <<saved, viewing, listed>>
  BY DEF ChatInv, RestartChat
<1>2. ChatShape'
  BY <1>1, UnplugKeepsShape DEF ChatShape
<1>3. ASSUME NEW s \in Tabs PROVE TabInv(s)'
  <2>1. TabInv(s)
    BY DEF ChatInv
  <2>2. link'[s] = "down" /\ reading'[s] = <<>> /\ wire'[s] = <<>>
    BY <1>1, UnplugEffect
  <2>. QED  BY <1>1, <2>1, <2>2, TabUnplugged
<1>. QED  BY <1>2, <1>3 DEF ChatInv

\* What is said of the messages of a room stays true as long as no message is added.
LEMMA SavedStays ==
  ASSUME saved' = saved, NEW r
  PROVE  /\ Newest(r)' = Newest(r)
         /\ \A items : OfRoom(items, r) => OfRoom(items, r)'
         /\ \A w, status : WireFits(w, status, r) => WireFits(w, status, r)'
<1>1. Newest(r)' = Newest(r)
  BY DEF Newest
<1>2. ASSUME NEW items, OfRoom(items, r) PROVE OfRoom(items, r)'
  BY <1>2 DEF OfRoom
<1>3. ASSUME NEW w, NEW status, WireFits(w, status, r) PROVE WireFits(w, status, r)'
  BY <1>2, <1>3 DEF WireFits
<1>. QED  BY <1>1, <1>2, <1>3

\* Before a tab has joined, and while its history is read, messages are all that is on its wire.
LEMMA WireIsPlain ==
  ASSUME NEW w, NEW status, NEW after, NEW r, WireFits(w, status, r),
         status \notin {"joined", "settled"}
  PROVE  /\ \A i \in DOMAIN w : w[i].kind # "joined" /\ w[i].kind # "history"
         /\ WireFits(w, after, r)
BY DEF WireFits

\* A message is emitted: it is behind whatever is on the wire, or overtakes the history.
LEMMA EmittingKeeps ==
  ASSUME ChatInv, NEW m \in sending, EmitMessage(m) PROVE ChatInv'
<1>1. /\ ChatShape /\ m \in DOMAIN saved /\ m \in Nat
      /\ UNCHANGED <<saved, viewing, listed, link, entered, reading>> /\ sending' = sending \ {m}
  BY DEF ChatInv, ChatShape, EmitMessage
<1>2. PICK packet \in PacketRow : packet = Packet("message", m, <<>>) /\ packet.kind = "message" /\ packet.id = m
  <2>1. [kind |-> "message", id |-> m, items |-> <<>>] \in PacketRow
    BY <1>1 DEF PacketRow
  <2>. QED  BY <2>1 DEF Packet
<1>3. ASSUME NEW s \in Tabs
      PROVE  /\ saved[m] \in entered[s] => wire'[s] = Append(wire[s], packet)
             /\ saved[m] \notin entered[s] => wire'[s] = wire[s] /\ overtaken'[s] = overtaken[s]
             /\ saved[m] \in entered[s] /\ link[s] = "reading" /\ saved[m] = viewing[s] /\ m \notin Range(reading[s])
                  => overtaken'[s] = overtaken[s] \cup {m}
             /\ overtaken[s] \subseteq overtaken'[s]
  BY <1>2 DEF EmitMessage
<1>4. ChatShape'
  <2>1. wire' \in [Tabs -> Seq(PacketRow)]
    <3>1. DOMAIN wire' = Tabs /\ wire' = [s \in Tabs |-> wire'[s]]
      BY DEF EmitMessage
    <3>2. ASSUME NEW s \in Tabs PROVE wire'[s] \in Seq(PacketRow)
      <4>1. wire[s] \in Seq(PacketRow)
        BY <1>1 DEF ChatShape
      <4>2. Append(wire[s], packet) \in Seq(PacketRow)
        BY <4>1
      <4>. QED  BY <1>3, <4>1, <4>2
    <3>. QED  BY <3>1, <3>2
  <2>2. overtaken' \in [Tabs -> SUBSET Nat]
    BY <1>1 DEF EmitMessage, ChatShape
  <2>. QED  BY <1>1, <2>1, <2>2 DEF ChatShape
<1>5. ASSUME NEW s \in Tabs PROVE TabInv(s)'
  <2>1. PICK r, list, status, rooms, history, w, missed :
          /\ r = viewing[s] /\ list = listed[s] /\ status = link[s] /\ rooms = entered[s]
          /\ history = reading[s] /\ w = wire[s] /\ missed = overtaken[s]
          /\ TabFits(r, list, status, rooms, history, w, missed)
    BY DEF ChatInv, TabInv
  <2>2. PICK longer, more : longer = wire'[s] /\ more = overtaken'[s]
    OBVIOUS
  <2>3. w \in Seq(PacketRow) /\ missed \subseteq more /\ Newest(r)' = Newest(r)
    BY <1>1, <1>3, <2>1, <2>2, SavedStays DEF ChatShape
  <2>4. WireFits(longer, status, r)'
    <3>1. WireFits(w, status, r)
      BY <2>1 DEF TabFits
    <3>2. CASE saved[m] \in rooms
      <4>1. longer = Append(w, packet)
        BY <1>3, <2>1, <2>2, <3>2
      <4>2. WireFits(longer, status, r)
        BY <1>1, <1>2, <2>3, <3>1, <4>1, WireGrows
      <4>. QED  BY <1>1, <4>2, SavedStays
    <3>3. CASE saved[m] \notin rooms
      <4>1. longer = w
        BY <1>3, <2>1, <2>2, <3>3
      <4>. QED  BY <1>1, <3>1, <4>1, SavedStays
    <3>. QED  BY <3>2, <3>3
  <2>5. m \in Newest(r) => saved[m] = r
    BY DEF Newest
  <2>6. ASSUME NEW x \in Newest(r)' \ (sending' \cup more)
        PROVE  x = m \/ x \in Newest(r) \ (sending \cup missed)
    BY <1>1, <2>3
  <2>7. ASSUME status = "reading", NEW x \in Newest(r)' \ (sending' \cup more)
        PROVE  x \in Range(history)
    <3>1. CASE x = m
      <4>1. saved[m] = r /\ r \in rooms
        BY <2>1, <2>3, <2>5, <2>7, <3>1 DEF TabFits
      <4>. QED  BY <1>3, <2>1, <2>2, <2>7, <3>1, <4>1
    <3>2. CASE x # m
      BY <2>1, <2>6, <2>7, <3>2 DEF TabFits
    <3>. QED  BY <3>1, <3>2
  <2>8. ASSUME status = "settled", NEW x \in Newest(r)' \ (sending' \cup more)
        PROVE  Coming(longer, list, x)
    <3>1. r \in rooms
      BY <2>1, <2>8 DEF TabFits
    <3>2. CASE x = m
      <4>1. saved[m] \in rooms
        BY <2>3, <2>5, <2>8, <3>1, <3>2
      <4>2. longer = Append(w, packet)
        BY <1>3, <2>1, <2>2, <4>1
      <4>3. packet.kind = "message" /\ packet.id = x
        BY <1>2, <3>2
      <4>. QED  BY <2>3, <4>2, <4>3, ComingGoesOn
    <3>3. CASE x # m
      <4>1. Coming(w, list, x)
        BY <2>1, <2>6, <2>8, <3>3 DEF TabFits
      <4>2. CASE saved[m] \in rooms
        <5>1. longer = Append(w, packet)
          BY <1>3, <2>1, <2>2, <4>2
        <5>2. packet.kind # "history"
          BY <1>2
        <5>. QED  BY <2>3, <4>1, <5>1, <5>2, ComingGoesOn
      <4>3. CASE saved[m] \notin rooms
        BY <1>3, <2>1, <2>2, <4>1, <4>3
      <4>. QED  BY <4>2, <4>3
    <3>. QED  BY <3>2, <3>3
  <2>9. OfRoom(list, r)' /\ OfRoom(history, r)'
    BY <1>1, <2>1, SavedStays DEF TabFits
  <2>10. status \in {"joined", "history", "reading", "settled"} => r \in rooms
    BY <2>1 DEF TabFits
  <2>11. TabFits(r, list, status, rooms, history, longer, more)'
    BY <2>4, <2>7, <2>8, <2>9, <2>10 DEF TabFits
  <2>. QED  BY <1>1, <2>1, <2>2, <2>11 DEF TabInv
<1>. QED  BY <1>4, <1>5 DEF ChatInv

\* The socket of a tab connects: nothing but messages was on its wire.
LEMMA ConnectingKeeps ==
  ASSUME ChatInv, NEW t \in Tabs, ConnectChat(t) PROVE ChatInv'
<1>1. /\ ChatShape /\ link[t] = "down"
      /\ UNCHANGED <<saved, sending, viewing, listed, reading, wire, overtaken>>
      /\ link' = [link EXCEPT ![t] = IF viewing[t] \in OpenRooms THEN "history" ELSE "join"]
      /\ entered' = [entered EXCEPT ![t] = OpenRooms]
  BY DEF ChatInv, ConnectChat
<1>2. ChatShape'
  <2>1. link' \in [Tabs -> Links]
    BY <1>1 DEF ChatShape, Links
  <2>2. entered' \in [Tabs -> SUBSET Rooms]
    BY <1>1, ChatAssumption DEF ChatShape
  <2>. QED  BY <1>1, <2>1, <2>2 DEF ChatShape
<1>3. ASSUME NEW s \in Tabs PROVE TabInv(s)'
  <2>1. TabInv(s)
    BY DEF ChatInv
  <2>2. CASE s = t
    <3>1. PICK r, list, status, rooms, history, w, missed :
            /\ r = viewing[s] /\ list = listed[s] /\ status = link[s] /\ rooms = entered[s]
            /\ history = reading[s] /\ w = wire[s] /\ missed = overtaken[s]
            /\ TabFits(r, list, status, rooms, history, w, missed)
      BY <2>1 DEF TabInv
    <3>2. PICK after, inside : after = link'[s] /\ inside = entered'[s]
      OBVIOUS
    <3>3. inside = OpenRooms /\ (after = "join" \/ (after = "history" /\ r \in inside))
      BY <1>1, <2>2, <3>1, <3>2 DEF ChatShape
    <3>4. WireFits(w, after, r)
      <4>1. status = "down" /\ WireFits(w, status, r)
        BY <1>1, <2>2, <3>1 DEF TabFits
      <4>. QED  BY <4>1, WireIsPlain
    <3>5. OfRoom(list, r)' /\ OfRoom(history, r)' /\ WireFits(w, after, r)'
      BY <1>1, <3>1, <3>4, SavedStays DEF TabFits
    <3>6. TabFits(r, list, after, inside, history, w, missed)'
      BY <3>3, <3>5 DEF TabFits
    <3>. QED  BY <1>1, <3>1, <3>2, <3>6 DEF TabInv
  <2>3. CASE s # t
    <3>1. link'[s] = link[s] /\ entered'[s] = entered[s]
      BY <1>1, <2>3 DEF ChatShape
    <3>2. Newest(viewing[s])' \ sending' \subseteq Newest(viewing[s]) \ sending
      BY <1>1 DEF Newest
    <3>. QED  BY <1>1, <2>1, <3>1, <3>2, TabStays
  <2>. QED  BY <2>2, <2>3
<1>. QED  BY <1>2, <1>3 DEF ChatInv

\* A tab joins its room and is told so.
LEMMA JoiningKeeps ==
  ASSUME ChatInv, NEW t \in Tabs, JoinRoom(t) PROVE ChatInv'
<1>1. /\ ChatShape /\ link[t] = "join"
      /\ UNCHANGED <<saved, sending, viewing, listed, reading, overtaken>>
      /\ link' = [link EXCEPT ![t] = "joined"]
      /\ entered' = [entered EXCEPT ![t] = entered[t] \cup {viewing[t]}]
  BY DEF ChatInv, JoinRoom
<1>2. PICK packet \in PacketRow :
        packet.kind = "joined" /\ wire' = [wire EXCEPT ![t] = Append(wire[t], packet)]
  <2>1. Packet("joined", 0, <<>>) \in PacketRow /\ Packet("joined", 0, <<>>).kind = "joined"
    BY DEF Packet, PacketRow
  <2>2. wire' = [wire EXCEPT ![t] = Append(wire[t], Packet("joined", 0, <<>>))]
    BY DEF JoinRoom, Deliver
  <2>. QED  BY <2>1, <2>2
<1>3. ChatShape'
  <2>1. link' \in [Tabs -> Links]
    BY <1>1 DEF ChatShape, Links
  <2>2. entered' \in [Tabs -> SUBSET Rooms]
    BY <1>1 DEF ChatShape
  <2>3. wire' \in [Tabs -> Seq(PacketRow)]
    BY <1>1, <1>2 DEF ChatShape
  <2>. QED  BY <1>1, <2>1, <2>2, <2>3 DEF ChatShape
<1>4. ASSUME NEW s \in Tabs PROVE TabInv(s)'
  <2>1. TabInv(s)
    BY DEF ChatInv
  <2>2. CASE s = t
    <3>1. PICK r, list, status, rooms, history, w, missed :
            /\ r = viewing[s] /\ list = listed[s] /\ status = link[s] /\ rooms = entered[s]
            /\ history = reading[s] /\ w = wire[s] /\ missed = overtaken[s]
            /\ TabFits(r, list, status, rooms, history, w, missed)
      BY <2>1 DEF TabInv
    <3>2. PICK inside, longer : inside = entered'[s] /\ longer = wire'[s]
      OBVIOUS
    <3>3. /\ r \in inside /\ link'[s] = "joined"
          /\ w \in Seq(PacketRow) /\ longer = Append(w, packet)
      BY <1>1, <1>2, <2>2, <3>1, <3>2 DEF ChatShape
    <3>4. WireFits(longer, "joined", r)
      <4>1. status = "join" /\ WireFits(w, status, r)
        BY <1>1, <2>2, <3>1 DEF TabFits
      <4>2. /\ \A i \in DOMAIN w : w[i].kind # "joined" /\ w[i].kind # "history"
            /\ WireFits(w, "joined", r)
        BY <4>1, WireIsPlain
      <4>. QED  BY <1>2, <3>3, <4>2, WireGrows
    <3>5. OfRoom(list, r)' /\ OfRoom(history, r)' /\ WireFits(longer, "joined", r)'
      BY <1>1, <3>1, <3>4, SavedStays DEF TabFits
    <3>6. TabFits(r, list, "joined", inside, history, longer, missed)'
      BY <3>3, <3>5 DEF TabFits
    <3>7. /\ r = viewing'[s] /\ list = listed'[s] /\ "joined" = link'[s] /\ inside = entered'[s]
          /\ history = reading'[s] /\ longer = wire'[s] /\ missed = overtaken'[s]
      BY <1>1, <3>1, <3>2, <3>3
    <3>. QED  BY <3>6, <3>7 DEF TabInv
  <2>3. CASE s # t
    <3>1. link'[s] = link[s] /\ entered'[s] = entered[s] /\ wire'[s] = wire[s]
      BY <1>1, <1>2, <2>3 DEF ChatShape
    <3>2. Newest(viewing[s])' \ sending' \subseteq Newest(viewing[s]) \ sending
      BY <1>1 DEF Newest
    <3>. QED  BY <1>1, <2>1, <3>1, <3>2, TabStays
  <2>. QED  BY <2>2, <2>3
<1>. QED  BY <1>3, <1>4 DEF ChatInv

\* A history has the newest messages of the room, each once.
LEMMA HistoryIsNewest ==
  ASSUME ChatShape, NEW r, NEW items \in Histories(r)
  PROVE  items \in Seq(Nat) /\ Range(items) = Newest(r) /\ OfRoom(items, r)
<1>1. PICK n : n = Cardinality(Newest(r))
  OBVIOUS
<1>2. /\ Newest(r) \subseteq DOMAIN saved /\ \A m \in Newest(r) : saved[m] = r
      /\ DOMAIN saved = 1..Len(saved) /\ Len(saved) \in Nat
  BY DEF Newest, ChatShape
<1>3. n \in Nat
  <2>1. IsFiniteSet(DOMAIN saved)
    BY <1>2, FS_Interval
  <2>2. IsFiniteSet(Newest(r))
    BY <1>2, <2>1, FS_Subset
  <2>. QED  BY <1>1, <2>2, FS_CardinalityType
<1>4. /\ items \in [1..n -> Newest(r)] /\ Range(items) = Newest(r)
      /\ \A i, j \in DOMAIN items : i < j => items[i] < items[j]
  BY <1>1 DEF Histories
<1>5. \A i \in DOMAIN items : items[i] \in DOMAIN saved /\ saved[items[i]] = r /\ items[i] \in Nat /\ i \in Nat
  BY <1>2, <1>3, <1>4
<1>6. ASSUME NEW i \in DOMAIN items, NEW j \in DOMAIN items, items[i] = items[j] PROVE i = j
  BY <1>4, <1>5, <1>6
<1>7. items \in Seq(Nat)
  BY <1>3, <1>4, <1>5
<1>. QED  BY <1>4, <1>5, <1>6, <1>7 DEF OfRoom

\* The history of a tab is read.
LEMMA ReadingKeeps ==
  ASSUME ChatInv, NEW t \in Tabs, ReadHistory(t) PROVE ChatInv'
<1>1. /\ ChatShape /\ link[t] = "history"
      /\ UNCHANGED <<saved, sending, viewing, listed, entered, wire, overtaken>>
      /\ link' = [link EXCEPT ![t] = "reading"]
  BY DEF ChatInv, ReadHistory
<1>2. PICK items \in Histories(viewing[t]) : reading' = [reading EXCEPT ![t] = items]
  BY DEF ReadHistory
<1>3. ChatShape'
  <2>1. link' \in [Tabs -> Links]
    BY <1>1 DEF ChatShape, Links
  <2>2. items \in Seq(Nat)
    BY <1>1, HistoryIsNewest
  <2>3. reading' \in [Tabs -> Seq(Nat)]
    BY <1>1, <1>2, <2>2 DEF ChatShape
  <2>. QED  BY <1>1, <2>1, <2>3 DEF ChatShape
<1>4. ASSUME NEW s \in Tabs PROVE TabInv(s)'
  <2>1. TabInv(s)
    BY DEF ChatInv
  <2>2. CASE s = t
    <3>1. PICK r, list, status, rooms, history, w, missed :
            /\ r = viewing[s] /\ list = listed[s] /\ status = link[s] /\ rooms = entered[s]
            /\ history = reading[s] /\ w = wire[s] /\ missed = overtaken[s]
            /\ TabFits(r, list, status, rooms, history, w, missed)
      BY <2>1 DEF TabInv
    <3>2. status = "history" /\ link'[s] = "reading" /\ reading'[s] = items
      BY <1>1, <1>2, <2>2, <3>1 DEF ChatShape
    <3>3. r \in rooms /\ WireFits(w, "reading", r)
      <4>1. WireFits(w, status, r)
        BY <3>1 DEF TabFits
      <4>. QED  BY <3>1, <3>2, <4>1, WireIsPlain DEF TabFits
    <3>4. Range(items) = Newest(r) /\ OfRoom(items, r)
      <4>1. items \in Histories(r)
        BY <1>2, <2>2, <3>1
      <4>. QED  BY <1>1, <4>1, HistoryIsNewest
    <3>5. OfRoom(list, r)' /\ OfRoom(items, r)' /\ WireFits(w, "reading", r)' /\ Newest(r)' = Newest(r)
      BY <1>1, <3>1, <3>3, <3>4, SavedStays DEF TabFits
    <3>6. Newest(r)' \ (sending' \cup missed) \subseteq Range(items)
      BY <3>4, <3>5
    <3>7. TabFits(r, list, "reading", rooms, items, w, missed)'
      BY <3>3, <3>5, <3>6 DEF TabFits
    <3>. QED  BY <1>1, <3>1, <3>2, <3>7 DEF TabInv
  <2>3. CASE s # t
    <3>1. link'[s] = link[s] /\ reading'[s] = reading[s]
      BY <1>1, <1>2, <2>3 DEF ChatShape
    <3>2. Newest(viewing[s])' \ sending' \subseteq Newest(viewing[s]) \ sending
      BY <1>1 DEF Newest
    <3>. QED  BY <1>1, <2>1, <3>1, <3>2, TabStays
  <2>. QED  BY <2>2, <2>3
<1>. QED  BY <1>3, <1>4 DEF ChatInv

\* The history is sent: what the reading found is behind whatever was on the wire.
LEMMA SendingKeeps ==
  ASSUME ChatInv, NEW t \in Tabs, SendHistory(t) PROVE ChatInv'
<1>1. /\ ChatShape /\ link[t] = "reading"
      /\ UNCHANGED <<saved, sending, viewing, listed, entered, reading, overtaken>>
      /\ link' = [link EXCEPT ![t] = "settled"]
  BY DEF ChatInv, SendHistory
<1>2. PICK packet \in PacketRow : /\ packet.kind = "history" /\ packet.items = reading[t]
                                  /\ wire' = [wire EXCEPT ![t] = Append(wire[t], packet)]
  <2>1. reading[t] \in Seq(Nat)
    BY <1>1 DEF ChatShape
  <2>2. PICK items : items = reading[t]
    OBVIOUS
  <2>3. [kind |-> "history", id |-> 0, items |-> items] \in PacketRow
    BY <2>1, <2>2 DEF PacketRow
  <2>4. wire' = [wire EXCEPT ![t] = Append(wire[t], [kind |-> "history", id |-> 0, items |-> items])]
    BY <2>2 DEF SendHistory, Deliver, Packet
  <2>. QED  BY <2>2, <2>3, <2>4
<1>3. ChatShape'
  <2>1. link' \in [Tabs -> Links]
    BY <1>1 DEF ChatShape, Links
  <2>2. wire' \in [Tabs -> Seq(PacketRow)]
    BY <1>1, <1>2 DEF ChatShape
  <2>. QED  BY <1>1, <2>1, <2>2 DEF ChatShape
<1>4. ASSUME NEW s \in Tabs PROVE TabInv(s)'
  <2>1. TabInv(s)
    BY DEF ChatInv
  <2>2. CASE s = t
    <3>1. PICK r, list, status, rooms, history, w, missed :
            /\ r = viewing[s] /\ list = listed[s] /\ status = link[s] /\ rooms = entered[s]
            /\ history = reading[s] /\ w = wire[s] /\ missed = overtaken[s]
            /\ TabFits(r, list, status, rooms, history, w, missed)
      BY <2>1 DEF TabInv
    <3>2. PICK longer : longer = wire'[s]
      OBVIOUS
    <3>3. /\ status = "reading" /\ link'[s] = "settled" /\ packet.items = history
          /\ w \in Seq(PacketRow) /\ longer = Append(w, packet)
      BY <1>1, <1>2, <2>2, <3>1, <3>2 DEF ChatShape
    <3>4. r \in rooms /\ OfRoom(list, r) /\ OfRoom(history, r) /\ WireFits(w, status, r)
      BY <3>1, <3>3 DEF TabFits
    <3>5. WireFits(longer, "settled", r)
      <4>1. /\ \A i \in DOMAIN w : w[i].kind # "joined" /\ w[i].kind # "history"
            /\ WireFits(w, "settled", r)
        BY <3>3, <3>4, WireIsPlain
      <4>. QED  BY <1>2, <3>3, <3>4, <4>1, WireGrows
    <3>6. /\ OfRoom(list, r)' /\ OfRoom(history, r)' /\ WireFits(longer, "settled", r)'
          /\ Newest(r)' = Newest(r)
      BY <1>1, <3>4, <3>5, SavedStays
    <3>7. ASSUME NEW x \in Newest(r)' \ (sending' \cup missed) PROVE Coming(longer, list, x)
      <4>1. x \in Range(packet.items)
        BY <1>1, <3>1, <3>3, <3>6 DEF TabFits
      <4>. QED  BY <1>2, <3>3, <4>1, ComingGoesOn
    <3>8. TabFits(r, list, "settled", rooms, history, longer, missed)'
      BY <3>4, <3>6, <3>7 DEF TabFits
    <3>. QED  BY <1>1, <3>1, <3>2, <3>3, <3>8 DEF TabInv
  <2>3. CASE s # t
    <3>1. link'[s] = link[s] /\ wire'[s] = wire[s]
      BY <1>1, <1>2, <2>3 DEF ChatShape
    <3>2. Newest(viewing[s])' \ sending' \subseteq Newest(viewing[s]) \ sending
      BY <1>1 DEF Newest
    <3>. QED  BY <1>1, <2>1, <3>1, <3>2, TabStays
  <2>. QED  BY <2>2, <2>3
<1>. QED  BY <1>3, <1>4 DEF ChatInv

\* What the list of a tab becomes when it sees a packet.
LEMMA ListSeen ==
  ASSUME ChatInv, NEW t \in Tabs, SeePacket(t)
  PROVE  \E r, list, status, rooms, history, w, missed, packet, more :
           /\ r = viewing[t] /\ list = listed[t] /\ status = link[t] /\ rooms = entered[t]
           /\ history = reading[t] /\ w = wire[t] /\ missed = overtaken[t]
           /\ TabFits(r, list, status, rooms, history, w, missed)
           /\ w \in Seq(PacketRow) /\ w # <<>> /\ packet = w[1] /\ packet \in PacketRow
           /\ more = listed'[t] /\ more \in Seq(Nat) /\ OfRoom(more, r)
           /\ packet.kind = "history" => more = packet.items
           /\ packet.kind # "history" => Range(list) \subseteq Range(more)
           /\ packet.kind = "message" /\ saved[packet.id] = r => packet.id \in Range(more)
<1>1. PICK r, list, status, rooms, history, w, missed :
        /\ r = viewing[t] /\ list = listed[t] /\ status = link[t] /\ rooms = entered[t]
        /\ history = reading[t] /\ w = wire[t] /\ missed = overtaken[t]
        /\ TabFits(r, list, status, rooms, history, w, missed)
  BY DEF ChatInv, TabInv
<1>2. PICK packet, more : packet = w[1] /\ more = listed'[t]
  OBVIOUS
<1>3. /\ w \in Seq(PacketRow) /\ w # <<>> /\ list \in Seq(Nat) /\ packet = Head(w)
      /\ packet \in PacketRow /\ 1 \in DOMAIN w
      /\ OfRoom(list, r) /\ WireFits(w, status, r)
  BY <1>1, <1>2 DEF ChatInv, ChatShape, SeePacket, TabFits
<1>4. PICK new \in BOOLEAN : new = (saved[packet.id] = r /\ packet.id \notin Range(list))
  OBVIOUS
<1>5. more = CASE packet.kind = "history" -> packet.items
               [] packet.kind = "message" /\ new -> Append(list, packet.id)
               [] OTHER -> list
  BY <1>1, <1>2, <1>3, <1>4 DEF SeePacket, ChatInv, ChatShape
<1>6. packet.kind \in {"joined", "message", "history"} /\ packet.id \in Nat /\ packet.items \in Seq(Nat)
  BY <1>3 DEF PacketRow
<1> DEFINE Seen == /\ more \in Seq(Nat) /\ OfRoom(more, r)
                   /\ packet.kind = "history" => more = packet.items
                   /\ packet.kind # "history" => Range(list) \subseteq Range(more)
                   /\ packet.kind = "message" /\ saved[packet.id] = r => packet.id \in Range(more)
<1>7. ASSUME packet.kind = "history" PROVE Seen
  <2>1. more = packet.items
    BY <1>5, <1>7
  <2>2. OfRoom(packet.items, r)
    BY <1>3, <1>7 DEF WireFits
  <2>. QED  BY <1>3, <1>6, <1>7, <2>1, <2>2
<1>8. ASSUME packet.kind = "message", new PROVE Seen
  <2>1. more = Append(list, packet.id)
    BY <1>5, <1>8
  <2>2. saved[packet.id] = r /\ packet.id \notin Range(list) /\ packet.id \in DOMAIN saved
    <3>1. packet.id \in DOMAIN saved
      BY <1>3, <1>8 DEF WireFits
    <3>. QED  BY <1>4, <1>8, <3>1
  <2>3. /\ Len(list) \in Nat /\ DOMAIN list = 1..Len(list) /\ DOMAIN more = 1..(Len(list) + 1)
        /\ more[Len(list) + 1] = packet.id /\ \A i \in DOMAIN list : i \in DOMAIN more /\ more[i] = list[i]
        /\ more \in Seq(Nat)
    BY <1>3, <1>6, <2>1
  <2>4. \A i \in DOMAIN more : (i \in DOMAIN list /\ more[i] = list[i]) \/ (i = Len(list) + 1 /\ more[i] = packet.id)
    BY <2>3
  <2>5. \A i \in DOMAIN list : list[i] # packet.id
    BY <2>2 DEF Range
  <2>6. OfRoom(more, r)
    <3>1. ASSUME NEW i \in DOMAIN more PROVE more[i] \in DOMAIN saved /\ saved[more[i]] = r
      BY <1>3, <2>2, <2>4 DEF OfRoom
    <3>2. ASSUME NEW i \in DOMAIN more, NEW j \in DOMAIN more, more[i] = more[j] PROVE i = j
      BY <1>3, <2>4, <2>5, <3>2 DEF OfRoom
    <3>. QED  BY <3>1, <3>2 DEF OfRoom
  <2>7. Range(list) \subseteq Range(more) /\ packet.id \in Range(more)
    <3>1. Len(list) + 1 \in DOMAIN more
      BY <2>3
    <3>. QED  BY <2>3, <3>1 DEF Range
  <2>. QED  BY <1>3, <1>8, <2>3, <2>6, <2>7
<1>9. ASSUME packet.kind # "history", ~(packet.kind = "message" /\ new) PROVE Seen
  <2>1. more = list
    BY <1>5, <1>9
  <2>2. packet.kind = "message" /\ saved[packet.id] = r => packet.id \in Range(list)
    BY <1>4, <1>9
  <2>. QED  BY <1>3, <1>9, <2>1, <2>2
<1>10. Seen
  BY <1>7, <1>8, <1>9
<1>. QED  BY <1>1, <1>2, <1>3, <1>10

LEMMA SeeingKeeps ==
  ASSUME ChatInv, NEW t \in Tabs, SeePacket(t) PROVE ChatInv'
<1>1. /\ ChatShape /\ wire[t] # <<>> /\ wire[t] \in Seq(PacketRow)
      /\ UNCHANGED <<saved, sending, viewing, entered, reading, overtaken>>
      /\ wire' = [wire EXCEPT ![t] = Tail(wire[t])]
  BY DEF ChatInv, SeePacket, ChatShape
<1>2. ASSUME NEW s \in Tabs, s # t
      PROVE  link'[s] = link[s] /\ listed'[s] = listed[s] /\ wire'[s] = wire[s]
  BY <1>2 DEF SeePacket, ChatInv, ChatShape
<1>3. PICK r, list, status, rooms, history, w, missed, packet, more :
        /\ r = viewing[t] /\ list = listed[t] /\ status = link[t] /\ rooms = entered[t]
        /\ history = reading[t] /\ w = wire[t] /\ missed = overtaken[t]
        /\ TabFits(r, list, status, rooms, history, w, missed)
        /\ w \in Seq(PacketRow) /\ w # <<>> /\ packet = w[1] /\ packet \in PacketRow
        /\ more = listed'[t] /\ more \in Seq(Nat) /\ OfRoom(more, r)
        /\ packet.kind = "history" => more = packet.items
        /\ packet.kind # "history" => Range(list) \subseteq Range(more)
        /\ packet.kind = "message" /\ saved[packet.id] = r => packet.id \in Range(more)
  BY ListSeen
<1>4. PICK rest, after : rest = Tail(w) /\ after = link'[t]
  OBVIOUS
<1>5. OfRoom(list, r) /\ OfRoom(history, r) /\ WireFits(w, status, r)
  BY <1>3 DEF TabFits
<1>7. (packet.kind = "joined" /\ after = "history") \/ (packet.kind # "joined" /\ after = status)
  <2>1. packet = Head(wire[t])
    BY <1>1, <1>3, <1>4
  <2>2. link'[t] = IF packet.kind = "joined" THEN "history" ELSE link[t]
    BY <1>1, <2>1 DEF SeePacket, ChatShape
  <2>. QED  BY <1>3, <1>4, <2>2
<1>8. ChatShape'
  <2>1. link' \in [Tabs -> Links]
    <3>1. after \in Links
      BY <1>1, <1>3, <1>7 DEF ChatShape, Links
    <3>2. DOMAIN link' = Tabs /\ link' = [s \in Tabs |-> link'[s]]
      BY <1>1 DEF SeePacket, ChatShape
    <3>3. ASSUME NEW s \in Tabs PROVE link'[s] \in Links
      BY <1>1, <1>2, <1>4, <3>1 DEF ChatShape
    <3>. QED  BY <3>2, <3>3
  <2>2. listed' \in [Tabs -> Seq(Nat)]
    <3>1. DOMAIN listed' = Tabs /\ listed' = [s \in Tabs |-> listed'[s]]
      BY <1>1 DEF SeePacket, ChatShape
    <3>2. ASSUME NEW s \in Tabs PROVE listed'[s] \in Seq(Nat)
      BY <1>1, <1>2, <1>3, <1>4 DEF ChatShape
    <3>. QED  BY <3>1, <3>2
  <2>3. wire' \in [Tabs -> Seq(PacketRow)]
    <3>1. rest \in Seq(PacketRow)
      BY <1>1, <1>3, <1>4
    <3>. QED  BY <1>1, <1>3, <1>4, <3>1 DEF ChatShape
  <2>. QED  BY <1>1, <2>1, <2>2, <2>3 DEF ChatShape
<1>9. TabInv(t)'
  <2>1. WireFits(rest, after, r)
    BY <1>3, <1>4, <1>5, <1>7, WireShrinks
  <2>2. after \in {"joined", "history", "reading", "settled"} => r \in rooms
    <3>1. packet.kind = "joined" => status = "joined"
      BY <1>3, <1>4, <1>5 DEF WireFits
    <3>. QED  BY <1>3, <1>7, <3>1 DEF TabFits
  <2>3. /\ OfRoom(more, r)' /\ OfRoom(history, r)' /\ WireFits(rest, after, r)'
        /\ Newest(r)' = Newest(r)
    BY <1>1, <1>3, <1>5, <2>1, SavedStays
  <2>4. after = "reading" => Newest(r)' \ (sending' \cup missed) \subseteq Range(history)
    BY <1>1, <1>3, <1>7, <2>3 DEF TabFits
  <2>5. ASSUME after = "settled", NEW x \in Newest(r)' \ (sending' \cup missed)
        PROVE  Coming(rest, more, x)
    <3>1. Coming(w, list, x) /\ saved[x] = r
      BY <1>1, <1>3, <1>7, <2>3, <2>5 DEF TabFits, Newest
    <3>2. \A i, j \in DOMAIN w : w[i].kind = w[j].kind /\ w[i].kind # "message" => i = j
      BY <1>5 DEF WireFits
    <3>3. /\ w[1].kind = "history" => more = w[1].items
          /\ w[1].kind # "history" => Range(list) \subseteq Range(more)
          /\ w[1].kind = "message" /\ w[1].id = x => x \in Range(more)
      BY <1>3, <1>4, <3>1
    <3>. QED  BY <1>3, <1>4, <3>1, <3>2, <3>3, ComingIsSeen
  <2>6. TabFits(r, more, after, rooms, history, rest, missed)'
    BY <2>2, <2>3, <2>4, <2>5 DEF TabFits
  <2>7. /\ r = viewing'[t] /\ more = listed'[t] /\ after = link'[t] /\ rooms = entered'[t]
        /\ history = reading'[t] /\ rest = wire'[t] /\ missed = overtaken'[t]
    BY <1>1, <1>3, <1>4 DEF ChatShape
  <2>. QED  BY <2>6, <2>7 DEF TabInv
<1>10. ASSUME NEW s \in Tabs, s # t PROVE TabInv(s)'
  <2>1. TabInv(s)
    BY DEF ChatInv
  <2>2. Newest(viewing[s])' \ sending' \subseteq Newest(viewing[s]) \ sending
    BY <1>1 DEF Newest
  <2>. QED  BY <1>1, <1>2, <1>10, <2>1, <2>2, TabStays
<1>. QED  BY <1>8, <1>9, <1>10 DEF ChatInv

LEMMA ChatStepKeeps == ChatInv /\ [ChatNext]_chatVars => ChatInv'
<1> SUFFICES ASSUME ChatInv, [ChatNext]_chatVars PROVE ChatInv'
  OBVIOUS
<1>1. CASE UNCHANGED chatVars
  <2>1. UNCHANGED <<saved, sending, viewing, listed, link, entered, reading, wire, overtaken>>
    BY <1>1 DEF chatVars, tabVars
  <2>2. ChatShape'
    BY <2>1 DEF ChatInv, ChatShape
  <2>3. ASSUME NEW t \in Tabs PROVE TabInv(t)'
    <3>1. Newest(viewing[t])' \ sending' \subseteq Newest(viewing[t]) \ sending
      BY <2>1 DEF Newest
    <3>2. TabInv(t)
      BY DEF ChatInv
    <3>. QED  BY <2>1, <3>1, <3>2, TabStays
  <2>. QED  BY <2>2, <2>3 DEF ChatInv
<1>2. CASE ChatNext
  BY <1>2, SavingKeeps, EmittingKeeps, ConnectingKeeps, JoiningKeeps, ReadingKeeps, SendingKeeps,
     SeeingKeeps, LosingKeeps, ChangingKeeps, RestartingKeeps DEF ChatNext
<1>. QED  BY <1>1, <1>2

LEMMA TabsShow == ChatInv => TabShowsRoom
<1> SUFFICES ASSUME ChatInv, NEW t \in Tabs, link[t] = "settled", wire[t] = <<>>
             PROVE  /\ Newest(viewing[t]) \ (sending \cup overtaken[t]) \subseteq Range(listed[t])
                    /\ \A m \in Range(listed[t]) : saved[m] = viewing[t]
                    /\ IsInjective(listed[t])
  BY DEF TabShowsRoom
<1>1. PICK r, list, status, rooms, history, w, missed :
        /\ r = viewing[t] /\ list = listed[t] /\ status = link[t] /\ rooms = entered[t]
        /\ history = reading[t] /\ w = wire[t] /\ missed = overtaken[t]
        /\ TabFits(r, list, status, rooms, history, w, missed)
  BY DEF ChatInv, TabInv
<1>2. status = "settled" /\ w = <<>> /\ DOMAIN w = {}
  BY <1>1
<1>3. ASSUME NEW m \in Newest(r) \ (sending \cup missed) PROVE m \in Range(list)
  <2>1. Coming(w, list, m)
    BY <1>1, <1>2 DEF TabFits
  <2>. QED  BY <1>2, <2>1 DEF Coming
<1>4. OfRoom(list, r)
  BY <1>1 DEF TabFits
<1>5. \A m \in Range(list) : saved[m] = r
  BY <1>4 DEF OfRoom, Range
<1>6. IsInjective(list)
  BY <1>4 DEF OfRoom, IsInjective
<1>. QED  BY <1>1, <1>3, <1>5, <1>6

\* TabShowsRoom in every reachable state: a tab that has seen all it was sent shows the newest
\* messages of its room that were emitted, each once and none of another room, through any order
\* of joining, reading the history, emitting and losing the connection; only what was emitted
\* between the reading of its history and the reply may be missing.
THEOREM TabsShowRooms == ChatSpec => []TabShowsRoom
<1>1. ChatInit => ChatInv
  BY ChatInitially
<1>2. ChatInv /\ [ChatNext]_chatVars => ChatInv'
  BY ChatStepKeeps
<1>3. ChatInv => TabShowsRoom
  BY TabsShow
<1>. QED  BY <1>1, <1>2, <1>3, PTL DEF ChatSpec
-----------------------------------------------------------------------------
(* Files.  What FilesAreStored says of the rows is kept because of what is *)
(* true of the requests: one that is about to insert a row still has the   *)
(* object it looked at, as only a deletion takes it away and a deletion    *)
(* needs a row; one that deleted the object finds it gone until the row    *)
(* says so, as only an upload through the backend or the URL puts it back, *)
(* and the former has its key for itself and comes before the row.         *)


\* A request that will insert a row: the object is there, unless there is a row by now.
Ready ==
  \A w \in DOMAIN filing :
    filing[w].at = "row" /\ filing[w].key \notin again /\ ~HasRow(filing[w].key)
      => Stored(filing[w].key) /\ objects[filing[w].key] = filing[w].size

\* A deletion has a row, and past the object there is none.
Emptied ==
  \A w \in DOMAIN filing :
    /\ filing[w].at \in {"object", "status"} => HasRow(filing[w].key)
    /\ filing[w].at = "status" /\ filing[w].key \notin again => ~Stored(filing[w].key)

\* A key of an upload through the backend is its own until the object is there.
OwnKey ==
  \A w \in DOMAIN filing :
    filing[w].at = "put" =>
      /\ origin[filing[w].key] = "direct" /\ ~HasRow(filing[w].key)
      /\ \A v \in DOMAIN filing \ {w} : filing[v].key # filing[w].key

\* A key that is not made has neither a row nor a request.
Made ==
  /\ \A k \in DOMAIN fileRows : origin[k] # "none"
  /\ \A w \in DOMAIN filing : origin[filing[w].key] # "none"

FilesInv == FilesTypeOK /\ FilesAreStored /\ Ready /\ Emptied /\ OwnKey /\ Made

LEMMA FilesInitially == FilesInit => FilesInv
  BY DEF FilesInit, FilesInv, FilesTypeOK, FilesAreStored, Ready, Emptied, OwnKey, Made

\* An upload takes a key that nobody has.
LEMMA UploadFileKeeps ==
  ASSUME FilesInv, NEW w \in Filers, NEW k \in StorageKeys, NEW size \in ObjectSizes,
         UploadFile(w, k, size)
  PROVE  FilesInv'
<1> USE DEF FilesInv, HasRow, Stored
<1>0. /\ w \notin DOMAIN filing /\ DOMAIN filing' = DOMAIN filing \cup {w}
      /\ filing'[w] = [key |-> k, at |-> "put", size |-> size]
      /\ \A v \in DOMAIN filing : filing'[v] = filing[v]
      /\ origin' = [origin EXCEPT ![k] = "direct"] /\ origin[k] = "none"
      /\ UNCHANGED <<objects, fileRows, again, torn>>
  BY DEF UploadFile, Begin
<1>1. FilesTypeOK'
  BY <1>0 DEF FilesTypeOK, Filing
<1>2. FilesAreStored'
  BY <1>0 DEF FilesAreStored, BeingDeleted, FilesTypeOK, Filing
<1>3. Ready' /\ Emptied'
  BY <1>0 DEF Ready, Emptied
<1>4. OwnKey' /\ Made'
  BY <1>0 DEF OwnKey, Made, FilesTypeOK, Filing
<1>. QED  BY <1>1, <1>2, <1>3, <1>4

\* A request goes on: only the place where it is changes.
LEMMA GoesOn ==
  ASSUME FilesTypeOK, NEW w \in DOMAIN filing,
         NEW at \in {"put", "head", "row", "object", "status"}, Goes(w, at)
  PROVE  /\ DOMAIN filing' = DOMAIN filing
         /\ filing'[w] \in Filing /\ filing'[w].at = at
         /\ filing'[w].key = filing[w].key /\ filing'[w].size = filing[w].size
         /\ \A v \in DOMAIN filing \ {w} : filing'[v] = filing[v]
<1>1. filing[w] \in Filing
  BY DEF FilesTypeOK
<1>2. PICK r \in Filing : r = filing[w]
  BY <1>1
<1>3. /\ DOMAIN filing' = DOMAIN filing /\ filing'[w] = [r EXCEPT !.at = at]
      /\ \A v \in DOMAIN filing \ {w} : filing'[v] = filing[v]
  BY <1>2 DEF Goes
<1>. QED  BY <1>2, <1>3 DEF Filing

\* The object of an upload; its key has no row and no other request.
LEMMA SendObjectKeeps ==
  ASSUME FilesInv, NEW w \in DOMAIN filing, SendObject(w)
  PROVE  FilesInv'
<1> DEFINE k == filing[w].key
<1> USE DEF FilesInv, HasRow, Stored
<1>0. /\ filing[w].at = "put" /\ filing[w] \in Filing
      /\ DOMAIN filing' = DOMAIN filing
      /\ filing'[w].key = filing[w].key /\ filing'[w].at = "row"
      /\ filing'[w].size = filing[w].size /\ filing'[w] \in Filing
      /\ \A v \in DOMAIN filing \ {w} : filing'[v] = filing[v]
  BY GoesOn DEF SendObject, FilesTypeOK
<1>b. /\ DOMAIN objects' = DOMAIN objects \cup {k} /\ objects'[k] = filing[w].size
      /\ \A j \in DOMAIN objects \ {k} : objects'[j] = objects[j]
      /\ UNCHANGED <<fileRows, origin, again, torn>>
  BY DEF SendObject, PutInto
<1>a. k \notin DOMAIN fileRows /\ \A v \in DOMAIN filing \ {w} : filing[v].key # k
  BY <1>0 DEF OwnKey
<1>1. FilesTypeOK'
  <2>1. DOMAIN objects' \subseteq StorageKeys /\ \A j \in DOMAIN objects' : objects'[j] \in ObjectSizes
    BY <1>0, <1>b DEF FilesTypeOK, Filing
  <2>2. DOMAIN filing' \subseteq Filers /\ \A v \in DOMAIN filing' : filing'[v] \in Filing
    BY <1>0 DEF FilesTypeOK, Filing
  <2>. QED  BY <1>0, <1>b, <2>1, <2>2 DEF FilesTypeOK
<1>2. FilesAreStored'
  BY <1>0, <1>b, <1>a DEF FilesAreStored, BeingDeleted, Filing
<1>3. Ready' /\ Emptied'
  BY <1>0, <1>b, <1>a DEF Ready, Emptied, Filing
<1>4. OwnKey' /\ Made'
  BY <1>0, <1>b DEF OwnKey, Made, Filing
<1>. QED  BY <1>1, <1>2, <1>3, <1>4

\* A row, if the key has none.
LEMMA InsertFileKeeps ==
  ASSUME FilesInv, NEW w \in DOMAIN filing, InsertFile(w)
  PROVE  FilesInv'
<1> DEFINE k == filing[w].key
<1> USE DEF FilesInv, HasRow, Stored
<1>0. /\ filing[w].at = "row" /\ filing[w] \in Filing
      /\ DOMAIN filing' = DOMAIN filing \ {w}
      /\ \A v \in DOMAIN filing' : filing'[v] = filing[v]
      /\ UNCHANGED <<objects, origin, again, torn>>
  BY DEF InsertFile, Finish, FilesTypeOK
<1>1. CASE k \in DOMAIN fileRows
  <2>1. fileRows' = fileRows
    BY <1>1 DEF InsertFile
  <2>2. FilesTypeOK'
    BY <1>0, <2>1 DEF FilesTypeOK
  <2>3. FilesAreStored'
    BY <1>0, <2>1 DEF FilesAreStored, BeingDeleted
  <2>4. Ready' /\ Emptied' /\ OwnKey' /\ Made'
    BY <1>0, <2>1 DEF Ready, Emptied, OwnKey, Made
  <2>. QED  BY <2>2, <2>3, <2>4
<1>2. CASE k \notin DOMAIN fileRows
  <2>1. /\ DOMAIN fileRows' = DOMAIN fileRows \cup {k}
        /\ fileRows'[k] = [status |-> "active", size |-> filing[w].size]
        /\ \A j \in DOMAIN fileRows : fileRows'[j] = fileRows[j]
    BY <1>2 DEF InsertFile, WriteRow
  <2>2. FilesTypeOK'
    BY <1>0, <2>1 DEF FilesTypeOK, FileRow, Filing
  <2>3. k \notin again => k \in DOMAIN objects /\ objects[k] = filing[w].size
    BY <1>0, <1>2 DEF Ready
  <2>4. FilesAreStored'
    BY <1>0, <2>1, <2>3 DEF FilesAreStored, BeingDeleted
  <2>5. Ready' /\ Emptied'
    BY <1>0, <2>1 DEF Ready, Emptied
  <2>6. OwnKey' /\ Made'
    BY <1>0, <2>1 DEF OwnKey, Made
  <2>. QED  BY <2>2, <2>4, <2>5, <2>6
<1>. QED  BY <1>1, <1>2

\* A key and its URL, and the end of that URL: only who has the key says "direct".
LEMMA OriginKeeps ==
  ASSUME FilesInv, NEW k \in StorageKeys,
         CreatePresignedUpload(k) \/ UrlExpires(k)
  PROVE  FilesInv'
<1> USE DEF FilesInv, HasRow, Stored
<1>1. /\ origin' = [origin EXCEPT ![k] = "url"] \/ origin' = [origin EXCEPT ![k] = "expired"]
      /\ origin[k] \in {"none", "url"}
      /\ UNCHANGED <<objects, fileRows, filing, again, torn>>
  BY DEF CreatePresignedUpload, UrlExpires
<1>2. FilesTypeOK'
  BY <1>1 DEF FilesTypeOK
<1>3. FilesAreStored' /\ Ready' /\ Emptied'
  BY <1>1 DEF FilesAreStored, BeingDeleted, Ready, Emptied
<1>4. OwnKey' /\ Made'
  BY <1>1 DEF OwnKey, Made, FilesTypeOK, Filing
<1>. QED  BY <1>2, <1>3, <1>4

\* An object by its URL: what was looked at before is remembered.
LEMMA PutByUrlKeeps ==
  ASSUME FilesInv, NEW k \in StorageKeys, NEW size \in ObjectSizes, PutByUrl(k, size)
  PROVE  FilesInv'
<1> USE DEF FilesInv, HasRow, Stored
<1>1. /\ origin[k] = "url"
      /\ DOMAIN objects' = DOMAIN objects \cup {k} /\ objects'[k] = size
      /\ \A j \in DOMAIN objects \ {k} : objects'[j] = objects[j]
      /\ UNCHANGED <<fileRows, origin, filing, torn>>
  BY DEF PutByUrl, PutInto
<1>2. /\ again \subseteq again' /\ again' \subseteq again \cup {k}
      /\ k \notin again' => /\ k \notin DOMAIN fileRows
                           /\ \A w \in DOMAIN filing : filing[w].key = k => filing[w].at # "row"
  BY DEF PutByUrl
<1>3. FilesTypeOK'
  BY <1>1, <1>2 DEF FilesTypeOK
<1>4. FilesAreStored'
  BY <1>1, <1>2 DEF FilesAreStored, BeingDeleted
<1>5. Ready' /\ Emptied'
  BY <1>1, <1>2 DEF Ready, Emptied
<1>6. OwnKey' /\ Made'
  BY <1>1 DEF OwnKey, Made
<1>. QED  BY <1>3, <1>4, <1>5, <1>6

\* A request begins that looks first, and whose key is no upload through the backend.
LEMMA BeginKeeps ==
  ASSUME FilesInv, NEW w \in Filers, NEW k \in StorageKeys, NEW size \in ObjectSizes,
         NEW at \in {"head", "object"}, Begin(w, k, at, size),
         origin[k] # "none", origin[k] # "direct" \/ HasRow(k), at = "object" => HasRow(k),
         UNCHANGED <<objects, fileRows, origin, again, torn>>
  PROVE  FilesInv'
<1> USE DEF FilesInv, HasRow, Stored
<1>1. /\ w \notin DOMAIN filing /\ DOMAIN filing' = DOMAIN filing \cup {w}
      /\ filing'[w] = [key |-> k, at |-> at, size |-> size]
      /\ \A v \in DOMAIN filing : filing'[v] = filing[v]
  BY DEF Begin
<1>2. FilesTypeOK'
  BY <1>1 DEF FilesTypeOK, Filing
<1>3. FilesAreStored'
  BY <1>1 DEF FilesAreStored, BeingDeleted
<1>4. Ready' /\ Emptied'
  BY <1>1 DEF Ready, Emptied
<1>5. OwnKey' /\ Made'
  BY <1>1 DEF OwnKey, Made
<1>. QED  BY <1>2, <1>3, <1>4, <1>5

\* The look at an object that was put by its URL.
LEMMA LookAtObjectKeeps ==
  ASSUME FilesInv, NEW w \in DOMAIN filing, LookAtObject(w), Goes(w, "row"),
         Stored(filing[w].key), objects[filing[w].key] = filing[w].size
  PROVE  FilesInv'
<1> USE DEF FilesInv, HasRow, Stored
<1>1. /\ filing[w].at = "head"
      /\ DOMAIN filing' = DOMAIN filing /\ filing'[w] \in Filing /\ filing'[w].at = "row"
      /\ filing'[w].key = filing[w].key /\ filing'[w].size = filing[w].size
      /\ \A v \in DOMAIN filing \ {w} : filing'[v] = filing[v]
      /\ UNCHANGED <<objects, fileRows, origin, again, torn>>
  BY GoesOn DEF LookAtObject
<1>2. FilesTypeOK'
  BY <1>1 DEF FilesTypeOK
<1>3. FilesAreStored'
  BY <1>1 DEF FilesAreStored, BeingDeleted
<1>4. Ready' /\ Emptied'
  BY <1>1 DEF Ready, Emptied
<1>5. OwnKey' /\ Made'
  BY <1>1 DEF OwnKey, Made
<1>. QED  BY <1>2, <1>3, <1>4, <1>5

\* A request ends and leaves the tables; a deletion that ends between object and row is
\* remembered.
LEMMA FinishKeeps ==
  ASSUME FilesInv, NEW w \in DOMAIN filing, Finish(w),
         torn' = IF filing[w].at = "status" THEN torn \cup {filing[w].key} ELSE torn,
         UNCHANGED <<objects, fileRows, origin, again>>
  PROVE  FilesInv'
<1> USE DEF FilesInv, HasRow, Stored
<1>1. /\ DOMAIN filing' = DOMAIN filing \ {w} /\ \A v \in DOMAIN filing' : filing'[v] = filing[v]
      /\ torn \subseteq torn' /\ torn' \subseteq StorageKeys
      /\ filing[w].at = "status" => filing[w].key \in torn'
  BY DEF Finish, FilesTypeOK, Filing
<1>2. FilesTypeOK'
  BY <1>1 DEF FilesTypeOK
<1>3. FilesAreStored'
  BY <1>1 DEF FilesAreStored, BeingDeleted
<1>4. Ready' /\ Emptied' /\ OwnKey' /\ Made'
  BY <1>1 DEF Ready, Emptied, OwnKey, Made
<1>. QED  BY <1>2, <1>3, <1>4

\* The object of a file that is being deleted.
LEMMA DeleteObjectKeeps ==
  ASSUME FilesInv, NEW w \in DOMAIN filing, DeleteObject(w)
  PROVE  FilesInv'
<1> DEFINE k == filing[w].key
<1> USE DEF FilesInv, HasRow, Stored
<1>1. /\ filing[w].at = "object"
      /\ DOMAIN filing' = DOMAIN filing /\ filing'[w] \in Filing /\ filing'[w].at = "status"
      /\ filing'[w].key = filing[w].key
      /\ \A v \in DOMAIN filing \ {w} : filing'[v] = filing[v]
  BY GoesOn DEF DeleteObject
<1>2. /\ DOMAIN objects' = DOMAIN objects \ {k} /\ \A j \in DOMAIN objects' : objects'[j] = objects[j]
      /\ UNCHANGED <<fileRows, origin, again, torn>>
  BY DEF DeleteObject
<1>3. k \in DOMAIN fileRows
  BY <1>1 DEF Emptied
<1>4. FilesTypeOK'
  BY <1>1, <1>2 DEF FilesTypeOK
<1>5. FilesAreStored'
  BY <1>1, <1>2 DEF FilesAreStored, BeingDeleted
<1>6. Ready' /\ Emptied'
  BY <1>1, <1>2, <1>3 DEF Ready, Emptied
<1>7. OwnKey' /\ Made'
  BY <1>1, <1>2 DEF OwnKey, Made
<1>. QED  BY <1>4, <1>5, <1>6, <1>7

\* The row of a file that is deleted: its object is gone.
LEMMA MarkDeletedKeeps ==
  ASSUME FilesInv, NEW w \in DOMAIN filing, MarkDeleted(w)
  PROVE  FilesInv'
<1> DEFINE k == filing[w].key
<1> USE DEF FilesInv, HasRow, Stored
<1>1. /\ filing[w].at = "status" /\ k \in DOMAIN fileRows
      /\ k \notin again => k \notin DOMAIN objects
  BY DEF MarkDeleted, Emptied
<1>2. PICK r \in FileRow : r = fileRows[k]
  BY <1>1 DEF FilesTypeOK
<1>3. /\ DOMAIN fileRows' = DOMAIN fileRows /\ fileRows'[k] = [r EXCEPT !.status = "deleted"]
      /\ \A j \in DOMAIN fileRows \ {k} : fileRows'[j] = fileRows[j]
      /\ DOMAIN filing' = DOMAIN filing \ {w} /\ \A v \in DOMAIN filing' : filing'[v] = filing[v]
      /\ torn' = torn \ {k}
      /\ UNCHANGED <<objects, origin, again>>
  BY <1>1, <1>2 DEF MarkDeleted, WriteRow, Finish
<1>4. fileRows'[k] \in FileRow /\ fileRows'[k].status = "deleted"
  BY <1>2, <1>3 DEF FileRow
<1>5. FilesTypeOK'
  BY <1>3, <1>4 DEF FilesTypeOK
<1>6. FilesAreStored'
  <2>1. ASSUME NEW j \in DOMAIN fileRows \ {k}, BeingDeleted(j) PROVE BeingDeleted(j)'
    <3>1. CASE j \in torn
      BY <1>3, <2>1, <3>1 DEF BeingDeleted
    <3>2. CASE j \notin torn
      <4>1. PICK v \in DOMAIN filing : filing[v].key = j /\ filing[v].at = "status"
        BY <2>1, <3>2 DEF BeingDeleted
      <4>2. v # w
        BY <2>1, <4>1
      <4>. QED  BY <1>3, <4>1, <4>2 DEF BeingDeleted
    <3>. QED  BY <3>1, <3>2
  <2>2. ASSUME NEW j \in DOMAIN fileRows \ {k}, j \notin again
        PROVE  /\ fileRows'[j].status = "active" =>
                    BeingDeleted(j)' \/ (j \in DOMAIN objects /\ objects[j] = fileRows'[j].size)
               /\ fileRows'[j].status = "deleted" => j \notin DOMAIN objects
    BY <1>3, <2>1, <2>2 DEF FilesAreStored
  <2>3. fileRows'[k].status # "active" /\ (k \notin again => k \notin DOMAIN objects)
    BY <1>1, <1>4
  <2>. QED  BY <1>3, <2>2, <2>3 DEF FilesAreStored
<1>7. Ready' /\ Emptied' /\ OwnKey' /\ Made'
  BY <1>3 DEF Ready, Emptied, OwnKey, Made
<1>. QED  BY <1>5, <1>6, <1>7

LEMMA FilesStepKeeps == FilesInv /\ [FilesNext]_filesVars => FilesInv'
<1> SUFFICES ASSUME FilesInv, [FilesNext]_filesVars PROVE FilesInv'
  OBVIOUS
<1>1. CASE UNCHANGED filesVars
  BY <1>1 DEF filesVars, FilesInv, FilesTypeOK, FilesAreStored, BeingDeleted, HasRow, Stored,
              Ready, Emptied, OwnKey, Made
<1>2. ASSUME NEW w \in Filers, NEW k \in StorageKeys, NEW size \in ObjectSizes,
             UploadFile(w, k, size)
      PROVE  FilesInv'
  BY <1>2, UploadFileKeeps
<1>3. ASSUME NEW w \in Filers, NEW k \in StorageKeys, NEW size \in ObjectSizes,
             CompletePresignedUpload(w, k, size)
      PROVE  FilesInv'
  <2>1. /\ Begin(w, k, "head", size) /\ origin[k] # "none" /\ origin[k] # "direct"
        /\ UNCHANGED <<objects, fileRows, origin, again, torn>>
    BY <1>3 DEF CompletePresignedUpload
  <2>. QED  BY <2>1, BeginKeeps
<1>4. ASSUME NEW w \in Filers, NEW k \in StorageKeys, SoftDelete(w, k)
      PROVE  FilesInv'
  <2>1. /\ HasRow(k) /\ Begin(w, k, "object", fileRows[k].size)
        /\ UNCHANGED <<objects, fileRows, origin, again, torn>>
    BY <1>4 DEF SoftDelete
  <2>2. fileRows[k].size \in ObjectSizes /\ origin[k] # "none"
    BY <2>1 DEF FilesInv, FilesTypeOK, FileRow, Made, HasRow
  <2>. QED  BY <2>1, <2>2, BeginKeeps
<1>5. ASSUME NEW w \in DOMAIN filing, SendObject(w) PROVE FilesInv'
  BY <1>5, SendObjectKeeps
<1>6. ASSUME NEW w \in DOMAIN filing, InsertFile(w) PROVE FilesInv'
  BY <1>6, InsertFileKeeps
<1>7. ASSUME NEW w \in DOMAIN filing, LookAtObject(w) PROVE FilesInv'
  <2>1. CASE Stored(filing[w].key) /\ objects[filing[w].key] = filing[w].size
    BY <1>7, <2>1, LookAtObjectKeeps DEF LookAtObject
  <2>2. CASE ~(Stored(filing[w].key) /\ objects[filing[w].key] = filing[w].size)
    <3>1. /\ Finish(w) /\ filing[w].at # "status" /\ torn' = torn
          /\ UNCHANGED <<objects, fileRows, origin, again>>
      BY <1>7, <2>2 DEF LookAtObject
    <3>. QED  BY <3>1, FinishKeeps
  <2>. QED  BY <2>1, <2>2
<1>8. ASSUME NEW w \in DOMAIN filing, DeleteObject(w) PROVE FilesInv'
  BY <1>8, DeleteObjectKeeps
<1>9. ASSUME NEW w \in DOMAIN filing, MarkDeleted(w) PROVE FilesInv'
  BY <1>9, MarkDeletedKeeps
<1>10. ASSUME NEW w \in DOMAIN filing, FilingFails(w) PROVE FilesInv'
  BY <1>10, FinishKeeps DEF FilingFails
<1>11. ASSUME NEW k \in StorageKeys, CreatePresignedUpload(k) \/ UrlExpires(k) PROVE FilesInv'
  BY <1>11, OriginKeeps
<1>12. ASSUME NEW k \in StorageKeys, NEW size \in ObjectSizes, PutByUrl(k, size) PROVE FilesInv'
  BY <1>12, PutByUrlKeeps
<1>. QED
  BY <1>1, <1>2, <1>3, <1>4, <1>5, <1>6, <1>7, <1>8, <1>9, <1>10, <1>11, <1>12 DEF FilesNext

\* uploadFile, completePresignedUpload, softDelete: for any number of keys, sizes and requests
\* that overlap and fail between any two calls, an active file has its object and a deleted one
\* has none, unless its URL was used after the object was looked at.
THEOREM RowAndObjectAgree == FilesSpec => []FilesAreStored
<1>1. FilesInv => FilesAreStored
  BY DEF FilesInv
<1>. QED  BY FilesInitially, FilesStepKeeps, <1>1, PTL DEF FilesSpec

-----------------------------------------------------------------------------
(* The types of the services: what their invariants say already, and the   *)
(* bounds.                                                                 *)

LEMMA TemplatesTypes == TemplatesSpec => []TemplatesTypeOK
<1>. DEFINE More == Editing \subseteq Editors /\ newest \in 0..MaxUpdates
<1>1. TemplatesInit => More
  BY TemplatesAssumption DEF TemplatesInit, Editing
<1>2. TemplateInv /\ More /\ [TemplatesNext]_templating => More'
  <2> SUFFICES ASSUME TemplateInv, More, [TemplatesNext]_templating PROVE More'
    OBVIOUS
  <2>1. CASE UNCHANGED templating
    BY <2>1 DEF templating, Editing
  <2>2. ASSUME NEW p \in Editors,
               \/ \E offered \in BOOLEAN, staging \in Stagings : UpdateTemplate(p, offered, staging)
               \/ DeleteTemplate(p)
        PROVE  More'
    BY <2>2 DEF UpdateTemplate, DeleteTemplate, Editing
  <2>3. ASSUME NEW p \in Editing,
               SaveTemplate(p) \/ DeleteStages(p) \/ RefuseStages(p) \/ InsertStages(p) \/ BreakEdit(p)
        PROVE  More'
    <3>1. PICK row \in EditRow : row = edits[p]
      BY DEF TemplateInv, TemplateShape
    <3>2. row.nr \in 0..MaxUpdates
      BY TemplatesAssumption DEF EditRow
    <3>3. DOMAIN edits' \subseteq DOMAIN edits
      BY <2>3 DEF SaveTemplate, DeleteStages, RefuseStages, InsertStages, BreakEdit, EndEdit, Editing
    <3>4. newest' = newest \/ newest' = row.nr
      BY <2>3, <3>1 DEF SaveTemplate, DeleteStages, RefuseStages, InsertStages, BreakEdit
    <3>. QED  BY <3>2, <3>3, <3>4 DEF Editing
  <2>. QED  BY <2>1, <2>2, <2>3 DEF TemplatesNext
<1>3. TemplateInv /\ More => TemplatesTypeOK
  BY DEF TemplateInv, TemplateShape, EditRow, TemplatesTypeOK
<1>. QED  BY <1>1, <1>2, <1>3, TemplatesInitially, TemplatesStepKeeps, PTL DEF TemplatesSpec

LEMMA FilesTypes == FilesSpec => []FilesTypeOK
<1>1. FilesInv => FilesTypeOK
  BY DEF FilesInv
<1>. QED  BY <1>1, FilesInitially, FilesStepKeeps, PTL DEF FilesSpec

LEMMA ChatTypes == ChatSpec => []ChatTypeOK
<1>. DEFINE More == /\ \A t \in Tabs : overtaken[t] \subseteq DOMAIN saved
                    /\ changes \in 0..MaxChanges
<1>1. ChatInit => More
  BY ChatAssumption DEF ChatInit
<1>2. ChatInv /\ More /\ [ChatNext]_chatVars => More'
  <2> SUFFICES ASSUME ChatInv, More, [ChatNext]_chatVars PROVE More'
    OBVIOUS
  <2>1. /\ overtaken \in [Tabs -> SUBSET Nat] /\ sending \subseteq DOMAIN saved /\ saved \in Seq(Rooms)
        /\ MaxChanges \in Nat /\ changes \in Nat
    BY ChatAssumption DEF ChatInv, ChatShape
  <2>2. DOMAIN saved \subseteq DOMAIN saved'
    <3>1. ASSUME NEW r \in Rooms, SaveMessage(r) PROVE DOMAIN saved \subseteq DOMAIN saved'
      BY <2>1, <3>1, AppendProperties DEF SaveMessage
    <3>2. saved' = saved \/ \E r \in Rooms : SaveMessage(r)
      BY Zenon DEF ChatNext, EmitMessage, ConnectChat, JoinRoom, ReadHistory, SendHistory, SeePacket,
                   LoseConnection, ChangeRoom, RestartChat, chatVars
    <3>. QED  BY <3>1, <3>2
  <2>3. changes' \in 0..MaxChanges
    <3>1. changes' = changes \/ (changes < MaxChanges /\ changes' = changes + 1)
      BY Zenon DEF ChatNext, SaveMessage, EmitMessage, ConnectChat, JoinRoom, ReadHistory, SendHistory,
                   SeePacket, LoseConnection, ChangeRoom, RestartChat, Change, chatVars
    <3>. QED  BY <2>1, <3>1
  <2>4. ASSUME NEW t \in Tabs PROVE overtaken'[t] \subseteq DOMAIN saved'
    <3>1. \/ overtaken' = overtaken \/ \E gone \in SUBSET Tabs : Unplug(gone)
          \/ \E m \in sending : EmitMessage(m)
      <4>1. ASSUME NEW u \in Tabs PROVE {u} \in SUBSET Tabs
        OBVIOUS
      <4>2. Tabs \in SUBSET Tabs
        OBVIOUS
      <4>. QED
        BY <4>1, <4>2, Zenon DEF ChatNext, SaveMessage, ConnectChat, JoinRoom, ReadHistory, SendHistory,
              SeePacket, LoseConnection, ChangeRoom, RestartChat, chatVars, tabVars
    <3>2. ASSUME NEW gone \in SUBSET Tabs, Unplug(gone) PROVE overtaken'[t] \subseteq overtaken[t]
      BY <3>2 DEF Unplug
    <3>3. ASSUME NEW m \in sending, EmitMessage(m) PROVE overtaken'[t] \subseteq overtaken[t] \cup {m}
      BY <3>3 DEF EmitMessage
    <3>. QED  BY <2>1, <2>2, <3>1, <3>2, <3>3
  <2>. QED  BY <2>3, <2>4
<1>3. ChatInv /\ More => ChatTypeOK
  <2> SUFFICES ASSUME ChatInv, More PROVE ChatTypeOK
    OBVIOUS
  <2>1. ASSUME NEW t \in Tabs
        PROVE  /\ Range(listed[t]) \subseteq DOMAIN saved /\ Range(reading[t]) \subseteq DOMAIN saved
               /\ \A i \in DOMAIN wire[t] : wire[t][i].kind \in {"joined", "message", "history"}
    <3>1. PICK r, list, history : /\ list = listed[t] /\ history = reading[t]
                                  /\ OfRoom(list, r) /\ OfRoom(history, r)
      BY DEF ChatInv, TabInv, TabFits
    <3>2. PICK w : w = wire[t] /\ w \in Seq(PacketRow)
      BY DEF ChatInv, ChatShape
    <3>3. \A i \in DOMAIN w : w[i] \in PacketRow
      BY <3>2
    <3>. QED  BY <3>1, <3>2, <3>3 DEF OfRoom, Range, PacketRow
  <2>. QED  BY <2>1 DEF ChatInv, ChatShape, Links, ChatTypeOK
<1>. QED  BY <1>1, <1>2, <1>3, ChatInitially, ChatStepKeeps, PTL DEF ChatSpec

\* The scans that have not met another one yet are paid for: a request that started one was
\* counted, and it counts as met at most once.
Unmet == {q \in Scanning : scans[q].by = "request" /\ ~scans[q].met}

AlertBounds ==
  /\ open \subseteq Stages /\ now \in 0..MaxNow
  /\ \A p \in Scanning : scans[p].todo \subseteq Alert /\ scans[p].missing \subseteq Alert
  /\ used \in [asked : 0..MaxAsked, reads : 0..MaxReads, lost : 0..MaxLost]
  /\ met + Cardinality(Unmet) <= used.asked

LEMMA UnmetIs ==
  ASSUME AlertInv
  PROVE  /\ Cardinality(Unmet) \in Nat /\ met \in Nat
         /\ \A some \in SUBSET Unmet : Cardinality(some) <= Cardinality(Unmet)
BY ScansAreFinite DEF Unmet, AlertInv, AlertShape

LEMMA StartingBounds ==
  ASSUME AlertInv, AlertBounds, NEW p \in Scans, NEW by \in {"cron", "request"}, StartScan(p, by),
         UNCHANGED <<open, now>>,
         used'.asked >= used.asked + (IF by = "request" THEN 1 ELSE 0),
         used' \in [asked : 0..MaxAsked, reads : 0..MaxReads, lost : 0..MaxLost]
  PROVE  AlertBounds'
<1> DEFINE scan == [by |-> by, todo |-> Called, missing |-> {}, met |-> Scanning # {}]
<1>1. /\ p \notin Scanning
      /\ scans' = [q \in Scanning \cup {p} |-> IF q = p THEN scan ELSE [scans[q] EXCEPT !.met = TRUE]]
      /\ met' = met + Cardinality(Unmet) + (IF by = "request" /\ Scanning # {} THEN 1 ELSE 0)
  BY DEF StartScan, Unmet
<1>2. Scanning' = Scanning \cup {p} /\ scans'[p] = scan
  BY <1>1 DEF Scanning
<1>3. scan.by = by /\ scan.missing = {} /\ scan.todo \subseteq Alert /\ (scan.met <=> Scanning # {})
  BY DEF Called
<1> HIDE DEF scan
<1>4. ASSUME NEW q \in Scanning
      PROVE  scans'[q].met /\ scans'[q].todo = scans[q].todo /\ scans'[q].missing = scans[q].missing
  <2>1. PICK old : old = scans[q] /\ ScanShape(old)
    BY DEF AlertInv, AlertShape
  <2>2. scans'[q] = [old EXCEPT !.met = TRUE]
    BY <1>1, <2>1
  <2>. QED  BY <2>1, <2>2 DEF ScanShape
<1>5. Unmet' = IF by = "request" /\ Scanning = {} THEN {p} ELSE {}
  BY <1>2, <1>3, <1>4 DEF Unmet
<1>6. Cardinality(Unmet') = IF by = "request" /\ Scanning = {} THEN 1 ELSE 0
  BY <1>5, FS_EmptySet, FS_Singleton
<1>7. Cardinality(Unmet) \in Nat /\ met \in Nat /\ used.asked \in Nat
      /\ met + Cardinality(Unmet) <= used.asked
  BY UnmetIs, AlertsAssumption DEF AlertBounds
<1>8. used'.asked \in Nat
  BY AlertsAssumption
<1>9. met' + Cardinality(Unmet') <= used'.asked
  BY <1>1, <1>6, <1>7, <1>8
<1>10. \A q \in Scanning' : scans'[q].todo \subseteq Alert /\ scans'[q].missing \subseteq Alert
  BY <1>2, <1>3, <1>4 DEF AlertBounds
<1>. QED  BY <1>9, <1>10 DEF AlertBounds

LEMMA ScanningBounds ==
  ASSUME AlertInv, AlertBounds, NEW p \in Scanning, LookForAlert(p) \/ InsertAlert(p)
  PROVE  AlertBounds'
<1>0. PICK scan : scan = scans[p] /\ ScanShape(scan) /\ scan.todo \subseteq Alert /\ scan.missing \subseteq Alert
  BY DEF AlertInv, AlertShape, AlertBounds
<1>1. PICK next :
        /\ scans' = [scans EXCEPT ![p] = next]
        /\ next.by = scan.by /\ next.met = scan.met
        /\ next.todo \subseteq Alert /\ next.missing \subseteq Alert
  <2>1. ASSUME LookForAlert(p)
        PROVE  \E a \in scan.todo :
                 scans' = [scans EXCEPT ![p] = [scan EXCEPT !.todo = @ \ {a},
                                                            !.missing = IF Told(a) THEN {} ELSE {a}]]
    BY <1>0, <2>1 DEF LookForAlert
  <2>2. ASSUME InsertAlert(p) PROVE scans' = [scans EXCEPT ![p] = [scan EXCEPT !.missing = {}]]
    BY <1>0, <2>2 DEF InsertAlert
  <2>3. ASSUME NEW a \in scan.todo
        PROVE  LET next == [scan EXCEPT !.todo = @ \ {a}, !.missing = IF Told(a) THEN {} ELSE {a}]
               IN /\ next.by = scan.by /\ next.met = scan.met
                  /\ next.todo \subseteq Alert /\ next.missing \subseteq Alert
    BY <1>0 DEF ScanShape
  <2>4. LET next == [scan EXCEPT !.missing = {}]
        IN /\ next.by = scan.by /\ next.met = scan.met
           /\ next.todo \subseteq Alert /\ next.missing \subseteq Alert
    BY <1>0 DEF ScanShape
  <2>. QED  BY <2>1, <2>2, <2>3, <2>4
<1>2. Scanning' = Scanning /\ scans'[p] = next /\ \A q \in Scanning \ {p} : scans'[q] = scans[q]
  BY <1>1 DEF Scanning
<1>3. Unmet' = Unmet
  BY <1>0, <1>1, <1>2 DEF Unmet
<1>4. UNCHANGED <<open, now, met, used>>
  BY DEF LookForAlert, InsertAlert
<1>5. \A q \in Scanning' : scans'[q].todo \subseteq Alert /\ scans'[q].missing \subseteq Alert
  BY <1>1, <1>2 DEF AlertBounds
<1>. QED  BY <1>3, <1>4, <1>5 DEF AlertBounds

LEMMA EndingBounds ==
  ASSUME AlertInv, AlertBounds, NEW p \in Scanning, WithoutScan(p), UNCHANGED <<open, now, met>>,
         used' \in [asked : {used.asked}, reads : 0..MaxReads, lost : 0..MaxLost]
  PROVE  AlertBounds'
<1>1. Scanning' = Scanning \ {p} /\ \A q \in Scanning' : scans'[q] = scans[q]
  BY DEF WithoutScan, Scanning
<1>2. Unmet' \in SUBSET Unmet
  BY <1>1 DEF Unmet
<1>3. Cardinality(Unmet') <= Cardinality(Unmet) /\ Cardinality(Unmet') \in Nat
  BY <1>2, ScansAreFinite DEF Unmet, AlertInv
<1>4. used'.asked = used.asked /\ used.asked \in 0..MaxAsked
  BY DEF AlertBounds
<1>5. met + Cardinality(Unmet') <= used'.asked
  BY <1>3, <1>4, UnmetIs, AlertsAssumption DEF AlertBounds
<1>6. used' \in [asked : 0..MaxAsked, reads : 0..MaxReads, lost : 0..MaxLost]
  BY <1>4
<1>. QED  BY <1>1, <1>5, <1>6 DEF AlertBounds

LEMMA AlertsTypes == AlertsInit /\ [][AlertsNext]_alerting => []AlertsTypeOK
<1>1. AlertsInit => AlertBounds
  <2> SUFFICES ASSUME AlertsInit PROVE AlertBounds
    OBVIOUS
  <2>1. Scanning = {} /\ Unmet = {} /\ Cardinality(Unmet) = 0
    BY FS_EmptySet DEF AlertsInit, Scanning, Unmet
  <2>. QED  BY <2>1, AlertsAssumption DEF AlertsInit, AlertBounds
<1>2. AlertInv /\ AlertBounds /\ [AlertsNext]_alerting => AlertBounds'
  <2> SUFFICES ASSUME AlertInv, AlertBounds, [AlertsNext]_alerting PROVE AlertBounds'
    OBVIOUS
  <2>1. /\ used \in [asked : 0..MaxAsked, reads : 0..MaxReads, lost : 0..MaxLost]
        /\ MaxAsked \in Nat /\ MaxReads \in Nat /\ MaxLost \in Nat /\ MaxNow \in Nat
    BY AlertsAssumption DEF AlertBounds
  <2>2. ASSUME NEW p \in Scans, Tick(p) PROVE AlertBounds'
    BY <2>1, <2>2, StartingBounds DEF Tick
  <2>3. ASSUME NEW p \in Scans, AskForScan(p) PROVE AlertBounds'
    BY <2>1, <2>3, StartingBounds DEF AskForScan
  <2>4. ASSUME NEW p \in Scanning, FinishScan(p) \/ LoseScan(p) PROVE AlertBounds'
    <3>1. /\ WithoutScan(p) /\ UNCHANGED <<open, now, met>>
          /\ used' = used \/ (used.lost < MaxLost /\ used' = [used EXCEPT !.lost = @ + 1])
      BY <2>4 DEF FinishScan, LoseScan
    <3>2. used' \in [asked : {used.asked}, reads : 0..MaxReads, lost : 0..MaxLost]
      BY <2>1, <3>1
    <3>. QED  BY <3>1, <3>2, EndingBounds
  <2>5. ASSUME UNCHANGED scans,
               UNCHANGED met, open' \subseteq open, now' \in 0..MaxNow,
               used' \in [asked : {used.asked}, reads : 0..MaxReads, lost : 0..MaxLost]
        PROVE  AlertBounds'
    <3>1. Unmet' = Unmet /\ Scanning' = Scanning
      BY <2>5 DEF Unmet, Scanning
    <3>2. used'.asked = used.asked /\ used' \in [asked : 0..MaxAsked, reads : 0..MaxReads, lost : 0..MaxLost]
      BY <2>1, <2>5
    <3>. QED  BY <2>5, <3>1, <3>2 DEF AlertBounds
  <2>6. ASSUME NEW a \in Alert, Acknowledge(a) PROVE AlertBounds'
    BY <2>1, <2>5, <2>6 DEF Acknowledge, AlertBounds
  <2>7. ASSUME (\E s \in Stages : DecideStage(s)) \/ HourPasses \/ UNCHANGED alerting PROVE AlertBounds'
    BY <2>1, <2>5, <2>7 DEF DecideStage, HourPasses, AlertBounds, alerting
  <2>. QED  BY <2>2, <2>3, <2>4, <2>6, <2>7, ScanningBounds DEF AlertsNext
<1>3. AlertInv /\ AlertBounds => AlertsTypeOK
  <2> SUFFICES ASSUME AlertInv, AlertBounds PROVE AlertsTypeOK
    OBVIOUS
  <2>1. met \in 0..MaxAsked
    <3>1. used.asked \in 0..MaxAsked /\ met + Cardinality(Unmet) <= used.asked
      BY DEF AlertBounds
    <3>. QED  BY <3>1, UnmetIs, AlertsAssumption
  <2>. QED  BY <2>1 DEF AlertInv, AlertShape, ScanShape, AlertBounds, AlertsTypeOK
<1>. QED  BY <1>1, <1>2, <1>3, AlertsInitially, AlertsStepKeeps, PTL

\* The calls and the bounds.
ImportBounds ==
  /\ Len(sessions) <= MaxDryRuns /\ Running \subseteq Runs
  /\ left \in [calls : 0..MaxCalls, troubles : 0..MaxTroubles]

LEMMA ImportTypes == ImportSpec => []ImportTypeOK
<1>1. ImportInit => ImportBounds
  BY BulkImportAssumption DEF ImportInit, ImportBounds, Running
<1>2. ImportInv /\ ImportBounds /\ [ImportNext]_import => ImportBounds'
  <2> SUFFICES ASSUME ImportInv, ImportBounds, [ImportNext]_import PROVE ImportBounds'
    OBVIOUS
  <2>0. MaxDryRuns \in Nat /\ MaxCalls \in Nat /\ MaxTroubles \in Nat /\ sessions \in Seq(Session)
    BY BulkImportAssumption DEF ImportInv, ImportShape
  <2>1. Len(sessions') <= MaxDryRuns
    <3>1. CASE Len(sessions') = Len(sessions)
      BY <3>1 DEF ImportBounds
    <3>2. CASE DryRun
      <4>1. PICK new : sessions' = Append(sessions, new) /\ Len(sessions) < MaxDryRuns
        BY <3>2 DEF DryRun
      <4>. QED  BY <2>0, <4>1
    <3>3. ASSUME NEW s \in DOMAIN sessions, SessionEnds(s) PROVE Len(sessions') = Len(sessions)
      BY <2>0, <3>3 DEF SessionEnds
    <3>4. ASSUME NEW r \in Running, Store(r) PROVE Len(sessions') = Len(sessions)
      BY <2>0, <3>4 DEF Store
    <3>5. \/ UNCHANGED sessions \/ DryRun \/ (\E s \in DOMAIN sessions : SessionEnds(s))
          \/ \E r \in Running : Store(r)
      BY DEF import, ImportNext, Step, ResultDrops, Call, ReadSession, Lookup, ReadIndex, ReadPlaces,
             SaveRow, Audit, RowFails, CallFails, Crash, Administer, RemovePlace
    <3>. QED  BY <3>1, <3>2, <3>3, <3>4, <3>5
  <2>2. Running' \subseteq Runs
    <3>1. ASSUME NEW r, r \in Running, Step(r) PROVE Running' \subseteq Running
      <4>1. CASE \E run : SetRun(r, run)
        BY <3>1, <4>1, SetRunIs
      <4>2. CASE DropRuns({r})
        BY <4>2, DropRunsIs
      <4>3. CASE SaveRow(r)
        <5>1. Running' = Running \/ \E run : SetRun(r, run)
          BY <4>3 DEF SaveRow, Disturbed, Running
        <5>. QED  BY <4>1, <5>1
      <4>. QED
        BY <3>1, <4>1, <4>2, <4>3
           DEF Step, ReadSession, Lookup, ReadIndex, ReadPlaces, Audit, RowFails, Store, CallFails
    <3>2. ASSUME NEW r \in Runs, NEW k, NEW s, Call(r, k, s) PROVE Running' \subseteq Runs
      <4>1. Running' = Running \cup {r}
        BY <3>2 DEF Call, SetRun, Running
      <4>. QED  BY <4>1 DEF ImportBounds
    <3>3. \/ Running' \subseteq Running
          \/ (\E r \in Running : Step(r)) \/ (\E r \in Runs, k \in Keys, s \in DOMAIN sessions : Call(r, k, s))
      BY DropRunsIs DEF import, ImportNext, DryRun, SessionEnds, ResultDrops, HeldUp, Crash, Administer,
             RemovePlace, Disturbed, Running
    <3>. QED  BY <3>1, <3>2, <3>3 DEF ImportBounds
  <2>3. left' \in [calls : 0..MaxCalls, troubles : 0..MaxTroubles]
    <3>1. PICK old \in [calls : 0..MaxCalls, troubles : 0..MaxTroubles] : old = left
      BY DEF ImportBounds
    <3>2. \/ left' = left
          \/ old.calls > 0 /\ left' = [old EXCEPT !.calls = old.calls - 1]
          \/ old.troubles > 0 /\ left' = [old EXCEPT !.troubles = old.troubles - 1]
      BY <3>1 DEF import, ImportNext, Step, DryRun, SessionEnds, ResultDrops, Call, ReadSession, Lookup,
                  ReadIndex, ReadPlaces, SaveRow, Audit, RowFails, Store, CallFails, Crash, Administer,
                  RemovePlace
    <3>3. old.calls \in 0..MaxCalls /\ old.troubles \in 0..MaxTroubles
      OBVIOUS
    <3>4. old.calls > 0 => old.calls - 1 \in 0..MaxCalls
      BY <2>0, <3>3
    <3>5. old.troubles > 0 => old.troubles - 1 \in 0..MaxTroubles
      BY <2>0, <3>3
    <3>. QED  BY <3>1, <3>2, <3>4, <3>5
  <2>. QED  BY <2>1, <2>2, <2>3 DEF ImportBounds
<1>3. ImportInv /\ ImportBounds => ImportTypeOK
  <2> SUFFICES ASSUME ImportInv, ImportBounds PROVE ImportTypeOK
    OBVIOUS
  <2>1. ASSUME NEW r \in Running PROVE runs[r] \in RunRecord /\ InFile(runs[r])
    BY DEF ImportInv, RunOk
  <2>. QED  BY <2>1 DEF ImportInv, ImportShape, ImportBounds, ImportTypeOK, RunRecord, InFile
<1>. QED  BY ImportInitially, ImportStepKeeps, <1>1, <1>2, <1>3, PTL DEF ImportSpec

\* A request of a chain of refreshes is no deeper than the limiter has counted, which refuses
\* the refresh after the last one it allows.
Fits(r, ids, counted) ==
  /\ r \in Request /\ r.got <= ids
  /\ r.at = "api" => r.depth = 0
  /\ r.at = "limit" => r.depth <= counted + 1 /\ r.depth <= refreshMaxAttempts + 1
  /\ r.at \notin {"api", "limit"} => r.depth <= counted /\ r.depth <= refreshMaxAttempts

Spent == [bad : 0..MaxBad, expiries : 0..MaxExpiries, windows : 0..MaxWindows]

\* The state but for the requests.
TokensFit ==
  /\ active \in BOOLEAN
  /\ stored \in 0..issued /\ cookie \in 0..issued /\ access \in 0..issued /\ expired \in 0..issued
  /\ issued \in Nat /\ attempts \in Nat
  /\ page \in {"app", "loading", "signin"} /\ spent \in Spent

SessionBounds ==
  /\ TokensFit
  /\ InFlight \subseteq Requests /\ \A c \in InFlight : Fits(requests[c], issued, attempts)

LEMMA MoreCounted ==
  ASSUME NEW ids \in Nat, NEW counted \in Nat, NEW more \in Nat, NEW larger \in Nat,
         ids <= more, counted <= larger, NEW r, Fits(r, ids, counted)
  PROVE  Fits(r, more, larger)
<1>1. r \in Request /\ r.got \in Nat /\ r.depth \in Nat
  BY DEF Fits, Request
<1>. QED  BY <1>1 DEF Fits

LEMMA WithFits ==
  ASSUME NEW ids \in Nat, NEW counted \in Nat, InFlight \subseteq Requests,
         \A d \in InFlight : Fits(requests[d], ids, counted),
         NEW c \in Requests, NEW r, Fits(r, ids, counted), With(c, r)
  PROVE  InFlight' \subseteq Requests /\ \A d \in InFlight' : Fits(requests'[d], ids, counted)
<1>1. /\ InFlight' = InFlight \cup {c} /\ requests'[c] = r
      /\ \A d \in InFlight \ {c} : requests'[d] = requests[d]
  BY WithIs
<1>. QED  BY <1>1

LEMMA RejectFits ==
  ASSUME NEW ids \in Nat, NEW counted \in Nat, InFlight \subseteq Requests,
         \A d \in InFlight : Fits(requests[d], ids, counted),
         NEW c \in InFlight, Reject(c) \/ Settle(c) \/ requests' = Orphans({})
  PROVE  InFlight' \subseteq Requests /\ \A d \in InFlight' : Fits(requests'[d], ids, counted)
<1>1. ASSUME Settle(c)
      PROVE  InFlight' \subseteq Requests /\ \A d \in InFlight' : Fits(requests'[d], ids, counted)
  BY <1>1, SettleIs
<1>2. ASSUME NEW gone, requests' = Orphans(gone)
      PROVE  InFlight' \subseteq Requests /\ \A d \in InFlight' : Fits(requests'[d], ids, counted)
  <2>1. InFlight' = {d \in InFlight \ gone : requests[d].at # "api"}
    BY <1>2 DEF Orphans, InFlight
  <2>2. ASSUME NEW d \in InFlight' PROVE Fits(requests'[d], ids, counted)
    <3>1. PICK r : r = requests[d] /\ Fits(r, ids, counted)
      BY <2>1
    <3>2. requests'[d] = [r EXCEPT !.kind = "orphan"]
      BY <1>2, <2>1, <3>1 DEF Orphans, InFlight
    <3>. QED  BY <3>1, <3>2 DEF Fits, Request
  <2>. QED  BY <2>1, <2>2
<1>. QED  BY <1>1, <1>2 DEF Reject

\* The next refresh of a chain, and the ones before.
LEMMA RefreshFits ==
  ASSUME TokensFit, NEW r, Fits(r, issued, attempts), NEW depth \in Nat, depth <= attempts + 1,
         depth <= refreshMaxAttempts + 1
  PROVE  /\ Fits(Refresh(r, depth, TRUE), issued, attempts)
         /\ Fits(Refresh(r, depth, FALSE), issued, attempts)
<1>1. cookie \in Nat
  BY DEF TokensFit
<1>2. ASSUME NEW retried \in BOOLEAN, NEW next,
             next = [r EXCEPT !.at = "limit", !.depth = depth, !.retried = retried, !.sent = cookie]
      PROVE  Fits(next, issued, attempts)
  <2>1. next \in Request /\ next.got = r.got /\ next.at = "limit" /\ next.depth = depth
    BY <1>1, <1>2 DEF Fits, Request, ServerStages
  <2>. QED  BY <2>1 DEF Fits
<1>. QED  BY <1>2 DEF Refresh

LEMMA UnauthorizedFits ==
  ASSUME SessionBounds, NEW c \in InFlight, requests[c].at \in {"api", "user", "validate"}, Unauthorized(c)
  PROVE  /\ InFlight' \subseteq Requests /\ \A d \in InFlight' : Fits(requests'[d], issued, attempts)
         /\ access' \in {0, access} /\ page' \in {"app", "loading", "signin"}
<1>0. /\ issued \in Nat /\ attempts \in Nat /\ page \in {"app", "loading", "signin"}
      /\ refreshMaxAttempts \in Nat
  BY SessionsAssumption DEF SessionBounds, TokensFit
<1>1. PICK r : r = requests[c] /\ Fits(r, issued, attempts)
  BY DEF SessionBounds
<1>2. r.depth \in Nat /\ r.depth <= attempts /\ r.depth <= refreshMaxAttempts
  BY <1>0, <1>1 DEF Fits, Request
<1>3. CASE With(c, Refresh(r, Deeper(r.depth), FALSE)) /\ UNCHANGED <<access, page>>
  <2>1. Deeper(r.depth) = r.depth + 1
    BY <1>0, <1>2 DEF Deeper
  <2>2. r.depth + 1 \in Nat /\ r.depth + 1 <= attempts + 1 /\ r.depth + 1 <= refreshMaxAttempts + 1
    BY <1>0, <1>2
  <2>3. Fits(Refresh(r, r.depth + 1, FALSE), issued, attempts)
    BY <1>1, <2>2, RefreshFits, Zenon DEF SessionBounds
  <2>. QED  BY <1>0, <1>3, <2>1, <2>3, WithFits DEF SessionBounds
<1>4. CASE Reject(c)
  <2>1. access' \in {0, access} /\ page' \in {"app", "loading", "signin"}
    BY <1>0, <1>4 DEF Reject
  <2>. QED  BY <1>0, <1>4, <2>1, RejectFits DEF SessionBounds
<1>. QED  BY <1>1, <1>3, <1>4 DEF Unauthorized

\* What the tab does with a request.
LEMMA TabBounds ==
  ASSUME SessionBounds, NEW c \in InFlight, AnswerApi(c) \/ Reply(c) \/ LoseReply(c)
  PROVE  SessionBounds'
<1>0. /\ issued \in Nat /\ attempts \in Nat /\ page \in {"app", "loading", "signin"}
      /\ refreshMaxAttempts \in Nat /\ spent \in Spent /\ MaxBad \in Nat
      /\ stored \in 0..issued /\ cookie \in 0..issued /\ access \in 0..issued /\ expired \in 0..issued
      /\ InFlight \subseteq Requests /\ c \in Requests
  BY SessionsAssumption DEF SessionBounds, TokensFit
<1>1. PICK r : r = requests[c] /\ Fits(r, issued, attempts)
  BY DEF SessionBounds
<1>2. r \in Request /\ r.depth \in Nat /\ r.got \in Nat
  BY <1>1 DEF Fits, Request
<1>3. CASE AnswerApi(c)
  <2>1. UNCHANGED <<active, stored, issued, expired, attempts, cookie, spent>> /\ requests[c].at = "api"
    BY <1>3 DEF AnswerApi
  <2>2. \/ Settle(c) /\ UNCHANGED <<access, page>>
        \/ Unauthorized(c)
    BY <1>3 DEF AnswerApi
  <2>3. /\ InFlight' \subseteq Requests /\ \A d \in InFlight' : Fits(requests'[d], issued, attempts)
        /\ access' \in {0, access} /\ page' \in {"app", "loading", "signin"}
    BY <1>0, <2>1, <2>2, UnauthorizedFits, RejectFits DEF SessionBounds
  <2>. QED  BY <1>0, <2>1, <2>3 DEF SessionBounds, TokensFit
<1>4. CASE LoseReply(c)
  <2>1. /\ UNCHANGED <<active, stored, issued, expired, attempts, cookie>> /\ Reject(c)
        /\ spent.bad < MaxBad /\ spent' = [spent EXCEPT !.bad = @ + 1]
    BY <1>4 DEF LoseReply
  <2>2. spent' \in Spent
    BY <1>0, <2>1 DEF Spent
  <2>3. access' \in {0, access} /\ page' \in {"app", "loading", "signin"}
    BY <1>0, <2>1 DEF Reject
  <2>4. InFlight' \subseteq Requests /\ \A d \in InFlight' : Fits(requests'[d], issued, attempts)
    BY <1>0, <2>1, RejectFits DEF SessionBounds
  <2>. QED  BY <1>0, <2>1, <2>2, <2>3, <2>4 DEF SessionBounds, TokensFit
<1>5. CASE Reply(c)
  <2>1. UNCHANGED <<active, stored, issued, expired, attempts, spent>> /\ r.at = "reply"
    BY <1>1, <1>5 DEF Reply
  <2>2. r.depth <= attempts /\ r.depth <= refreshMaxAttempts /\ r.got \in 0..issued
    BY <1>0, <1>1, <1>2, <2>1 DEF Fits
  <2>3. /\ cookie' \in {cookie, r.got} /\ access' \in {access, r.got}
        /\ page' \in {page, "app"}
    BY <1>1, <1>5 DEF Reply
  <2>4. InFlight' \subseteq Requests /\ \A d \in InFlight' : Fits(requests'[d], issued, attempts)
    <3>1. CASE Settle(c)
      BY <1>0, <3>1, RejectFits DEF SessionBounds
    <3>2. CASE With(c, [r EXCEPT !.at = "api", !.depth = 0, !.retried = TRUE, !.token = r.got])
      <4>1. PICK next : next = [r EXCEPT !.at = "api", !.depth = 0, !.retried = TRUE, !.token = r.got]
        OBVIOUS
      <4>2. Fits(next, issued, attempts) /\ With(c, next)
        BY <1>1, <1>2, <3>2, <4>1 DEF Fits, Request
      <4>. QED  BY <1>0, <4>2, WithFits DEF SessionBounds
    <3>3. CASE r.depth # 0 /\ With(c, [Refresh(r, r.depth - 1, TRUE) EXCEPT !.sent = r.got])
      <4>1. PICK before : before = Refresh(r, r.depth - 1, TRUE)
        OBVIOUS
      <4>2. /\ r.depth - 1 \in Nat /\ r.depth - 1 <= attempts + 1
            /\ r.depth - 1 <= refreshMaxAttempts + 1
        BY <1>0, <1>2, <2>2, <3>3
      <4>3. Fits(before, issued, attempts)
        BY <1>1, <4>1, <4>2, RefreshFits, Zenon DEF SessionBounds
      <4>4. PICK next : next = [before EXCEPT !.sent = r.got]
        OBVIOUS
      <4>5. Fits(next, issued, attempts)
        BY <1>2, <4>3, <4>4 DEF Fits, Request
      <4>6. With(c, next)
        BY <3>3, <4>1, <4>4
      <4>. QED  BY <1>0, <4>5, <4>6, WithFits DEF SessionBounds
    <3>. QED  BY <1>1, <1>5, <3>1, <3>2, <3>3 DEF Reply
  <2>. QED  BY <1>0, <2>1, <2>2, <2>3, <2>4 DEF SessionBounds, TokensFit
<1>. QED  BY <1>3, <1>4, <1>5

\* What the handler does with one.
LEMMA HandlerBounds ==
  ASSUME SessionBounds, NEW c \in InFlight,
         Limit(c) \/ FindUser(c) \/ Validate(c) \/ Invalidate(c) \/ Insert(c)
  PROVE  SessionBounds'
<1>0. /\ issued \in Nat /\ attempts \in Nat /\ page \in {"app", "loading", "signin"}
      /\ refreshMaxAttempts \in Nat /\ spent \in Spent
      /\ stored \in 0..issued /\ cookie \in 0..issued /\ access \in 0..issued /\ expired \in 0..issued
      /\ InFlight \subseteq Requests /\ c \in Requests
  BY SessionsAssumption DEF SessionBounds, TokensFit
<1>1. PICK r : r = requests[c] /\ Fits(r, issued, attempts)
  BY DEF SessionBounds
<1>2. r \in Request /\ r.depth \in Nat /\ r.got \in Nat
  BY <1>1 DEF Fits, Request
<1>3. CASE Limit(c)
  <2>1. /\ r.at = "limit" /\ attempts' = attempts + 1
        /\ UNCHANGED <<active, stored, issued, expired, cookie, spent>>
    BY <1>1, <1>3 DEF Limit
  <2>2. \A d \in InFlight : Fits(requests[d], issued, attempts + 1)
    BY <1>0, MoreCounted DEF SessionBounds
  <2>3. CASE Reject(c)
    <3>1. Reject(c)
      BY <2>3
    <3>2. access' \in {0, access} /\ page' \in {"app", "loading", "signin"}
      BY <1>0, <3>1 DEF Reject
    <3>3. InFlight' \subseteq Requests /\ \A d \in InFlight' : Fits(requests'[d], issued, attempts + 1)
      BY <1>0, <2>2, <3>1, RejectFits
    <3>. QED  BY <1>0, <2>1, <3>2, <3>3 DEF SessionBounds, TokensFit
  <2>4. CASE /\ attempts + 1 <= refreshMaxAttempts
             /\ With(c, [r EXCEPT !.at = "user"]) /\ UNCHANGED <<access, page>>
    <3>1. PICK next : next = [r EXCEPT !.at = "user"]
      OBVIOUS
    <3>2. With(c, next) /\ UNCHANGED <<access, page>>
      BY <2>4, <3>1
    <3>3. /\ next \in Request /\ next.at = "user" /\ next.depth = r.depth /\ next.got = r.got
          /\ r.depth <= attempts + 1 /\ r.got <= issued
      BY <1>1, <1>2, <2>1, <3>1 DEF Fits, Request, ServerStages
    <3>4. Fits(next, issued, attempts + 1)
      BY <1>0, <1>2, <2>4, <3>3 DEF Fits
    <3>5. InFlight' \subseteq Requests /\ \A d \in InFlight' : Fits(requests'[d], issued, attempts + 1)
      BY <1>0, <2>2, <3>2, <3>4, WithFits
    <3>. QED  BY <1>0, <2>1, <3>2, <3>5 DEF SessionBounds, TokensFit
  <2>. QED  BY <1>0, <1>1, <1>3, <2>1, <2>3, <2>4 DEF Limit
<1>4. CASE FindUser(c) \/ Validate(c)
  <2>1. UNCHANGED <<active, stored, issued, expired, attempts, cookie, spent>>
    BY <1>4 DEF FindUser, Validate
  <2>2. PICK at : /\ at \in {"validate", "invalidate"} /\ r.at \in {"user", "validate"}
                  /\ \/ Unauthorized(c)
                     \/ With(c, [r EXCEPT !.at = at]) /\ UNCHANGED <<access, page>>
    BY <1>1, <1>4 DEF FindUser, Validate, Pass
  <2>3. CASE Unauthorized(c)
    <3>1. /\ InFlight' \subseteq Requests /\ \A d \in InFlight' : Fits(requests'[d], issued, attempts)
          /\ access' \in {0, access} /\ page' \in {"app", "loading", "signin"}
      BY <1>1, <2>2, <2>3, UnauthorizedFits
    <3>. QED  BY <1>0, <2>1, <3>1 DEF SessionBounds, TokensFit
  <2>4. CASE With(c, [r EXCEPT !.at = at]) /\ UNCHANGED <<access, page>>
    <3>1. PICK next : next = [r EXCEPT !.at = at]
      OBVIOUS
    <3>2. Fits(next, issued, attempts) /\ With(c, next)
      BY <1>1, <1>2, <2>2, <2>4, <3>1 DEF Fits, Request, ServerStages
    <3>3. InFlight' \subseteq Requests /\ \A d \in InFlight' : Fits(requests'[d], issued, attempts)
      BY <1>0, <3>2, WithFits DEF SessionBounds
    <3>. QED  BY <1>0, <2>1, <2>4, <3>3 DEF SessionBounds, TokensFit
  <2>. QED  BY <2>2, <2>3, <2>4
<1>5. CASE Invalidate(c)
  <2>1. /\ UNCHANGED <<active, issued, expired, attempts, cookie, access, page, spent>>
        /\ r.at = "invalidate" /\ stored' = 0 /\ With(c, [r EXCEPT !.at = "insert"])
    BY <1>1, <1>5 DEF Invalidate
  <2>2. PICK next : next = [r EXCEPT !.at = "insert"]
    OBVIOUS
  <2>3. Fits(next, issued, attempts) /\ With(c, next)
    BY <1>1, <1>2, <2>1, <2>2 DEF Fits, Request, ServerStages
  <2>4. InFlight' \subseteq Requests /\ \A d \in InFlight' : Fits(requests'[d], issued, attempts)
    BY <1>0, <2>3, WithFits DEF SessionBounds
  <2>. QED  BY <1>0, <2>1, <2>4 DEF SessionBounds, TokensFit
<1>6. CASE Insert(c)
  <2>1. /\ UNCHANGED <<active, expired, attempts, cookie, access, page, spent>>
        /\ r.at = "insert" /\ issued' = issued + 1 /\ stored' = issued + 1
        /\ With(c, [r EXCEPT !.at = "reply", !.got = issued + 1])
    BY <1>1, <1>6 DEF Insert
  <2>2. PICK next : next = [r EXCEPT !.at = "reply", !.got = issued + 1]
    OBVIOUS
  <2>3. /\ next \in Request /\ next.at = "reply" /\ next.depth = r.depth /\ next.got = issued + 1
        /\ r.depth <= attempts /\ r.depth <= refreshMaxAttempts
    <3>1. PICK id \in Nat : id = issued + 1
      BY <1>0
    <3>2. next = [r EXCEPT !.at = "reply", !.got = id]
      BY <2>2, <3>1
    <3>3. next \in Request /\ next.at = "reply" /\ next.depth = r.depth /\ next.got = id
      BY <1>2, <3>2 DEF Request
    <3>4. r.depth <= attempts /\ r.depth <= refreshMaxAttempts
      BY <1>1, <2>1 DEF Fits
    <3>. QED  BY <3>1, <3>3, <3>4
  <2>4. Fits(next, issued + 1, attempts)
    <3>1. next.got <= issued + 1
      BY <1>0, <2>3
    <3>2. next.at # "api" /\ next.at # "limit"
      BY <2>3
    <3>. QED  BY <2>3, <3>1, <3>2 DEF Fits
  <2>5. \A d \in InFlight : Fits(requests[d], issued + 1, attempts)
    BY <1>0, MoreCounted DEF SessionBounds
  <2>6. With(c, next) /\ issued + 1 \in Nat
    BY <1>0, <2>1, <2>2
  <2>7. InFlight' \subseteq Requests /\ \A d \in InFlight' : Fits(requests'[d], issued + 1, attempts)
    BY <1>0, <2>4, <2>5, <2>6, WithFits
  <2>. QED  BY <1>0, <2>1, <2>7 DEF SessionBounds, TokensFit
<1>. QED  BY <1>3, <1>4, <1>5, <1>6

\* The page makes a request, or is signed in.
LEMMA PageBounds ==
  ASSUME SessionBounds, NEW c \in Requests, CallApi(c) \/ Initialize(c) \/ SignIn(c)
  PROVE  SessionBounds'
<1>0. /\ issued \in Nat /\ attempts \in Nat /\ page \in {"app", "loading", "signin"}
      /\ refreshMaxAttempts \in Nat /\ spent \in Spent /\ MaxBad \in Nat
      /\ stored \in 0..issued /\ cookie \in 0..issued /\ access \in 0..issued /\ expired \in 0..issued
      /\ InFlight \subseteq Requests
  BY SessionsAssumption DEF SessionBounds, TokensFit
<1>1. ASSUME NEW kind \in {"api", "init"} PROVE Fits(New(kind), issued, attempts)
  BY <1>0 DEF New, Fits, Request
<1>2. CASE CallApi(c)
  <2>1. With(c, New("api")) /\ UNCHANGED <<active, stored, issued, expired, attempts, cookie, access, page, spent>>
    BY <1>2 DEF CallApi
  <2>2. InFlight' \subseteq Requests /\ \A d \in InFlight' : Fits(requests'[d], issued, attempts)
    BY <1>0, <1>1, <2>1, WithFits DEF SessionBounds
  <2>. QED  BY <1>0, <2>1, <2>2 DEF SessionBounds, TokensFit
<1>3. CASE Initialize(c)
  <2>1. /\ With(c, Refresh(New("init"), 0, FALSE))
        /\ UNCHANGED <<active, stored, issued, expired, attempts, cookie, access, page, spent>>
    BY <1>3 DEF Initialize
  <2>2. Fits(Refresh(New("init"), 0, FALSE), issued, attempts)
    <3>1. 0 \in Nat /\ 0 <= attempts + 1 /\ 0 <= refreshMaxAttempts + 1
      BY <1>0
    <3>. QED  BY <1>1, <3>1, RefreshFits, Zenon DEF SessionBounds
  <2>3. InFlight' \subseteq Requests /\ \A d \in InFlight' : Fits(requests'[d], issued, attempts)
    BY <1>0, <2>1, <2>2, WithFits DEF SessionBounds
  <2>. QED  BY <1>0, <2>1, <2>3 DEF SessionBounds, TokensFit
<1>4. CASE SignIn(c)
  <2>1. /\ spent.bad < MaxBad /\ spent' = [spent EXCEPT !.bad = @ + 1]
        /\ issued' = issued + 1 /\ stored' = issued + 1 /\ cookie' = issued + 1 /\ access' = issued + 1
        /\ page' = "app" /\ With(c, [New("init") EXCEPT !.at = "limit", !.sent = issued + 1])
        /\ UNCHANGED <<active, expired, attempts>>
    BY <1>4 DEF SignIn
  <2>2. PICK new : new = New("init")
    OBVIOUS
  <2>3. PICK next : next = [new EXCEPT !.at = "limit", !.sent = issued + 1]
    OBVIOUS
  <2>4. new \in Request /\ new.depth = 0 /\ new.got = 0
    BY <1>0, <2>2 DEF New, Request
  <2>5. next \in Request /\ next.depth = 0 /\ next.got = 0 /\ next.at = "limit"
    <3>1. PICK id \in Nat : id = issued + 1
      BY <1>0
    <3>2. next = [new EXCEPT !.at = "limit", !.sent = id]
      BY <2>3, <3>1
    <3>. QED  BY <2>4, <3>2 DEF Request, ServerStages
  <2>6. Fits(next, issued + 1, attempts)
    <3>1. next.got <= issued + 1 /\ next.depth <= attempts + 1 /\ next.depth <= refreshMaxAttempts + 1
      BY <1>0, <2>5
    <3>. QED  BY <2>5, <3>1 DEF Fits
  <2>7. \A d \in InFlight : Fits(requests[d], issued + 1, attempts)
    BY <1>0, MoreCounted DEF SessionBounds
  <2>8. With(c, next) /\ issued + 1 \in Nat
    BY <1>0, <2>1, <2>2, <2>3
  <2>9. InFlight' \subseteq Requests /\ \A d \in InFlight' : Fits(requests'[d], issued + 1, attempts)
    BY <1>0, <2>6, <2>7, <2>8, WithFits
  <2>10. spent' \in Spent
    BY <1>0, <2>1 DEF Spent
  <2>. QED  BY <1>0, <2>1, <2>9, <2>10 DEF SessionBounds, TokensFit
<1>. QED  BY <1>2, <1>3, <1>4

LEMMA SessionsTypes == SessionsInit /\ [][SessionsNext]_sessionVars => []SessionsTypeOK
<1>1. SessionsInit => SessionBounds
  BY SessionsAssumption DEF SessionsInit, SessionBounds, TokensFit, Spent, InFlight
<1>2. SessionInv /\ SessionBounds /\ [SessionsNext]_sessionVars => SessionBounds'
  <2> SUFFICES ASSUME SessionInv, SessionBounds, [SessionsNext]_sessionVars PROVE SessionBounds'
    OBVIOUS
  <2>0. /\ issued \in Nat /\ attempts \in Nat /\ page \in {"app", "loading", "signin"}
        /\ refreshMaxAttempts \in Nat /\ spent \in Spent
        /\ MaxBad \in Nat /\ MaxExpiries \in Nat /\ MaxWindows \in Nat
        /\ stored \in 0..issued /\ cookie \in 0..issued /\ access \in 0..issued /\ expired \in 0..issued
        /\ InFlight \subseteq Requests
    BY SessionsAssumption DEF SessionBounds, TokensFit
  <2>1. CASE UNCHANGED sessionVars
    BY <2>1 DEF sessionVars, SessionBounds, TokensFit, InFlight
  <2>2. CASE Reload
    <3>1. /\ spent.bad < MaxBad /\ spent' = [spent EXCEPT !.bad = @ + 1]
          /\ page' = "loading" /\ access' = 0 /\ requests' = Orphans({})
          /\ UNCHANGED <<active, stored, issued, expired, attempts, cookie>>
      BY <2>2 DEF Reload
    <3>2. spent' \in Spent
      BY <2>0, <3>1 DEF Spent
    <3>3. InFlight' \subseteq InFlight
      BY <3>1, OrphansAre
    <3>4. InFlight' \subseteq Requests /\ \A d \in InFlight' : Fits(requests'[d], issued, attempts)
      <4>1. CASE InFlight = {}
        BY <3>3, <4>1
      <4>2. ASSUME NEW c \in InFlight
            PROVE  InFlight' \subseteq Requests /\ \A d \in InFlight' : Fits(requests'[d], issued, attempts)
        BY <2>0, <3>1, RejectFits DEF SessionBounds
      <4>. QED  BY <4>1, <4>2
    <3>. QED  BY <2>0, <3>1, <3>2, <3>4 DEF SessionBounds, TokensFit
  <2>3. CASE SignInElsewhere \/ SignOutEverywhere \/ Deactivate \/ IdExpires
    <3>1. /\ spent.bad < MaxBad /\ spent' = [spent EXCEPT !.bad = @ + 1]
          /\ \/ issued' = issued + 1 /\ stored' = issued + 1
             \/ issued' = issued /\ stored' \in {0, stored}
          /\ UNCHANGED <<expired, attempts, cookie, access, page, requests>>
      BY <2>3 DEF SignInElsewhere, SignOutEverywhere, Deactivate, IdExpires
    <3>0. active' \in BOOLEAN
      <4>1. active' = active \/ active' = FALSE
        BY <2>3 DEF SignInElsewhere, SignOutEverywhere, Deactivate, IdExpires
      <4>2. active \in BOOLEAN
        BY DEF SessionBounds, TokensFit
      <4>. QED  BY <4>1, <4>2, Zenon
    <3>2. spent' \in Spent
      BY <2>0, <3>1 DEF Spent
    <3>3. issued' \in Nat /\ issued <= issued' /\ stored' \in 0..issued'
      BY <2>0, <3>1
    <3>4. \A d \in InFlight : Fits(requests[d], issued', attempts)
      BY <2>0, <3>3, MoreCounted DEF SessionBounds
    <3>5. InFlight' = InFlight
      BY <3>1 DEF InFlight
    <3>. QED  BY <2>0, <3>0, <3>1, <3>2, <3>3, <3>4, <3>5 DEF SessionBounds, TokensFit
  <2>4. CASE AccessExpires
    <3>1. /\ spent.expiries < MaxExpiries /\ spent' = [spent EXCEPT !.expiries = @ + 1]
          /\ expired' = issued /\ InFlight' = InFlight
          /\ UNCHANGED <<active, stored, issued, attempts, cookie, access, page, requests>>
      BY <2>4 DEF AccessExpires, InFlight
    <3>2. spent' \in Spent
      BY <2>0, <3>1 DEF Spent
    <3>. QED  BY <2>0, <3>1, <3>2 DEF SessionBounds, TokensFit
  <2>5. CASE WindowPasses
    <3>1. /\ spent.windows < MaxWindows /\ spent' = [spent EXCEPT !.windows = @ + 1]
          /\ attempts' = 0 /\ Refreshing = {} /\ InFlight' = InFlight
          /\ UNCHANGED <<active, stored, issued, expired, cookie, access, page, requests>>
      BY <2>5 DEF WindowPasses, InFlight
    <3>2. spent' \in Spent
      BY <2>0, <3>1 DEF Spent
    <3>3. ASSUME NEW d \in InFlight PROVE Fits(requests[d], issued, 0)
      <4>1. requests[d].at = "api"
        BY <3>1 DEF Refreshing
      <4>. QED  BY <4>1 DEF SessionBounds, Fits
    <3>. QED  BY <2>0, <3>1, <3>2, <3>3 DEF SessionBounds, TokensFit
  <2>6. CASE Activate \/ CookieExpires
    <3>1. /\ cookie' \in {cookie, 0} /\ InFlight' = InFlight
          /\ UNCHANGED <<stored, issued, expired, attempts, access, page, requests, spent>>
      BY <2>6 DEF Activate, CookieExpires, InFlight
    <3>2. active' \in BOOLEAN
      <4>1. active' = active \/ active' = TRUE
        BY <2>6 DEF Activate, CookieExpires
      <4>2. active \in BOOLEAN
        BY DEF SessionBounds, TokensFit
      <4>. QED  BY <4>1, <4>2, Zenon
    <3>. QED  BY <2>0, <3>1, <3>2 DEF SessionBounds, TokensFit
  <2>. QED
    BY <2>1, <2>2, <2>3, <2>4, <2>5, <2>6, TabBounds, HandlerBounds, PageBounds
       DEF SessionsNext, Answer
<1>3. SessionInv /\ SessionBounds => SessionsTypeOK
  <2> SUFFICES ASSUME SessionInv, SessionBounds PROVE SessionsTypeOK
    OBVIOUS
  <2>1. ASSUME NEW c \in InFlight PROVE requests[c] \in Request /\ requests[c].depth <= refreshMaxAttempts + 1
    <3>1. PICK r : r = requests[c] /\ Fits(r, issued, attempts)
      BY DEF SessionBounds
    <3>2. r \in Request /\ r.depth \in Nat /\ refreshMaxAttempts \in Nat
      BY <3>1, SessionsAssumption DEF Fits, Request
    <3>. QED  BY <3>1, <3>2 DEF Fits
  <2>. QED  BY <2>1 DEF SessionInv, SessionBounds, TokensFit, Spent, SessionsTypeOK
<1>. QED  BY <1>1, <1>2, <1>3, SessionsInitially, IdsAreNumbers, SessionsStepKeeps, PTL

\* What the seven parts keep, they keep together: in every behaviour of the module that TLC
\* checks all of them stay well formed.  For the sessions this is that the limiter ends every
\* chain of refreshes, whatever number of them it allows.
THEOREM ServicesTypesCorrect == MCSpec => []ServicesTypeOK
<1>1. MCSpec => /\ SessionsInit /\ [][SessionsNext]_sessionVars
                /\ AlertsInit /\ [][AlertsNext]_alerting
                /\ ImportSpec /\ TemplatesSpec /\ OrgSpec /\ FilesSpec /\ ChatSpec
  <2>1. MCInit => /\ SessionsInit /\ ImportInit /\ AlertsInit /\ TemplatesInit
                  /\ OrgInit /\ FilesInit /\ ChatInit
    BY DEF MCInit
  <2>2. [MCNext]_<<sessionVars, import, alerting, templating, orgVars, filesVars, chatVars, part>> =>
          /\ [SessionsNext]_sessionVars /\ [ImportNext]_import /\ [AlertsNext]_alerting
          /\ [TemplatesNext]_templating /\ [OrgNext]_orgVars /\ [FilesNext]_filesVars
          /\ [ChatNext]_chatVars
    BY DEF MCNext
  <2>. QED  BY <2>1, <2>2, PTL DEF MCSpec, ImportSpec, TemplatesSpec, OrgSpec, FilesSpec, ChatSpec
<1>. QED
  BY <1>1, SessionsTypes, ImportTypes, AlertsTypes, TemplatesTypes, OrgTypes, FilesTypes, ChatTypes, PTL
     DEF ServicesTypeOK
==============================================================================
