----------------------------- MODULE BulkImport -----------------------------
(***************************************************************************)
(* The bulk import of users: a dry run checks a file against the users of  *)
(* that moment and keeps the rows in a session; apply writes the rows of   *)
(* the session, one user after the other and outside any transaction, and  *)
(* keeps its result under an idempotency key, for the client that repeats  *)
(* the call.  Meanwhile administrators create, edit and remove users, and  *)
(* remove departments and units.                                           *)
(*                                                                         *)
(*   users      email -> the user, or Absent                               *)
(*   places     the departments and units there are                        *)
(*   sessions   the sessions of one actor's dry runs, the oldest first     *)
(*   results    key -> what apply has kept under it, or NoResult           *)
(*   runs       the apply calls that are running                           *)
(*   left       what is left of the bounds                                 *)
(*                                                                         *)
(* A user is cut down to what apply treats differently: the fields every   *)
(* import writes (profile), the role, which it writes when the session     *)
(* allows it, and with it the permissions, and the department or unit, of  *)
(* which the session has the id and apply looks the row up (place).        *)
(*                                                                         *)
(* History, which the code does not keep: the keys under which a session   *)
(* has been applied to the end (done), whether a call repeats one of these *)
(* (repeats), and of a result, besides the failures that the code keeps,   *)
(* the session it is of, how many sessions there were by then (since),     *)
(* what the run saved and audited, the places that it found, and whether   *)
(* nobody else has touched the users since it read them (calm).            *)
(***************************************************************************)
EXTENDS Naturals, Sequences

CONSTANTS Emails, Keys, Runs, Places,
          Files,          \* the files: sequences of rows
          UsersAtFirst,   \* the users there may be at first
          UsersEdited,    \* what administrators make of users
          MaxDryRuns,     \* bound: dry runs
          MaxCalls,       \* bound: calls of apply
          MaxTroubles,    \* bound: changes by administrators, statements that fail, crashes
          Absent, NoPlace, NoResult

Profiles == {"old", "sheet", "edited"}
Roles    == {"regular", "admin"}
User     == [profile : Profiles, role : Roles, place : Places \cup {NoPlace}]
Row      == [email : Emails, role : Roles, password : BOOLEAN, place : Places \cup {NoPlace}]
Unread   == [e \in Emails |-> Absent]
Session  == [fresh : BOOLEAN, file : Files, allowRoleUpdate : BOOLEAN, invalidRows : BOOLEAN,
             done : SUBSET Keys]
Kept     == [of : Nat, since : Nat, places : SUBSET Places, saved : SUBSET Nat,
             audited : SUBSET Nat, failures : SUBSET Nat, calm : BOOLEAN]

ASSUME BulkImportAssumption ==
  /\ MaxDryRuns \in Nat /\ MaxCalls \in Nat /\ MaxTroubles \in Nat
  /\ Absent \notin User /\ NoPlace \notin Places /\ NoResult \notin Kept
  /\ UsersAtFirst \subseteq [Emails -> User \cup {Absent}] /\ UsersEdited \subseteq User
  /\ \A f \in Files :
       /\ f \in Seq(Row) /\ f # <<>>       \* a file without data rows is refused
       /\ \A i, j \in DOMAIN f : f[i].email = f[j].email => i = j   \* duplicates are refused

VARIABLES users, places, sessions, results, runs, left

import == <<users, places, sessions, results, runs, left>>

Running    == DOMAIN runs
Rows(run)  == sessions[run.of].file
RowOf(run) == Rows(run)[run.row]

SetRun(r, run) == runs' = [q \in Running \cup {r} |-> IF q = r THEN run ELSE runs[q]]
DropRuns(gone) == runs' = [q \in Running \ gone |-> runs[q]]

\* The users change, and not through the runs but others.
Disturbed(others) == [q \in Running |-> [runs[q] EXCEPT !.calm = @ /\ q \notin others]]
DisturbedResults  == [k \in Keys |-> IF results[k] = NoResult THEN NoResult
                                      ELSE [results[k] EXCEPT !.calm = FALSE]]

-----------------------------------------------------------------------------
(* The dry run.  A row for a user who is not there yet has to bring a      *)
(* password, and a department or unit has to be there.                     *)

DryRun ==
  /\ Len(sessions) < MaxDryRuns
  /\ \E f \in Files, allow \in BOOLEAN :
       sessions' = Append(sessions,
         [fresh |-> TRUE, file |-> f, allowRoleUpdate |-> allow, done |-> {},
          invalidRows |-> \E i \in DOMAIN f : \/ users[f[i].email] = Absent /\ ~f[i].password
                                             \/ f[i].place \notin places \cup {NoPlace}])
  /\ UNCHANGED <<users, places, results, runs, left>>

\* A session's half hour is over, the older one's first: by the clock of apply, which deletes it
\* then, or as Redis has dropped it.
SessionEnds(s) ==
  /\ sessions[s].fresh /\ \A older \in 1..s - 1 : ~sessions[older].fresh
  /\ sessions' = [sessions EXCEPT ![s].fresh = FALSE]
  /\ UNCHANGED <<users, places, results, runs, left>>

\* A call that has read its session is held up until now, and finds no result any more.
HeldUp(k) == [q \in Running |->
                [runs[q] EXCEPT !.repeats = @ /\ ~(runs[q].key = k /\ runs[q].at = "lookup")]]

\* Bug: results are kept for less time than sessions.
ResultDropsEarly(k) ==
  /\ results[k] # NoResult
  /\ results' = [results EXCEPT ![k] = NoResult]
  /\ runs' = HeldUp(k)
  /\ UNCHANGED <<users, places, sessions, left>>

\* A result lives as long as a session, so it goes after all sessions there were when it was kept.
ResultDrops(k) ==
  /\ results[k] # NoResult
  /\ \A s \in 1..results[k].since : ~sessions[s].fresh
  /\ results' = [results EXCEPT ![k] = NoResult]
  /\ runs' = HeldUp(k)
  /\ UNCHANGED <<users, places, sessions, left>>

-----------------------------------------------------------------------------
(* Apply.  The client names a session and makes up a key. *)

Call(r, k, s) ==
  /\ r \notin Running /\ left.calls > 0
  /\ left' = [left EXCEPT !.calls = @ - 1]
  /\ SetRun(r, [of |-> s, key |-> k, at |-> "session", row |-> 1, index |-> Unread, places |-> {},
              saved |-> {}, audited |-> {}, failures |-> {}, calm |-> TRUE,
              repeats |-> k \in sessions[s].done])
  /\ UNCHANGED <<users, places, sessions, results>>

ReadSession(r) ==
  LET session == sessions[runs[r].of]
  IN /\ runs[r].at = "session"
     /\ IF session.fresh /\ ~session.invalidRows THEN SetRun(r, [runs[r] EXCEPT !.at = "lookup"])
        ELSE DropRuns({r})
     /\ UNCHANGED <<users, places, sessions, results, left>>

\* Whatever session the result is of, it is the answer.
Lookup(r) ==
  /\ runs[r].at = "lookup"
  /\ IF results[runs[r].key] # NoResult THEN DropRuns({r})
     ELSE SetRun(r, [runs[r] EXCEPT !.at = "index"])
  /\ UNCHANGED <<users, places, sessions, results, left>>

ReadIndex(r) ==
  /\ runs[r].at = "index"
  /\ SetRun(r, [runs[r] EXCEPT !.at = "places", !.index = users, !.calm = TRUE])
  /\ UNCHANGED <<users, places, sessions, results, left>>

ReadPlaces(r) ==
  /\ runs[r].at = "places"
  /\ SetRun(r, [runs[r] EXCEPT !.at = "rows", !.places = places])
  /\ UNCHANGED <<users, places, sessions, results, left>>

NextRow(run) ==
  [run EXCEPT !.row = @ + 1, !.at = IF run.row = Len(Rows(run)) THEN "store" ELSE "rows"]

\* Bug: the first row that fails ends the loop.
StopHere(run) == [run EXCEPT !.failures = @ \cup {run.row}, !.at = "store"]

Fail(run) == NextRow([run EXCEPT !.failures = @ \cup {run.row}])

\* A place that was not found is left empty without a word.
Found(known, place) == IF place \in known THEN place ELSE NoPlace

\* What the row makes of the copy that the index has, and of nobody.
Updated(run) ==
  LET row  == RowOf(run)
      copy == run.index[row.email]
  IN [profile |-> "sheet", place |-> Found(run.places, row.place),
      role |-> IF copy = Absent \/ sessions[run.of].allowRoleUpdate THEN row.role ELSE copy.role]

\* save writes the copy as it is: over an edit the index does not have, and as a new record when
\* the user was removed since.  Postgres refuses a second user with an email, and a place that
\* was removed since.
SaveRow(r) ==
  LET run  == runs[r]
      row  == RowOf(run)
      copy == run.index[row.email]
      user == Updated(run)
      Refused == \/ copy = Absent /\ (~row.password \/ users[row.email] # Absent)
                 \/ user.place \notin places \cup {NoPlace}
  IN /\ run.at = "rows"
     /\ \/ /\ user # copy /\ ~Refused
           /\ users' = [users EXCEPT ![row.email] = user]
           /\ runs' = [Disturbed(Running \ {r}) EXCEPT
                         ![r] = [run EXCEPT !.at = "audit", !.saved = @ \cup {run.row}]]
           /\ results' = DisturbedResults
        \/ /\ user # copy /\ Refused
           /\ SetRun(r, Fail(run)) /\ UNCHANGED <<users, results>>
        \/ /\ user = copy
           /\ SetRun(r, NextRow(run)) /\ UNCHANGED <<users, results>>
     /\ UNCHANGED <<places, sessions, left>>

Audit(r) ==
  /\ runs[r].at = "audit"
  /\ SetRun(r, NextRow([runs[r] EXCEPT !.audited = @ \cup {runs[r].row}]))
  /\ UNCHANGED <<users, places, sessions, results, left>>

\* A row's statement throws; the loop goes on, and a row that was saved but not audited counts
\* as failed as well.
RowFails(r) ==
  /\ runs[r].at \in {"rows", "audit"} /\ left.troubles > 0
  /\ left' = [left EXCEPT !.troubles = @ - 1]
  /\ SetRun(r, Fail(runs[r]))
  /\ UNCHANGED <<users, places, sessions, results>>

\* The record of the operation is written after this; when that fails the result is kept.
Store(r) ==
  LET run == runs[r]
  IN /\ run.at = "store"
     /\ results' = [results EXCEPT ![run.key] =
                      [of |-> run.of, since |-> Len(sessions), places |-> run.places,
                       saved |-> run.saved, audited |-> run.audited, failures |-> run.failures,
                       calm |-> run.calm]]
     /\ sessions' = [sessions EXCEPT ![run.of].done = @ \cup {run.key}]
     /\ DropRuns({r})
     /\ UNCHANGED <<users, places, left>>

\* Outside the loop a statement that throws ends the call.
CallFails(r) ==
  /\ runs[r].at \notin {"rows", "audit"} /\ left.troubles > 0
  /\ left' = [left EXCEPT !.troubles = @ - 1]
  /\ DropRuns({r})
  /\ UNCHANGED <<users, places, sessions, results>>

Crash ==
  /\ Running # {} /\ left.troubles > 0
  /\ left' = [left EXCEPT !.troubles = @ - 1]
  /\ DropRuns(Running)
  /\ UNCHANGED <<users, places, sessions, results>>

-----------------------------------------------------------------------------
(* Administrators. *)

\* One creates, edits or removes a user.
Administer(e) ==
  /\ left.troubles > 0
  /\ left' = [left EXCEPT !.troubles = @ - 1]
  /\ \E u \in {Absent} \cup {user \in UsersEdited : user.place \in places \cup {NoPlace}} :
       u # users[e] /\ users' = [users EXCEPT ![e] = u]
  /\ runs' = Disturbed(Running)
  /\ results' = DisturbedResults
  /\ UNCHANGED <<places, sessions>>

\* One removes a department or a unit, and Postgres takes it from the users who had it.
RemovePlace(p) ==
  /\ p \in places /\ left.troubles > 0
  /\ left' = [left EXCEPT !.troubles = @ - 1]
  /\ places' = places \ {p}
  /\ users' = [e \in Emails |-> IF users[e] # Absent /\ users[e].place = p
                                THEN [users[e] EXCEPT !.place = NoPlace] ELSE users[e]]
  /\ IF users' = users THEN UNCHANGED <<runs, results>>
     ELSE runs' = Disturbed(Running) /\ results' = DisturbedResults
  /\ UNCHANGED sessions

-----------------------------------------------------------------------------

ImportInit ==
  /\ users \in UsersAtFirst /\ places = Places
  /\ sessions = <<>>
  /\ results = [k \in Keys |-> NoResult]
  /\ runs = [r \in {} |-> 0]
  /\ left = [calls |-> MaxCalls, troubles |-> MaxTroubles]

Step(r) == \/ ReadSession(r) \/ Lookup(r) \/ ReadIndex(r) \/ ReadPlaces(r) \/ SaveRow(r)
           \/ Audit(r) \/ RowFails(r) \/ Store(r) \/ CallFails(r)

ImportNext ==
  \/ DryRun \/ Crash
  \/ \E s \in DOMAIN sessions : SessionEnds(s)
  \/ \E k \in Keys : \/ ResultDrops(k)
                     \/ \E r \in Runs, s \in DOMAIN sessions : Call(r, k, s)
  \/ \E r \in Running : Step(r)
  \/ \E e \in Emails : Administer(e)
  \/ \E p \in Places : RemovePlace(p)

ImportSpec == ImportInit /\ [][ImportNext]_import

-----------------------------------------------------------------------------

ImportTypeOK ==
  /\ users \in [Emails -> User \cup {Absent}] /\ places \in SUBSET Places
  /\ sessions \in Seq(Session) /\ Len(sessions) <= MaxDryRuns
  /\ Running \subseteq Runs
  /\ \A r \in Running :
       /\ runs[r].of \in DOMAIN sessions /\ runs[r].key \in Keys
       /\ runs[r].calm \in BOOLEAN /\ runs[r].repeats \in BOOLEAN
       /\ runs[r].at \in {"session", "lookup", "index", "places", "rows", "audit", "store"}
       /\ runs[r].index \in [Emails -> User \cup {Absent}] /\ runs[r].places \in SUBSET Places
       /\ runs[r].at \in {"rows", "audit"} => runs[r].row \in DOMAIN Rows(runs[r])
       /\ runs[r].saved \cup runs[r].audited \cup runs[r].failures \subseteq DOMAIN Rows(runs[r])
  /\ left \in [calls : 0..MaxCalls, troubles : 0..MaxTroubles]

\* docs/bulk-user-import-spec.md: "repeated apply with same key returns same operation result".
\* A call that repeats one that has been answered, with the same session and the same key, does
\* not go through the rows again, unless the result went while it was about to look: results
\* outlive the sessions they are of, even when another session has been applied with the key.
AppliedOnce ==
  \A r \in Running : runs[r].repeats => runs[r].at \in {"session", "lookup"}

\* What a run reports is true of the users when nobody else has touched them since it read them:
\* whoever's row is not among the failures is a user with the values of the file, the role only
\* when the session allowed it or the user is new, and the place only when it was there as the
\* run read the places, or else none; and every change is in the audit trail.
ImportTakesEffect ==
  \A k \in Keys : results[k] # NoResult =>
    /\ results[k].saved \subseteq results[k].audited \cup results[k].failures
    /\ results[k].calm => \A i \in DOMAIN Rows(results[k]) \ results[k].failures :
         LET row  == Rows(results[k])[i]
             user == users[row.email]
         IN /\ user # Absent /\ user.profile = "sheet"
            /\ user.place = Found(results[k].places, row.place)
            /\ sessions[results[k].of].allowRoleUpdate => user.role = row.role
=============================================================================
