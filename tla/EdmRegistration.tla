--------------------------- MODULE EdmRegistration ---------------------------
(***************************************************************************)
(* Numbering and the registration journal, with overlapping requests.      *)
(*                                                                         *)
(*   document  of edm_documents: the type and the external number          *)
(*   sequence  edm_document_registry_sequences: last_value per scope, or   *)
(*             Absent while nobody asked for a number in that scope        *)
(*   journal   edm_registration_journal: at most one entry per document    *)
(*   request   the requests in flight                                      *)
(*   owner     history: which document each committed number was given to  *)
(*                                                                         *)
(* A scope is (department, type, year); with one department and one year   *)
(* it is the type.  The printed number is one-to-one in (scope, value).    *)
(* Like everywhere in the EDM services, the document is read before the    *)
(* transaction, and saving the copy writes every column in which it        *)
(* differs from the row; a change of an entry's status does the same to    *)
(* the journal.  The status of the document is EdmRoute's matter: here any *)
(* document may be submitted or edited.                                    *)
(***************************************************************************)
EXTENDS Naturals, FiniteSets

CONSTANTS Documents, Types,
          JournalTypes,        \* the types registerDocument accepts
          Requests,            \* requests in flight at one time
          MaxValue,            \* bound: numbers given per scope
          Absent, NoNumber     \* no row yet; external_number is null

ASSUME RegistrationAssumption ==
  /\ JournalTypes \subseteq Types
  /\ MaxValue \in Nat
  /\ Absent \notin Nat /\ NoNumber \notin Types \X Nat

VARIABLES document, sequence, journal, request, owner

vars == <<document, sequence, journal, request, owner>>

Numbers  == Types \X (1 .. MaxValue)
Document == [type : Types, number : Numbers \cup {NoNumber}]
NoEntry  == [status |-> "none"]
Entry    == [status : {"registered", "cancelled"}, number : Numbers]
Kinds    == {"submit", "register", "edit"}
Idle     == [pc |-> "idle"]

Init ==
  /\ document \in [Documents -> [type : Types, number : {NoNumber}]]
  /\ sequence = [t \in Types |-> Absent]
  /\ journal = [d \in Documents |-> NoEntry]
  /\ request = [p \in Requests |-> Idle]
  /\ owner = << >>

-----------------------------------------------------------------------------
(***************************************************************************)
(* getDocumentOrFail, and the check on the type that registerDocument makes *)
(* on that copy.                                                           *)
(***************************************************************************)
Load(p, d, kind) ==
  /\ request[p] = Idle
  /\ kind = "register" => document[d].type \in JournalTypes
  /\ request' = [request EXCEPT ![p] =
                   [pc |-> IF kind = "register" THEN "loaded" ELSE "ready",
                    kind |-> kind, doc |-> d, copy |-> document[d],
                    inserts |-> FALSE]]
  /\ UNCHANGED <<document, sequence, journal, owner>>

\* registerDocument: 409 when registered; the entry decides insert or update.
CheckJournal(p) ==
  LET r == request[p]
  IN  /\ r.pc = "loaded"
      /\ request' = [request EXCEPT ![p] =
           IF journal[r.doc].status = "registered" THEN Idle
           ELSE [r EXCEPT !.pc = "ready", !.inserts = (journal[r.doc] = NoEntry)]]
      /\ UNCHANGED <<document, sequence, journal, owner>>

\* Bug: a copy that already has a number is numbered again.
AlwaysNeedsNumber(p) ==
  /\ request[p].pc = "ready"
  /\ request[p].kind \in {"submit", "register"}

NeedsNumber(p) ==
  /\ request[p].pc = "ready"
  /\ request[p].kind \in {"submit", "register"}
  /\ request[p].copy.number = NoNumber

\* Bug: the sequence row is read without a lock.
NobodyCares(p) == TRUE

\* The row lock on the sequence: nobody else has read it to number.
RowIsFree(p) ==
  \A q \in Requests \ {p} :
    request[q].pc = "locked" => request[q].copy.type # request[p].copy.type

(***************************************************************************)
(* assignExternalNumber: select the row for update and keep it locked, or  *)
(* find no row and be about to insert one.                                 *)
(***************************************************************************)
LockSequence(p) ==
  LET scope == request[p].copy.type
  IN  /\ NeedsNumber(p)
      /\ sequence[scope] # Absent
      /\ sequence[scope] < MaxValue
      /\ RowIsFree(p)
      /\ request' = [request EXCEPT ![p] =
           [pc |-> "locked", kind |-> @.kind, doc |-> @.doc, copy |-> @.copy,
            inserts |-> @.inserts, value |-> sequence[scope] + 1]]
      /\ UNCHANGED <<document, sequence, journal, owner>>

FindNoSequence(p) ==
  /\ NeedsNumber(p)
  /\ sequence[request[p].copy.type] = Absent
  /\ request' = [request EXCEPT ![p].pc = "creating"]
  /\ UNCHANGED <<document, sequence, journal, owner>>

-----------------------------------------------------------------------------
EntryFor(number) == [status |-> "registered", number |-> number]

\* Bug: the sequences have no unique index.
CollidesInJournal(p) ==
  request[p].inserts /\ journal[request[p].doc] # NoEntry

\* Unique indexes on (department, type, year) and on the journal's document.
Collides(p) ==
  LET r == request[p]
  IN  \/ r.pc = "creating" /\ sequence[r.copy.type] # Absent
      \/ r.inserts /\ journal[r.doc] # NoEntry

ReadyToCommit(p) ==
  \/ request[p].pc \in {"locked", "creating"}
  \/ request[p].pc = "ready" /\ ~NeedsNumber(p)

\* The transaction fails and takes back whatever it wrote: 500.
Fail(p) ==
  /\ ReadyToCommit(p)
  /\ Collides(p)
  /\ request' = [request EXCEPT ![p] = Idle]
  /\ UNCHANGED <<document, sequence, journal, owner>>

NewValue(p) == IF request[p].pc = "creating" THEN 1 ELSE request[p].value

CommitNumber(p) ==
  LET r      == request[p]
      number == <<r.copy.type, NewValue(p)>>
  IN  /\ r.pc \in {"locked", "creating"}
      /\ MaxValue > 0
      /\ ~Collides(p)
      /\ sequence' = [sequence EXCEPT ![r.copy.type] = NewValue(p)]
      /\ document' = [document EXCEPT ![r.doc] = [r.copy EXCEPT !.number = number]]
      /\ journal' = IF r.kind = "register"
                    THEN [journal EXCEPT ![r.doc] = EntryFor(number)]
                    ELSE journal
      /\ owner' = [n \in DOMAIN owner \cup {number} |->
                     IF n = number THEN r.doc ELSE owner[n]]
      /\ request' = [request EXCEPT ![p] = Idle]

\* registerDocument of a document whose copy has a number saves no document.
CommitEntry(p) ==
  LET r == request[p]
  IN  /\ r.pc = "ready"
      /\ r.kind = "register"
      /\ r.copy.number # NoNumber
      /\ ~Collides(p)
      /\ journal' = [journal EXCEPT ![r.doc] = EntryFor(r.copy.number)]
      /\ request' = [request EXCEPT ![p] = Idle]
      /\ UNCHANGED <<document, sequence, owner>>

\* submitToRoute of a numbered copy saves it, updateDraft with another type;
\* "edit" also stands for the verdicts and archive, which save it as it is.
CommitCopy(p, newType) ==
  LET r == request[p]
  IN  /\ r.pc = "ready"
      /\ r.kind # "register"
      /\ r.kind = "submit" => newType = r.copy.type
      /\ ~NeedsNumber(p)
      /\ document' = [document EXCEPT ![r.doc] = [r.copy EXCEPT !.type = newType]]
      /\ request' = [request EXCEPT ![p] = Idle]
      /\ UNCHANGED <<sequence, journal, owner>>

(***************************************************************************)
(* updateRegistrationStatus reads the entry, waits for the actor's row and *)
(* saves its copy of the entry with any of the two statuses: a number that *)
(* a registration gave to the entry in between is written over.            *)
(***************************************************************************)
ReadEntry(p, d) ==
  /\ request[p] = Idle
  /\ journal[d] # NoEntry
  /\ request' = [request EXCEPT ![p] =
                   [pc |-> "entry", doc |-> d, entry |-> journal[d]]]
  /\ UNCHANGED <<document, sequence, journal, owner>>

SaveEntry(p, status) ==
  LET r == request[p]
  IN  /\ r.pc = "entry"
      /\ journal' = [journal EXCEPT ![r.doc] = [r.entry EXCEPT !.status = status]]
      /\ request' = [request EXCEPT ![p] = Idle]
      /\ UNCHANGED <<document, sequence, owner>>

Next ==
  \/ \E p \in Requests :
       \/ \E d \in Documents, kind \in Kinds : Load(p, d, kind)
       \/ CheckJournal(p)
       \/ LockSequence(p)
       \/ FindNoSequence(p)
       \/ Fail(p)
       \/ CommitNumber(p)
       \/ CommitEntry(p)
       \/ \E newType \in Types : CommitCopy(p, newType)
       \/ \E d \in Documents : ReadEntry(p, d)
       \/ \E status \in {"registered", "cancelled"} : SaveEntry(p, status)

Spec == Init /\ [][Next]_vars

-----------------------------------------------------------------------------
\* The request works on a copy of the document.
HasCopy(p) == request[p].pc \notin {"idle", "entry"}

(***************************************************************************)
(* Rows, entries and requests are well formed; a number in the making is   *)
(* within its scope.                                                       *)
(***************************************************************************)
TypeOK ==
  /\ document \in [Documents -> Document]
  /\ sequence \in [Types -> {Absent} \cup (1 .. MaxValue)]
  /\ journal \in [Documents -> Entry \cup {NoEntry}]
  /\ DOMAIN owner \subseteq Numbers
  /\ \A n \in DOMAIN owner : owner[n] \in Documents
  /\ \A p \in Requests :
       /\ request[p].pc \in {"idle", "loaded", "ready", "locked", "creating", "entry"}
       /\ HasCopy(p) => request[p].doc \in Documents /\ request[p].copy \in Document
       /\ request[p].pc = "entry" =>
            request[p].doc \in Documents /\ request[p].entry \in Entry

(***************************************************************************)
(* The rows are well formed, and every number a document or a journal      *)
(* entry shows was given to that very document.  So no two documents ever  *)
(* show one number, whichever copies of documents and of journal entries   *)
(* were saved over each other.                                             *)
(***************************************************************************)
NumbersBelong ==
  /\ TypeOK
  /\ \A d \in Documents :
       document[d].number # NoNumber =>
         document[d].number \in DOMAIN owner /\ owner[document[d].number] = d
  /\ \A d \in Documents :
       journal[d] # NoEntry =>
         journal[d].number \in DOMAIN owner /\ owner[journal[d].number] = d

(***************************************************************************)
(* A number is lost or replaced only by a request that overlapped with the *)
(* numbering: one that saves a copy older than the number.                 *)
(***************************************************************************)
Stale(p) == HasCopy(p) /\ request[p].copy # document[request[p].doc]

OnlyStaleCopiesRenumber ==
  [][\A d \in Documents :
       /\ document[d].number # NoNumber
       /\ document'[d].number # document[d].number
       => \E p \in Requests : Stale(p) /\ request[p].doc = d /\ request'[p] = Idle]_vars

(***************************************************************************)
(* The sequences are the registry office of NumberIssuer: numbers come in  *)
(* order, without a gap, each to one document.  A transaction that fails   *)
(* gives its number back, and two that create a scope at once get one row. *)
(***************************************************************************)
Given == [t \in Types |-> IF sequence[t] = Absent THEN 0 ELSE sequence[t]]

Issuer == INSTANCE NumberIssuer
            WITH Scopes <- Types, given <- Given, owner <- owner

IssuesInOrder == Issuer!IssuerSpec
=============================================================================
