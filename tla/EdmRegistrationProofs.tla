------------------------ MODULE EdmRegistrationProofs ------------------------
(***************************************************************************)
(* Theorems about EdmRegistration.                                         *)
(***************************************************************************)
EXTENDS EdmRegistration, TLAPS

-----------------------------------------------------------------------------
(* The inductive invariant.  The rows are well formed; whoever holds the   *)
(* lock on a scope holds it alone and knows the number that comes next; no *)
(* number beyond the sequence was given out; and whatever shows a number,  *)
(* the copies of documents and entries included, shows one of the document *)
(* itself.                                                                 *)

RequestOK(r) ==
  /\ {"pc", "kind", "doc", "copy", "inserts"} \subseteq DOMAIN r
  /\ r.pc \in {"loaded", "ready", "locked", "creating"}
  /\ r.doc \in Documents /\ r.copy \in Document
  /\ r.pc \in {"locked", "creating"} => r.copy.number = NoNumber

EntryRequestOK(r) ==
  r.pc = "entry" /\ r.doc \in Documents /\ r.entry \in Entry

OwnNumber(d, n) == n \in DOMAIN owner /\ owner[n] = d

Rows ==
  /\ document \in [Documents -> Document]
  /\ sequence \in [Types -> {Absent} \cup (1 .. MaxValue)]
  /\ journal \in [Documents -> Entry \cup {NoEntry}]
  /\ DOMAIN request = Requests
  /\ \A p \in Requests : request[p].pc = "idle" \/ RequestOK(request[p])
                            \/ EntryRequestOK(request[p])

\* Whoever is about to write the number v in a scope is alone with it.
Locks ==
  \A p \in Requests : request[p].pc = "locked" =>
    /\ sequence[request[p].copy.type] # Absent
    /\ request[p].value = sequence[request[p].copy.type] + 1
    /\ request[p].value \in 1 .. MaxValue
    /\ \A q \in Requests \ {p} :
         request[q].pc = "locked" => request[q].copy.type # request[p].copy.type

\* Nothing was given out beyond the sequence.
GivenOut ==
  \A n \in DOMAIN owner : /\ n \in Numbers /\ owner[n] \in Documents
                          /\ sequence[n[1]] # Absent /\ n[2] <= sequence[n[1]]

Own ==
  /\ \A d \in Documents : document[d].number # NoNumber => OwnNumber(d, document[d].number)
  /\ \A d \in Documents : journal[d] # NoEntry => OwnNumber(d, journal[d].number)
  /\ \A p \in Requests : HasCopy(p) /\ request[p].copy.number # NoNumber =>
                           OwnNumber(request[p].doc, request[p].copy.number)
  /\ \A p \in Requests : request[p].pc = "entry" =>
                           OwnNumber(request[p].doc, request[p].entry.number)

RegInv == Rows /\ Locks /\ GivenOut /\ Own

LEMMA RegInitially == Init => RegInv
<1> SUFFICES ASSUME Init PROVE RegInv
  OBVIOUS
<1>1. Rows
  <2>1. ASSUME NEW d \in Documents PROVE document[d] \in Document /\ document[d].number = NoNumber
    BY DEF Init, Document
  <2>. QED  BY <2>1 DEF Init, Rows, Idle, Document
<1>2. Locks /\ GivenOut
  BY DEF Init, Locks, GivenOut, Idle
<1>3. Own
  BY DEF Init, Own, Idle, HasCopy
<1>. QED  BY <1>1, <1>2, <1>3 DEF RegInv

\* A request goes on or ends, and no number is given out.
LEMMA NoNumberGiven ==
  ASSUME RegInv, NEW p \in Requests, NEW r, request' = [request EXCEPT ![p] = r],
         UNCHANGED <<sequence, owner>>,
         r.pc = "idle" \/ RequestOK(r) \/ EntryRequestOK(r), r.pc # "locked",
         RequestOK(r) /\ r.copy.number # NoNumber => OwnNumber(r.doc, r.copy.number),
         EntryRequestOK(r) => OwnNumber(r.doc, r.entry.number),
         document' \in [Documents -> Document],
         \A d \in Documents :
           document'[d].number # NoNumber => OwnNumber(d, document'[d].number),
         journal' \in [Documents -> Entry \cup {NoEntry}],
         \A d \in Documents : journal'[d] # NoEntry => OwnNumber(d, journal'[d].number)
  PROVE  RegInv'
<1>1. /\ DOMAIN request' = Requests /\ request'[p] = r
      /\ \A q \in Requests \ {p} : request'[q] = request[q]
  BY DEF RegInv, Rows
<1>2. Rows'
  BY <1>1 DEF RegInv, Rows
<1>3. Locks'
  BY <1>1 DEF RegInv, Locks
<1>4. GivenOut'
  BY DEF RegInv, GivenOut
<1>5. \A d, n : OwnNumber(d, n) => OwnNumber(d, n)'
  BY DEF OwnNumber
<1>6. ASSUME NEW q \in Requests
      PROVE  /\ HasCopy(q)' /\ request'[q].copy.number # NoNumber =>
                  OwnNumber(request[q].doc, request[q].copy.number)'
             /\ request'[q].pc = "entry" =>
                  OwnNumber(request[q].doc, request[q].entry.number)'
  <2>1. CASE q = p
    BY <1>1, <1>5, <2>1 DEF HasCopy, RequestOK, EntryRequestOK
  <2>2. CASE q # p
    BY <1>1, <1>5, <2>2 DEF RegInv, Own, HasCopy
  <2>. QED  BY <2>1, <2>2
<1>7. Own'
  BY <1>5, <1>6 DEF Own
<1>. QED  BY <1>2, <1>3, <1>4, <1>7 DEF RegInv

LEMMA LoadKeeps ==
  ASSUME RegInv, NEW p \in Requests, NEW d \in Documents, NEW kind \in Kinds, Load(p, d, kind)
  PROVE  RegInv'
<1>1. PICK r : r = [pc |-> IF kind = "register" THEN "loaded" ELSE "ready",
                    kind |-> kind, doc |-> d, copy |-> document[d], inserts |-> FALSE]
  OBVIOUS
<1>2. /\ RequestOK(r) /\ ~EntryRequestOK(r) /\ r.pc \in {"loaded", "ready"}
      /\ r.doc = d /\ r.copy = document[d]
  BY <1>1 DEF RegInv, Rows, RequestOK, EntryRequestOK
<1>3. request' = [request EXCEPT ![p] = r] /\ UNCHANGED <<document, sequence, journal, owner>>
  BY <1>1 DEF Load
<1>4. r.copy.number # NoNumber => OwnNumber(r.doc, r.copy.number)
  BY <1>2 DEF RegInv, Own
<1>. QED  BY <1>2, <1>3, <1>4, NoNumberGiven DEF RegInv, Rows, Own

\* What NoNumberGiven asks of the rows, when they stay.
LEMMA RowsStay ==
  ASSUME RegInv
  PROVE  /\ document \in [Documents -> Document]
         /\ \A d \in Documents : document[d].number # NoNumber => OwnNumber(d, document[d].number)
         /\ journal \in [Documents -> Entry \cup {NoEntry}]
         /\ \A d \in Documents : journal[d] # NoEntry => OwnNumber(d, journal[d].number)
  BY DEF RegInv, Rows, Own

\* CheckJournal, FindNoSequence, Fail: the rows stay, the request ends or moves on.
LEMMA RequestMoves ==
  ASSUME RegInv, NEW p \in Requests, HasCopy(p),
         UNCHANGED <<document, sequence, journal, owner>>,
         NEW r, request' = [request EXCEPT ![p] = r],
         \/ r = Idle
         \/ /\ RequestOK(r) /\ r.pc # "locked"
            /\ r.doc = request[p].doc /\ r.copy = request[p].copy
  PROVE  RegInv'
<1>1. /\ r.pc = "idle" \/ RequestOK(r)
      /\ r.pc # "locked" /\ ~EntryRequestOK(r)
      /\ RequestOK(r) /\ r.copy.number # NoNumber => OwnNumber(r.doc, r.copy.number)
  BY DEF RegInv, Own, Idle, RequestOK, EntryRequestOK
<1>. QED  BY <1>1, NoNumberGiven, RowsStay

LEMMA CheckJournalKeeps ==
  ASSUME RegInv, NEW p \in Requests, CheckJournal(p) PROVE RegInv'
<1>1. PICK r : r = request[p] /\ RequestOK(r) /\ r.pc = "loaded" /\ HasCopy(p)
  BY DEF RegInv, Rows, CheckJournal, EntryRequestOK, HasCopy
<1>2. PICK next : next = [r EXCEPT !.pc = "ready", !.inserts = (journal[r.doc] = NoEntry)]
  OBVIOUS
<1>3. RequestOK(next) /\ next.pc = "ready" /\ next.doc = r.doc /\ next.copy = r.copy
  BY <1>1, <1>2 DEF RequestOK
<1>4. /\ \/ request' = [request EXCEPT ![p] = Idle]
         \/ request' = [request EXCEPT ![p] = next]
      /\ UNCHANGED <<document, sequence, journal, owner>>
  BY <1>1, <1>2 DEF CheckJournal
<1>. QED  BY <1>1, <1>3, <1>4, RequestMoves

LEMMA FindNoSequenceKeeps ==
  ASSUME RegInv, NEW p \in Requests, FindNoSequence(p) PROVE RegInv'
<1>1. PICK r : r = request[p] /\ RequestOK(r) /\ r.pc = "ready" /\ r.copy.number = NoNumber
               /\ HasCopy(p)
  BY DEF RegInv, Rows, FindNoSequence, NeedsNumber, EntryRequestOK, HasCopy
<1>2. PICK next : next = [r EXCEPT !.pc = "creating"]
  OBVIOUS
<1>3. RequestOK(next) /\ next.pc = "creating" /\ next.doc = r.doc /\ next.copy = r.copy
  BY <1>1, <1>2 DEF RequestOK
<1>4. /\ request' = [request EXCEPT ![p] = next]
      /\ UNCHANGED <<document, sequence, journal, owner>>
  BY <1>1, <1>2 DEF FindNoSequence
<1>. QED  BY <1>1, <1>3, <1>4, RequestMoves

LEMMA FailKeeps ==
  ASSUME RegInv, NEW p \in Requests, Fail(p) PROVE RegInv'
<1>1. /\ HasCopy(p) /\ request' = [request EXCEPT ![p] = Idle]
      /\ UNCHANGED <<document, sequence, journal, owner>>
  BY DEF Fail, ReadyToCommit, HasCopy
<1>. QED  BY <1>1, RequestMoves

LEMMA LockSequenceKeeps ==
  ASSUME RegInv, NEW p \in Requests, LockSequence(p) PROVE RegInv'
<1>1. PICK r : r = request[p] /\ RequestOK(r) /\ r.pc = "ready" /\ r.copy.number = NoNumber
  BY DEF RegInv, Rows, LockSequence, NeedsNumber, EntryRequestOK
<1>2. PICK next : next = [pc |-> "locked", kind |-> r.kind, doc |-> r.doc, copy |-> r.copy,
                          inserts |-> r.inserts, value |-> sequence[r.copy.type] + 1]
  OBVIOUS
<1>3. /\ RequestOK(next) /\ next.pc = "locked" /\ next.doc = r.doc /\ next.copy = r.copy
      /\ next.value = sequence[r.copy.type] + 1
  BY <1>1, <1>2 DEF RequestOK
<1>4. /\ request' = [request EXCEPT ![p] = next]
      /\ sequence[r.copy.type] # Absent /\ sequence[r.copy.type] < MaxValue /\ RowIsFree(p)
      /\ UNCHANGED <<document, sequence, journal, owner>>
  BY <1>1, <1>2 DEF LockSequence
<1>5. /\ DOMAIN request' = Requests /\ request'[p] = next
      /\ \A q \in Requests \ {p} : request'[q] = request[q]
  BY <1>4 DEF RegInv, Rows
<1>6. next.value \in 1 .. MaxValue
  <2>1. sequence[r.copy.type] \in 1 .. MaxValue
    BY <1>1, <1>4 DEF RegInv, Rows, RequestOK, Document
  <2>. QED  BY <1>3, <1>4, <2>1, RegistrationAssumption
<1>7. Rows'
  BY <1>3, <1>4, <1>5 DEF RegInv, Rows
<1>8. Locks'
  BY <1>1, <1>3, <1>4, <1>5, <1>6 DEF RegInv, Locks, RowIsFree
<1>9. GivenOut' /\ Own'
  BY <1>1, <1>3, <1>4, <1>5 DEF RegInv, GivenOut, Own, OwnNumber, HasCopy
<1>. QED  BY <1>7, <1>8, <1>9 DEF RegInv

LEMMA CommitEntryKeeps ==
  ASSUME RegInv, NEW p \in Requests, CommitEntry(p) PROVE RegInv'
<1>1. PICK r : r = request[p] /\ RequestOK(r) /\ r.copy.number # NoNumber
               /\ journal' = [journal EXCEPT ![r.doc] = EntryFor(r.copy.number)]
               /\ request' = [request EXCEPT ![p] = Idle] /\ UNCHANGED <<document, sequence, owner>>
  BY DEF RegInv, Rows, CommitEntry, EntryRequestOK
<1>2. PICK entry : entry = EntryFor(r.copy.number)
  OBVIOUS
<1>3. entry \in Entry /\ entry.number = r.copy.number
  BY <1>1, <1>2 DEF EntryFor, Entry, RequestOK, Document
<1>4. journal' \in [Documents -> Entry \cup {NoEntry}]
  BY <1>1, <1>2, <1>3 DEF RegInv, Rows, RequestOK
<1>5. OwnNumber(r.doc, r.copy.number)
  BY <1>1 DEF RegInv, Own, RequestOK, HasCopy
<1>6. \A d \in Documents : journal'[d] # NoEntry => OwnNumber(d, journal'[d].number)
  BY <1>1, <1>2, <1>3, <1>5 DEF RegInv, Rows, Own
<1>7. PICK idle : idle = Idle
  OBVIOUS
<1>8. idle.pc = "idle" /\ ~RequestOK(idle) /\ ~EntryRequestOK(idle)
  BY <1>7 DEF Idle, RequestOK, EntryRequestOK
<1>. QED  BY <1>1, <1>4, <1>6, <1>7, <1>8, NoNumberGiven, RowsStay

LEMMA CommitCopyKeeps ==
  ASSUME RegInv, NEW p \in Requests, NEW newType \in Types, CommitCopy(p, newType) PROVE RegInv'
<1>1. PICK r : r = request[p] /\ RequestOK(r)
               /\ document' = [document EXCEPT ![r.doc] = [r.copy EXCEPT !.type = newType]]
               /\ request' = [request EXCEPT ![p] = Idle] /\ UNCHANGED <<sequence, journal, owner>>
  BY DEF RegInv, Rows, CommitCopy, EntryRequestOK
<1>2. PICK copy : copy = [r.copy EXCEPT !.type = newType]
  OBVIOUS
<1>3. copy \in Document /\ copy.number = r.copy.number
  BY <1>1, <1>2 DEF RequestOK, Document
<1>4. document' \in [Documents -> Document]
  BY <1>1, <1>2, <1>3 DEF RegInv, Rows, RequestOK
<1>5. copy.number # NoNumber => OwnNumber(r.doc, copy.number)
  BY <1>1, <1>3 DEF RegInv, Own, RequestOK, HasCopy
<1>6. \A d \in Documents : document'[d].number # NoNumber => OwnNumber(d, document'[d].number)
  BY <1>1, <1>2, <1>5 DEF RegInv, Rows, Own
<1>7. PICK idle : idle = Idle
  OBVIOUS
<1>8. idle.pc = "idle" /\ ~RequestOK(idle) /\ ~EntryRequestOK(idle)
  BY <1>7 DEF Idle, RequestOK, EntryRequestOK
<1>. QED  BY <1>1, <1>4, <1>6, <1>7, <1>8, NoNumberGiven, RowsStay

\* The number that a transaction gives is the next one of its scope, and nobody has it.
LEMMA NextNumber ==
  ASSUME RegInv, NEW p \in Requests, CommitNumber(p)
  PROVE  LET r      == request[p]
             scope  == r.copy.type
             number == <<scope, NewValue(p)>>
         IN  /\ RequestOK(r) /\ r.copy.number = NoNumber /\ scope \in Types
             /\ NewValue(p) \in 1 .. MaxValue /\ NewValue(p) = Given[scope] + 1
             /\ Given[scope] \in Nat
             /\ number \in Numbers /\ number # NoNumber /\ number \notin DOMAIN owner
<1> DEFINE r == request[p]
           scope == r.copy.type
<1>1. RequestOK(r) /\ r.pc \in {"locked", "creating"} /\ r.copy.number = NoNumber /\ scope \in Types
  BY DEF RegInv, Rows, RequestOK, EntryRequestOK, CommitNumber, Document
<1>2. Given[scope] = IF sequence[scope] = Absent THEN 0 ELSE sequence[scope]
  BY <1>1 DEF Given
<1>3. NewValue(p) \in 1 .. MaxValue /\ NewValue(p) = Given[scope] + 1 /\ Given[scope] \in Nat
  <2>1. CASE r.pc = "locked"
    BY <1>1, <1>2, <2>1, RegistrationAssumption DEF RegInv, Rows, Locks, NewValue
  <2>2. CASE r.pc = "creating"
    <3>1. sequence[scope] = Absent
      BY <2>2 DEF CommitNumber, Collides
    <3>. QED  BY <1>2, <2>2, <3>1, RegistrationAssumption DEF CommitNumber, NewValue
  <2>. QED  BY <1>1, <2>1, <2>2
<1>4. PICK v : v = NewValue(p)
  OBVIOUS
<1>5. <<scope, v>> \in Numbers /\ <<scope, v>> # NoNumber
  BY <1>1, <1>3, <1>4, RegistrationAssumption DEF Numbers
<1>6. <<scope, v>> \notin DOMAIN owner
  <2>1. SUFFICES ASSUME <<scope, v>> \in DOMAIN owner PROVE FALSE
    OBVIOUS
  <2>2. sequence[scope] # Absent /\ v <= sequence[scope]
    BY <2>1 DEF RegInv, GivenOut
  <2>. QED  BY <1>2, <1>3, <1>4, <2>2
<1>. QED  BY <1>1, <1>3, <1>4, <1>5, <1>6

LEMMA CommitNumberKeeps ==
  ASSUME RegInv, NEW p \in Requests, CommitNumber(p) PROVE RegInv'
<1>1. PICK r : r = request[p] /\ RequestOK(r) /\ r.copy.number = NoNumber
               /\ r.pc \in {"locked", "creating"}
  BY NextNumber DEF CommitNumber
<1>2. PICK v : v = NewValue(p)
  OBVIOUS
<1>3. PICK scope : scope = r.copy.type
  OBVIOUS
<1>4. PICK number : number = <<scope, v>>
  OBVIOUS
<1>5. /\ scope \in Types /\ v \in 1 .. MaxValue /\ number \in Numbers /\ number # NoNumber
      /\ number \notin DOMAIN owner
      /\ sequence[scope] # Absent => v = sequence[scope] + 1
      /\ r.pc = "creating" => sequence[scope] = Absent
  <2>1. v = Given[scope] + 1 /\ scope \in Types
    BY <1>1, <1>2, <1>3, NextNumber
  <2>2. sequence[scope] # Absent => v = sequence[scope] + 1
    BY <2>1 DEF Given
  <2>3. r.pc = "creating" => sequence[scope] = Absent
    BY <1>1, <1>3 DEF CommitNumber, Collides
  <2>. QED  BY <1>1, <1>2, <1>3, <1>4, <2>1, <2>2, <2>3, NextNumber
<1>6. /\ sequence' = [sequence EXCEPT ![scope] = v]
      /\ document' = [document EXCEPT ![r.doc] = [r.copy EXCEPT !.number = number]]
      /\ journal' = IF r.kind = "register" THEN [journal EXCEPT ![r.doc] = EntryFor(number)] ELSE journal
      /\ owner' = [n \in DOMAIN owner \cup {number} |-> IF n = number THEN r.doc ELSE owner[n]]
      /\ request' = [request EXCEPT ![p] = Idle]
  BY <1>1, <1>2, <1>3, <1>4 DEF CommitNumber
<1>7. /\ \A d, n : OwnNumber(d, n) => OwnNumber(d, n)'
      /\ OwnNumber(r.doc, number)'
  BY <1>5, <1>6 DEF OwnNumber
<1>8. PICK copy : copy = [r.copy EXCEPT !.number = number]
  OBVIOUS
<1>9. copy \in Document /\ copy.number = number
  BY <1>1, <1>5, <1>8 DEF RequestOK, Document
<1>10. PICK entry : entry = EntryFor(number)
  OBVIOUS
<1>11. entry \in Entry /\ entry.number = number
  BY <1>5, <1>10 DEF EntryFor, Entry
<1>12. /\ DOMAIN request' = Requests /\ request'[p].pc = "idle"
       /\ \A q \in Requests \ {p} : request'[q] = request[q]
  BY <1>6 DEF RegInv, Rows, Idle
<1>13. r.doc \in Documents
  BY <1>1 DEF RequestOK
<1>14. Rows'
  BY <1>5, <1>6, <1>8, <1>9, <1>10, <1>11, <1>12 DEF RegInv, Rows
<1>15. Own'
  <2>1. ASSUME NEW d \in Documents, document'[d].number # NoNumber
        PROVE  OwnNumber(d, document[d].number)'
    BY <1>6, <1>7, <1>8, <1>9, <2>1 DEF RegInv, Rows, Own
  <2>2. ASSUME NEW d \in Documents, journal'[d] # NoEntry
        PROVE  OwnNumber(d, journal[d].number)'
    BY <1>6, <1>7, <1>10, <1>11, <2>2 DEF RegInv, Rows, Own
  <2>3. ASSUME NEW q \in Requests, HasCopy(q)', request'[q].copy.number # NoNumber
        PROVE  OwnNumber(request[q].doc, request[q].copy.number)'
    BY <1>7, <1>12, <2>3 DEF RegInv, Own, HasCopy
  <2>4. ASSUME NEW q \in Requests, request'[q].pc = "entry"
        PROVE  OwnNumber(request[q].doc, request[q].entry.number)'
    BY <1>7, <1>12, <2>4 DEF RegInv, Own
  <2>. QED  BY <2>1, <2>2, <2>3, <2>4 DEF Own
<1>16. GivenOut'
  <2>1. \A t \in Types : sequence'[t] = IF t = scope THEN v ELSE sequence[t]
    BY <1>5, <1>6 DEF RegInv, Rows
  <2>2. v # Absent /\ v \in Nat
    BY <1>5, RegistrationAssumption
  <2>3. ASSUME NEW n \in DOMAIN owner'
        PROVE  /\ n \in Numbers /\ owner'[n] \in Documents
               /\ sequence'[n[1]] # Absent /\ n[2] <= sequence'[n[1]]
    <3>1. CASE n = number
      BY <1>4, <1>5, <1>6, <1>13, <2>1, <2>2, <3>1
    <3>2. CASE n # number
      <4>1. /\ n \in Numbers /\ owner'[n] \in Documents
            /\ sequence[n[1]] # Absent /\ n[2] <= sequence[n[1]]
        BY <1>6, <3>2 DEF RegInv, GivenOut
      <4>2. n[1] \in Types /\ n[2] \in Nat
        BY <4>1 DEF Numbers
      <4>3. sequence[n[1]] \in Nat
        BY <4>1, <4>2 DEF RegInv, Rows
      <4>. QED  BY <1>5, <2>1, <2>2, <4>1, <4>2, <4>3
    <3>. QED  BY <3>1, <3>2
  <2>. QED  BY <2>3 DEF GivenOut
<1>17. Locks'
  <2>1. ASSUME NEW q \in Requests, request'[q].pc = "locked"
        PROVE  q # p /\ request'[q] = request[q] /\ request[q].copy.type # scope
               /\ request[q].copy.type \in Types
    <3>1. q # p /\ request'[q] = request[q] /\ request[q].pc = "locked"
      BY <1>12, <2>1
    <3>2. sequence[request[q].copy.type] # Absent /\ RequestOK(request[q])
      BY <3>1 DEF RegInv, Rows, Locks, EntryRequestOK
    <3>3. request[q].copy.type # scope
      BY <1>1, <1>3, <1>5, <3>1, <3>2 DEF RegInv, Locks
    <3>. QED  BY <3>1, <3>2, <3>3 DEF RequestOK, Document
  <2>2. \A t \in Types \ {scope} : sequence'[t] = sequence[t]
    BY <1>5, <1>6 DEF RegInv, Rows
  <2>. QED  BY <1>12, <2>1, <2>2 DEF RegInv, Locks
<1>. QED  BY <1>14, <1>15, <1>16, <1>17 DEF RegInv

LEMMA ReadEntryKeeps ==
  ASSUME RegInv, NEW p \in Requests, NEW d \in Documents, ReadEntry(p, d) PROVE RegInv'
<1>1. PICK r : r = [pc |-> "entry", doc |-> d, entry |-> journal[d]]
  OBVIOUS
<1>2. journal[d] \in Entry /\ OwnNumber(d, journal[d].number)
  BY DEF ReadEntry, RegInv, Rows, Own
<1>3. EntryRequestOK(r) /\ ~RequestOK(r) /\ r.pc = "entry" /\ r.doc = d /\ r.entry = journal[d]
  BY <1>1, <1>2 DEF EntryRequestOK, RequestOK
<1>4. request' = [request EXCEPT ![p] = r] /\ UNCHANGED <<document, sequence, journal, owner>>
  BY <1>1 DEF ReadEntry
<1>. QED  BY <1>2, <1>3, <1>4, NoNumberGiven, RowsStay

\* The copy of the entry may be old: its number is the document's all the same.
LEMMA SaveEntryKeeps ==
  ASSUME RegInv, NEW p \in Requests, NEW status \in {"registered", "cancelled"},
         SaveEntry(p, status)
  PROVE  RegInv'
<1>1. PICK r : /\ r = request[p] /\ EntryRequestOK(r)
               /\ journal' = [journal EXCEPT ![r.doc] = [r.entry EXCEPT !.status = status]]
               /\ request' = [request EXCEPT ![p] = Idle] /\ UNCHANGED <<document, sequence, owner>>
  BY DEF SaveEntry, RegInv, Rows, RequestOK
<1>2. PICK next : next = [r.entry EXCEPT !.status = status]
  OBVIOUS
<1>3. next \in Entry /\ next.number = r.entry.number
  BY <1>1, <1>2 DEF Entry, EntryRequestOK
<1>4. OwnNumber(r.doc, next.number) /\ r.doc \in Documents
  BY <1>1, <1>3 DEF RegInv, Own, EntryRequestOK
<1>5. journal' \in [Documents -> Entry \cup {NoEntry}]
  BY <1>1, <1>2, <1>3, <1>4 DEF RegInv, Rows
<1>6. \A d \in Documents : journal'[d] # NoEntry => OwnNumber(d, journal'[d].number)
  BY <1>1, <1>2, <1>4 DEF RegInv, Rows, Own
<1>7. PICK idle : idle = Idle
  OBVIOUS
<1>8. idle.pc = "idle" /\ ~RequestOK(idle) /\ ~EntryRequestOK(idle)
  BY <1>7 DEF Idle, RequestOK, EntryRequestOK
<1>. QED  BY <1>1, <1>5, <1>6, <1>7, <1>8, NoNumberGiven, RowsStay

LEMMA RegStepKeeps == RegInv /\ [Next]_vars => RegInv'
<1> SUFFICES ASSUME RegInv, [Next]_vars PROVE RegInv'
  OBVIOUS
<1>1. CASE UNCHANGED vars
  BY <1>1 DEF vars, RegInv, Rows, Locks, GivenOut, Own, OwnNumber, HasCopy
<1>2. ASSUME NEW p \in Requests, NEW d \in Documents, NEW kind \in Kinds, Load(p, d, kind)
      PROVE  RegInv'
  BY <1>2, LoadKeeps
<1>3. ASSUME NEW p \in Requests,
             \/ CheckJournal(p) \/ LockSequence(p) \/ FindNoSequence(p)
             \/ Fail(p) \/ CommitNumber(p) \/ CommitEntry(p)
      PROVE  RegInv'
  BY <1>3, CheckJournalKeeps, LockSequenceKeeps, FindNoSequenceKeeps, FailKeeps,
     CommitNumberKeeps, CommitEntryKeeps
<1>4. ASSUME NEW p \in Requests, NEW newType \in Types, CommitCopy(p, newType) PROVE RegInv'
  BY <1>4, CommitCopyKeeps
<1>5. ASSUME NEW p \in Requests, NEW d \in Documents, ReadEntry(p, d) PROVE RegInv'
  BY <1>5, ReadEntryKeeps
<1>6. ASSUME NEW p \in Requests, NEW status \in {"registered", "cancelled"}, SaveEntry(p, status)
      PROVE  RegInv'
  BY <1>6, SaveEntryKeeps
<1>. QED  BY <1>1, <1>2, <1>3, <1>4, <1>5, <1>6 DEF Next

\* assignExternalNumber, registerDocument, updateRegistrationStatus: for any number of documents,
\* types and requests that overlap, a number shown anywhere was given to the document that shows it.
THEOREM NumbersOwned == Spec => []NumbersBelong
<1>1. RegInv => NumbersBelong
  <2> SUFFICES ASSUME RegInv PROVE NumbersBelong
    OBVIOUS
  <2>1. TypeOK
    BY DEF RegInv, Rows, GivenOut, RequestOK, EntryRequestOK, HasCopy, TypeOK
  <2>. QED  BY <2>1 DEF RegInv, Own, OwnNumber, NumbersBelong
<1>. QED  BY RegInitially, RegStepKeeps, <1>1, PTL DEF Spec

-----------------------------------------------------------------------------

\* Of the steps, CommitNumber and CommitCopy write documents; both end the request, and when the
\* number of a document changes, its copy was not the document any more.
LEMMA RenumberingIsStale ==
  ASSUME RegInv, [Next]_vars, NEW d \in Documents,
         document[d].number # NoNumber, document'[d].number # document[d].number
  PROVE  \E p \in Requests : Stale(p) /\ request[p].doc = d /\ request'[p] = Idle
<1>1. ASSUME NEW p \in Requests, CommitNumber(p)
      PROVE  Stale(p) /\ request[p].doc = d /\ request'[p] = Idle
  <2>1. PICK r : r = request[p] /\ RequestOK(r) /\ r.copy.number = NoNumber
    BY <1>1, NextNumber
  <2>2. \A e \in Documents : e # r.doc => document'[e] = document[e]
    BY <1>1, <2>1 DEF CommitNumber, RegInv, Rows
  <2>3. r.doc = d /\ r.copy # document[d]
    BY <2>1, <2>2
  <2>4. request'[p] = Idle
    BY <1>1 DEF CommitNumber, RegInv, Rows
  <2>. QED  BY <2>1, <2>3, <2>4 DEF Stale, HasCopy, RequestOK
<1>2. ASSUME NEW p \in Requests, NEW newType \in Types, CommitCopy(p, newType)
      PROVE  Stale(p) /\ request[p].doc = d /\ request'[p] = Idle
  <2>1. PICK r : r = request[p] /\ RequestOK(r)
                 /\ document' = [document EXCEPT ![r.doc] = [r.copy EXCEPT !.type = newType]]
                 /\ request' = [request EXCEPT ![p] = Idle]
    BY <1>2 DEF RegInv, Rows, CommitCopy, EntryRequestOK
  <2>2. PICK copy : copy = [r.copy EXCEPT !.type = newType]
    OBVIOUS
  <2>3. copy.number = r.copy.number
    BY <2>1, <2>2 DEF RequestOK, Document
  <2>4. r.doc = d /\ r.copy # document[d]
    BY <2>1, <2>2, <2>3 DEF RegInv, Rows
  <2>5. request'[p] = Idle
    BY <2>1 DEF RegInv, Rows
  <2>. QED  BY <2>1, <2>4, <2>5 DEF Stale, HasCopy, RequestOK
<1>3. CASE UNCHANGED document
  BY <1>3
<1>. QED
  BY <1>1, <1>2, <1>3
  DEF Next, vars, Load, CheckJournal, LockSequence, FindNoSequence, Fail, CommitEntry, ReadEntry,
      SaveEntry

\* submitToRoute, updateDraft and the verdicts, which save whole copies: for any number of
\* requests, a document loses or changes its number only to a copy that is older than the number.
THEOREM RenumberedByStaleCopies == Spec => OnlyStaleCopiesRenumber
<1>1. RegInv /\ [Next]_vars =>
        [\A d \in Documents :
           /\ document[d].number # NoNumber
           /\ document'[d].number # document[d].number
           => \E p \in Requests : Stale(p) /\ request[p].doc = d /\ request'[p] = Idle]_vars
  BY RenumberingIsStale
<1>. QED  BY RegInitially, RegStepKeeps, <1>1, PTL DEF Spec, OnlyStaleCopiesRenumber

-----------------------------------------------------------------------------

\* Every commit that writes the sequence is the office giving the next number; nothing else is
\* seen by the office.
LEMMA IssuerStep == RegInv /\ [Next]_vars => [Issuer!IssuerNext]_(Issuer!issuerVars)
<1> SUFFICES ASSUME RegInv, [Next]_vars PROVE [Issuer!IssuerNext]_(Issuer!issuerVars)
  OBVIOUS
<1>1. CASE UNCHANGED <<sequence, owner>>
  BY <1>1 DEF Issuer!issuerVars, Given
<1>2. ASSUME NEW p \in Requests, CommitNumber(p) PROVE Issuer!IssuerNext
  <2>1. PICK r : r = request[p] /\ RequestOK(r)
    BY <1>2, NextNumber
  <2>2. PICK scope : scope = r.copy.type
    OBVIOUS
  <2>3. PICK v : v = NewValue(p)
    OBVIOUS
  <2>4. scope \in Types /\ v = Given[scope] + 1 /\ v \in Nat /\ r.doc \in Documents
    <3>1. scope \in Types /\ v = Given[scope] + 1 /\ v \in 1 .. MaxValue
      BY <1>2, <2>1, <2>2, <2>3, NextNumber
    <3>. QED  BY <2>1, <3>1, RegistrationAssumption DEF RequestOK
  <2>5. /\ sequence' = [sequence EXCEPT ![scope] = v]
        /\ owner' = [n \in DOMAIN owner \cup {<<scope, v>>} |-> IF n = <<scope, v>> THEN r.doc ELSE owner[n]]
    BY <1>2, <2>1, <2>2, <2>3 DEF CommitNumber
  <2>6. v # Absent
    BY <2>4, RegistrationAssumption
  <2>7. Given' = [Given EXCEPT ![scope] = Given[scope] + 1]
    BY <2>4, <2>5, <2>6 DEF Given, RegInv, Rows
  <2>8. Issuer!Give(scope, r.doc)
    BY <2>4, <2>5, <2>7 DEF Issuer!Give
  <2>. QED  BY <2>4, <2>8 DEF Issuer!IssuerNext
<1>. QED
  BY <1>1, <1>2
  DEF Next, vars, Load, CheckJournal, LockSequence, FindNoSequence, Fail, CommitEntry,
      CommitCopy, ReadEntry, SaveEntry

\* EdmRegistration implements NumberIssuer: however many requests overlap, fail, or create a scope
\* at once, its numbers come in order, without a gap, each to one document.
THEOREM RefinesIssuer == Spec => IssuesInOrder
<1>1. Init => Issuer!IssuerInit
  BY DEF Init, Issuer!IssuerInit, Given
<1>. QED  BY RegInitially, RegStepKeeps, IssuerStep, <1>1, PTL DEF Spec, IssuesInOrder, Issuer!IssuerSpec
=============================================================================
