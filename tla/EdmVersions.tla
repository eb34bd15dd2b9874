---------------------------- MODULE EdmVersions ----------------------------
(***************************************************************************)
(* The versions of one document of the second EDM.  A manual save inserts  *)
(* the version after the one the document says is current, and then        *)
(* advances the document; an automatic save writes over the current one.   *)
(* No transaction holds the statements together: saves overlap, and may    *)
(* end between any two of them.  updateMetadata saves a copy of the        *)
(* document, with the current version of when it was read.                 *)
(*                                                                         *)
(*   current   current_version of edm_v2_documents                         *)
(*   history   the rows of edm_v2_document_versions: number -> content;    *)
(*             (document_id, version_number) is unique                     *)
(*   saver     the requests in flight                                      *)
(*   saves     requests so far; the content of a save is its number here   *)
(*   muddled   history: a save died before it advanced the document, or a  *)
(*             copy put the current version back                           *)
(***************************************************************************)
EXTENDS Naturals

CONSTANTS Savers, MaxSaves   \* bound: requests in all

ASSUME VersionsAssumption == MaxSaves \in Nat

VARIABLES current, history, saver, saves, muddled

versions == <<current, history, saver, saves, muddled>>

Resting == [pc |-> "none"]
Kinds   == {"auto_save", "manual_save"}
Numbers == DOMAIN history

Newest(n) == n \in Numbers /\ \A m \in Numbers : m <= n

\* Every request starts with a read of the document.
ReadCurrent(p, pc, kind, content) ==
  /\ saver[p] = Resting /\ saves < MaxSaves
  /\ saves' = saves + 1
  /\ saver' = [saver EXCEPT ![p] = [pc |-> pc, base |-> current, kind |-> kind,
                                    content |-> content]]
  /\ UNCHANGED <<current, history, muddled>>

SaveContent(p, kind) ==
  ReadCurrent(p, IF kind = "auto_save" THEN "find" ELSE "insert", kind, saves + 1)

Restore(p, n) == ReadCurrent(p, "insert", "manual_save", history[n])

UpdateDocument(p) == ReadCurrent(p, "copy", "none", 0)

Leave(p) == saver' = [saver EXCEPT ![p] = Resting]
Proceed(p, pc) == saver' = [saver EXCEPT ![p].pc = pc]

\* An automatic save looks for the row of the current version.
FindSlot(p) ==
  /\ saver[p].pc = "find"
  /\ Proceed(p, IF saver[p].base \in Numbers THEN "overwrite" ELSE "insert")
  /\ UNCHANGED <<current, history, saves, muddled>>

Overwrite(p) ==
  /\ saver[p].pc = "overwrite"
  /\ history' = [history EXCEPT ![saver[p].base] = saver[p].content]
  /\ Leave(p)
  /\ UNCHANGED <<current, saves, muddled>>

\* Bug: every save takes the next number.
AlwaysNext(kind, base) == base + 1

NumberFor(kind, base) == IF kind = "auto_save" THEN base ELSE base + 1

\* The unique index refuses a number that is taken, and the save with it.
InsertVersion(p) ==
  LET n == NumberFor(saver[p].kind, saver[p].base)
  IN /\ saver[p].pc = "insert"
     /\ IF n \in Numbers THEN Leave(p) /\ UNCHANGED history
        ELSE /\ history' = [m \in Numbers \cup {n} |->
                              IF m = n THEN saver[p].content ELSE history[m]]
             /\ IF saver[p].kind = "auto_save" THEN Leave(p) ELSE Proceed(p, "advance")
     /\ UNCHANGED <<current, saves, muddled>>

Advance(p) ==
  /\ saver[p].pc = "advance"
  /\ current' = saver[p].base + 1
  /\ Leave(p)
  /\ UNCHANGED <<history, saves, muddled>>

SaveCopy(p) ==
  /\ saver[p].pc = "copy"
  /\ current' = saver[p].base
  /\ muddled' = (muddled \/ current # saver[p].base)
  /\ Leave(p)
  /\ UNCHANGED <<history, saves>>

Die(p) ==
  /\ saver[p] # Resting
  /\ muddled' = (muddled \/ saver[p].pc = "advance")
  /\ Leave(p)
  /\ UNCHANGED <<current, history, saves>>

\* create has saved the document, and is about to save its first version.
VersionsInit ==
  /\ current = 1 /\ history = [n \in {} |-> 0] /\ saves = 0 /\ muddled = FALSE
  /\ \E p \in Savers :
       saver = [q \in Savers |->
                  IF q = p THEN [pc |-> "insert", base |-> 1, kind |-> "manual_save", content |-> 0]
                  ELSE Resting]

VersionsNext ==
  \E p \in Savers :
    \/ \E kind \in Kinds : SaveContent(p, kind)
    \/ \E n \in Numbers : Restore(p, n)
    \/ UpdateDocument(p)
    \/ FindSlot(p) \/ Overwrite(p) \/ InsertVersion(p) \/ Advance(p) \/ SaveCopy(p) \/ Die(p)

VersionsSpec == VersionsInit /\ [][VersionsNext]_versions

-----------------------------------------------------------------------------

VersionsTypeOK ==
  /\ current \in 1..(MaxSaves + 2) /\ saves \in 0..MaxSaves /\ muddled \in BOOLEAN
  /\ Numbers \subseteq 1..(MaxSaves + 2)
  /\ \A n \in Numbers : history[n] \in 0..MaxSaves
  /\ \A p \in Savers : saver[p] # Resting =>
       /\ saver[p].pc \in {"find", "overwrite", "insert", "advance", "copy"}
       /\ saver[p].base \in 1..(MaxSaves + 2) /\ saver[p].content \in 0..MaxSaves

\* As long as no save died before it advanced the document and no copy put the version back, the
\* version the document calls current is the newest one, also when saves overlap: a newer one is
\* there only while the save that made it is about to advance the document, to just that.  A
\* document has no version when the save of its creation died.
CurrentIsNewest ==
  muddled \/ Numbers = {} \/
    \/ Newest(current)
    \/ \E p \in Savers : saver[p].pc = "advance" /\ saver[p].base = current /\ Newest(current + 1)
=============================================================================
