------------------------------ MODULE FileStore ------------------------------
(***************************************************************************)
(* Files: an object in the S3 store and a row that speaks of it.  A file   *)
(* is sent through the backend (uploadFile), or straight to the store with *)
(* a presigned URL and announced afterwards (completePresignedUpload); it  *)
(* is deleted by its owner (softDelete).  Each reads and writes the store  *)
(* and the table in steps of their own, and can end between any two.       *)
(*                                                                         *)
(*   objects   what the store has: the size of the object under a key      *)
(*   fileRows  the table files, by storage key, which is unique            *)
(*   origin    how a key came to be: "direct", "url" while its URL is      *)
(*             valid, "expired" afterwards                                 *)
(*   filing    the requests in flight                                      *)
(*   again     history: the keys that were put again after they were       *)
(*             looked at, which the URL allows as long as it is valid      *)
(*   torn      history: the keys whose deletion ended between object and   *)
(*             row and was not repeated                                    *)
(*                                                                         *)
(* A key holds a random UUID, so each is made once.  Left out: who may see *)
(* a file, its links and shares, and the audit rows.                       *)
(***************************************************************************)
EXTENDS Naturals, FiniteSets

CONSTANTS StorageKeys, ObjectSizes, Filers

VARIABLES objects, fileRows, origin, filing, again, torn

filesVars == <<objects, fileRows, origin, filing, again, torn>>

FileRow == [status : {"active", "deleted"}, size : ObjectSizes]
Filing  == [key : StorageKeys, at : {"put", "head", "row", "object", "status"}, size : ObjectSizes]

HasRow(k) == k \in DOMAIN fileRows
Stored(k) == k \in DOMAIN objects

Begin(w, k, at, size) ==
  /\ w \notin DOMAIN filing
  /\ filing' = [v \in DOMAIN filing \cup {w} |->
                  IF v = w THEN [key |-> k, at |-> at, size |-> size] ELSE filing[v]]

Goes(w, at) == filing' = [filing EXCEPT ![w].at = at]
Finish(w)   == filing' = [v \in DOMAIN filing \ {w} |-> filing[v]]

\* PUT: the object of a key, whatever was there.
PutInto(k, size) == objects' = [j \in DOMAIN objects \cup {k} |-> IF j = k THEN size ELSE objects[j]]

\* The row of a key; both the insertion and the update of its status.
WriteRow(k, row) == fileRows' = [j \in DOMAIN fileRows \cup {k} |-> IF j = k THEN row ELSE fileRows[j]]

-----------------------------------------------------------------------------

\* uploadFile: first the object, under a new key ...
UploadFile(w, k, size) ==
  /\ origin[k] = "none" /\ Begin(w, k, "put", size)
  /\ origin' = [origin EXCEPT ![k] = "direct"]
  /\ UNCHANGED <<objects, fileRows, again, torn>>

SendObject(w) ==
  /\ filing[w].at = "put"
  /\ PutInto(filing[w].key, filing[w].size) /\ Goes(w, "row")
  /\ UNCHANGED <<fileRows, origin, again, torn>>

\* Bug: the key is not unique, and the check at the beginning is all there is.
InsertAnyway(w) ==
  /\ filing[w].at = "row" /\ Finish(w)
  /\ WriteRow(filing[w].key, [status |-> "active", size |-> filing[w].size])
  /\ UNCHANGED <<objects, origin, again, torn>>

\* ... then the row; so does completePresignedUpload.  A second row of a key violates the
\* unique index.
InsertFile(w) ==
  LET k == filing[w].key
  IN /\ filing[w].at = "row" /\ Finish(w)
     /\ IF HasRow(k) THEN UNCHANGED fileRows
        ELSE WriteRow(k, [status |-> "active", size |-> filing[w].size])
     /\ UNCHANGED <<objects, origin, again, torn>>

\* createPresignedUpload makes a key and a URL that is valid for a while.
CreatePresignedUpload(k) ==
  /\ origin[k] = "none"
  /\ origin' = [origin EXCEPT ![k] = "url"]
  /\ UNCHANGED <<objects, fileRows, filing, again, torn>>

UrlExpires(k) ==
  /\ origin[k] = "url"
  /\ origin' = [origin EXCEPT ![k] = "expired"]
  /\ UNCHANGED <<objects, fileRows, filing, again, torn>>

\* The client puts the object: when it should, and also later.
PutByUrl(k, size) ==
  /\ origin[k] = "url"
  /\ PutInto(k, size)
  /\ again' = IF HasRow(k) \/ \E w \in DOMAIN filing : filing[w].key = k /\ filing[w].at = "row"
              THEN again \cup {k} ELSE again
  /\ UNCHANGED <<fileRows, origin, filing, torn>>

\* completePresignedUpload refuses a key that has a row ...
CompletePresignedUpload(w, k, size) ==
  /\ origin[k] \in {"url", "expired"} /\ ~HasRow(k)
  /\ Begin(w, k, "head", size)
  /\ UNCHANGED <<objects, fileRows, origin, again, torn>>

\* ... and an object that is not there or has another size than the client says.
LookAtObject(w) ==
  LET k == filing[w].key
  IN /\ filing[w].at = "head"
     /\ IF Stored(k) /\ objects[k] = filing[w].size THEN Goes(w, "row") ELSE Finish(w)
     /\ UNCHANGED <<objects, fileRows, origin, again, torn>>

\* softDelete: first the object, then the status of the row.
SoftDelete(w, k) ==
  /\ HasRow(k) /\ fileRows[k].status = "active"
  /\ Begin(w, k, "object", fileRows[k].size)
  /\ UNCHANGED <<objects, fileRows, origin, again, torn>>

DeleteObject(w) ==
  /\ filing[w].at = "object" /\ Goes(w, "status")
  /\ objects' = [j \in DOMAIN objects \ {filing[w].key} |-> objects[j]]
  /\ UNCHANGED <<fileRows, origin, again, torn>>

MarkDeleted(w) ==
  LET k == filing[w].key
  IN /\ filing[w].at = "status" /\ Finish(w)
     /\ WriteRow(k, [fileRows[k] EXCEPT !.status = "deleted"])
     /\ torn' = torn \ {k}
     /\ UNCHANGED <<objects, origin, again>>

\* The store or the database fails, or the process ends.
FilingFails(w) ==
  /\ Finish(w)
  /\ torn' = IF filing[w].at = "status" THEN torn \cup {filing[w].key} ELSE torn
  /\ UNCHANGED <<objects, fileRows, origin, again>>

-----------------------------------------------------------------------------

FilesInit ==
  /\ objects = [k \in {} |-> 0]
  /\ fileRows = [k \in {} |-> 0]
  /\ origin = [k \in StorageKeys |-> "none"]
  /\ filing = [w \in {} |-> 0]
  /\ again = {} /\ torn = {}

FilesNext ==
  \/ \E w \in Filers, k \in StorageKeys :
       \/ \E size \in ObjectSizes : UploadFile(w, k, size) \/ CompletePresignedUpload(w, k, size)
       \/ SoftDelete(w, k)
  \/ \E w \in DOMAIN filing : \/ SendObject(w) \/ InsertFile(w) \/ LookAtObject(w)
                              \/ DeleteObject(w) \/ MarkDeleted(w) \/ FilingFails(w)
  \/ \E k \in StorageKeys : \/ CreatePresignedUpload(k) \/ UrlExpires(k)
                            \/ \E size \in ObjectSizes : PutByUrl(k, size)

FilesSpec == FilesInit /\ [][FilesNext]_filesVars

-----------------------------------------------------------------------------

FilesTypeOK ==
  /\ DOMAIN objects \subseteq StorageKeys /\ \A k \in DOMAIN objects : objects[k] \in ObjectSizes
  /\ DOMAIN fileRows \subseteq StorageKeys /\ \A k \in DOMAIN fileRows : fileRows[k] \in FileRow
  /\ origin \in [StorageKeys -> {"none", "direct", "url", "expired"}]
  /\ DOMAIN filing \subseteq Filers /\ \A w \in DOMAIN filing : filing[w] \in Filing
  /\ again \subseteq StorageKeys /\ torn \subseteq StorageKeys

\* While a deletion is between the object and the row, or stopped there.
BeingDeleted(k) ==
  k \in torn \/ \E w \in DOMAIN filing : filing[w].key = k /\ filing[w].at = "status"

\* uploadFile, completePresignedUpload, softDelete: however requests for one key overlap and
\* fail, an active file has its object, with the size in its row, and a deleted one has none;
\* only the client can undo that, who puts an object with a URL that outlives the check.
FilesAreStored ==
  \A k \in DOMAIN fileRows \ again :
    /\ fileRows[k].status = "active" =>
         BeingDeleted(k) \/ (Stored(k) /\ objects[k] = fileRows[k].size)
    /\ fileRows[k].status = "deleted" => ~Stored(k)
=============================================================================
