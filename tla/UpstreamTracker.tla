-------------------------- MODULE UpstreamTracker --------------------------
(***************************************************************************)
(* The tracker of upstream patches: the upstream_patches table and the      *)
(* requests of app/routes/upstream.py that change it.                       *)
(*                                                                         *)
(* Adding and refreshing a patch wait for the network and then for a        *)
(* language model; listing, editing and deleting do not wait.  A request    *)
(* holds the row it loaded, and its commit writes the columns it changed to *)
(* the row with that id.  Ids are SQLite row ids, given again when the      *)
(* newest row goes.                                                         *)
(***************************************************************************)
EXTENDS Naturals, FiniteSets, FiniteSetsExt

CONSTANTS
  Urls,       \* threads that may be tracked
  Pending,    \* requests that wait for the network
  Blobs,      \* what a thread may say: [words, replies]
  Edits,      \* statuses a user may write and the model may name
  MaxRows     \* bound on row ids

STATUS_VALUES ==
  {"submitted", "under_review", "changes_requested", "accepted", "merged", "superseded",
   "rejected"}
Words == {"rejected", "merged", "accepted", "please fix"}

ASSUME TrackerAssumption ==
  /\ Blobs \subseteq [words : SUBSET Words, replies : Nat]
  /\ Edits \subseteq STATUS_VALUES
  /\ MaxRows \in Nat

VARIABLES
  patches,    \* the table: id -> [url, status] or NoPatch
  request,    \* a waiting request: what it does, its id, its url and the status it read
  byHand,     \* the status a user last wrote to a row, or "none"
  overruled,  \* rows a refresh found in another status than it had read since
  removed     \* ids deleted and not given again

trackerVars == <<patches, request, byHand, overruled, removed>>

RowIds == 1 .. MaxRows
NoPatch == [url |-> "none", status |-> "none"]
NoRequest == [what |-> "none", id |-> 0, url |-> "none", read |-> "none"]

Stored == {i \in RowIds : patches[i] # NoPatch}
RowsOf(url) == {i \in Stored : patches[i].url = url}
NextRow == IF Stored = {} THEN 1 ELSE Max(Stored) + 1

(***************************************************************************)
(* _infer_status and _fetch_lore_metadata.  The page may not be had, which  *)
(* leaves no word of it; the model's answer counts when it is a status.     *)
(***************************************************************************)
InferStatus(blob) ==
  IF "rejected" \in blob.words THEN "rejected"
  ELSE IF "merged" \in blob.words THEN "merged"
  ELSE IF "accepted" \in blob.words THEN "accepted"
  ELSE IF "please fix" \in blob.words THEN "changes_requested"
  ELSE IF blob.replies > 0 THEN "under_review" ELSE "submitted"

NothingRead == [words |-> {}, replies |-> 0]

\* The statuses a fetch may come back with.
Found == {InferStatus(blob) : blob \in Blobs \cup {NothingRead}} \cup Edits

----------------------------------------------------------------------------
TrackerInit ==
  /\ patches = [i \in RowIds |-> NoPatch]
  /\ request = [j \in Pending |-> NoRequest]
  /\ byHand = [i \in RowIds |-> "none"]
  /\ overruled = {} /\ removed = {}

Idle(j) == request[j] = NoRequest
Release(j) == request' = [request EXCEPT ![j] = NoRequest]

\* upstream_add looks the address up before it fetches; one that is tracked is
\* answered from the table.
AddPatch(j, url) ==
  /\ Idle(j) /\ RowsOf(url) = {}
  /\ request' = [request EXCEPT ![j] =
                  [what |-> "add", id |-> 0, url |-> url, read |-> "none"]]
  /\ UNCHANGED <<patches, byHand, overruled, removed>>

\* Mutant: the address is not unique in the table.
InsertAnyway(j) ==
  /\ request[j].what = "add" /\ NextRow <= MaxRows
  /\ \E status \in Found \cup Edits :
       patches' = [patches EXCEPT ![NextRow] = [url |-> request[j].url, status |-> status]]
  /\ Release(j)
  /\ byHand' = [byHand EXCEPT ![NextRow] = "none"]
  /\ overruled' = overruled \ {NextRow}
  /\ removed' = removed \ {NextRow}

\* The insert: the address is unique in the table, a second row is refused.
Insert(j) ==
  /\ request[j].what = "add"
  /\ LET url == request[j].url
         id == NextRow
     IN  IF RowsOf(url) # {}
         THEN /\ Release(j)
              /\ UNCHANGED <<patches, byHand, overruled, removed>>
         ELSE /\ id <= MaxRows
              \* a status the request names goes before the one of the thread
              /\ \E status \in Found \cup Edits :
                   patches' = [patches EXCEPT ![id] = [url |-> url, status |-> status]]
              /\ Release(j)
              /\ byHand' = [byHand EXCEPT ![id] = "none"]
              /\ overruled' = overruled \ {id}
              /\ removed' = removed \ {id}

\* upstream_update: the user's status.
UpdatePatch(i, status) ==
  /\ i \in Stored
  /\ patches' = [patches EXCEPT ![i].status = status]
  /\ byHand' = [byHand EXCEPT ![i] = status]
  /\ overruled' = overruled \ {i}
  /\ UNCHANGED <<request, removed>>

DeletePatch(i) ==
  /\ i \in Stored
  /\ patches' = [patches EXCEPT ![i] = NoPatch]
  /\ removed' = removed \cup {i}
  /\ byHand' = [byHand EXCEPT ![i] = "none"]
  /\ UNCHANGED <<request, overruled>>

\* upstream_refresh loads the row and fetches its thread.
RefreshPatch(j, i) ==
  /\ Idle(j) /\ i \in Stored
  /\ request' = [request EXCEPT ![j] =
                  [what |-> "refresh", id |-> i, url |-> "none", read |-> patches[i].status]]
  /\ UNCHANGED <<patches, byHand, overruled, removed>>

\* Mutant: every column is written.
WriteAll(row, read, status) == [row EXCEPT !.status = status]

\* The commit writes what differs from what was read, to the row that has the
\* id by now; with no such row it fails.
Written(row, read, status) ==
  IF status = read THEN row ELSE [row EXCEPT !.status = status]

StoreRefresh(j) ==
  /\ request[j].what = "refresh"
  /\ LET i == request[j].id
     IN  IF i \notin Stored
         THEN /\ Release(j)
              /\ UNCHANGED <<patches, overruled>>
         ELSE \E status \in Found :
                /\ patches' = [patches EXCEPT ![i] = Written(@, request[j].read, status)]
                /\ overruled' = IF status = request[j].read
                                THEN overruled ELSE overruled \cup {i}
                /\ Release(j)
  /\ UNCHANGED <<byHand, removed>>

TrackerNext ==
  \/ \E j \in Pending, url \in Urls : AddPatch(j, url)
  \/ \E j \in Pending : Insert(j)
  \/ \E i \in RowIds, status \in Edits : UpdatePatch(i, status)
  \/ \E i \in RowIds : DeletePatch(i)
  \/ \E j \in Pending, i \in RowIds : RefreshPatch(j, i)
  \/ \E j \in Pending : StoreRefresh(j)

TrackerSpec == TrackerInit /\ [][TrackerNext]_trackerVars

----------------------------------------------------------------------------
UrlNames == Urls \cup {"none"}
RowStatuses == STATUS_VALUES \cup {"none"}

TrackerTypeOK ==
  /\ patches \in [RowIds -> [url : UrlNames, status : RowStatuses]]
  /\ request \in [Pending -> [what : {"none", "add", "refresh"}, id : 0 .. MaxRows,
                              url : UrlNames, read : RowStatuses]]
  /\ byHand \in [RowIds -> RowStatuses]
  /\ overruled \subseteq RowIds /\ removed \subseteq RowIds

\* However many requests add, refresh and delete at once, an address is tracked
\* in one row, and a row that was deleted is not brought back by a request that
\* had loaded it.  (upstream_add, upstream.py:638; upstream_refresh, 705)
TrackedOnce ==
  /\ \A url \in Urls : Cardinality(RowsOf(url)) <= 1
  /\ removed \cap Stored = {}

\* A status written by hand stays until a refresh finds the thread in another
\* status than the one it had read: a refresh that waited meanwhile and found
\* nothing new does not undo it.  (upstream_refresh, upstream.py:705)
HandStatusKept ==
  \A i \in Stored : byHand[i] # "none" /\ i \notin overruled =>
    patches[i].status = byHand[i]
=============================================================================
