--------------------------- MODULE UpstreamProofs ----------------------------
(***************************************************************************)
(* What the upstream page keeps: the tracker of patches, and the statistics *)
(* of a mailbox or of the tracker.                                          *)
(***************************************************************************)
EXTENDS UpstreamTracker, SeriesParser, FiniteSetTheorems, WellFoundedInduction, TLAPS

(***************************************************************************)
(* What the tracker keeps for every number of addresses, rows and requests  *)
(* under way: one row per address, no row that was deleted, and the status  *)
(* a user wrote until a refresh has found another.                          *)
(***************************************************************************)
PatchesOK == patches \in [RowIds -> [url : UrlNames, status : RowStatuses]]
HandOK == byHand \in [RowIds -> RowStatuses] /\ overruled \subseteq RowIds

\* A waiting request is of its kind, and one that adds has an address to add.
RequestsOK ==
  /\ request \in [Pending -> [what : {"none", "add", "refresh"}, id : 0 .. MaxRows,
                              url : UrlNames, read : RowStatuses]]
  /\ \A j \in Pending : request[j].what = "add" => request[j].url \in Urls

\* An address stands in one row.
UrlsDiffer ==
  \A i, k \in Stored : patches[i].url = patches[k].url => i = k

RemovedGone == removed \cap Stored = {}

PatchRowsInv == PatchesOK /\ HandOK /\ UrlsDiffer /\ RemovedGone /\ HandStatusKept

-----------------------------------------------------------------------------
LEMMA TrackerInitRows == TrackerInit => PatchRowsInv
<1> SUFFICES ASSUME TrackerInit PROVE PatchRowsInv
  OBVIOUS
<1>1. Stored = {}
  BY DEF TrackerInit, Stored
<1>2. PatchesOK /\ HandOK
  BY DEF TrackerInit, PatchesOK, HandOK, NoPatch, UrlNames, RowStatuses
<1> QED
  BY <1>1, <1>2 DEF PatchRowsInv, UrlsDiffer, RemovedGone, HandStatusKept

\* What a refresh may find is a status.
LEMMA FoundStatuses == Found \subseteq STATUS_VALUES
<1>1. \A blob : InferStatus(blob) \in STATUS_VALUES
  BY DEF InferStatus, STATUS_VALUES
<1> QED
  BY <1>1, TrackerAssumption DEF Found

LEMMA InsertPatchInv ==
  ASSUME PatchRowsInv, NEW j \in Pending, Insert(j), request[j].url \in Urls
  PROVE  PatchRowsInv'
<1> DEFINE url == request[j].url
           id == NextRow
<1>1. CASE RowsOf(url) # {}
  BY <1>1 DEF PatchRowsInv, PatchesOK, HandOK, UrlsDiffer, RemovedGone, HandStatusKept, Stored, Insert
<1>2. CASE RowsOf(url) = {}
  <2>1. PICK status \in Found \cup Edits :
          patches' = [patches EXCEPT ![id] = [url |-> url, status |-> status]]
    BY <1>2 DEF Insert
  <2>2. /\ byHand' = [byHand EXCEPT ![id] = "none"]
        /\ overruled' = overruled \ {id}
        /\ removed' = removed \ {id}
    BY <1>2 DEF Insert
  <2> HIDE DEF id, url
  <2>3. status \in STATUS_VALUES /\ url \in UrlNames
    BY FoundStatuses, TrackerAssumption DEF UrlNames, url
  <2>4. PatchesOK' /\ HandOK'
    BY <2>1, <2>2, <2>3 DEF PatchRowsInv, PatchesOK, HandOK, RowStatuses
  <2>5. \A i \in RowIds : i # id => patches'[i] = patches[i] /\ byHand'[i] = byHand[i]
    BY <2>1, <2>2 DEF PatchRowsInv, PatchesOK, HandOK
  <2>6. \A i \in Stored : patches[i].url # url
    BY <1>2 DEF RowsOf, url
  <2>7. Stored' \subseteq Stored \cup {id}
    BY <2>5 DEF Stored
  <2>8. id \in RowIds => patches'[id].url = url /\ byHand'[id] = "none"
    BY <2>1, <2>2 DEF PatchRowsInv, PatchesOK, HandOK
  <2>9. Stored' \subseteq RowIds
    BY DEF Stored
  <2>10. UrlsDiffer'
    BY <2>5, <2>6, <2>7, <2>8, <2>9 DEF PatchRowsInv, UrlsDiffer
  <2>11. RemovedGone'
    BY <2>2, <2>7 DEF PatchRowsInv, RemovedGone
  <2>12. HandStatusKept'
    BY <2>2, <2>5, <2>7, <2>8, <2>9 DEF PatchRowsInv, HandStatusKept
  <2> QED
    BY <2>4, <2>10, <2>11, <2>12 DEF PatchRowsInv
<1> QED
  BY <1>1, <1>2

\* A row that gets another status keeps its address.
LEMMA RestatusRow ==
  ASSUME PatchRowsInv, NEW i \in Stored, NEW status \in RowStatuses,
         patches' = [patches EXCEPT ![i].status = status]
  PROVE  /\ PatchesOK' /\ UrlsDiffer' /\ Stored' \subseteq Stored
         /\ patches'[i].status = status
         /\ \A k \in Stored : k # i => patches'[k] = patches[k]
<1>1. i \in RowIds /\ patches[i] \in [url : UrlNames, status : RowStatuses]
  BY DEF PatchRowsInv, PatchesOK, Stored
<1>2. /\ patches'[i] = [patches[i] EXCEPT !.status = status]
      /\ patches'[i].url = patches[i].url /\ patches'[i].status = status
      /\ \A k \in RowIds : k # i => patches'[k] = patches[k]
  BY <1>1 DEF PatchRowsInv, PatchesOK
<1>3. PatchesOK'
  BY <1>1, <1>2 DEF PatchRowsInv, PatchesOK
<1>4. Stored' \subseteq Stored
  BY <1>2 DEF Stored
<1>5. \A k \in Stored : patches'[k].url = patches[k].url /\ k \in RowIds
  BY <1>2 DEF Stored
<1>6. UrlsDiffer'
  BY <1>4, <1>5 DEF PatchRowsInv, UrlsDiffer
<1> QED
  BY <1>2, <1>3, <1>4, <1>5, <1>6

LEMMA UpdatePatchInv ==
  ASSUME PatchRowsInv, NEW i \in RowIds, NEW status \in Edits, UpdatePatch(i, status)
  PROVE  PatchRowsInv'
<1>1. /\ i \in Stored /\ patches' = [patches EXCEPT ![i].status = status]
      /\ byHand' = [byHand EXCEPT ![i] = status]
      /\ overruled' = overruled \ {i}
      /\ removed' = removed
      /\ status \in RowStatuses
  BY TrackerAssumption DEF UpdatePatch, RowStatuses
<1>2. /\ PatchesOK' /\ UrlsDiffer' /\ Stored' \subseteq Stored
      /\ patches'[i].status = status
      /\ \A k \in Stored : k # i => patches'[k] = patches[k]
  BY <1>1, RestatusRow
<1>3. HandOK'
  BY <1>1 DEF PatchRowsInv, HandOK
<1>4. \A k \in Stored : k # i => byHand'[k] = byHand[k]
  BY <1>1 DEF PatchRowsInv, HandOK, Stored
<1>5. byHand'[i] = status
  BY <1>1 DEF PatchRowsInv, HandOK
<1>6. HandStatusKept'
  BY <1>1, <1>2, <1>4, <1>5 DEF PatchRowsInv, HandStatusKept
<1>7. RemovedGone'
  BY <1>1, <1>2 DEF PatchRowsInv, RemovedGone
<1> QED
  BY <1>2, <1>3, <1>6, <1>7 DEF PatchRowsInv

LEMMA DeletePatchInv ==
  ASSUME PatchRowsInv, NEW i \in RowIds, DeletePatch(i)
  PROVE  PatchRowsInv'
<1>1. /\ patches' = [patches EXCEPT ![i] = NoPatch]
      /\ removed' = removed \cup {i}
      /\ byHand' = [byHand EXCEPT ![i] = "none"]
      /\ overruled' = overruled
  BY DEF DeletePatch
<1>2. PatchesOK' /\ HandOK'
  BY <1>1 DEF PatchRowsInv, PatchesOK, HandOK, NoPatch, UrlNames, RowStatuses
<1>3. /\ patches'[i] = NoPatch
      /\ \A k \in RowIds : k # i => patches'[k] = patches[k] /\ byHand'[k] = byHand[k]
  BY <1>1 DEF PatchRowsInv, PatchesOK, HandOK
<1>4. Stored' = Stored \ {i} /\ Stored \subseteq RowIds
  BY <1>3 DEF Stored
<1>5. UrlsDiffer' /\ RemovedGone' /\ HandStatusKept'
  BY <1>1, <1>3, <1>4 DEF PatchRowsInv, UrlsDiffer, RemovedGone, HandStatusKept
<1> QED
  BY <1>2, <1>5 DEF PatchRowsInv

LEMMA StoreRefreshInv ==
  ASSUME PatchRowsInv, NEW j \in Pending, StoreRefresh(j)
  PROVE  PatchRowsInv'
<1> DEFINE i == request[j].id
           read == request[j].read
<1>1. UNCHANGED <<byHand, removed>>
  BY DEF StoreRefresh
<1>2. CASE i \notin Stored
  BY <1>1, <1>2 DEF StoreRefresh, PatchRowsInv, PatchesOK, HandOK, UrlsDiffer, RemovedGone,
                    HandStatusKept, Stored
<1>3. CASE i \in Stored
  <2>1. PICK status \in Found :
          /\ patches' = [patches EXCEPT ![i] = Written(patches[i], read, status)]
          /\ overruled' = IF status = read THEN overruled ELSE overruled \cup {i}
    BY <1>3 DEF StoreRefresh
  <2>2. status \in RowStatuses
    BY FoundStatuses DEF RowStatuses
  <2> HIDE DEF i, read
  <2>3. CASE status = read
    <3>1. patches' = patches /\ overruled' = overruled
      BY <2>1, <2>3 DEF Written, PatchRowsInv, PatchesOK
    <3> QED
      BY <1>1, <3>1 DEF PatchRowsInv, PatchesOK, HandOK, UrlsDiffer, RemovedGone, HandStatusKept, Stored
  <2>4. CASE status # read
    <3>1. patches' = [patches EXCEPT ![i].status = status] /\ overruled' = overruled \cup {i}
      BY <2>1, <2>4 DEF Written
    <3>2. /\ PatchesOK' /\ UrlsDiffer' /\ Stored' \subseteq Stored
          /\ \A k \in Stored : k # i => patches'[k] = patches[k]
      BY <1>3, <2>2, <3>1, RestatusRow
    <3>3. i \in RowIds
      BY <1>3 DEF Stored
    <3>4. HandOK'
      BY <1>1, <3>1, <3>3 DEF PatchRowsInv, HandOK
    <3>5. HandStatusKept' /\ RemovedGone'
      BY <1>1, <3>1, <3>2 DEF PatchRowsInv, HandStatusKept, RemovedGone
    <3> QED
      BY <3>2, <3>4, <3>5 DEF PatchRowsInv
  <2> QED
    BY <2>3, <2>4
<1> QED
  BY <1>2, <1>3

-----------------------------------------------------------------------------
(* The requests under way, and the invariant of both.                       *)
TrackerInv == PatchRowsInv /\ RequestsOK /\ removed \subseteq RowIds

LEMMA NoRequestOK ==
  NoRequest \in [what : {"none", "add", "refresh"}, id : 0 .. MaxRows,
                 url : UrlNames, read : RowStatuses]
  BY TrackerAssumption DEF NoRequest, UrlNames, RowStatuses

LEMMA ReleaseOK ==
  ASSUME RequestsOK, NEW j \in Pending, Release(j)
  PROVE  RequestsOK'
  BY NoRequestOK DEF RequestsOK, Release, NoRequest

LEMMA AddPatchInv ==
  ASSUME TrackerInv, NEW j \in Pending, NEW url \in Urls, AddPatch(j, url)
  PROVE  TrackerInv'
<1>1. request' = [request EXCEPT ![j] = [what |-> "add", id |-> 0, url |-> url, read |-> "none"]]
  BY DEF AddPatch
<1>2. RequestsOK'
  BY <1>1, TrackerAssumption DEF TrackerInv, RequestsOK, UrlNames, RowStatuses
<1>3. PatchRowsInv' /\ removed' \subseteq RowIds
  BY DEF TrackerInv, PatchRowsInv, PatchesOK, HandOK, UrlsDiffer, RemovedGone, HandStatusKept, Stored, AddPatch
<1> QED
  BY <1>2, <1>3 DEF TrackerInv

LEMMA RefreshInv ==
  ASSUME TrackerInv, NEW j \in Pending, NEW i \in RowIds, RefreshPatch(j, i)
  PROVE  TrackerInv'
<1>1. request' = [request EXCEPT ![j] = [what |-> "refresh", id |-> i, url |-> "none",
                                         read |-> patches[i].status]]
  BY DEF RefreshPatch
<1>2. i \in 0 .. MaxRows /\ patches[i].status \in RowStatuses
  BY TrackerAssumption DEF TrackerInv, PatchRowsInv, PatchesOK, RowIds
<1>3. RequestsOK'
  BY <1>1, <1>2 DEF TrackerInv, RequestsOK, UrlNames
<1>4. PatchRowsInv' /\ removed' \subseteq RowIds
  BY DEF TrackerInv, PatchRowsInv, PatchesOK, HandOK, UrlsDiffer, RemovedGone, HandStatusKept, Stored, RefreshPatch
<1> QED
  BY <1>3, <1>4 DEF TrackerInv

LEMMA TrackerInitInv == TrackerInit => TrackerInv
<1> SUFFICES ASSUME TrackerInit PROVE TrackerInv
  OBVIOUS
<1>1. RequestsOK
  BY NoRequestOK DEF TrackerInit, RequestsOK, NoRequest
<1> QED
  BY <1>1, TrackerInitRows DEF TrackerInv, TrackerInit

LEMMA TrackerStepInv == TrackerInv /\ [TrackerNext]_trackerVars => TrackerInv'
<1> SUFFICES ASSUME TrackerInv, [TrackerNext]_trackerVars PROVE TrackerInv'
  OBVIOUS
<1>1. CASE UNCHANGED trackerVars
  BY <1>1 DEF TrackerInv, PatchRowsInv, PatchesOK, HandOK, RequestsOK, UrlsDiffer, RemovedGone, HandStatusKept,
              Stored, trackerVars
<1>2. ASSUME NEW j \in Pending, NEW url \in Urls, AddPatch(j, url) PROVE TrackerInv'
  BY <1>2, AddPatchInv
<1>3. ASSUME NEW j \in Pending, Insert(j) PROVE TrackerInv'
  <2>1. request[j].url \in Urls
    BY <1>3 DEF TrackerInv, RequestsOK, Insert
  <2>2. PatchRowsInv'
    BY <1>3, <2>1, InsertPatchInv DEF TrackerInv
  <2>3. Release(j) /\ (removed' = removed \/ removed' = removed \ {NextRow})
    BY <1>3 DEF Insert
  <2> QED
    BY <2>2, <2>3, ReleaseOK DEF TrackerInv
<1>4. ASSUME NEW i \in RowIds, NEW status \in Edits, UpdatePatch(i, status) PROVE TrackerInv'
  <2>1. PatchRowsInv'
    BY <1>4, UpdatePatchInv DEF TrackerInv
  <2> QED
    BY <1>4, <2>1 DEF TrackerInv, RequestsOK, UpdatePatch
<1>5. ASSUME NEW i \in RowIds, DeletePatch(i) PROVE TrackerInv'
  <2>1. PatchRowsInv'
    BY <1>5, DeletePatchInv DEF TrackerInv
  <2> QED
    BY <1>5, <2>1 DEF TrackerInv, RequestsOK, DeletePatch
<1>6. ASSUME NEW j \in Pending, NEW i \in RowIds, RefreshPatch(j, i) PROVE TrackerInv'
  BY <1>6, RefreshInv
<1>7. ASSUME NEW j \in Pending, StoreRefresh(j) PROVE TrackerInv'
  <2>1. PatchRowsInv'
    BY <1>7, StoreRefreshInv DEF TrackerInv
  <2>2. Release(j) /\ removed' = removed
    BY <1>7 DEF StoreRefresh
  <2> QED
    BY <2>1, <2>2, ReleaseOK DEF TrackerInv
<1> QED
  BY <1>1, <1>2, <1>3, <1>4, <1>5, <1>6, <1>7 DEF TrackerNext

LEMMA TrackerInvariant == TrackerSpec => []TrackerInv
  BY TrackerInitInv, TrackerStepInv, PTL DEF TrackerSpec

\* Rows, requests and what users wrote stay well formed.
THEOREM TrackerTypes == TrackerSpec => []TrackerTypeOK
<1>1. TrackerInv => TrackerTypeOK
  BY DEF TrackerInv, PatchRowsInv, PatchesOK, HandOK, RequestsOK, TrackerTypeOK
<1> QED
  BY <1>1, TrackerInvariant, PTL

\* However many requests add one address at once, one row is made for it, and
\* none that was deleted returns.
THEOREM OneRowPerUrl == TrackerSpec => []TrackedOnce
<1>1. TrackerInv => TrackedOnce
  <2> SUFFICES ASSUME TrackerInv PROVE TrackedOnce
    OBVIOUS
  <2>1. ASSUME NEW url \in Urls PROVE Cardinality(RowsOf(url)) <= 1
    <3>1. CASE RowsOf(url) = {}
      BY <3>1, FS_EmptySet
    <3>2. CASE RowsOf(url) # {}
      <4>1. PICK i : i \in RowsOf(url)
        BY <3>2
      <4>2. RowsOf(url) = {i}
        BY <4>1 DEF TrackerInv, PatchRowsInv, UrlsDiffer, RowsOf
      <4>3. Cardinality({i}) = 1
        BY FS_Singleton
      <4> QED
        BY <4>2, <4>3
    <3> QED
      BY <3>1, <3>2
  <2> QED
    BY <2>1 DEF TrackerInv, PatchRowsInv, RemovedGone, TrackedOnce
<1> QED
  BY <1>1, TrackerInvariant, PTL

\* A status written by hand is undone only by a refresh that found the thread in
\* another status than it had read.
THEOREM HandWins == TrackerSpec => []HandStatusKept
<1>1. TrackerInv => HandStatusKept
  BY DEF TrackerInv, PatchRowsInv
<1> QED
  BY <1>1, TrackerInvariant, PTL

-----------------------------------------------------------------------------
(***************************************************************************)
(* The parser: threads.  No mail is its own ancestor above a mail that is   *)
(* not circular, so every step of find_root passes one more mail and after  *)
(* as many steps as there are mails it stands on a mail whose parent is not *)
(* in the mailbox.  Only one such mail is above any mail, and it is above   *)
(* all the mails in between.                                                *)
(***************************************************************************)
LEMMA LeastOf ==
  ASSUME NEW S, S \subseteq Nat, S # {}
  PROVE  \E m \in S : \A y \in S : m <= y
<1> DEFINE Less == {p \in Nat \X Nat : p[1] < p[2]}
<1>1. IsWellFoundedOn(Less, Nat)
  <2>1. OpToRel(<, Nat) = Less
    BY SMT DEF OpToRel
  <2> QED
    BY <2>1, NatLessThanWellFounded
<1> HIDE DEF Less
<1>2. PICK x \in S : \A y \in S : ~(<<y, x>> \in Less)
  BY <1>1, WFMin, Zenon
<1>3. \A y \in S : x <= y
  <2> SUFFICES ASSUME NEW y \in S PROVE x <= y
    OBVIOUS
  <2>1. <<y, x>> \in Nat \X Nat /\ ~(<<y, x>> \in Less)
    BY <1>2
  <2>2. y < x => <<y, x>> \in Less
    BY <2>1 DEF Less
  <2> QED
    BY <2>1, <2>2
<1> QED
  BY <1>3

LEMMA BoxFacts ==
  ASSUME NEW box \in Seq(Mails)
  PROVE  /\ Len(box) \in Nat
         /\ IsFiniteSet(Msgids(box))
         /\ Cardinality(Msgids(box)) \in Nat
         /\ Cardinality(Msgids(box)) <= Len(box)
<1>1. Len(box) \in Nat /\ DOMAIN box = 1 .. Len(box)
  OBVIOUS
<1> DEFINE ids == [k \in 1 .. Len(box) |-> box[k].id]
<1>2. ids \in Surjection(1 .. Len(box), Msgids(box))
  BY <1>1 DEF Surjection, Msgids
<1>3. IsFiniteSet(1 .. Len(box)) /\ Cardinality(1 .. Len(box)) = Len(box)
  BY <1>1, FS_Interval
<1> HIDE DEF ids
<1>4. IsFiniteSet(Msgids(box)) /\ Cardinality(Msgids(box)) <= Len(box)
  BY <1>2, <1>3, FS_Surjection
<1>5. Cardinality(Msgids(box)) \in Nat
  BY <1>4, FS_CardinalityType
<1> QED
  BY <1>1, <1>4, <1>5

\* The climb as a recursion: it starts at the mail, and every step is a Climb.
Start(id) == [cur |-> id, seen |-> {}]
LEMMA ClimbingFacts ==
  ASSUME NEW box, Len(box) \in Nat, NEW id
  PROVE  /\ Climbing(box, id)[0] = Start(id)
         /\ \A n \in 1 .. Len(box) :
              Climbing(box, id)[n] = Climb(box, Climbing(box, id)[n - 1])
<1> DEFINE Is(g, k) ==
             g = [n \in 0 .. k |-> IF n = 0 THEN Start(id) ELSE Climb(box, g[n - 1])]
           None == {k \in Nat : ~ \E g : Is(g, k)}
<1>1. ASSUME None # {} PROVE FALSE
  <2>1. PICK m \in None : \A k \in None : m <= k
    <3>1. None \subseteq Nat
      OBVIOUS
    <3> HIDE DEF None
    <3> QED
      BY <1>1, <3>1, LeastOf
  <2>2. m \in Nat /\ ~ \E g : Is(g, m)
    BY <2>1
  <2>3. m # 0
    <3>1. Is([n \in 0 .. 0 |-> Start(id)], 0)
      OBVIOUS
    <3> QED
      BY <2>2, <3>1
  <2>4. m - 1 \in Nat /\ m - 1 \notin None
    <3> HIDE DEF None
    <3>1. m - 1 \in Nat /\ ~(m <= m - 1)
      BY <2>2, <2>3
    <3> QED
      BY <2>1, <3>1
  <2>5. PICK g : Is(g, m - 1)
    BY <2>4
  <2> DEFINE h == [n \in 0 .. m |-> IF n <= m - 1 THEN g[n] ELSE Climb(box, g[m - 1])]
  <2> HIDE DEF None
  <2>6. ASSUME NEW n \in 0 .. m
        PROVE  h[n] = IF n = 0 THEN Start(id) ELSE Climb(box, h[n - 1])
    <3>1. CASE n = 0
      BY <2>2, <2>4, <2>5, <3>1
    <3>2. CASE n # 0 /\ n <= m - 1
      <4>1. n \in 0 .. (m - 1) /\ n - 1 \in 0 .. m /\ n - 1 <= m - 1
        BY <2>2, <3>2
      <4>2. h[n] = g[n] /\ h[n - 1] = g[n - 1]
        BY <3>2, <4>1
      <4>3. g[n] = Climb(box, g[n - 1])
        BY <2>5, <3>2, <4>1
      <4> QED
        BY <3>2, <4>2, <4>3
    <3>3. CASE n > m - 1
      <4>1. n = m /\ n - 1 \in 0 .. m /\ n - 1 <= m - 1
        BY <2>2, <2>4, <3>3
      <4>2. h[n] = Climb(box, g[m - 1]) /\ h[n - 1] = g[m - 1]
        BY <3>3, <4>1
      <4> QED
        BY <2>3, <4>1, <4>2
    <3> QED
      BY <2>2, <3>1, <3>2, <3>3
  <2>7. h = [n \in 0 .. m |-> IF n = 0 THEN Start(id) ELSE Climb(box, h[n - 1])]
    <3>1. h = [n \in 0 .. m |-> h[n]]
      OBVIOUS
    <3> HIDE DEF h
    <3> QED
      BY <2>6, <3>1
  <2> QED
    BY <2>2, <2>7
<1>2. \E g : Is(g, Len(box))
  BY <1>1
<1> DEFINE v == Climbing(box, id)
<1>3. v = [n \in 0 .. Len(box) |-> IF n = 0 THEN Start(id) ELSE Climb(box, v[n - 1])]
  BY <1>2 DEF Climbing, Start
<1> HIDE DEF v
<1>4. v[0] = Start(id)
  BY <1>3
<1>5. ASSUME NEW n \in 1 .. Len(box) PROVE v[n] = Climb(box, v[n - 1])
  <2>1. n \in 0 .. Len(box) /\ n # 0
    OBVIOUS
  <2> QED
    BY <1>3, <2>1
<1> QED
  BY <1>4, <1>5 DEF v

-----------------------------------------------------------------------------
\* What is above a mail, as a set that is least.
LEMMA AncestorsClosed ==
  ASSUME NEW box, NEW x
  PROVE  /\ Ancestors(box, x) \subseteq Msgids(box)
         /\ Parents(box, x) \subseteq Ancestors(box, x)
         /\ Closed(box, Ancestors(box, x))
<1>1. Ancestors(box, x) \subseteq Msgids(box)
  BY DEF Ancestors
<1>2. \A a : Parents(box, a) \subseteq Msgids(box)
  BY DEF Parents
<1>3. Parents(box, x) \subseteq Ancestors(box, x)
  BY <1>2 DEF Ancestors
<1>4. ASSUME NEW a \in Ancestors(box, x), NEW p \in Parents(box, a)
      PROVE  p \in Ancestors(box, x)
  <2>1. ASSUME NEW S \in SUBSET Msgids(box), Parents(box, x) \subseteq S, Closed(box, S)
        PROVE  p \in S
    <3>1. a \in S
      BY <2>1 DEF Ancestors
    <3> QED
      BY <2>1, <3>1 DEF Closed
  <2> QED
    BY <1>2, <2>1 DEF Ancestors
<1> QED
  BY <1>1, <1>3, <1>4 DEF Closed

LEMMA AncestorsLeast ==
  ASSUME NEW box, NEW x, NEW S, S \subseteq Msgids(box),
         Parents(box, x) \subseteq S, Closed(box, S)
  PROVE  Ancestors(box, x) \subseteq S
BY DEF Ancestors

\* Whoever is above an ancestor is above the mail.
LEMMA AncestorsAbove ==
  ASSUME NEW box, NEW x, NEW a \in Ancestors(box, x)
  PROVE  Ancestors(box, a) \subseteq Ancestors(box, x)
<1>1. Closed(box, Ancestors(box, x)) /\ Ancestors(box, x) \subseteq Msgids(box)
  BY AncestorsClosed
<1>2. Parents(box, a) \subseteq Ancestors(box, x)
  BY <1>1 DEF Closed
<1> QED
  BY <1>1, <1>2, AncestorsLeast

\* Above a mail are its parent and whoever is above that.
LEMMA AncestorsStep ==
  ASSUME NEW box, NEW x
  PROVE  \A a \in Ancestors(box, x) :
           \E p \in Parents(box, x) : a = p \/ a \in Ancestors(box, p)
<1> DEFINE S == {a \in Msgids(box) :
                   \E p \in Parents(box, x) : a = p \/ a \in Ancestors(box, p)}
<1>1. Parents(box, x) \subseteq S
  BY DEF Parents
<1>2. Closed(box, S)
  <2> SUFFICES ASSUME NEW a \in S, NEW q \in Parents(box, a) PROVE q \in S
    BY DEF Closed
  <2>1. q \in Msgids(box)
    BY DEF Parents
  <2>2. PICK p \in Parents(box, x) : a = p \/ a \in Ancestors(box, p)
    OBVIOUS
  <2>3. q \in Ancestors(box, p)
    BY <2>2, AncestorsClosed DEF Closed
  <2> QED
    BY <2>1, <2>2, <2>3
<1>3. S \subseteq Msgids(box)
  OBVIOUS
<1> HIDE DEF S
<1>4. Ancestors(box, x) \subseteq S
  BY <1>1, <1>2, <1>3, AncestorsLeast
<1> QED
  BY <1>4 DEF S

\* A mail and all above it.
Upward(box, x) == Ancestors(box, x) \cup {x}
Top(box, x) == Parents(box, x) = {}

\* A mail without a parent in the mailbox that is above a mail is above every
\* mail in between.
LEMMA TopAboveAll ==
  ASSUME NEW box, NEW x \in Msgids(box), NEW r \in Upward(box, x), Top(box, r),
         NEW c \in Upward(box, x)
  PROVE  r \in Upward(box, c)
<1> DEFINE S == {y \in Msgids(box) : r \in Upward(box, y)}
<1>1. Closed(box, S)
  <2> SUFFICES ASSUME NEW y \in S, NEW p \in Parents(box, y) PROVE p \in S
    BY DEF Closed
  <2>1. p \in Msgids(box)
    BY DEF Parents
  <2>2. r # y
    BY DEF Top
  <2>3. r \in Ancestors(box, y)
    BY <2>2 DEF Upward
  <2>4. PICK q \in Parents(box, y) : r = q \/ r \in Ancestors(box, q)
    BY <2>3, AncestorsStep
  <2>5. q = p
    BY <2>4 DEF Parents
  <2> QED
    BY <2>1, <2>4, <2>5 DEF Upward
<1>2. x \in S
  OBVIOUS
<1>3. S \subseteq Msgids(box)
  OBVIOUS
<1>4. Parents(box, x) \subseteq S
  BY <1>1, <1>2 DEF Closed
<1>5. c \in S
  <2> HIDE DEF S
  <2>1. Ancestors(box, x) \subseteq S
    BY <1>1, <1>3, <1>4, AncestorsLeast
  <2> QED
    BY <1>2, <2>1 DEF Upward
<1> QED
  BY <1>5

\* Only one mail without a parent is above a mail.
LEMMA TopIsUnique ==
  ASSUME NEW box, NEW x \in Msgids(box),
         NEW r \in Upward(box, x), Top(box, r), NEW q \in Upward(box, x), Top(box, q)
  PROVE  r = q
<1>1. r \in Upward(box, q)
  BY TopAboveAll
<1>2. r \notin Ancestors(box, q)
  BY AncestorsStep DEF Top
<1> QED
  BY <1>1, <1>2 DEF Upward

-----------------------------------------------------------------------------
\* Where the climb from a mail stands after n steps: above the mail and above
\* every mail it passed, and it has passed n unless it is at the top.
ClimbedTo(box, id, at, n) ==
  /\ at.cur \in Upward(box, id)
  /\ at.seen \subseteq Msgids(box)
  /\ \A s \in at.seen : at.cur \in Ancestors(box, s)
  /\ Top(box, at.cur) \/ Cardinality(at.seen) = n

LEMMA ClimbStep ==
  ASSUME NEW box \in Seq(Mails), NEW id \in Msgids(box), ~Circular(box, id),
         NEW n \in Nat, NEW at, ClimbedTo(box, id, at, n)
  PROVE  ClimbedTo(box, id, Climb(box, at), n + 1)
<1> DEFINE parent == ByMsgid(box, at.cur).parent
           next == Climb(box, at)
<1>1. at.cur \in Msgids(box)
  BY AncestorsClosed DEF ClimbedTo, Upward
<1>2. at.cur \notin Ancestors(box, at.cur)
  BY DEF ClimbedTo, Upward, Circular
<1>3. at.cur \notin at.seen
  BY <1>2 DEF ClimbedTo
<1>4. CASE parent \in Msgids(box) \ at.seen
  <2>1. next.cur = parent /\ next.seen = at.seen \cup {at.cur}
    BY <1>4 DEF Climb
  <2>2. Parents(box, at.cur) = {parent} /\ ~Top(box, at.cur)
    BY <1>4 DEF Parents, Top
  <2>3. parent \in Ancestors(box, at.cur)
    BY <2>2, AncestorsClosed
  <2>4. parent \in Upward(box, id)
    BY <2>3, AncestorsAbove DEF ClimbedTo, Upward
  <2>5. \A s \in next.seen : parent \in Ancestors(box, s)
    BY <2>1, <2>3, AncestorsAbove DEF ClimbedTo
  <2>6. IsFiniteSet(at.seen)
    BY BoxFacts, FS_Subset DEF ClimbedTo
  <2>7. Cardinality(at.seen \cup {at.cur}) = n + 1
    BY <1>3, <2>2, <2>6, FS_AddElement DEF ClimbedTo
  <2> QED
    BY <1>1, <2>1, <2>4, <2>5, <2>7 DEF ClimbedTo
<1>5. CASE parent \notin Msgids(box)
  <2>1. next = at /\ Top(box, at.cur)
    BY <1>5 DEF Climb, Parents, Top
  <2> QED
    BY <2>1 DEF ClimbedTo
<1>6. CASE parent \in at.seen
  <2>1. parent \in Msgids(box)
    BY <1>6 DEF ClimbedTo
  <2>2. parent \in Ancestors(box, at.cur)
    BY <2>1, AncestorsClosed DEF Parents
  <2>3. at.cur \in Ancestors(box, parent)
    BY <1>6 DEF ClimbedTo
  <2> QED
    BY <1>2, <2>2, <2>3, AncestorsAbove
<1> QED
  BY <1>4, <1>5, <1>6

\* The root that find_root gives is above the mail and has no parent.
LEMMA RootIsTop ==
  ASSUME NEW box \in Seq(Mails), NEW id \in Msgids(box), ~Circular(box, id)
  PROVE  FindRoot(box, id) \in Upward(box, id) /\ Top(box, FindRoot(box, id))
<1> DEFINE v == Climbing(box, id)
           Off == {n \in Nat : n <= Len(box) /\ ~ClimbedTo(box, id, v[n], n)}
<1>1. Len(box) \in Nat
  BY BoxFacts
<1>2. v[0] = Start(id) /\ \A n \in 1 .. Len(box) : v[n] = Climb(box, v[n - 1])
  BY <1>1, ClimbingFacts
<1> HIDE DEF v
<1>3. Off = {}
  <2> SUFFICES ASSUME Off # {} PROVE FALSE
    OBVIOUS
  <2>1. PICK m \in Off : \A k \in Off : m <= k
    <3>1. Off \subseteq Nat
      OBVIOUS
    <3> HIDE DEF Off
    <3> QED
      BY <3>1, LeastOf
  <2>2. m \in Nat /\ m <= Len(box) /\ ~ClimbedTo(box, id, v[m], m)
    BY <2>1
  <2>3. m # 0
    <3>1. v[0].cur = id /\ v[0].seen = {}
      BY <1>2 DEF Start
    <3>2. ClimbedTo(box, id, v[0], 0)
      BY <3>1, FS_EmptySet DEF ClimbedTo, Upward
    <3> QED
      BY <2>2, <3>2
  <2>4. m - 1 \in Nat /\ m - 1 <= Len(box) /\ ~(m <= m - 1) /\ (m - 1) + 1 = m
        /\ m \in 1 .. Len(box)
    BY <1>1, <2>2, <2>3
  <2>5. ClimbedTo(box, id, v[m - 1], m - 1)
    BY <2>1, <2>4
  <2>6. ClimbedTo(box, id, Climb(box, v[m - 1]), m)
    BY <2>4, <2>5, ClimbStep
  <2> QED
    BY <1>2, <2>2, <2>4, <2>6
<1> DEFINE at == v[Len(box)]
<1>4. ClimbedTo(box, id, at, Len(box)) /\ FindRoot(box, id) = at.cur
  BY <1>1, <1>3 DEF FindRoot, v
<1> HIDE DEF at, Off
<1>5. Top(box, at.cur)
  <2> SUFFICES ASSUME ~Top(box, at.cur) PROVE FALSE
    OBVIOUS
  <2>1. at.cur \in Msgids(box)
    BY <1>4, AncestorsClosed DEF ClimbedTo, Upward
  <2>2. at.cur \notin at.seen
    BY <1>4 DEF ClimbedTo, Upward, Circular
  <2>3. at.seen \subseteq Msgids(box) /\ Cardinality(at.seen) = Len(box)
    BY <1>4 DEF ClimbedTo
  <2>4. IsFiniteSet(Msgids(box)) /\ Cardinality(Msgids(box)) \in Nat
        /\ Cardinality(Msgids(box)) <= Len(box)
    BY BoxFacts
  <2>5. IsFiniteSet(at.seen)
    BY <2>3, <2>4, FS_Subset
  <2>6. Cardinality(at.seen \cup {at.cur}) = Len(box) + 1
    BY <2>2, <2>3, <2>5, FS_AddElement
  <2>7. Cardinality(at.seen \cup {at.cur}) <= Cardinality(Msgids(box))
    BY <2>1, <2>3, <2>4, FS_Subset
  <2> QED
    BY <1>1, <2>4, <2>6, <2>7
<1> QED
  BY <1>4, <1>5 DEF ClimbedTo

LEMMA OneThread ==
  ASSUME NEW box \in Seq(Mails), NEW i \in Msgids(box), NEW j \in Msgids(box),
         ~Circular(box, i), ~Circular(box, j)
  PROVE  FindRoot(box, i) = FindRoot(box, j)
           <=> Upward(box, i) \cap Upward(box, j) # {}
<1>1. /\ FindRoot(box, i) \in Upward(box, i) /\ Top(box, FindRoot(box, i))
      /\ FindRoot(box, j) \in Upward(box, j) /\ Top(box, FindRoot(box, j))
  BY RootIsTop
<1>2. ASSUME NEW c \in Upward(box, i), c \in Upward(box, j)
      PROVE  FindRoot(box, i) = FindRoot(box, j)
  <2>1. c \in Msgids(box)
    BY AncestorsClosed DEF Upward
  <2>2. FindRoot(box, i) \in Upward(box, c)
    BY <1>1, TopAboveAll
  <2>3. FindRoot(box, j) \in Upward(box, c)
    BY <1>1, <1>2, TopAboveAll
  <2> QED
    BY <1>1, <2>1, <2>2, <2>3, TopIsUnique
<1> QED
  BY <1>1, <1>2

-----------------------------------------------------------------------------
(***************************************************************************)
(* The parser: numbers.  First what a sorted listing and an image are, then *)
(* that what the extractors make of a thread is a well formed item, then    *)
(* that one item is left of every title, and at last the sums.              *)
(***************************************************************************)
LEMMA MaxOfFinite ==
  ASSUME NEW S, IsFiniteSet(S), \A x \in S : x \in Nat, S # {}
  PROVE  Max(S) \in S /\ \A y \in S : y <= Max(S)
<1> DEFINE HasMax(T) == \E x \in T : \A y \in T : x >= y
           Bad(n) == \E T \in SUBSET S : T # {} /\ Cardinality(T) = n /\ ~HasMax(T)
           None == {n \in Nat : Bad(n)}
<1>1. None = {}
  <2> SUFFICES ASSUME None # {} PROVE FALSE
    OBVIOUS
  <2>1. PICK m \in None : \A n \in None : m <= n
    <3>1. None \subseteq Nat
      OBVIOUS
    <3> HIDE DEF None
    <3> QED
      BY <3>1, LeastOf
  <2>2. m \in Nat /\ Bad(m)
    BY <2>1
  <2>3. PICK T \in SUBSET S : T # {} /\ Cardinality(T) = m /\ ~HasMax(T)
    BY <2>2
  <2>4. PICK x \in T : TRUE
    BY <2>3
  <2> DEFINE U == T \ {x}
  <2>5. U \in SUBSET S /\ IsFiniteSet(T) /\ T = U \cup {x}
    BY <2>4, FS_Subset
  <2>6. Cardinality(U) = m - 1 /\ Cardinality(U) \in Nat
    <3>1. IsFiniteSet(U) /\ Cardinality(U) = m - 1
      BY <2>3, <2>4, <2>5, FS_RemoveElement
    <3> HIDE DEF U
    <3> QED
      BY <3>1, FS_CardinalityType
  <2>7. U # {}
    <3>1. ASSUME U = {} PROVE HasMax(T)
      <4>1. \A y \in T : y = x
        BY <3>1, <2>5
      <4>2. x \in Nat
        BY <2>3, <2>4
      <4> QED
        BY <2>4, <4>1, <4>2
    <3> QED
      BY <3>1, <2>3
  <2>8. HasMax(U)
    <3>1. m - 1 \notin None
      <4> HIDE DEF None
      <4> QED
        BY <2>1, <2>2, <2>6
    <3>2. ~Bad(m - 1)
      BY <3>1, <2>6
    <3> HIDE DEF HasMax, U
    <3> QED
      BY <3>2, <2>5, <2>6, <2>7
  <2>9. PICK u \in U : \A y \in U : u >= y
    BY <2>8
  <2>10. x \in Nat /\ u \in Nat /\ \A y \in T : y \in Nat
    BY <2>3, <2>4, <2>9
  <2>11. HasMax(T)
    <3>1. \A y \in T : y = x \/ u >= y
      BY <2>5, <2>9
    <3>2. CASE x >= u
      <4>1. \A y \in T : x >= y
        BY <3>1, <3>2, <2>10
      <4> QED
        BY <2>4, <4>1
    <3>3. CASE u >= x
      <4>1. \A y \in T : u >= y
        BY <3>1, <3>3, <2>10
      <4> QED
        BY <2>9, <4>1
    <3> QED
      BY <2>10, <3>2, <3>3
  <2> QED
    BY <2>3, <2>11
<1>2. HasMax(S)
  <2>1. Cardinality(S) \in Nat
    BY FS_CardinalityType
  <2>2. ~Bad(Cardinality(S))
    BY <1>1, <2>1
  <2> HIDE DEF HasMax
  <2> QED
    BY <2>2
<1>3. PICK x \in S : \A y \in S : x >= y
  BY <1>2
<1>4. Max(S) \in S /\ \A y \in S : Max(S) >= y
  BY <1>3 DEF Max
<1> QED
  BY <1>4

LEMMA ImageIsFinite ==
  ASSUME NEW D, IsFiniteSet(D), NEW f, f = [x \in D |-> f[x]]
  PROVE  IsFiniteSet({f[x] : x \in D})
<1> DEFINE T == {f[x] : x \in D}
<1>1. f \in Surjection(D, T)
  <2>1. f \in [D -> T]
    OBVIOUS
  <2>2. \A t \in T : \E x \in D : f[x] = t
    OBVIOUS
  <2> QED
    BY <2>1, <2>2 DEF Surjection
<1> HIDE DEF T
<1>2. IsFiniteSet(T)
  BY <1>1, FS_Surjection
<1> QED
  BY <1>2 DEF T

-----------------------------------------------------------------------------
\* Numbers in the order of their keys.
Sorted(s, key) ==
  \A i, j \in DOMAIN s :
    i < j => key[s[i]] < key[s[j]] \/ (key[s[i]] = key[s[j]] /\ s[i] < s[j])

\* A finite set of numbers can be listed by its keys, the least of them first.
LEMMA SortedExists ==
  ASSUME NEW S, IsFiniteSet(S), \A x \in S : x \in Nat,
         NEW key, \A x \in S : key[x] \in Nat
  PROVE  \E s \in [1 .. Cardinality(S) -> S] : Sorted(s, key)
<1> DEFINE Lists(T, n) == \E s \in [1 .. n -> T] : Sorted(s, key)
           Bad(n) == \E T \in SUBSET S : Cardinality(T) = n /\ ~Lists(T, n)
           None == {n \in Nat : Bad(n)}
<1>1. None = {}
  <2> SUFFICES ASSUME None # {} PROVE FALSE
    OBVIOUS
  <2>1. PICK m \in None : \A n \in None : m <= n
    <3>1. None \subseteq Nat
      OBVIOUS
    <3> HIDE DEF None
    <3> QED
      BY <3>1, LeastOf
  <2>2. m \in Nat /\ Bad(m)
    BY <2>1
  <2>3. PICK T \in SUBSET S : Cardinality(T) = m /\ ~Lists(T, m)
    BY <2>2
  <2>4. IsFiniteSet(T) /\ \A x \in T : x \in Nat /\ key[x] \in Nat
    BY FS_Subset
  <2>5. T # {}
    <3>1. ASSUME T = {} PROVE FALSE
      <4>1. m = 0
        BY <3>1, <2>3, FS_EmptySet
      <4> DEFINE e == [i \in 1 .. 0 |-> i]
      <4>2. e \in [1 .. 0 -> T] /\ Sorted(e, key)
        BY DEF Sorted
      <4> HIDE DEF e
      <4>3. Lists(T, 0)
        BY <4>2
      <4> QED
        BY <4>1, <4>3, <2>3
    <3> QED
      BY <3>1
  <2>6. PICK x \in T : \A y \in T : y # x =>
             key[x] < key[y] \/ (key[x] = key[y] /\ x < y)
    <3> DEFINE Keys == {key[y] : y \in T}
    <3>1. Keys \subseteq Nat /\ Keys # {}
      BY <2>4, <2>5
    <3>2. PICK k \in Keys : \A l \in Keys : k <= l
      <4> HIDE DEF Keys
      <4> QED
        BY <3>1, LeastOf
    <3> DEFINE At == {y \in T : key[y] = k}
    <3>3. At \subseteq Nat /\ At # {}
      BY <2>4, <3>2
    <3>4. PICK x \in At : \A y \in At : x <= y
      <4> HIDE DEF At
      <4> QED
        BY <3>3, LeastOf
    <3>5. x \in T /\ key[x] = k /\ x \in Nat /\ k \in Nat
      BY <2>4, <3>1, <3>2, <3>4
    <3>6. ASSUME NEW y \in T, y # x
          PROVE  key[x] < key[y] \/ (key[x] = key[y] /\ x < y)
      <4>1. key[y] \in Nat /\ y \in Nat /\ k <= key[y]
        BY <2>4, <3>2
      <4>2. CASE key[y] = k
        <5>1. x <= y
          BY <3>4, <4>2
        <5> QED
          BY <3>5, <3>6, <4>1, <4>2, <5>1
      <4>3. CASE key[y] # k
        BY <3>5, <4>1, <4>3
      <4> QED
        BY <4>2, <4>3
    <3> QED
      BY <3>5, <3>6
  <2> DEFINE U == T \ {x}
  <2>7. U \in SUBSET S /\ Cardinality(U) = m - 1 /\ m - 1 \in Nat
    <3>1. IsFiniteSet(U) /\ Cardinality(U) = m - 1
      BY <2>3, <2>4, <2>6, FS_RemoveElement
    <3>2. Cardinality(U) \in Nat
      <4> HIDE DEF U
      <4> QED
        BY <3>1, FS_CardinalityType
    <3> QED
      BY <3>1, <3>2
  <2>8. Lists(U, m - 1)
    <3>1. m - 1 \notin None
      <4> HIDE DEF None
      <4> QED
        BY <2>1, <2>2, <2>7
    <3>2. ~Bad(m - 1)
      BY <3>1, <2>7
    <3> HIDE DEF Lists, U
    <3> QED
      BY <3>2, <2>7
  <2>9. PICK t \in [1 .. (m - 1) -> U] : Sorted(t, key)
    BY <2>8
  <2> DEFINE s == [i \in 1 .. m |-> IF i = 1 THEN x ELSE t[i - 1]]
  <2>10. ASSUME NEW i \in 1 .. m, i # 1
         PROVE  i - 1 \in 1 .. (m - 1) /\ s[i] = t[i - 1] /\ s[i] \in T /\ s[i] # x
    <3>1. i - 1 \in 1 .. (m - 1)
      BY <2>2, <2>10
    <3>2. t[i - 1] \in U
      BY <3>1, <2>9
    <3> QED
      BY <2>10, <3>1, <3>2
  <2>11. s \in [1 .. m -> T]
    BY <2>6, <2>10
  <2>12. 1 \in 1 .. m => s[1] = x
    OBVIOUS
  <2>13. Sorted(s, key)
    <3>1. DOMAIN s = 1 .. m
      OBVIOUS
    <3> HIDE DEF s
    <3>2. ASSUME NEW i \in 1 .. m, NEW j \in 1 .. m, i < j
          PROVE  key[s[i]] < key[s[j]] \/ (key[s[i]] = key[s[j]] /\ s[i] < s[j])
      <4>1. j # 1
        BY <2>2, <3>2
      <4>2. CASE i = 1
        BY <2>6, <2>10, <2>12, <4>1, <4>2
      <4>3. CASE i # 1
        <5>1. i - 1 \in DOMAIN t /\ j - 1 \in DOMAIN t /\ i - 1 < j - 1
          BY <2>9, <2>10, <3>2, <4>1, <4>3
        <5>2. s[i] = t[i - 1] /\ s[j] = t[j - 1]
          BY <2>10, <4>1, <4>3
        <5> QED
          BY <2>9, <5>1, <5>2 DEF Sorted
      <4> QED
        BY <4>2, <4>3
    <3> QED
      BY <3>1, <3>2 DEF Sorted
  <2>14. Lists(T, m)
    <3> HIDE DEF s
    <3> QED
      BY <2>11, <2>13
  <2> QED
    BY <2>3, <2>14
<1>2. Lists(S, Cardinality(S))
  <2>1. Cardinality(S) \in Nat
    BY FS_CardinalityType
  <2>2. ~Bad(Cardinality(S))
    BY <1>1, <2>1
  <2> HIDE DEF Lists
  <2> QED
    BY <2>2
<1> QED
  BY <1>2

LEMMA SortedByFacts ==
  ASSUME NEW S, IsFiniteSet(S), \A x \in S : x \in Nat,
         NEW key, \A x \in S : key[x] \in Nat
  PROVE  /\ SortedBy(S, key) \in [1 .. Cardinality(S) -> S]
         /\ Sorted(SortedBy(S, key), key)
<1>1. SortedBy(S, key) = CHOOSE s \in [1 .. Cardinality(S) -> S] : Sorted(s, key)
  BY Zenon DEF SortedBy, Sorted
<1>2. \E s \in [1 .. Cardinality(S) -> S] : Sorted(s, key)
  BY SortedExists
<1> QED
  BY <1>1, <1>2, Zenon

-----------------------------------------------------------------------------
\* A thread is a sequence of mails of the mailbox.
LEMMA ThreadIsMails ==
  ASSUME NEW box \in Seq(Mails), NEW root
  PROVE  Thread(box, root) \in Seq(Mails)
<1> DEFINE in == {k \in DOMAIN box : FindRoot(box, box[k].id) = root}
           key == [k \in in |-> box[k].date]
           order == SortedBy(in, key)
<1>1. Thread(box, root) = [n \in DOMAIN order |-> box[order[n]]]
  BY DEF Thread
<1>2. Len(box) \in Nat /\ DOMAIN box = 1 .. Len(box)
  OBVIOUS
<1>3. in \in SUBSET (1 .. Len(box))
  BY <1>2
<1>4. IsFiniteSet(in)
  <2> HIDE DEF in
  <2>1. IsFiniteSet(1 .. Len(box))
    BY <1>2, FS_Interval
  <2> QED
    BY <1>3, <2>1, FS_Subset
<1>5. \A k \in in : k \in Nat /\ k \in DOMAIN box
  BY <1>2
<1>6. \A k \in in : key[k] \in Nat
  <2>1. \A k \in DOMAIN box : box[k].date \in Nat
    <3>1. \A k \in DOMAIN box : box[k] \in Mails
      BY <1>2
    <3>2. \A m \in Mails : m.date \in 0 .. MaxDate
      BY DEF Mails
    <3>3. 0 .. MaxDate \subseteq Nat
      OBVIOUS
    <3> QED
      BY <3>1, <3>2, <3>3
  <2> QED
    BY <1>5, <2>1
<1> HIDE DEF in, key
<1>7. order \in [1 .. Cardinality(in) -> in] /\ Cardinality(in) \in Nat
  BY <1>4, <1>5, <1>6, SortedByFacts, FS_CardinalityType
<1> HIDE DEF order
<1>8. \A n \in 1 .. Cardinality(in) : box[order[n]] \in Mails
  <2>1. \A k \in in : box[k] \in Mails
    BY <1>2, <1>5
  <2> QED
    BY <1>7, <2>1
<1>9. [n \in 1 .. Cardinality(in) |-> box[order[n]]] \in Seq(Mails)
  BY <1>7, <1>8
<1> QED
  BY <1>1, <1>7, <1>9

\* The members of a sequence are finitely many.
LEMMA ToSetFacts ==
  ASSUME NEW T, NEW s \in Seq(T)
  PROVE  IsFiniteSet(ToSet(s)) /\ \A m \in ToSet(s) : m \in T
<1> DEFINE n == Len(s)
<1>1. n \in Nat /\ DOMAIN s = 1 .. n /\ s = [i \in 1 .. n |-> s[i]]
  OBVIOUS
<1> HIDE DEF n
<1>2. n \in Int
  BY <1>1
<1>3. IsFiniteSet(1 .. n)
  BY <1>2, FS_Interval
<1>4. IsFiniteSet({s[i] : i \in 1 .. n})
  BY <1>1, <1>3, ImageIsFinite
<1>5. \A m \in ToSet(s) : m \in T
  BY DEF ToSet
<1> QED
  BY <1>1, <1>4, <1>5 DEF ToSet

-----------------------------------------------------------------------------
Days == 0 .. MaxDate

\* The one place that looks at the number behind MaxDate.
LEMMA MaxDateBounds == MaxDate \in Int /\ 61 <= MaxDate
BY SMT DEF MaxDate

LEMMA DaysFacts ==
  /\ Days \subseteq Nat
  /\ 0 \in Days
  /\ \A d \in Days : d \in Int /\ 0 <= d /\ d <= MaxDate
BY MaxDateBounds, SMT DEF Days

LEMMA MaxOfTwo ==
  ASSUME NEW a \in Int, NEW b \in Int
  PROVE  /\ Max({a, b}) \in {a, b}
         /\ Max({a, b}) >= a /\ Max({a, b}) >= b
<1>1. \E x \in {a, b} : \A y \in {a, b} : x >= y
  OBVIOUS
<1>2. Max({a, b}) \in {a, b} /\ \A y \in {a, b} : Max({a, b}) >= y
  BY <1>1 DEF Max
<1> QED
  BY <1>2

LEMMA MinOfTwo ==
  ASSUME NEW a \in Int, NEW b \in Int
  PROVE  /\ Min({a, b}) \in {a, b}
         /\ Min({a, b}) <= a /\ Min({a, b}) <= b
<1>1. \E x \in {a, b} : \A y \in {a, b} : x <= y
  OBVIOUS
<1>2. Min({a, b}) \in {a, b} /\ \A y \in {a, b} : Min({a, b}) <= y
  BY <1>1 DEF Min
<1> QED
  BY <1>2

LEMMA EarliestIsDate ==
  ASSUME NEW D, \A d \in D : d \in Days
  PROVE  Earliest(D) \in Days /\ (D # {} => Min(D) \in D)
<1>1. 0 \in Days
  BY DaysFacts
<1>2. ASSUME D # {} PROVE Min(D) \in D
  <2>1. D \subseteq Nat
    BY DaysFacts
  <2>2. PICK m \in D : \A y \in D : m <= y
    BY <1>2, <2>1, LeastOf
  <2> QED
    BY <2>2 DEF Min
<1> QED
  BY <1>1, <1>2 DEF Earliest

Spans == {Unknown} \cup Days
LEMMA ElapsedIsSpan ==
  ASSUME NEW from \in Days, NEW to \in Days
  PROVE  Elapsed(from, to) \in Spans
<1>1. from \in Int /\ to \in Int /\ 0 <= from /\ to <= MaxDate /\ MaxDate \in Nat
  BY DaysFacts, MaxDateBounds
<1> DEFINE gone == to - from
<1>2. gone \in Int /\ gone <= MaxDate
  BY <1>1
<1> HIDE DEF gone
<1>3. Max({0, gone}) \in {0, gone} /\ Max({0, gone}) >= 0
  <2>1. 0 \in Int
    OBVIOUS
  <2> QED
    BY <1>2, <2>1, MaxOfTwo, Zenon
<1>4. Max({0, gone}) \in Days
  BY <1>1, <1>2, <1>3 DEF Days
<1> QED
  BY <1>4 DEF Elapsed, Spans, gone

-----------------------------------------------------------------------------
\* Whatever the extractors read: a mail, or a row put as one.
Readable == Mails \cup {RowAsMail(row) : row \in TrackedRows}
LEMMA ReadableFacts == \A m \in Readable : m.date \in Days /\ m.total \in Nat
<1>1. \A m \in Mails : m.date \in Days /\ m.total \in Nat
  BY DEF Mails, Days
<1>2. \A row \in TrackedRows : RowAsMail(row).date \in Days /\ RowAsMail(row).total \in Nat
  BY DaysFacts DEF RowAsMail, TrackedRows
<1> QED
  BY <1>1, <1>2 DEF Readable

\* What VersionInfo counts of the mails of a thread.
LEMMA VersionInfoFacts ==
  ASSUME NEW mails \in Seq(Readable)
  PROVE  LET ver == VersionInfo(mails)
         IN  /\ ver.count \in Nat \ {0}
             /\ ver.patches \in Nat
             /\ ver.v1Posted \in Days /\ ver.applyDate \in Days
             /\ ver.daysToMerge \in Spans
<1> DEFINE patched == {m \in ToSet(mails) : m.tagged}
           versions == {m.version : m \in patched}
           totals == {1} \cup {m.total : m \in patched}
           at(v) == {k \in DOMAIN mails : /\ mails[k].tagged
                                          /\ mails[k].version = v
                                          /\ mails[k].date > 0}
           posted(v) == IF at(v) = {} THEN 0 ELSE mails[Min(at(v))].date
           known == {posted(v) : v \in versions} \ {0}
           dates == {m.date : m \in ToSet(mails)} \ {0}
           first == IF known = {} THEN Earliest(dates)
                    ELSE IF posted(1) > 0 /\ 1 \in versions THEN posted(1)
                         ELSE Min(known)
           hints == {m.date : m \in {n \in ToSet(mails) :
                        n.date > 0 /\ ~n.tagged /\ n.mergeHint}}
           applied == Earliest(hints)
           ver == VersionInfo(mails)
<1>1. /\ ver.count = Max({1, Cardinality(versions)})
      /\ ver.patches = Max(totals)
      /\ ver.v1Posted = first
      /\ ver.applyDate = applied
      /\ ver.daysToMerge = Elapsed(first, applied)
  <2>1. ver.count = Max({1, Cardinality(versions)}) /\ ver.patches = Max(totals)
    BY DEF VersionInfo
  <2>2. ver.v1Posted = first
    BY DEF VersionInfo
  <2>3. ver.applyDate = applied
    BY DEF VersionInfo
  <2>4. ver.daysToMerge = Elapsed(first, applied)
    BY DEF VersionInfo
  <2> QED
    BY <2>1, <2>2, <2>3, <2>4
<1>2. \A k \in DOMAIN mails : k \in Nat /\ mails[k] \in Readable
  OBVIOUS
<1>3. IsFiniteSet(ToSet(mails)) /\ \A m \in ToSet(mails) : m \in Readable
  BY ToSetFacts
<1>4. \A m \in Readable : m.date \in Days /\ m.total \in Nat
  BY ReadableFacts
<1>5. IsFiniteSet(patched) /\ \A m \in patched : m \in Readable
  <2>1. patched \in SUBSET ToSet(mails)
    OBVIOUS
  <2> HIDE DEF patched
  <2> QED
    BY <1>3, <2>1, FS_Subset
<1>6. Max({1, Cardinality(versions)}) \in Nat \ {0}
  <2> DEFINE of == [m \in patched |-> m.version]
  <2>1. versions = {of[m] : m \in patched}
    OBVIOUS
  <2>2. of = [m \in patched |-> of[m]]
    OBVIOUS
  <2> HIDE DEF of, patched, versions
  <2>3. IsFiniteSet(versions)
    BY <1>5, <2>1, <2>2, ImageIsFinite
  <2>4. Cardinality(versions) \in Nat
    BY <2>3, FS_CardinalityType
  <2> DEFINE c == Cardinality(versions)
  <2> HIDE DEF c
  <2>5. 1 \in Int /\ c \in Int /\ c \in Nat
    BY <2>4 DEF c
  <2>6. Max({1, c}) \in {1, c} /\ Max({1, c}) >= 1
    BY <2>5, MaxOfTwo, Zenon
  <2>7. Max({1, c}) \in Nat \ {0}
    BY <2>5, <2>6
  <2> QED
    BY <2>7 DEF c
<1>7. Max(totals) \in Nat
  <2> DEFINE of == [m \in patched |-> m.total]
  <2>1. totals = {1} \cup {of[m] : m \in patched}
    OBVIOUS
  <2>2. of = [m \in patched |-> of[m]]
    OBVIOUS
  <2>3. \A x \in totals : x \in Nat
    BY <1>4, <1>5
  <2>4. totals # {}
    OBVIOUS
  <2> HIDE DEF of, patched, totals
  <2>5. IsFiniteSet({of[m] : m \in patched})
    BY <1>5, <2>2, ImageIsFinite
  <2>6. IsFiniteSet(totals)
    BY <2>1, <2>5, FS_Singleton, FS_Union
  <2> QED
    BY <2>3, <2>4, <2>6, MaxOfFinite
<1>8. ASSUME NEW v PROVE posted(v) \in Days
  <2>1. 0 \in Days
    BY DaysFacts
  <2>2. CASE at(v) # {}
    <3>1. at(v) \subseteq Nat
      BY <1>2
    <3>2. Min(at(v)) \in at(v)
      <4> DEFINE S == at(v)
      <4> HIDE DEF at
      <4>1. PICK m \in S : \A y \in S : m <= y
        BY <2>2, <3>1, LeastOf
      <4> QED
        BY <4>1 DEF Min
    <3>3. Min(at(v)) \in DOMAIN mails
      BY <3>2
    <3> HIDE DEF at
    <3> QED
      BY <1>2, <1>4, <2>2, <3>3
  <2> QED
    BY <2>1, <2>2
<1>9. first \in Days
  <2>1. \A d \in known : d \in Days
    <3> HIDE DEF posted
    <3> QED
      BY <1>8
  <2>2. \A d \in dates : d \in Days
    BY <1>3, <1>4
  <2> HIDE DEF known, dates, posted, versions
  <2>3. known # {} => Min(known) \in Days
    BY <2>1, EarliestIsDate
  <2>4. Earliest(dates) \in Days
    BY <2>2, EarliestIsDate
  <2> QED
    BY <1>8, <2>3, <2>4
<1>10. applied \in Days
  <2>1. \A d \in hints : d \in Days
    BY <1>3, <1>4
  <2> HIDE DEF hints
  <2> QED
    BY <2>1, EarliestIsDate
<1> HIDE DEF first, applied, totals, versions, patched
<1>11. Elapsed(first, applied) \in Spans
  BY <1>9, <1>10, ElapsedIsSpan
<1> HIDE DEF ver
<1>12. /\ ver.count \in Nat \ {0}
       /\ ver.patches \in Nat
       /\ ver.v1Posted \in Days /\ ver.applyDate \in Days
       /\ ver.daysToMerge \in Spans
  BY <1>1, <1>6, <1>7, <1>9, <1>10, <1>11
<1> QED
  BY <1>12 DEF ver

-----------------------------------------------------------------------------
\* An item as the summary counts it.
Statuses == {"MERGED", "REVIEWED_NOT_MERGED", "PENDING"}
ItemOK(s) ==
  /\ {"status", "versions", "v1Posted", "vNPosted", "daysToMerge"} \subseteq DOMAIN s
  /\ s.status \in Statuses
  /\ s.versions \in Nat \ {0}
  /\ s.patches \in Nat
  /\ s.v1Posted \in Days /\ s.applyDate \in Days
  /\ s.daysToMerge \in Spans

LEMMA ItemFacts ==
  ASSUME NEW raw, raw.mails \in Seq(Readable)
  PROVE  ItemOK(Item(raw)) /\ Item(raw).title = raw.title
<1> DEFINE ver == VersionInfo(raw.mails)
           status == ClassifyStatus(raw.mails)
           item == Item(raw)
<1>1. /\ ver.count \in Nat \ {0}
      /\ ver.patches \in Nat
      /\ ver.v1Posted \in Days /\ ver.applyDate \in Days
      /\ ver.daysToMerge \in Spans
  BY VersionInfoFacts
<1>2. status \in Statuses
  BY DEF ClassifyStatus, Statuses
<1>3. /\ {"status", "versions", "v1Posted", "vNPosted", "daysToMerge"} \subseteq DOMAIN item
      /\ item.title = raw.title /\ item.status = status /\ item.versions = ver.count
      /\ item.patches = ver.patches /\ item.v1Posted = ver.v1Posted
      /\ item.applyDate = ver.applyDate /\ item.daysToMerge = ver.daysToMerge
  BY DEF Item
<1> HIDE DEF ver, status, item
<1>4. ItemOK(item) /\ item.title = raw.title
  BY <1>1, <1>2, <1>3 DEF ItemOK
<1> QED
  BY <1>4 DEF item

\* The one item that is left of a title is well formed and keeps the title.
LEMMA CollapseFacts ==
  ASSUME NEW n \in Nat, NEW items, DOMAIN items = 1 .. n,
         \A k \in 1 .. n : ItemOK(items[k]),
         NEW t \in Titles(items)
  PROVE  /\ ItemOK(Collapse(items, t)) /\ Collapse(items, t).title = t
<1> DEFINE in == {k \in DOMAIN items : items[k].title = t}
           key == [k \in in |-> IF items[k].v1Posted = 0 THEN MaxDate + 1
                                ELSE items[k].v1Posted]
           order == SortedBy(in, key)
           first == items[order[1]]
           base == items[order[Cardinality(in)]]
           days == Elapsed(first.v1Posted, base.applyDate)
           whole == [base EXCEPT !.versions = Cardinality(in),
                                 !.v1Posted = first.v1Posted,
                                 !.vNPosted = base.vNPosted,
                                 !.daysToMerge = IF days = Unknown THEN @ ELSE days]
           made == Collapse(items, t)
<1>1. made = IF Cardinality(in) = 1 THEN base ELSE whole
  BY DEF Collapse
<1>2. in \in SUBSET (1 .. n) /\ \A k \in in : items[k].title = t
  OBVIOUS
<1>3. in # {}
  BY DEF Titles
<1>4. \A k \in in : key[k] \in Nat
  <2>1. \A k \in 1 .. n : items[k].v1Posted \in Days
    BY DEF ItemOK
  <2>2. Days \subseteq Nat
    BY DaysFacts
  <2>3. \A k \in in : items[k].v1Posted \in Nat
    BY <1>2, <2>1, <2>2
  <2>4. MaxDate + 1 \in Nat
    BY MaxDateBounds
  <2> QED
    BY <2>3, <2>4
<1> HIDE DEF in, key
<1>5. IsFiniteSet(in) /\ \A k \in in : k \in Nat
  <2>1. IsFiniteSet(1 .. n)
    BY FS_Interval
  <2>2. IsFiniteSet(in)
    BY <1>2, <2>1, FS_Subset
  <2>3. \A k \in 1 .. n : k \in Nat
    OBVIOUS
  <2> QED
    BY <1>2, <2>2, <2>3
<1> DEFINE c == Cardinality(in)
<1>6. c \in Nat /\ c # 0
  BY <1>3, <1>5, FS_CardinalityType, FS_EmptySet
<1>7. order \in [1 .. c -> in]
  BY <1>4, <1>5, SortedByFacts
<1> HIDE DEF order, c
<1>8. order[1] \in in /\ order[c] \in in
  BY <1>6, <1>7
<1>9. ItemOK(first) /\ ItemOK(base) /\ base.title = t
  BY <1>2, <1>8 DEF c
<1> HIDE DEF first, base
<1>10. CASE c = 1
  BY <1>1, <1>9, <1>10 DEF c
<1>11. CASE c # 1
  <2>1. days \in Spans
    BY <1>9, ElapsedIsSpan DEF ItemOK
  <2> HIDE DEF days
  <2> DEFINE span == IF days = Unknown THEN base.daysToMerge ELSE days
  <2>2. span \in Spans
    BY <1>9, <2>1 DEF ItemOK
  <2>3. made = whole
    BY <1>1, <1>11 DEF c
  <2>4. /\ DOMAIN whole = DOMAIN base
        /\ whole.versions = c /\ whole.v1Posted = first.v1Posted
        /\ whole.daysToMerge = span
        /\ whole.status = base.status /\ whole.patches = base.patches
        /\ whole.applyDate = base.applyDate /\ whole.title = base.title
    BY <1>9 DEF ItemOK, c
  <2> HIDE DEF span, whole, made
  <2>5. ItemOK(whole) /\ whole.title = t
    BY <1>6, <1>9, <2>2, <2>4 DEF ItemOK
  <2> QED
    BY <2>3, <2>5 DEF made
<1> QED
  BY <1>10, <1>11

\* What the page counts: well formed items, one for each title.
SeriesOK(all) ==
  /\ IsFiniteSet(all)
  /\ \A s \in all : ItemOK(s)
  /\ \A s, t \in all : s.title = t.title => s = t

LEMMA EnrichFacts ==
  ASSUME NEW n \in Nat, NEW raws, DOMAIN raws = 1 .. n,
         \A k \in 1 .. n : raws[k].mails \in Seq(Readable)
  PROVE  /\ SeriesOK(EnrichSeries(raws))
         /\ {s.title : s \in EnrichSeries(raws)} = {raws[k].title : k \in 1 .. n}
<1> DEFINE items == [k \in DOMAIN raws |-> Item(raws[k])]
           all == {Collapse(items, t) : t \in Titles(items)}
<1>1. EnrichSeries(raws) = all
  BY DEF EnrichSeries
<1>2. /\ DOMAIN items = 1 .. n
      /\ \A k \in 1 .. n : ItemOK(items[k]) /\ items[k].title = raws[k].title
  BY ItemFacts
<1>3. Titles(items) = {raws[k].title : k \in 1 .. n}
  BY <1>2 DEF Titles
<1> HIDE DEF items
<1>4. \A t \in Titles(items) : ItemOK(Collapse(items, t)) /\ Collapse(items, t).title = t
  BY <1>2, CollapseFacts
<1>5. IsFiniteSet(all)
  <2> DEFINE title == [k \in 1 .. n |-> raws[k].title]
             made == [t \in Titles(items) |-> Collapse(items, t)]
  <2>1. IsFiniteSet(1 .. n)
    BY FS_Interval
  <2>2. Titles(items) = {title[k] : k \in 1 .. n} /\ title = [k \in 1 .. n |-> title[k]]
    BY <1>3
  <2>3. all = {made[t] : t \in Titles(items)} /\ made = [t \in Titles(items) |-> made[t]]
    OBVIOUS
  <2> HIDE DEF title, made, all
  <2>4. IsFiniteSet(Titles(items))
    BY <2>1, <2>2, ImageIsFinite
  <2> QED
    BY <2>3, <2>4, ImageIsFinite
<1>6. \A s \in all : ItemOK(s)
  BY <1>4
<1>7. \A s, u \in all : s.title = u.title => s = u
  BY <1>4
<1>8. {s.title : s \in all} = Titles(items)
  BY <1>4
<1> HIDE DEF all
<1> QED
  BY <1>1, <1>3, <1>5, <1>6, <1>7, <1>8 DEF SeriesOK

\* The rows of the tracker make well formed items as well.
LEMMA LiveFacts ==
  ASSUME NEW rows \in Seq(TrackedRows)
  PROVE  SeriesOK(LiveSeries(rows))
<1> DEFINE raws == [k \in DOMAIN rows |->
                      [id |-> k, title |-> rows[k].title, mails |-> <<RowAsMail(rows[k])>>]]
           made == EnrichSeries(raws)
           shown(s) == [s EXCEPT !.status = StatusToVisual(rows[s.id].status)]
           all == {shown(s) : s \in made}
<1>1. LiveSeries(rows) = all
  BY DEF LiveSeries
<1>2. Len(rows) \in Nat /\ DOMAIN raws = 1 .. Len(rows)
  OBVIOUS
<1>3. ASSUME NEW k \in 1 .. Len(rows) PROVE raws[k].mails \in Seq(Readable)
  <2>1. rows[k] \in TrackedRows
    OBVIOUS
  <2>2. RowAsMail(rows[k]) \in Readable
    BY <2>1 DEF Readable
  <2>3. raws[k].mails = <<RowAsMail(rows[k])>>
    OBVIOUS
  <2> QED
    BY <2>2, <2>3
<1> HIDE DEF raws
<1>4. SeriesOK(made)
  BY <1>2, <1>3, EnrichFacts
<1> HIDE DEF made
<1>5. ASSUME NEW s \in made
      PROVE  ItemOK(shown(s)) /\ shown(s).title = s.title
  <2>1. ItemOK(s)
    BY <1>4 DEF SeriesOK
  <2> DEFINE status == StatusToVisual(rows[s.id].status)
  <2>2. status \in Statuses
    BY DEF StatusToVisual, Statuses
  <2> HIDE DEF status
  <2>3. [s EXCEPT !.status = status].status = status
    BY <2>1 DEF ItemOK
  <2> QED
    BY <2>1, <2>2, <2>3 DEF ItemOK, status
<1>6. IsFiniteSet(all)
  <2> DEFINE show == [s \in made |-> shown(s)]
  <2>1. all = {show[s] : s \in made} /\ show = [s \in made |-> show[s]]
    OBVIOUS
  <2>2. IsFiniteSet(made)
    BY <1>4 DEF SeriesOK
  <2> HIDE DEF show, all
  <2> QED
    BY <2>1, <2>2, ImageIsFinite
<1>7. \A s \in all : ItemOK(s)
  BY <1>5
<1>8. ASSUME NEW s \in all, NEW t \in all, s.title = t.title PROVE s = t
  <2>1. PICK u \in made, w \in made : s = shown(u) /\ t = shown(w)
    OBVIOUS
  <2>2. u.title = w.title
    <3> HIDE DEF shown
    <3> QED
      BY <1>5, <1>8, <2>1
  <2>3. u = w
    BY <1>4, <2>2 DEF SeriesOK
  <2> QED
    BY <2>1, <2>3
<1> HIDE DEF all
<1> QED
  BY <1>1, <1>6, <1>7, <1>8 DEF SeriesOK

-----------------------------------------------------------------------------
\* Counting a finite set by the parts it falls into.
InTwo(S, A, B) == S = A \cup B /\ A \cap B = {}
InThree(S, A, B, C) ==
  S = A \cup B \cup C /\ A \cap B = {} /\ A \cap C = {} /\ B \cap C = {}

LEMMA TwoParts ==
  ASSUME NEW S, IsFiniteSet(S), NEW A, NEW B, InTwo(S, A, B)
  PROVE  /\ IsFiniteSet(A) /\ IsFiniteSet(B)
         /\ Cardinality(A) \in Nat /\ Cardinality(B) \in Nat
         /\ Cardinality(S) = Cardinality(A) + Cardinality(B)
<1>1. A \in SUBSET S /\ B \in SUBSET S /\ S = A \cup B /\ A \cap B = {}
  BY DEF InTwo
<1>2. IsFiniteSet(A) /\ IsFiniteSet(B)
  BY <1>1, FS_Subset
<1>3. Cardinality(A) \in Nat /\ Cardinality(B) \in Nat
  BY <1>2, FS_CardinalityType
<1>4. Cardinality(A \cup B) = Cardinality(A) + Cardinality(B) - Cardinality(A \cap B)
  BY <1>2, FS_Union
<1>5. Cardinality(A \cap B) = 0
  BY <1>1, FS_EmptySet
<1> QED
  BY <1>1, <1>2, <1>3, <1>4, <1>5

LEMMA ThreeParts ==
  ASSUME NEW S, IsFiniteSet(S), NEW A, NEW B, NEW C, InThree(S, A, B, C)
  PROVE  /\ Cardinality(A) \in Nat /\ Cardinality(B) \in Nat /\ Cardinality(C) \in Nat
         /\ Cardinality(S) = Cardinality(A) + Cardinality(B) + Cardinality(C)
<1> DEFINE T == A \cup B
<1>1. InTwo(S, T, C) /\ InTwo(T, A, B)
  BY DEF InTwo, InThree
<1> HIDE DEF T
<1>2. /\ IsFiniteSet(T) /\ Cardinality(T) \in Nat /\ Cardinality(C) \in Nat
      /\ Cardinality(S) = Cardinality(T) + Cardinality(C)
  BY <1>1, TwoParts
<1>3. /\ Cardinality(A) \in Nat /\ Cardinality(B) \in Nat
      /\ Cardinality(T) = Cardinality(A) + Cardinality(B)
  BY <1>1, <1>2, TwoParts
<1> QED
  BY <1>2, <1>3

LEMMA StatusesAddUp ==
  ASSUME NEW all, SeriesOK(all)
  PROVE  Cardinality(OfStatus(all, "MERGED"))
           + Cardinality(OfStatus(all, "REVIEWED_NOT_MERGED"))
           + Cardinality(OfStatus(all, "PENDING")) = Cardinality(all)
<1> DEFINE A == OfStatus(all, "MERGED")
           B == OfStatus(all, "REVIEWED_NOT_MERGED")
           C == OfStatus(all, "PENDING")
<1>1. InThree(all, A, B, C)
  BY DEF SeriesOK, ItemOK, Statuses, OfStatus, InThree
<1>2. IsFiniteSet(all)
  BY DEF SeriesOK
<1> QED
  BY <1>1, <1>2, ThreeParts

\* The patches of a set of series, one pair for each.
PatchPairs(all) == UNION {{s} \X (1 .. s.patches) : s \in all}
LEMMA PatchPairsFacts ==
  ASSUME NEW all, IsFiniteSet(all), \A s \in all : ItemOK(s)
  PROVE  /\ IsFiniteSet(PatchPairs(all))
         /\ \A p : p \in PatchPairs(all)
                     <=> \E s \in all : p \in {s} \X (1 .. s.patches)
<1> DEFINE of == [s \in all |-> {s} \X (1 .. s.patches)]
           family == {of[s] : s \in all}
<1>1. of = [s \in all |-> of[s]]
  OBVIOUS
<1>2. \A s \in all : IsFiniteSet(of[s])
  <2> SUFFICES ASSUME NEW s \in all PROVE IsFiniteSet({s} \X (1 .. s.patches))
    OBVIOUS
  <2>1. s.patches \in Int
    BY DEF ItemOK
  <2>2. IsFiniteSet(1 .. s.patches)
    BY <2>1, FS_Interval
  <2>3. IsFiniteSet({s})
    BY FS_Singleton
  <2> QED
    BY <2>2, <2>3, FS_Product
<1>3. PatchPairs(all) = UNION family
  BY DEF PatchPairs
<1>4. IsFiniteSet(family)
  <2> HIDE DEF of
  <2> QED
    BY <1>1, ImageIsFinite
<1>5. \A T \in family : IsFiniteSet(T)
  <2> HIDE DEF of
  <2> QED
    BY <1>2
<1>6. IsFiniteSet(PatchPairs(all))
  <2> HIDE DEF family
  <2> QED
    BY <1>3, <1>4, <1>5, FS_UNION
<1>7. \A p : p \in PatchPairs(all) <=> \E s \in all : p \in {s} \X (1 .. s.patches)
  BY DEF PatchPairs
<1> QED
  BY <1>6, <1>7

LEMMA PatchesAddUp ==
  ASSUME NEW all, SeriesOK(all)
  PROVE  PatchesOf(OfStatus(all, "MERGED"))
           + PatchesOf(OfStatus(all, "REVIEWED_NOT_MERGED"))
           + PatchesOf(OfStatus(all, "PENDING")) = PatchesOf(all)
<1> DEFINE in(status) == PatchPairs(OfStatus(all, status))
           A == in("MERGED")
           B == in("REVIEWED_NOT_MERGED")
           C == in("PENDING")
<1>1. IsFiniteSet(all) /\ \A s \in all : ItemOK(s)
  BY DEF SeriesOK
<1>2. \A status : IsFiniteSet(OfStatus(all, status))
  <2>1. \A status : OfStatus(all, status) \in SUBSET all
    BY DEF OfStatus
  <2> QED
    BY <1>1, <2>1, FS_Subset
<1>3. ASSUME NEW status, NEW p
      PROVE  p \in in(status)
               <=> \E s \in all : s.status = status /\ p \in {s} \X (1 .. s.patches)
  <2> DEFINE S == OfStatus(all, status)
  <2>1. S = {s \in all : s.status = status}
    BY DEF OfStatus
  <2>2. IsFiniteSet(S) /\ \A s \in S : ItemOK(s)
    BY <1>1, <1>2, <2>1
  <2> HIDE DEF S
  <2>3. p \in PatchPairs(S) <=> \E s \in S : p \in {s} \X (1 .. s.patches)
    BY <2>2, PatchPairsFacts
  <2> QED
    BY <2>1, <2>3 DEF S
<1>4. \A p : p \in PatchPairs(all) <=> \E s \in all : p \in {s} \X (1 .. s.patches)
  BY <1>1, PatchPairsFacts
<1>5. \A s \in all : s.status \in Statuses
  BY <1>1 DEF ItemOK
<1> HIDE DEF in
<1>6. PatchPairs(all) = A \cup B \cup C
  BY <1>3, <1>4, <1>5 DEF Statuses
<1>7. A \cap B = {} /\ A \cap C = {} /\ B \cap C = {}
  <2>1. \A s, t, p : p \in {s} \X (1 .. s.patches) /\ p \in {t} \X (1 .. t.patches)
                       => s = t
    OBVIOUS
  <2> QED
    BY <1>3, <2>1
<1>8. IsFiniteSet(PatchPairs(all))
  BY <1>1, PatchPairsFacts
<1> HIDE DEF A, B, C
<1>9. InThree(PatchPairs(all), A, B, C)
  BY <1>6, <1>7 DEF InThree
<1>10. Cardinality(PatchPairs(all)) = Cardinality(A) + Cardinality(B) + Cardinality(C)
  BY <1>8, <1>9, ThreeParts
<1> QED
  BY <1>10 DEF A, B, C, in, PatchesOf, PatchPairs

LEMMA RevisionsAddUp ==
  ASSUME NEW all, SeriesOK(all)
  PROVE  LET bars == VersionDistribution(all)
         IN  bars[1] + bars[2] + bars[3] + bars[4] = Cardinality(all)
<1> DEFINE bar(r) == {s \in all : Revisions(s) = r}
           A == bar(1)
           B == bar(2)
           C == bar(3)
           D == bar(4)
           T == A \cup B \cup C
<1>1. IsFiniteSet(all)
  BY DEF SeriesOK
<1>2. ASSUME NEW s \in all PROVE Revisions(s) \in 1 .. 4
  <2> DEFINE v == s.versions
  <2>1. v \in Nat \ {0} /\ v \in Int /\ 4 \in Int
    BY DEF SeriesOK, ItemOK
  <2> HIDE DEF v
  <2>2. Min({4, v}) \in {4, v} /\ Min({4, v}) <= 4
    BY <2>1, MinOfTwo, Zenon
  <2>3. Min({4, v}) \in 1 .. 4
    BY <2>1, <2>2
  <2> QED
    BY <2>3 DEF Revisions, v
<1>3. InTwo(all, T, D) /\ InThree(T, A, B, C)
  BY <1>2 DEF InTwo, InThree
<1>4. \A r \in 1 .. 4 : VersionDistribution(all)[r] = Cardinality(bar(r))
  BY DEF VersionDistribution
<1>5. /\ VersionDistribution(all)[1] = Cardinality(A)
      /\ VersionDistribution(all)[2] = Cardinality(B)
      /\ VersionDistribution(all)[3] = Cardinality(C)
      /\ VersionDistribution(all)[4] = Cardinality(D)
  BY <1>4
<1> HIDE DEF A, B, C, D, T
<1>6. /\ Cardinality(all) = Cardinality(T) + Cardinality(D)
      /\ IsFiniteSet(T) /\ Cardinality(T) \in Nat /\ Cardinality(D) \in Nat
  BY <1>1, <1>3, TwoParts
<1>7. Cardinality(T) = Cardinality(A) + Cardinality(B) + Cardinality(C)
  BY <1>3, <1>6, ThreeParts
<1> QED
  BY <1>5, <1>6, <1>7

LEMMA WaitsAddUp ==
  ASSUME NEW all, SeriesOK(all)
  PROVE  LET waits == Histogram(all)
         IN  waits[1] + waits[2] + waits[3] + waits[4] + waits[5]
               = Cardinality({s \in OfStatus(all, "MERGED") : s.daysToMerge # Unknown})
<1> DEFINE timed == {s \in OfStatus(all, "MERGED") : s.daysToMerge # Unknown}
           bar(b) == {s \in OfStatus(all, "MERGED") : InBucket(s, Buckets[b])}
           A == bar(1)
           B == bar(2)
           C == bar(3)
           D == bar(4)
           E == bar(5)
           T == A \cup B \cup C
           U == D \cup E
<1>1. timed \in SUBSET all
  BY DEF OfStatus
<1>2. IsFiniteSet(timed)
  <2> HIDE DEF timed
  <2> QED
    BY <1>1, FS_Subset DEF SeriesOK
<1>3. \A s \in OfStatus(all, "MERGED") :
        s.daysToMerge \in Int
        /\ (s.daysToMerge = -1 \/ (0 <= s.daysToMerge /\ s.daysToMerge <= MaxDate))
  <2>1. \A x \in Spans : x \in Int /\ (x = -1 \/ (0 <= x /\ x <= MaxDate))
    BY DaysFacts DEF Spans, Unknown
  <2> QED
    BY <2>1 DEF OfStatus, SeriesOK, ItemOK
<1>4. \A s : /\ InBucket(s, Buckets[1]) <=> 0 <= s.daysToMerge /\ s.daysToMerge <= 7
             /\ InBucket(s, Buckets[2]) <=> 8 <= s.daysToMerge /\ s.daysToMerge <= 14
             /\ InBucket(s, Buckets[3]) <=> 15 <= s.daysToMerge /\ s.daysToMerge <= 30
             /\ InBucket(s, Buckets[4]) <=> 31 <= s.daysToMerge /\ s.daysToMerge <= 60
             /\ InBucket(s, Buckets[5]) <=> 61 <= s.daysToMerge /\ s.daysToMerge <= MaxDate
  BY DEF InBucket, Buckets
<1>5. ASSUME NEW s \in OfStatus(all, "MERGED")
      PROVE  /\ s \in timed <=> s \in T \cup U
             /\ s \in A => s \notin B /\ s \notin C /\ s \notin U
             /\ s \in B => s \notin C /\ s \notin U
             /\ s \in C => s \notin U
             /\ s \in D => s \notin E
  <2> DEFINE d == s.daysToMerge
  <2>1. d \in Int /\ (d = -1 \/ (0 <= d /\ d <= MaxDate))
    BY <1>3
  <2>2. s \in timed <=> d # -1
    BY DEF Unknown
  <2>3. /\ s \in A <=> 0 <= d /\ d <= 7
        /\ s \in B <=> 8 <= d /\ d <= 14
        /\ s \in C <=> 15 <= d /\ d <= 30
        /\ s \in D <=> 31 <= d /\ d <= 60
        /\ s \in E <=> 61 <= d /\ d <= MaxDate
    BY <1>4
  <2>4. /\ s \in T <=> s \in A \/ s \in B \/ s \in C
        /\ s \in U <=> s \in D \/ s \in E
    OBVIOUS
  <2> HIDE DEF d, timed, T, U, bar
  <2>5. /\ d # -1 <=> 0 <= d /\ d <= MaxDate
        /\ s \in T <=> 0 <= d /\ d <= 30
        /\ s \in U <=> 31 <= d /\ d <= MaxDate
    BY <2>1, <2>3, <2>4, MaxDateBounds
  <2>6. s \in timed <=> s \in T \/ s \in U
    BY <2>1, <2>2, <2>5
  <2> QED
    BY <2>1, <2>3, <2>5, <2>6
<1>6. InTwo(timed, T, U) /\ InThree(T, A, B, C) /\ InTwo(U, D, E)
  BY <1>5 DEF InTwo, InThree
<1>7. \A b \in 1 .. 5 : Histogram(all)[b] = Cardinality(bar(b))
  BY DEF Histogram
<1>8. /\ Histogram(all)[1] = Cardinality(A)
      /\ Histogram(all)[2] = Cardinality(B)
      /\ Histogram(all)[3] = Cardinality(C)
      /\ Histogram(all)[4] = Cardinality(D)
      /\ Histogram(all)[5] = Cardinality(E)
  BY <1>7
<1> HIDE DEF timed, T, U, A, B, C, D, E
<1>9. /\ Cardinality(timed) = Cardinality(T) + Cardinality(U)
      /\ IsFiniteSet(T) /\ IsFiniteSet(U)
  BY <1>2, <1>6, TwoParts
<1>10. /\ Cardinality(T) = Cardinality(A) + Cardinality(B) + Cardinality(C)
       /\ Cardinality(A) \in Nat /\ Cardinality(B) \in Nat /\ Cardinality(C) \in Nat
  BY <1>6, <1>9, ThreeParts
<1>11. /\ Cardinality(U) = Cardinality(D) + Cardinality(E)
       /\ Cardinality(D) \in Nat /\ Cardinality(E) \in Nat
  BY <1>6, <1>9, TwoParts
<1>12. Histogram(all)[1] + Histogram(all)[2] + Histogram(all)[3]
         + Histogram(all)[4] + Histogram(all)[5] = Cardinality(timed)
  BY <1>8, <1>9, <1>10, <1>11
<1> QED
  BY <1>12 DEF timed

-----------------------------------------------------------------------------
LEMMA RootsAreFinite ==
  ASSUME NEW box \in Seq(Mails)
  PROVE  IsFiniteSet(CandidateRoots(box))
<1> DEFINE L == {l \in DOMAIN box : box[l].byAuthor /\ box[l].tagged}
           ofMail == [k \in L |-> FindRoot(box, box[k].id)]
           ofId == [id \in Msgids(box) |-> FindRoot(box, id)]
           own == {ofMail[k] : k \in L}
           roots == {ofId[id] : id \in Msgids(box)}
<1>1. CandidateRoots(box) = IF own = {} THEN roots ELSE own
  BY DEF CandidateRoots, Roots
<1>2. IsFiniteSet(roots)
  <2>1. IsFiniteSet(Msgids(box)) /\ ofId = [id \in Msgids(box) |-> ofId[id]]
    BY BoxFacts
  <2> HIDE DEF ofId
  <2> QED
    BY <2>1, ImageIsFinite
<1>3. IsFiniteSet(own)
  <2>1. L \in SUBSET (1 .. Len(box)) /\ ofMail = [k \in L |-> ofMail[k]]
    OBVIOUS
  <2> HIDE DEF ofMail, L
  <2>2. IsFiniteSet(1 .. Len(box))
    BY BoxFacts, FS_Interval
  <2>3. IsFiniteSet(L)
    BY <2>1, <2>2, FS_Subset
  <2> QED
    BY <2>1, <2>3, ImageIsFinite
<1> QED
  BY <1>1, <1>2, <1>3

\* What the parser has made of a mailbox has the titles of the threads.
TitlesOf(all) == {s.title : s \in all}
ThreadTitles(box) == {RawSeries(box, r).title : r \in CandidateRoots(box)}

LEMMA UploadFacts ==
  ASSUME NEW box \in Seq(Mails), NEW order \in Listings(CandidateRoots(box))
  PROVE  LET all == EnrichSeries([k \in DOMAIN order |-> RawSeries(box, order[k])])
         IN  SeriesOK(all) /\ TitlesOf(all) = ThreadTitles(box)
<1> DEFINE R == CandidateRoots(box)
           n == Cardinality(R)
           raws == [k \in DOMAIN order |-> RawSeries(box, order[k])]
           all == EnrichSeries(raws)
<1>1. n \in Nat
  BY RootsAreFinite, FS_CardinalityType
<1>2. order \in [1 .. n -> R] /\ \A r \in R : \E k \in DOMAIN order : order[k] = r
  BY DEF Listings
<1> HIDE DEF R, n
<1>3. DOMAIN raws = 1 .. n
  BY <1>2
<1>4. ASSUME NEW k \in 1 .. n PROVE raws[k].mails \in Seq(Readable)
  <2>1. raws[k].mails = Thread(box, order[k])
    BY <1>2 DEF RawSeries
  <2>2. Thread(box, order[k]) \in Seq(Mails)
    BY ThreadIsMails
  <2>3. Mails \subseteq Readable
    BY DEF Readable
  <2>4. Thread(box, order[k]) \in Seq(Readable)
    <3> DEFINE t == Thread(box, order[k])
    <3> HIDE DEF t
    <3>1. t \in Seq(Mails)
      BY <2>2 DEF t
    <3> HIDE DEF Mails, Readable
    <3>2. t \in Seq(Readable)
      BY <2>3, <3>1
    <3> QED
      BY <3>2 DEF t
  <2> QED
    BY <2>1, <2>4
<1>5. {raws[k].title : k \in 1 .. n} = {RawSeries(box, r).title : r \in R}
  <2>1. \A k \in 1 .. n : raws[k].title = RawSeries(box, order[k]).title /\ order[k] \in R
    BY <1>2
  <2>2. \A r \in R : \E k \in 1 .. n : order[k] = r
    BY <1>2
  <2> HIDE DEF raws
  <2> QED
    BY <2>1, <2>2
<1> HIDE DEF raws
<1>6. SeriesOK(all) /\ TitlesOf(all) = {raws[k].title : k \in 1 .. n}
  BY <1>1, <1>3, <1>4, EnrichFacts DEF TitlesOf
<1>7. SeriesOK(all) /\ TitlesOf(all) = ThreadTitles(box)
  BY <1>5, <1>6 DEF ThreadTitles, R
<1> QED
  BY <1>7 DEF raws

\* One source is read at a time, and what was made of it is well formed.
ParserInv ==
  /\ mailbox \in Seq(Mails) /\ tracked \in Seq(TrackedRows)
  /\ mailbox = <<>> \/ tracked = <<>>
  /\ SeriesOK(series)
  /\ mailbox # <<>> /\ series # {} => TitlesOf(series) = ThreadTitles(mailbox)

LEMMA ParserStart == ParserInit => ParserInv
<1> SUFFICES ASSUME ParserInit PROVE ParserInv
  OBVIOUS
<1>1. <<>> \in Seq(Mails) /\ <<>> \in Seq(TrackedRows)
  OBVIOUS
<1>2. SeriesOK(series)
  BY FS_EmptySet DEF ParserInit, SeriesOK
<1>3. mailbox \in Seq(Mails) /\ tracked \in Seq(TrackedRows)
  BY <1>1, ParserAssumption DEF ParserInit
<1> QED
  BY <1>2, <1>3 DEF ParserInit, ParserInv

LEMMA ParserStep ==
  ASSUME ParserInv, [ParserNext]_parserVars
  PROVE  ParserInv'
<1>1. CASE UploadMbox
  <2>1. mailbox' = mailbox /\ tracked' = tracked /\ mailbox # <<>>
    BY <1>1 DEF UploadMbox
  <2>2. PICK order \in Listings(CandidateRoots(mailbox)) :
          series' = EnrichSeries([k \in DOMAIN order |-> RawSeries(mailbox, order[k])])
    BY <1>1 DEF UploadMbox
  <2>3. SeriesOK(series') /\ TitlesOf(series') = ThreadTitles(mailbox)
    BY <2>2, UploadFacts DEF ParserInv
  <2> QED
    BY <2>1, <2>3 DEF ParserInv
<1>2. CASE UpstreamStats
  <2>1. mailbox' = mailbox /\ tracked' = tracked /\ tracked # <<>>
        /\ series' = LiveSeries(tracked)
    BY <1>2 DEF UpstreamStats
  <2>2. SeriesOK(series')
    BY <2>1, LiveFacts DEF ParserInv
  <2> QED
    BY <2>1, <2>2 DEF ParserInv
<1>3. CASE UNCHANGED parserVars
  BY <1>3 DEF ParserInv, parserVars
<1> QED
  BY <1>1, <1>2, <1>3 DEF ParserNext

LEMMA ParserInvariant == ParserSpec => []ParserInv
BY ParserStart, ParserStep, PTL DEF ParserSpec

\* The two properties follow from the invariant.
LEMMA SumsFollow == ParserInv => SummaryAddsUp
<1> SUFFICES ASSUME ParserInv, series # {} PROVE SummaryAddsUp
  BY DEF SummaryAddsUp
<1>1. SeriesOK(series)
  BY DEF ParserInv
<1>2. \A s, t \in series : s.title = t.title => s = t
  BY <1>1 DEF SeriesOK
<1>3. mailbox # <<>> =>
        {s.title : s \in series}
          = {RawSeries(mailbox, r).title : r \in CandidateRoots(mailbox)}
  BY DEF ParserInv, TitlesOf, ThreadTitles
<1> QED
  BY <1>1, <1>2, <1>3, StatusesAddUp, PatchesAddUp, RevisionsAddUp, WaitsAddUp
     DEF SummaryAddsUp

LEMMA ThreadsFollow == ParserInv => ThreadsAreWhole
BY OneThread DEF ParserInv, ThreadsAreWhole, Upward

\* Whatever is uploaded, and whatever the tracker holds: each title is one
\* series, the parts of every chart sum up to its whole, and no thread of the
\* author is lost.
THEOREM SumsAddUp == ParserSpec => []SummaryAddsUp
BY SumsFollow, ParserInvariant, PTL

\* Whatever mails are uploaded, in whatever order they come and whichever are
\* missing: two mails are put into one thread exactly when something above the
\* one is above the other.
THEOREM ThreadsStayWhole == ParserSpec => []ThreadsAreWhole
BY ThreadsFollow, ParserInvariant, PTL
=============================================================================
