---------------------------- MODULE SeriesParser ----------------------------
(***************************************************************************)
(* The statistics of the upstream page: app/scripts/upstream_parser.py, and *)
(* the two ways app/routes/upstream.py feeds it, an uploaded mailbox and    *)
(* the rows of the tracker.                                                 *)
(*                                                                         *)
(* A mail is what the parser tells apart: id and parent, date in days (0    *)
(* when it has none), whether its subject holds [PATCH] (replies keep it),  *)
(* version and number of patches, normalised title, whether the author sent *)
(* it, merge hint, reviewers, whether it holds a diff, its lines.           *)
(***************************************************************************)
EXTENDS Integers, FiniteSetsExt, SequencesExt

CONSTANTS
  Mailboxes,  \* mailboxes that may be uploaded: sequences of mails
  TrackerRows \* rows of the tracker, newest first: sequences of rows

\* Dates are days; the last bar of the histogram ends at as many.
MaxDate == 99999
Mails ==
  [id : Nat \ {0}, parent : Nat, date : 0 .. MaxDate, tagged : BOOLEAN,
   version : Nat, total : Nat, title : STRING, byAuthor : BOOLEAN,
   mergeHint : BOOLEAN, reviewers : SUBSET STRING, diff : BOOLEAN, lines : Nat]
TrackedRows == [title : STRING, version : Nat, total : Nat, status : STRING]

ASSUME ParserAssumption ==
  Mailboxes \subseteq Seq(Mails) /\ TrackerRows \subseteq Seq(TrackedRows)

VARIABLES
  mailbox,    \* the mailbox uploaded, or <<>>
  tracked,    \* the rows read, or <<>>
  series      \* what the parser made of them, or {}

parserVars == <<mailbox, tracked, series>>

Unknown == -1
Earliest(dates) == IF dates = {} THEN 0 ELSE Min(dates)
Elapsed(from, to) ==
  IF from = 0 \/ to = 0 THEN Unknown ELSE Max({0, to - from})

(***************************************************************************)
(* _build_series: mails into threads.                                       *)
(***************************************************************************)
Msgids(box) == {box[k].id : k \in DOMAIN box}
ByMsgid(box, id) == box[Max({k \in DOMAIN box : box[k].id = id})]

\* find_root climbs until the parent is unknown or was passed before.
Climb(box, at) ==
  LET parent == ByMsgid(box, at.cur).parent
  IN  IF parent \in Msgids(box) \ at.seen
      THEN [cur |-> parent, seen |-> at.seen \cup {at.cur}] ELSE at

\* Mutant: the direct parent is taken for the root.
ParentOnly(box, id) == Climb(box, [cur |-> id, seen |-> {}]).cur

Climbing(box, id) ==
  LET at[n \in 0 .. Len(box)] ==
        IF n = 0 THEN [cur |-> id, seen |-> {}] ELSE Climb(box, at[n - 1])
  IN  at

FindRoot(box, id) == Climbing(box, id)[Len(box)].cur

\* The numbers of a set by their keys; numbers with equal keys in their order.
SortedBy(S, key) ==
  CHOOSE s \in [1 .. Cardinality(S) -> S] :
    \A i, j \in DOMAIN s :
      i < j => key[s[i]] < key[s[j]] \/ (key[s[i]] = key[s[j]] /\ s[i] < s[j])

\* The mails of a root, by date; equal dates keep the order of the mailbox.
Thread(box, root) ==
  LET in == {k \in DOMAIN box : FindRoot(box, box[k].id) = root}
      order == SortedBy(in, [k \in in |-> box[k].date])
  IN  [n \in DOMAIN order |-> box[order[n]]]

Roots(box) == {FindRoot(box, id) : id \in Msgids(box)}

CandidateRoots(box) ==
  LET own == {FindRoot(box, box[k].id) : k \in
                {l \in DOMAIN box : box[l].byAuthor /\ box[l].tagged}}
  IN  IF own = {} THEN Roots(box) ELSE own

TitleSource(mails) ==
  LET patches == {k \in DOMAIN mails : mails[k].tagged}
  IN  mails[IF patches = {} THEN 1 ELSE Min(patches)]

RawSeries(box, root) ==
  LET mails == Thread(box, root)
  IN  [id |-> root, title |-> TitleSource(mails).title, mails |-> mails]

(***************************************************************************)
(* The extractors, over the mails of one thread.                            *)
(***************************************************************************)
ClassifyStatus(mails) ==
  LET all == ToSet(mails)
  IN  IF \E m \in all : ~m.tagged /\ m.mergeHint THEN "MERGED"
      ELSE IF \E m \in all : m.reviewers # {} THEN "REVIEWED_NOT_MERGED"
      ELSE "PENDING"

VersionInfo(mails) ==
  LET patches == {m \in ToSet(mails) : m.tagged}
      versions == {m.version : m \in patches}
      \* the first dated mail of a version, in the order of the thread
      posted(v) == LET at == {k \in DOMAIN mails : /\ mails[k].tagged
                                                  /\ mails[k].version = v
                                                  /\ mails[k].date > 0}
                   IN  IF at = {} THEN 0 ELSE mails[Min(at)].date
      known == {posted(v) : v \in versions} \ {0}
      dates == {m.date : m \in ToSet(mails)} \ {0}
      first == IF known = {} THEN Earliest(dates)
               ELSE IF posted(1) > 0 /\ 1 \in versions THEN posted(1) ELSE Min(known)
      last == IF known = {} THEN Max(dates \cup {0})
              ELSE IF posted(Max(versions)) > 0 THEN posted(Max(versions))
              ELSE Max(known)
      applied == Earliest({m.date : m \in {n \in ToSet(mails) :
                             n.date > 0 /\ ~n.tagged /\ n.mergeHint}})
  IN  [count |-> Max({1, Cardinality(versions)}), v1Posted |-> first,
       vNPosted |-> last, applyDate |-> applied,
       daysToMerge |-> Elapsed(first, applied),
       patches |-> Max({1} \cup {m.total : m \in patches})]

ReviewerInfo(mails) ==
  LET reviews == {m \in ToSet(mails) : m.reviewers # {}}
      posted == {k \in DOMAIN mails : mails[k].tagged /\ mails[k].date > 0}
      first == Earliest({m.date : m \in reviews} \ {0})
  IN  [count |-> Cardinality(UNION {m.reviewers : m \in reviews}),
       days |-> IF posted = {} THEN Unknown
                ELSE Elapsed(mails[Min(posted)].date, first)]

\* Every mail counts, also a copy that came over a second list.
LineStats(mails) ==
  LET diffs == {k \in DOMAIN mails : mails[k].tagged \/ mails[k].diff}
  IN  MapThenSumSet(LAMBDA k : mails[k].lines, diffs)

(***************************************************************************)
(* enrich_series: one item per thread, then one per title.  Items of equal  *)
(* date stay in the order they come in, which for a mailbox is the order of *)
(* a Python set.                                                            *)
(***************************************************************************)
Item(raw) ==
  LET ver == VersionInfo(raw.mails)
      rev == ReviewerInfo(raw.mails)
  IN  [id |-> raw.id, title |-> raw.title, status |-> ClassifyStatus(raw.mails),
       versions |-> ver.count, patches |-> ver.patches,
       v1Posted |-> ver.v1Posted, vNPosted |-> ver.vNPosted,
       applyDate |-> ver.applyDate, daysToMerge |-> ver.daysToMerge,
       reviewers |-> rev.count, daysToFirstReview |-> rev.days,
       lines |-> LineStats(raw.mails)]

Collapse(items, title) ==
  LET in == {k \in DOMAIN items : items[k].title = title}
      \* no date sorts after every date
      order == SortedBy(in, [k \in in |-> IF items[k].v1Posted = 0 THEN MaxDate + 1
                                          ELSE items[k].v1Posted])
      first == items[order[1]]
      base == items[order[Cardinality(in)]]
      days == Elapsed(first.v1Posted, base.applyDate)
  IN  IF Cardinality(in) = 1 THEN base
      ELSE [base EXCEPT !.versions = Cardinality(in),
                        !.v1Posted = first.v1Posted,
                        !.vNPosted = base.vNPosted,
                        !.daysToMerge = IF days = Unknown THEN @ ELSE days]

Titles(items) == {items[k].title : k \in DOMAIN items}
EnrichSeries(raws) ==
  LET items == [k \in DOMAIN raws |-> Item(raws[k])]
  IN  {Collapse(items, t) : t \in Titles(items)}

(***************************************************************************)
(* _live_series_from_db: a row becomes a thread of one patch whose date the *)
(* parser cannot read; the status is that of the row the item stands for.   *)
(***************************************************************************)
StatusToVisual(status) ==
  CASE status \in {"merged", "accepted"} -> "MERGED"
    [] status \in {"under_review", "changes_requested"} -> "REVIEWED_NOT_MERGED"
    [] OTHER -> "PENDING"

RowAsMail(row) ==
  [id |-> 0, parent |-> 0, date |-> 0, tagged |-> TRUE, version |-> row.version,
   total |-> row.total, title |-> row.title, byAuthor |-> TRUE, mergeHint |-> FALSE,
   reviewers |-> {}, diff |-> FALSE, lines |-> 0]

LiveSeries(rows) ==
  LET raw == [k \in DOMAIN rows |->
                [id |-> k, title |-> rows[k].title, mails |-> <<RowAsMail(rows[k])>>]]
  IN  {[s EXCEPT !.status = StatusToVisual(rows[s.id].status)] : s \in EnrichSeries(raw)}

(***************************************************************************)
(* summary_from_series.                                                     *)
(***************************************************************************)
OfStatus(all, status) == {s \in all : s.status = status}
Revisions(s) == Min({4, s.versions})
Buckets == <<<<0, 7>>, <<8, 14>>, <<15, 30>>, <<31, 60>>, <<61, MaxDate>>>>
\* Mutant: the lower bound is left out of a bucket.
AboveBucket(s, b) == b[1] < s.daysToMerge /\ s.daysToMerge <= b[2]

InBucket(s, b) == b[1] <= s.daysToMerge /\ s.daysToMerge <= b[2]

Histogram(all) ==
  [b \in 1 .. 5 |->
     Cardinality({s \in OfStatus(all, "MERGED") : InBucket(s, Buckets[b])})]
VersionDistribution(all) ==
  [r \in 1 .. 4 |-> Cardinality({s \in all : Revisions(s) = r})]

\* The sum of the patches, as the number of the pairs of a series and one of
\* its patches.
PatchesOf(all) == Cardinality(UNION {{s} \X (1 .. s.patches) : s \in all})

----------------------------------------------------------------------------
ParserInit ==
  /\ \/ mailbox \in Mailboxes /\ tracked = <<>>
     \/ mailbox = <<>> /\ tracked \in TrackerRows
  /\ series = {}

Listings(S) ==
  {s \in [1 .. Cardinality(S) -> S] : \A x \in S : \E i \in DOMAIN s : s[i] = x}

\* parse_mbox_gz, in any order of the candidate roots.
UploadMbox ==
  /\ mailbox # <<>> /\ series = {}
  /\ \E order \in Listings(CandidateRoots(mailbox)) :
       series' = EnrichSeries([k \in DOMAIN order |-> RawSeries(mailbox, order[k])])
  /\ UNCHANGED <<mailbox, tracked>>

UpstreamStats ==
  /\ tracked # <<>> /\ series = {}
  /\ series' = LiveSeries(tracked)
  /\ UNCHANGED <<mailbox, tracked>>

ParserNext == UploadMbox \/ UpstreamStats
ParserSpec == ParserInit /\ [][ParserNext]_parserVars

----------------------------------------------------------------------------
(* The mails above a mail: the least set that holds its parent, if that is  *)
(* in the mailbox, and with a mail the parent of it.                        *)
Parents(box, id) == {ByMsgid(box, id).parent} \cap Msgids(box)
Closed(box, S) == \A a \in S : Parents(box, a) \subseteq S
Ancestors(box, id) ==
  {a \in Msgids(box) : \A S \in SUBSET Msgids(box) :
     Parents(box, id) \subseteq S /\ Closed(box, S) => a \in S}
Circular(box, id) ==
  \E a \in Ancestors(box, id) \cup {id} : a \in Ancestors(box, a)

\* Two mails are in one thread exactly when they have an ancestor in common or
\* one is the other's; mails that answer each other in a circle are left out.
\* (_build_series, upstream_parser.py:279-326)
ThreadsAreWhole ==
  \A i, j \in Msgids(mailbox) :
    ~Circular(mailbox, i) /\ ~Circular(mailbox, j) =>
      ( FindRoot(mailbox, i) = FindRoot(mailbox, j)
        <=> (Ancestors(mailbox, i) \cup {i}) \cap (Ancestors(mailbox, j) \cup {j}) # {} )

\* The numbers of the page agree: every title is one series, every series has
\* one status and one bar of the revision chart, every merged series with a
\* duration one bar of the histogram, and no thread of the author is lost.
\* (enrich_series, summary_from_series, upstream_parser.py:419-585)
SummaryAddsUp ==
  series # {} =>
    LET count(status) == Cardinality(OfStatus(series, status))
        patches(status) == PatchesOf(OfStatus(series, status))
        bars == VersionDistribution(series)
        waits == Histogram(series)
        timed == {s \in OfStatus(series, "MERGED") : s.daysToMerge # Unknown}
    IN  /\ \A s, t \in series : s.title = t.title => s = t
        /\ count("MERGED") + count("REVIEWED_NOT_MERGED") + count("PENDING")
             = Cardinality(series)
        /\ patches("MERGED") + patches("REVIEWED_NOT_MERGED") + patches("PENDING")
             = PatchesOf(series)
        /\ bars[1] + bars[2] + bars[3] + bars[4] = Cardinality(series)
        /\ waits[1] + waits[2] + waits[3] + waits[4] + waits[5] = Cardinality(timed)
        /\ mailbox # <<>> =>
             {s.title : s \in series}
               = {RawSeries(mailbox, r).title : r \in CandidateRoots(mailbox)}

\* Rerolls of one title are one journey only within 90 days: two postings of
\* a title farther apart stay two series.  (the comment at upstream_parser.py:476)
JourneyWindow == 90
RerollsAreRecent ==
  series # {} =>
    \A q, r \in CandidateRoots(mailbox) :
      LET a == Item(RawSeries(mailbox, q))
          b == Item(RawSeries(mailbox, r))
      IN  a.title = b.title /\ a.v1Posted > 0 /\ b.v1Posted > a.v1Posted + JourneyWindow
            => Cardinality({s \in series : s.title = a.title}) > 1
=============================================================================
