------------------------- MODULE AgentStreamProofs -------------------------
(***************************************************************************)
(* Theorems about AgentStream, for every set of streams and every value of *)
(* the bounds.                                                             *)
(***************************************************************************)
EXTENDS AgentStream, FiniteSetTheorems, TLAPS

(***************************************************************************)
(* Facts about sequences, in the form the proofs below use.                *)
(***************************************************************************)
LEMMA AppendFacts ==
  ASSUME NEW S, NEW q \in Seq(S), NEW x \in S
  PROVE  /\ Append(q, x) \in Seq(S)
         /\ Len(Append(q, x)) = Len(q) + 1
         /\ \A i \in 1 .. Len(q) : Append(q, x)[i] = q[i]
         /\ Append(q, x)[Len(q) + 1] = x
OBVIOUS

LEMMA TailFacts ==
  ASSUME NEW S, NEW q \in Seq(S), q # <<>>
  PROVE  /\ Tail(q) \in Seq(S)
         /\ Len(Tail(q)) = Len(q) - 1
         /\ \A i \in 1 .. Len(q) - 1 : Tail(q)[i] = q[i + 1]
         /\ Head(q) = q[1] /\ Head(q) \in S /\ Len(q) >= 1
OBVIOUS

LEMMA LastTail ==
  ASSUME NEW S, NEW q \in Seq(S), Len(q) = 1
  PROVE  Tail(q) = <<>>
<1>1. Tail(q) \in Seq(S) /\ Len(Tail(q)) = 0
  OBVIOUS
<1>2. \A r \in Seq(S) : Len(r) = 0 => r = <<>>
  OBVIOUS
<1>3. QED
  BY <1>1, <1>2

LEMMA PrefixFacts ==
  ASSUME NEW S, NEW q \in Seq(S), NEW n \in 0 .. Len(q)
  PROVE  /\ SubSeq(q, 1, n) \in Seq(S)
         /\ Len(SubSeq(q, 1, n)) = n
         /\ \A i \in 1 .. n : SubSeq(q, 1, n)[i] = q[i]
OBVIOUS

(***************************************************************************)
(* The invariant.                                                          *)
(*                                                                         *)
(* What is on the wire of a page: the events after its cursor, in order,   *)
(* and then perhaps [DONE], when there are no more; or what is left of the *)
(* answer that its stream does not exist.                                  *)
(***************************************************************************)
EventAt(s, i) ==
  /\ page[s].cursor + i <= Len(events[s])
  /\ wire[s][i] = EventFrame(s, page[s].cursor + i)

DoneAt(s, i) ==
  /\ page[s].cursor + i = Len(events[s]) + 1
  /\ wire[s][i] = DoneFrame
  /\ s \in done

Regular(s) == \A i \in 1 .. Len(wire[s]) : EventAt(s, i) \/ DoneAt(s, i)

Gone(s) ==
  \A i \in 1 .. Len(wire[s]) :
    /\ wire[s][i] \in {NotFoundFrame, DoneFrame}
    /\ i < Len(wire[s]) => wire[s][i] = NotFoundFrame
    /\ page[s].lost \/ wire[s][1] = NotFoundFrame

\* A page that has not given up has made no more attempts than it may.
TriesLeft ==
  \A s \in Streams : page[s].pc # "failed" => page[s].attempts <= MaxRetries

\* The page, its connection and what is between them.
Reader(s) ==
  /\ page[s].cursor <= Len(events[s])
  /\ shown[s] = First(s, page[s].cursor)
  /\ Regular(s) \/ Gone(s)
  /\ conn[s].pc # "none" =>
       /\ page[s].pc = "read"
       /\ conn[s].next = page[s].cursor + Len(wire[s]) + 1
       /\ \A i \in 1 .. Len(wire[s]) : EventAt(s, i)
  /\ page[s].pc # "read" => wire[s] = <<>>
  /\ page[s].pc = "finished" /\ ~ page[s].lost =>
       s \in done /\ page[s].cursor = Len(events[s])

\* A log gets its one outcome last, and is done only after that.
Answered(s) ==
  /\ events[s] # <<>>
  /\ \A i \in 1 .. Len(events[s]) :
       events[s][i] \in Outcomes <=> i = Len(events[s])

Writer(s) ==
  /\ page[s].pc = "new" <=> worker[s] = "none"
  /\ worker[s] = "none" => events[s] = <<>>
  /\ worker[s] \in {"none", "run"} =>
       /\ s \notin done
       /\ \A i \in 1 .. Len(events[s]) : events[s][i] \notin Outcomes
  /\ worker[s] \in {"finish", "mark", "over"} \/ s \in done => Answered(s)

IInv == TypeOK /\ TriesLeft /\ \A s \in Streams : Reader(s) /\ Writer(s)

-----------------------------------------------------------------------------
(***************************************************************************)
(* Types.                                                                  *)
(***************************************************************************)
LEMMA FrameTypes ==
  /\ DoneFrame \in Frames /\ NotFoundFrame \in Frames
  /\ DoneFrame # NotFoundFrame
  /\ DoneFrame.id = 0 /\ NotFoundFrame.id = 0
BY DEF DoneFrame, NotFoundFrame, Frames, Kinds, Outcomes

LEMMA EventFrameType ==
  ASSUME TypeOK, NEW s \in Streams, NEW i \in 1 .. Len(events[s])
  PROVE  EventFrame(s, i) \in Frames /\ EventFrame(s, i).id = i
BY DEF TypeOK, EventFrame, Frames

LEMMA PushType ==
  ASSUME TypeOK, NEW s \in Streams, NEW kind \in Kinds, Push(s, kind)
  PROVE  events' \in [Streams -> Seq(Kinds)]
BY AppendFacts DEF TypeOK, Push

LEMMA WriteWireType ==
  ASSUME TypeOK, NEW s \in Streams, NEW frame \in Frames,
         wire' = [wire EXCEPT ![s] = Append(@, frame)]
  PROVE  wire' \in [Streams -> Seq(Frames)]
BY AppendFacts DEF TypeOK

LEMMA WorkerTypes ==
  ASSUME TypeOK, NEW s \in Streams, Think(s) \/ Answer(s) \/ Finish(s) \/ Mark(s)
  PROVE  TypeOK'
<1>1. CASE Think(s)
  <2>1. events' \in [Streams -> Seq(Kinds)]
    BY <1>1, PushType DEF Think, Kinds
  <2>2. QED
    BY <1>1, <2>1 DEF Think, TypeOK
<1>2. CASE Answer(s)
  <2>1. events' \in [Streams -> Seq(Kinds)]
    BY <1>2, PushType DEF Answer, Kinds
  <2>2. worker' \in [Streams -> Busy \cup {"none", "over", "dead"}]
    BY <1>2 DEF Answer, TypeOK, Busy
  <2>3. QED
    BY <1>2, <2>1, <2>2 DEF Answer, TypeOK
<1>3. CASE Finish(s)
  <2>1. worker' \in [Streams -> Busy \cup {"none", "over", "dead"}]
    BY <1>3 DEF Finish, TypeOK, Busy
  <2>2. QED
    BY <1>3, <2>1 DEF Finish, TypeOK
<1>4. CASE Mark(s)
  <2>1. worker' \in [Streams -> Busy \cup {"none", "over", "dead"}]
    BY <1>4 DEF Mark, TypeOK
  <2>2. QED
    BY <1>4, <2>1 DEF Mark, TypeOK
<1>5. QED
  BY <1>1, <1>2, <1>3, <1>4

LEMMA NetworkType ==
  ASSUME TypeOK, NetworkFails
  PROVE  breaks' \in 0 .. MaxBreaks
BY BoundsAssumption DEF TypeOK, NetworkFails

Pages == [pc : {"new", "fetch", "read", "finished", "failed"},
          cursor : Nat, attempts : 0 .. MaxRetries + 1,
          recovered : BOOLEAN, lost : BOOLEAN]

Conns == [pc : {"none", "wait", "check"}, next : Nat \ {0}]

\* TypeOK with the record types named.
LEMMA Records ==
  /\ TypeOK => page \in [Streams -> Pages] /\ conn \in [Streams -> Conns]
  /\ NoConn \in Conns
BY DEF TypeOK, Pages, Conns, NoConn

\* A page or a connection may take any record of its type.
LEMMA PageWrite ==
  ASSUME TypeOK, NEW s \in Streams, NEW r \in Pages,
         page' = [page EXCEPT ![s] = r]
  PROVE  page' \in [Streams -> Pages]
BY Records

LEMMA ConnWrite ==
  ASSUME TypeOK, NEW s \in Streams, NEW r \in Conns,
         conn' = [conn EXCEPT ![s] = r]
  PROVE  conn' \in [Streams -> Conns]
BY Records

LEMMA SendType == ASSUME TypeOK, NEW s \in Streams, Send(s) PROVE TypeOK'
<1>1. events' \in [Streams -> Seq(Kinds)]
  BY PushType DEF Send, Kinds
<1>2. page' \in [Streams -> Pages]
  <2> DEFINE r(pc) == [page[s] EXCEPT !.pc = pc]
  <2>1. r("fetch") \in Pages /\ r("failed") \in Pages
    BY Records DEF Pages
  <2>2. \/ page' = [page EXCEPT ![s] = r("fetch")]
        \/ page' = [page EXCEPT ![s] = r("failed")]
    BY DEF Send
  <2>3. QED
    BY <2>1, <2>2, PageWrite
<1>3. breaks' \in 0 .. MaxBreaks
  BY NetworkType DEF Send, TypeOK
<1>4. worker' \in [Streams -> Busy \cup {"none", "over", "dead"}]
  BY DEF Send, TypeOK, Busy
<1>5. QED
  <2>1. streams' \subseteq Streams /\ idle' \subseteq streams'
    BY DEF Send, TypeOK, Fresh
  <2>2. started' \in Nat
    BY DEF Send, TypeOK
  <2>3. QED
    BY <1>1, <1>2, <1>3, <1>4, <2>1, <2>2 DEF Send, TypeOK, Pages

LEMMA FetchType == ASSUME TypeOK, NEW s \in Streams, Fetch(s) PROVE TypeOK'
<1>1. page' \in [Streams -> Pages]
  <2> DEFINE r == [page[s] EXCEPT !.pc = "read", !.attempts = 0]
  <2>1. page[s] \in Pages /\ 0 \in 0 .. MaxRetries + 1
    BY Records, BoundsAssumption
  <2>2. r \in Pages
    BY <2>1 DEF Pages
  <2>3. page' = [page EXCEPT ![s] = r]
    BY DEF Fetch
  <2>4. QED
    BY <2>2, <2>3, PageWrite
<1>2. <<NotFoundFrame, DoneFrame>> \in Seq(Frames)
  BY FrameTypes
<1>3. wire' \in [Streams -> Seq(Frames)]
  BY <1>2 DEF Fetch, TypeOK
<1>4. FirstEvent(page[s].cursor) \in Nat \ {0}
  BY DEF FirstEvent, TypeOK
<1>5. conn' \in [Streams -> Conns]
  BY <1>4, Records, ConnWrite DEF Fetch, Conns
<1>6. QED
  <2>1. streams' \subseteq Streams /\ idle' \subseteq streams'
    BY DEF Fetch, TypeOK, Fresh
  <2>2. QED
    BY <1>1, <1>3, <1>5, <2>1 DEF Fetch, TypeOK, Pages, Conns

LEMMA RetryType ==
  ASSUME TypeOK, TriesLeft, NEW s \in Streams, page[s].pc \in {"fetch", "read"},
         Retry(s)
  PROVE  page' \in [Streams -> Pages]
<1> DEFINE p == page[s]
           again == [p EXCEPT !.pc = "fetch", !.attempts = @ + 1,
                              !.recovered = TRUE]
           over == [p EXCEPT !.pc = "failed", !.attempts = @ + 1]
<1>1. p \in Pages /\ p.attempts <= MaxRetries
  BY Records DEF TriesLeft
<1>2. again \in Pages /\ over \in Pages
  <2>1. p.attempts + 1 \in 0 .. MaxRetries + 1
    BY <1>1, BoundsAssumption DEF Pages
  <2>2. QED
    BY <1>1, <2>1 DEF Pages
<1>3. page' = [page EXCEPT ![s] = again] \/ page' = [page EXCEPT ![s] = over]
  BY DEF Retry
<1>4. QED
  BY <1>2, <1>3, PageWrite

LEMMA FetchFailsType ==
  ASSUME TypeOK, TriesLeft, NEW s \in Streams, FetchFails(s) PROVE TypeOK'
<1>1. page' \in [Streams -> Pages]
  BY RetryType DEF FetchFails
<1>2. breaks' \in 0 .. MaxBreaks
  BY NetworkType DEF FetchFails
<1>3. streams' \subseteq Streams /\ idle' \subseteq streams'
  BY DEF FetchFails, TypeOK, Fresh, manager
<1>4. QED
  BY <1>1, <1>2, <1>3 DEF FetchFails, TypeOK, Pages

LEMMA InterruptedType ==
  ASSUME TypeOK, TriesLeft, NEW s \in Streams, Interrupted(s) PROVE TypeOK'
<1>1. page' \in [Streams -> Pages]
  BY RetryType DEF Interrupted
<1>2. QED
  BY <1>1 DEF Interrupted, TypeOK, Pages, server, manager

LEMMA DeliverType == ASSUME TypeOK, NEW s \in Streams, Deliver(s) PROVE TypeOK'
<1>1. conn[s].next \in 1 .. Len(events[s])
  BY DEF Deliver, Available, TypeOK
<1>2. wire' \in [Streams -> Seq(Frames)]
  BY <1>1, EventFrameType, WriteWireType DEF Deliver
<1>3. conn' \in [Streams -> Conns]
  BY DEF Deliver, TypeOK, Conns
<1>4. QED
  BY <1>2, <1>3 DEF Deliver, TypeOK, Conns, server, manager

LEMMA NothingType == ASSUME TypeOK, NEW s \in Streams, Nothing(s) PROVE TypeOK'
BY ZenonT(60) DEF Nothing, TypeOK, server, manager

LEMMA CheckType == ASSUME TypeOK, NEW s \in Streams, Check(s) PROVE TypeOK'
<1>1. wire' \in [Streams -> Seq(Frames)]
  BY FrameTypes, WriteWireType DEF Check, TypeOK
<1>2. conn' \in [Streams -> Conns]
  <2>1. [conn[s] EXCEPT !.pc = "wait"] \in Conns
    BY Records DEF Conns
  <2>2. \/ conn' = [conn EXCEPT ![s] = [conn[s] EXCEPT !.pc = "wait"]]
        \/ conn' = [conn EXCEPT ![s] = NoConn]
    BY DEF Check
  <2>3. QED
    BY <2>1, <2>2, Records, ConnWrite
<1>3. QED
  BY <1>1, <1>2 DEF Check, TypeOK, server, manager, Conns

LEMMA ReadType == ASSUME TypeOK, NEW s \in Streams, Read(s) PROVE TypeOK'
<1>1. wire[s] \in Seq(Frames) /\ wire[s] # <<>>
  BY DEF Read, TypeOK
<1>2. Tail(wire[s]) \in Seq(Frames) /\ Head(wire[s]) \in Frames
  BY <1>1, TailFacts
<1>3. wire' \in [Streams -> Seq(Frames)]
  BY <1>2 DEF Read, TypeOK
<1>4. shown' \in [Streams -> Seq(Frames)]
  <2>1. Append(shown[s], Head(wire[s])) \in Seq(Frames)
    BY <1>2, AppendFacts DEF TypeOK
  <2>2. QED
    BY <2>1 DEF Read, TypeOK
<1>5. Cursor(page[s].cursor, Head(wire[s])) \in Nat
  BY <1>2 DEF Cursor, Frames, TypeOK
<1>6. page' \in [Streams -> Pages]
  <2> DEFINE p == page[s]
             r1 == [p EXCEPT !.pc = "finished"]
             r2 == [p EXCEPT !.lost = TRUE]
             r3 == [p EXCEPT !.cursor = Cursor(p.cursor, Head(wire[s]))]
  <2>1. p \in Pages
    BY Records
  <2>2. r1 \in Pages /\ r2 \in Pages /\ r3 \in Pages
    BY <2>1, <1>5 DEF Pages
  <2>3. \/ page' = [page EXCEPT ![s] = r1]
        \/ page' = [page EXCEPT ![s] = r2]
        \/ page' = [page EXCEPT ![s] = r3]
    BY DEF Read
  <2>4. QED
    BY <2>2, <2>3, PageWrite
<1>7. QED
  BY <1>3, <1>4, <1>6 DEF Read, TypeOK, Pages, server, manager

LEMMA BreakType == ASSUME TypeOK, NEW s \in Streams, Break(s) PROVE TypeOK'
<1>1. wire' \in [Streams -> Seq(Frames)]
  BY PrefixFacts DEF Break, TypeOK
<1>2. conn' \in [Streams -> Conns]
  BY DEF Break, TypeOK, NoConn, Conns
<1>3. breaks' \in 0 .. MaxBreaks
  BY NetworkType DEF Break
<1>4. QED
  BY <1>1, <1>2, <1>3 DEF Break, TypeOK, Conns, server, manager

LEMMA CrashType == ASSUME TypeOK, Crash PROVE TypeOK'
<1>1. worker' \in [Streams -> Busy \cup {"none", "over", "dead"}]
  BY DEF Crash, TypeOK
<1>2. conn' \in [Streams -> Conns]
  BY DEF Crash, TypeOK, NoConn, Conns
<1>3. crashes' \in 0 .. MaxCrashes
  BY BoundsAssumption DEF Crash, TypeOK
<1>4. QED
  BY <1>1, <1>2, <1>3 DEF Crash, TypeOK, Conns

LEMMA ManagerTypes ==
  ASSUME TypeOK, Metrics \/ \E s \in Streams : Expire(s) PROVE TypeOK'
BY DEF Metrics, Expire, Fresh, TypeOK, server

LEMMA StutterType == ASSUME TypeOK, UNCHANGED vars PROVE TypeOK'
BY DEF TypeOK, vars

LEMMA InitType == Init => TypeOK /\ TriesLeft
BY BoundsAssumption DEF Init, TypeOK, TriesLeft, NoConn, NewPage, Busy

LEMMA StepType == TypeOK /\ TriesLeft /\ [Next]_vars => TypeOK'
BY WorkerTypes, SendType, FetchType, FetchFailsType, InterruptedType,
   DeliverType, NothingType, CheckType, ReadType, BreakType, CrashType,
   ManagerTypes, StutterType
DEF Next, ConnStep, PageStep

(***************************************************************************)
(* Only Retry counts attempts, and it ends the loop at the limit.          *)
(***************************************************************************)
LEMMA RetryTries ==
  ASSUME TypeOK, TriesLeft, NEW s \in Streams, Retry(s) PROVE TriesLeft'
<1> SUFFICES ASSUME NEW t \in Streams, page'[t].pc # "failed"
             PROVE  page'[t].attempts <= MaxRetries
  BY DEF TriesLeft
<1>1. page \in [Streams -> Pages]
  BY Records
<1>2. CASE t = s
  <2>1. page[s].attempts \in Nat
    BY <1>1, BoundsAssumption DEF Pages
  <2>2. page[s].attempts < MaxRetries
    BY <1>1, <1>2 DEF Retry, Pages
  <2>3. page'[s].attempts = page[s].attempts + 1
    BY <1>1, <2>2 DEF Retry, Pages
  <2>4. QED
    BY <1>2, <2>1, <2>2, <2>3, BoundsAssumption
<1>3. CASE t # s
  <2>1. page'[t] = page[t]
    BY <1>1, <1>3 DEF Retry
  <2>2. QED
    BY <2>1 DEF TriesLeft
<1>4. QED
  BY <1>2, <1>3

LEMMA FetchTries ==
  ASSUME TypeOK, TriesLeft, NEW s \in Streams, Fetch(s) PROVE TriesLeft'
BY BoundsAssumption, SMTT(30) DEF Fetch, TriesLeft, TypeOK

LEMMA OtherTries ==
  ASSUME TypeOK, TriesLeft, NEW s \in Streams, Send(s) \/ Read(s)
  PROVE  TriesLeft'
<1> SUFFICES ASSUME NEW t \in Streams, page'[t].pc # "failed"
             PROVE  page'[t].attempts <= MaxRetries
  BY DEF TriesLeft
<1>1. page \in [Streams -> Pages]
  BY Records
<1>2. page[t].pc # "failed" /\ page'[t].attempts = page[t].attempts
  <2>1. CASE Send(s)
    BY <1>1, <2>1 DEF Send, Pages
  <2>2. CASE Read(s)
    BY <1>1, <2>2 DEF Read, Pages
  <2>3. QED
    BY <2>1, <2>2
<1>3. QED
  BY <1>2 DEF TriesLeft

LEMMA StepTries == TypeOK /\ TriesLeft /\ [Next]_vars => TriesLeft'
<1> SUFFICES ASSUME TypeOK, TriesLeft, [Next]_vars PROVE TriesLeft'
  OBVIOUS
<1>1. CASE UNCHANGED page
  BY <1>1 DEF TriesLeft
<1>2. CASE ~ UNCHANGED page
  <2>1. PICK s \in Streams : Send(s) \/ Fetch(s) \/ Read(s) \/ Retry(s)
    BY <1>2 DEF Next, ConnStep, PageStep, Think, Answer, Finish, Mark, Deliver,
                Nothing, Check, FetchFails, Interrupted, Break, Expire, Metrics,
                Crash, vars
  <2>2. QED
    BY <2>1, RetryTries, FetchTries, OtherTries
<1>3. QED
  BY <1>1, <1>2

(***************************************************************************)
(* The state of the stream manager, of the pages and of everything between *)
(* is well formed: in particular event ids stay natural numbers and the    *)
(* page never makes more than MaxRetries + 1 attempts in a row.            *)
(***************************************************************************)
THEOREM TypeCorrect == Spec => []TypeOK
<1>1. TypeOK /\ TriesLeft /\ [Next]_vars => (TypeOK /\ TriesLeft)'
  BY StepType, StepTries
<1>2. QED
  BY <1>1, InitType, PTL DEF Spec

-----------------------------------------------------------------------------
(***************************************************************************)
(* The reader.  A step that leaves the log, the wire and the page of t     *)
(* alone leaves its reader as it is.                                       *)
(***************************************************************************)
LEMMA SameReader ==
  ASSUME NEW t \in Streams, Reader(t),
         events'[t] = events[t], conn'[t] = conn[t], wire'[t] = wire[t],
         page'[t] = page[t], shown'[t] = shown[t], t \in done => t \in done'
  PROVE  Reader(t)'
<1>1. \A i : EventFrame(t, i)' = EventFrame(t, i)
  BY DEF EventFrame
<1>2. \A n : First(t, n)' = First(t, n)
  BY <1>1 DEF First
<1>3. \A i : EventAt(t, i) => EventAt(t, i)'
  BY <1>1 DEF EventAt
<1>4. \A i : DoneAt(t, i) => DoneAt(t, i)'
  BY DEF DoneAt
<1>5. Regular(t) => Regular(t)'
  BY <1>3, <1>4 DEF Regular
<1>6. Gone(t) => Gone(t)'
  BY DEF Gone
<1>7. QED
  BY <1>2, <1>3, <1>5, <1>6 DEF Reader

LEMMA PushFacts ==
  ASSUME TypeOK, NEW s \in Streams, NEW kind \in Kinds, Push(s, kind)
  PROVE  /\ Len(events'[s]) = Len(events[s]) + 1
         /\ \A i \in 1 .. Len(events[s]) : events'[s][i] = events[s][i]
         /\ events'[s][Len(events[s]) + 1] = kind
         /\ \A t \in Streams \ {s} : events'[t] = events[t]
         /\ Len(events[s]) \in Nat
<1>1. events'[s] = Append(events[s], kind)
  BY DEF Push, TypeOK
<1>2. \A t \in Streams \ {s} : events'[t] = events[t]
  BY DEF Push, TypeOK
<1>3. QED
  BY <1>1, <1>2, AppendFacts DEF TypeOK

(***************************************************************************)
(* A push changes none of the events on the wire or on the page.           *)
(***************************************************************************)
LEMMA GrowReader ==
  ASSUME TypeOK, NEW s \in Streams, Reader(s), s \notin done,
         NEW kind \in Kinds, Push(s, kind),
         UNCHANGED <<done, conn, wire, page, shown>>
  PROVE  Reader(s)'
<1> DEFINE n == Len(events[s])
<1>1. n \in Nat /\ Len(events'[s]) = n + 1 /\ page[s].cursor \in Nat
  BY PushFacts, Records DEF Pages
<1>2. \A i \in 1 .. n : EventFrame(s, i)' = EventFrame(s, i)
  BY PushFacts DEF EventFrame
<1>3. First(s, page[s].cursor)' = First(s, page[s].cursor)
  BY <1>1, <1>2 DEF First, Reader
<1>4. Len(wire[s]) \in Nat
  BY DEF TypeOK
<1>5. \A i \in 1 .. Len(wire[s]) : EventAt(s, i) => EventAt(s, i)'
  BY <1>1, <1>2, <1>4 DEF EventAt
<1>6. Regular(s) => Regular(s)'
  BY <1>5 DEF Regular, DoneAt
<1>7. Gone(s) => Gone(s)'
  BY DEF Gone
<1>8. QED
  BY <1>1, <1>3, <1>5, <1>6, <1>7 DEF Reader

LEMMA WorkerReaders ==
  ASSUME TypeOK, NEW s \in Streams, Think(s) \/ Answer(s) \/ Finish(s) \/ Mark(s),
         NEW t \in Streams, Reader(t), Writer(t)
  PROVE  Reader(t)'
<1>1. CASE Finish(s) \/ Mark(s)
  BY <1>1, SameReader DEF Finish, Mark
<1>2. CASE Think(s) \/ Answer(s)
  <2>1. PICK kind \in Kinds : Push(s, kind)
    BY <1>2 DEF Think, Answer, Kinds
  <2>2. CASE t = s
    BY <1>2, <2>1, <2>2, GrowReader DEF Think, Answer, Writer
  <2>3. CASE t # s
    <3>1. events'[t] = events[t]
      BY <2>1, <2>3, PushFacts
    <3>2. QED
      BY <1>2, <3>1, SameReader DEF Think, Answer
  <2>4. QED
    BY <2>2, <2>3
<1>3. QED
  BY <1>1, <1>2

LEMMA ManagerReaders ==
  ASSUME Metrics \/ \E s \in Streams : Expire(s),
         NEW t \in Streams, Reader(t)
  PROVE  Reader(t)'
BY SameReader DEF Metrics, Expire, server

(***************************************************************************)
(* A page that is not reading has nothing on its wire and no connection.   *)
(***************************************************************************)
LEMMA SendReader ==
  ASSUME TypeOK, NEW s \in Streams, Send(s), NEW t \in Streams,
         Reader(t), Writer(t)
  PROVE  Reader(t)'
<1>1. \A u \in Streams \ {s} : events'[u] = events[u]
  BY PushFacts DEF Send, Kinds
<1>2. CASE t # s
  BY <1>1, <1>2, SameReader DEF Send, TypeOK
<1>3. CASE t = s
  <2>1. events[s] = <<>> /\ wire[s] = <<>> /\ conn[s].pc = "none"
    BY <1>3 DEF Send, Writer, Reader
  <2>2. page[s].cursor = 0
    BY <1>3, <2>1, Records DEF Reader, Pages
  <2>3. page'[s].cursor = 0 /\ page'[s].pc \in {"fetch", "failed"}
    BY <2>2, Records DEF Send, Pages
  <2>4. shown[s] = First(s, 0) /\ First(s, 0) = First(s, 0)'
    BY <1>3, <2>2 DEF Reader, First
  <2>5. Len(events'[s]) \in Nat
    <3>1. TypeOK'
      BY SendType
    <3>2. events'[s] \in Seq(Kinds)
      BY <3>1 DEF TypeOK
    <3> QED
      BY <3>2
  <2>6. wire'[s] = <<>> /\ conn'[s].pc = "none" /\ shown'[s] = shown[s]
    BY <2>1 DEF Send
  <2>7. Regular(s)'
    BY <2>6 DEF Regular
  <2>8. QED
    BY <1>3, <2>3, <2>4, <2>5, <2>6, <2>7 DEF Reader
<1>4. QED
  BY <1>2, <1>3

(***************************************************************************)
(* Nothing but the page, its connection and its wire changes: what is left *)
(* to show about the reader.                                               *)
(***************************************************************************)
LEMMA StillLog ==
  ASSUME NEW s \in Streams, UNCHANGED <<events, done>>
  PROVE  /\ \A i : EventFrame(s, i)' = EventFrame(s, i)
         /\ \A n : First(s, n)' = First(s, n)
<1>1. \A i : EventFrame(s, i)' = EventFrame(s, i)
  BY DEF EventFrame
<1>2. QED
  BY <1>1 DEF First

LEMMA FetchReader ==
  ASSUME TypeOK, NEW s \in Streams, Fetch(s), NEW t \in Streams, Reader(t)
  PROVE  Reader(t)'
<1>1. CASE t # s
  <2>1. /\ conn'[t] = conn[t] /\ wire'[t] = wire[t] /\ page'[t] = page[t]
        /\ UNCHANGED <<events, done, shown>>
    BY <1>1 DEF Fetch, TypeOK
  <2>2. QED
    BY <2>1, SameReader
<1>2. CASE t = s
  <2>1. page[s].pc = "fetch" /\ wire[s] = <<>>
    BY <1>2 DEF Fetch, Reader
  <2>2. /\ page'[s].pc = "read" /\ page'[s].cursor = page[s].cursor
        /\ page'[s].lost = page[s].lost
    BY Records DEF Fetch, Pages
  <2>a. PICK c \in Nat : c = page[s].cursor
    BY Records DEF Pages
  <2>3. c <= Len(events[s]) /\ shown'[s] = First(s, c)'
    BY <1>2, <2>a, StillLog DEF Fetch, Reader
  <2>4. CASE s \in Fresh
    <3>1. wire'[s] = <<>>
      BY <2>1, <2>4 DEF Fetch
    <3>2. conn'[s].next = page[s].cursor + 1
      BY <2>4, Records DEF Fetch, FirstEvent
    <3>3. page[s].cursor \in Nat
      BY Records DEF Pages
    <3>4. QED
      BY <1>2, <2>a, <2>2, <2>3, <3>1, <3>2, <3>3 DEF Reader, Regular, Fetch
  <2>5. CASE s \notin Fresh
    <3>1. wire'[s] = <<NotFoundFrame, DoneFrame>> /\ conn'[s] = conn[s]
      BY <2>5 DEF Fetch, TypeOK
    <3>2. conn[s].pc = "none"
      BY <1>2, <2>1 DEF Reader
    <3>3. Gone(s)'
      BY <3>1 DEF Gone
    <3>4. QED
      BY <1>2, <2>a, <2>2, <2>3, <3>1, <3>2, <3>3 DEF Reader, Fetch
  <2>6. QED
    BY <2>4, <2>5
<1>3. QED
  BY <1>1, <1>2

LEMMA RetryReader ==
  ASSUME TypeOK, NEW s \in Streams, FetchFails(s) \/ Interrupted(s),
         NEW t \in Streams, Reader(t)
  PROVE  Reader(t)'
<1>0. Retry(s) /\ UNCHANGED <<events, done, conn, wire, shown>>
  BY DEF FetchFails, Interrupted, server
<1>1. CASE t # s
  <2>1. page'[t] = page[t]
    BY <1>0, <1>1 DEF Retry, TypeOK
  <2>2. QED
    BY <1>0, <2>1, SameReader
<1>2. CASE t = s
  <2>1. wire[s] = <<>> /\ conn[s].pc = "none"
    BY <1>2 DEF FetchFails, Interrupted, Reader
  <2>2. /\ page'[s].pc \in {"fetch", "failed"}
        /\ page'[s].cursor = page[s].cursor
    BY <1>0, Records DEF Retry, Pages
  <2>a. PICK c \in Nat : c = page[s].cursor
    BY Records DEF Pages
  <2>3. shown'[s] = First(s, c)' /\ c <= Len(events[s])
    BY <1>0, <1>2, <2>a, StillLog DEF Reader
  <2>4. QED
    BY <1>0, <1>2, <2>a, <2>1, <2>2, <2>3 DEF Reader, Regular
<1>3. QED
  BY <1>1, <1>2

(***************************************************************************)
(* The connection puts the next event on the wire, and [DONE] only after   *)
(* the last one.                                                           *)
(***************************************************************************)
LEMMA DeliverReader ==
  ASSUME TypeOK, NEW s \in Streams, Deliver(s), NEW t \in Streams, Reader(t)
  PROVE  Reader(t)'
<1>0. UNCHANGED <<events, done, page, shown>>
  BY DEF Deliver, server
<1>1. CASE t # s
  BY <1>0, <1>1, SameReader DEF Deliver, TypeOK
<1>2. CASE t = s
  <2>a. PICK n \in Nat : n = Len(wire[s])
    BY DEF TypeOK
  <2>b. PICK c \in Nat : c = page[s].cursor
    BY Records DEF Pages
  <2>1. Len(events[s]) \in Nat
    BY DEF TypeOK
  <2>2. /\ page[s].pc = "read" /\ conn[s].next = c + n + 1
        /\ \A i \in 1 .. n : EventAt(s, i)
    BY <2>a, <2>b, <1>2 DEF Deliver, Reader
  <2>3. c + n + 1 <= Len(events[s])
    BY <2>a, <2>b, <2>2 DEF Deliver, Available
  <2>4. EventFrame(s, c + n + 1) \in Frames
    BY <2>a, <2>b, <2>1, <2>3, EventFrameType
  <2>5. wire'[s] = Append(wire[s], EventFrame(s, c + n + 1))
    BY <2>a, <2>b, <2>2 DEF Deliver, TypeOK
  <2>6. /\ Len(wire'[s]) = n + 1
        /\ \A i \in 1 .. n : wire'[s][i] = wire[s][i]
        /\ wire'[s][n + 1] = EventFrame(s, c + n + 1)
    BY <2>a, <2>b, <2>4, <2>5, AppendFacts DEF TypeOK
  <2>7. ASSUME NEW i \in 1 .. n + 1 PROVE EventAt(s, i)'
    <3>1. CASE i # n + 1
      <4>1. i \in 1 .. n
        BY <3>1
      <4>2. EventAt(s, i) /\ wire'[s][i] = wire[s][i]
        BY <4>1, <2>2, <2>6
      <4>3. QED
        BY <1>0, <4>2, StillLog DEF EventAt
    <3>2. CASE i = n + 1
      <4>1. page'[s].cursor + i = c + n + 1
        BY <2>b, <1>0, <3>2
      <4>2. wire'[s][i] = EventFrame(s, c + n + 1)'
        BY <1>0, <2>6, <3>2, StillLog
      <4>3. c + n + 1 <= Len(events'[s])
        BY <1>0, <2>3
      <4>4. QED
        BY <4>1, <4>2, <4>3 DEF EventAt
    <3>3. QED
      BY <3>1, <3>2
  <2>8. Regular(s)'
    BY <2>a, <2>b, <2>6, <2>7 DEF Regular
  <2>9. conn'[s].next = c + n + 2 /\ conn'[s].pc = "wait"
    BY <2>a, <2>b, <2>1, <2>2, Records DEF Deliver, Conns
  <2>10. shown'[s] = First(s, c)' /\ c <= Len(events'[s])
    BY <2>b, <1>0, <1>2, StillLog DEF Reader
  <2>11. page'[s] = page[s] /\ page'[s].cursor = c
    BY <2>b, <1>0
  <2>12. conn'[s].next = page'[s].cursor + Len(wire'[s]) + 1
    BY <2>6, <2>9, <2>11
  <2>13. \A i \in 1 .. Len(wire'[s]) : EventAt(s, i)'
    BY <2>6, <2>7
  <2>14. QED
    BY <1>2, <2>2, <2>8, <2>10, <2>11, <2>12, <2>13 DEF Reader
<1>3. QED
  BY <1>1, <1>2

LEMMA NothingReader ==
  ASSUME TypeOK, NEW s \in Streams, Nothing(s), NEW t \in Streams, Reader(t)
  PROVE  Reader(t)'
<1>0. UNCHANGED <<events, done, wire, page, shown>>
  BY DEF Nothing, server
<1>1. CASE t # s
  BY <1>0, <1>1, SameReader DEF Nothing, TypeOK
<1>2. CASE t = s
  <2>1. conn'[s].next = conn[s].next /\ conn[s].pc = "wait"
    BY Records DEF Nothing, Conns
  <2>2. \A i : EventAt(s, i) => EventAt(s, i)'
    BY <1>0, StillLog DEF EventAt
  <2>3. \A i : DoneAt(s, i) => DoneAt(s, i)'
    BY <1>0 DEF DoneAt
  <2>4. Regular(s) => Regular(s)'
    BY <1>0, <2>2, <2>3 DEF Regular
  <2>5. Gone(s) => Gone(s)'
    BY <1>0 DEF Gone
  <2>6. shown'[s] = First(s, page[s].cursor)'
    BY <1>0, <1>2, StillLog DEF Reader
  <2>7. QED
    BY <1>0, <1>2, <2>1, <2>2, <2>4, <2>5, <2>6 DEF Reader
<1>3. QED
  BY <1>1, <1>2

LEMMA CheckReader ==
  ASSUME TypeOK, NEW s \in Streams, Check(s), NEW t \in Streams, Reader(t)
  PROVE  Reader(t)'
<1>0. UNCHANGED <<events, done, page, shown>>
  BY DEF Check, server
<1>1. CASE t # s
  <2>1. conn'[t] = conn[t] /\ wire'[t] = wire[t]
    BY <1>1 DEF Check, TypeOK
  <2>2. QED
    BY <1>0, <2>1, SameReader
<1>2. CASE t = s
  <2>a. PICK n \in Nat : n = Len(wire[s])
    BY DEF TypeOK
  <2>b. PICK c \in Nat : c = page[s].cursor
    BY Records DEF Pages
  <2>1. Len(events[s]) \in Nat
    BY DEF TypeOK
  <2>2. /\ page[s].pc = "read" /\ conn[s].next = c + n + 1
        /\ \A i \in 1 .. n : EventAt(s, i)
    BY <2>a, <2>b, <1>2 DEF Check, Reader
  <2>3. \A i \in 1 .. n : c + i <= Len(events[s])
    BY <2>a, <2>b, <2>2 DEF EventAt
  <2>4. shown'[s] = First(s, c)' /\ c <= Len(events[s])
    BY <2>a, <2>b, <1>0, <1>2, StillLog DEF Reader
  <2>5. CASE Delivered(s)
    <3>1. s \in done /\ Len(events[s]) < c + n + 1
      BY <2>a, <2>b, <2>2, <2>5 DEF Delivered
    <3>2. c + n <= Len(events[s])
      BY <2>a, <2>b, <2>1, <2>3, <2>4
    <3>3. c + n + 1 = Len(events[s]) + 1
      BY <2>a, <2>b, <2>1, <3>1, <3>2
    <3>4. wire'[s] = Append(wire[s], DoneFrame) /\ conn'[s].pc = "none"
      BY <2>a, <2>b, <2>5 DEF Check, NoConn, TypeOK
    <3>5. /\ Len(wire'[s]) = n + 1
          /\ \A i \in 1 .. n : wire'[s][i] = wire[s][i]
          /\ wire'[s][n + 1] = DoneFrame
      BY <2>a, <2>b, <3>4, FrameTypes, AppendFacts DEF TypeOK
    <3>6. ASSUME NEW i \in 1 .. n + 1 PROVE EventAt(s, i)' \/ DoneAt(s, i)'
      <4>1. CASE i # n + 1
        <5>1. i \in 1 .. n
          BY <4>1
        <5>2. EventAt(s, i) /\ wire'[s][i] = wire[s][i]
          BY <5>1, <2>2, <3>5
        <5>3. QED
          BY <1>0, <5>2, StillLog DEF EventAt
      <4>2. CASE i = n + 1
        <5>1. page'[s].cursor + i = c + n + 1
          BY <2>b, <1>0, <4>2
        <5>2. wire'[s][i] = DoneFrame /\ s \in done'
          BY <1>0, <3>1, <3>5, <4>2
        <5>3. c + n + 1 = Len(events'[s]) + 1
          BY <1>0, <3>3
        <5>4. QED
          BY <5>1, <5>2, <5>3 DEF DoneAt
      <4>3. QED
        BY <4>1, <4>2
    <3>8. Regular(s)'
      BY <3>5, <3>6 DEF Regular
    <3>9. QED
      BY <2>a, <2>b, <1>0, <1>2, <2>2, <2>4, <3>4, <3>8 DEF Reader
  <2>6. CASE ~ Delivered(s)
    <3>1. /\ wire' = wire
          /\ conn'[s].next = conn[s].next
      BY <2>a, <2>b, <2>6, Records DEF Check, Conns
    <3>2. \A i \in 1 .. n : EventAt(s, i)'
      BY <2>a, <2>b, <1>0, <2>2, <3>1, StillLog DEF EventAt
    <3>3. Regular(s)'
      BY <2>a, <2>b, <3>1, <3>2 DEF Regular
    <3>4. QED
      BY <2>a, <2>b, <1>0, <1>2, <2>2, <2>4, <3>1, <3>2, <3>3 DEF Reader
  <2>7. QED
    BY <2>5, <2>6
<1>3. QED
  BY <1>1, <1>2

(***************************************************************************)
(* Reading a frame moves the page one event on, or ends it.                *)
(***************************************************************************)
LEMMA ReadReader ==
  ASSUME TypeOK, NEW s \in Streams, Read(s), NEW t \in Streams, Reader(t)
  PROVE  Reader(t)'
<1>0. UNCHANGED <<events, done, conn>>
  BY DEF Read, server
<1>1. CASE t # s
  <2>1. page'[t] = page[t] /\ wire'[t] = wire[t] /\ shown'[t] = shown[t]
    BY <1>1 DEF Read, TypeOK
  <2>2. QED
    BY <1>0, <2>1, SameReader
<1>2. CASE t = s
  <2>a. PICK n \in Nat : n = Len(wire[s])
    BY DEF TypeOK
  <2>b. PICK c \in Nat : c = page[s].cursor
    BY Records DEF Pages
  <2>1. /\ page[s].pc = "read" /\ wire[s] # <<>> /\ wire[s] \in Seq(Frames)
        /\ Len(events[s]) \in Nat
    BY DEF Read, TypeOK
  <2>2. /\ n >= 1 /\ Head(wire[s]) = wire[s][1]
        /\ wire'[s] = Tail(wire[s]) /\ Len(wire'[s]) = n - 1
        /\ \A i \in 1 .. n - 1 : wire'[s][i] = wire[s][i + 1]
    BY <2>a, <2>1, TailFacts DEF Read, TypeOK
  <2>3. /\ c <= Len(events[s]) /\ shown[s] = First(s, c)
        /\ Regular(s) \/ Gone(s)
    BY <1>2, <2>b DEF Reader
  <2>4. EventAt(s, 1) => wire[s][1].id = c + 1
    BY <2>b, <2>1, EventFrameType DEF EventAt
  <2>5. EventAt(s, 1) => wire[s][1] \notin {DoneFrame, NotFoundFrame}
    BY <2>4, FrameTypes
  <2>6. conn[s].pc # "none" => EventAt(s, 1)
    BY <1>2, <2>a, <2>2 DEF Reader
  <2>7. CASE wire[s][1] = DoneFrame
    <3>1. conn'[s].pc = "none"
      BY <1>0, <2>5, <2>6, <2>7
    <3>2. /\ page'[s].pc = "finished" /\ page'[s].cursor = c
          /\ page'[s].lost = page[s].lost /\ shown' = shown
      BY <2>b, <2>2, <2>7, FrameTypes, Records DEF Read, Pages
    <3>3. CASE Regular(s)
      <4>1. DoneAt(s, 1)
        BY <2>a, <2>2, <2>5, <2>7, <3>3 DEF Regular
      <4>2. c = Len(events[s]) /\ s \in done
        BY <2>b, <2>1, <4>1 DEF DoneAt
      <4>3. n < 2
        <5>1. SUFFICES ASSUME n >= 2 PROVE FALSE
          OBVIOUS
        <5>2. EventAt(s, 2) \/ DoneAt(s, 2)
          BY <2>a, <3>3, <5>1 DEF Regular
        <5>3. QED
          BY <2>b, <2>1, <4>2, <5>2 DEF EventAt, DoneAt
      <4>4. wire'[s] = <<>>
        BY <2>1, <2>2, <4>3, TailFacts
      <4>5. QED
        BY <1>0, <1>2, <2>3, <3>1, <3>2, <4>2, <4>4, StillLog DEF Reader, Regular
    <3>4. CASE Gone(s)
      <4>0. 1 < n => wire[s][1] = NotFoundFrame
        BY <2>a, <2>2, <3>4 DEF Gone
      <4>1. n = 1
        BY <2>2, <2>7, <4>0, FrameTypes
      <4>2. page[s].lost
        BY <2>a, <2>7, <3>4, <4>1, FrameTypes DEF Gone
      <4>3. wire'[s] = <<>>
        BY <2>a, <2>1, <2>2, <4>1, LastTail
      <4>4. QED
        BY <1>0, <1>2, <2>3, <3>1, <3>2, <4>2, <4>3, StillLog DEF Reader, Regular
    <3>5. QED
      BY <2>3, <3>3, <3>4
  <2>8. CASE wire[s][1] = NotFoundFrame
    <3>1. conn'[s].pc = "none"
      BY <1>0, <2>5, <2>6, <2>8
    <3>2. /\ page'[s].pc = "read" /\ page'[s].cursor = c
          /\ page'[s].lost /\ shown' = shown
      BY <2>b, <2>1, <2>2, <2>8, FrameTypes, Records DEF Read, Pages
    <3>3. ~ Regular(s)
      BY <2>a, <2>2, <2>5, <2>8, FrameTypes DEF Regular, DoneAt
    <3>4. Gone(s)'
      <4>1. ASSUME NEW i \in 1 .. n - 1
            PROVE  /\ wire[s][i + 1] \in {NotFoundFrame, DoneFrame}
                   /\ i + 1 < n => wire[s][i + 1] = NotFoundFrame
        BY <2>a, <2>3, <3>3 DEF Gone
      <4>2. QED
        BY <2>2, <3>2, <4>1 DEF Gone
    <3>5. QED
      BY <1>0, <1>2, <2>3, <3>1, <3>2, <3>4, StillLog DEF Reader
  <2>9. CASE wire[s][1] \notin {DoneFrame, NotFoundFrame}
    <3>1. Regular(s) /\ EventAt(s, 1)
      BY <2>a, <2>2, <2>3, <2>9 DEF Regular, Gone, DoneAt
    <3>2. /\ c + 1 <= Len(events[s])
          /\ wire[s][1] = EventFrame(s, c + 1) /\ wire[s][1].id = c + 1
      BY <2>b, <2>4, <3>1 DEF EventAt
    <3>3. /\ page'[s].pc = "read" /\ page'[s].cursor = c + 1
          /\ page'[s].lost = page[s].lost
      BY <2>b, <2>1, <2>2, <2>9, <3>2, Records DEF Read, Cursor, Pages
    <3>4. shown'[s] = Append(First(s, c), EventFrame(s, c + 1))
      <4>1. shown' = [shown EXCEPT ![s] = Append(@, wire[s][1])]
        BY <2>2, <2>9 DEF Read
      <4>2. shown'[s] = Append(shown[s], wire[s][1])
        BY <4>1 DEF TypeOK
      <4>3. QED
        BY <2>3, <3>2, <4>2
    <3>5. shown'[s] = First(s, c + 1)'
      <4>1. Append(First(s, c), EventFrame(s, c + 1)) = First(s, c + 1)
        BY DEF First
      <4>2. QED
        BY <1>0, <3>4, <4>1, StillLog
    <3>6. ASSUME NEW i \in 1 .. n - 1
          PROVE  /\ EventAt(s, i + 1) => EventAt(s, i)'
                 /\ DoneAt(s, i + 1) => DoneAt(s, i)'
      <4>1. wire'[s][i] = wire[s][i + 1] /\ c + 1 + i = c + (i + 1)
        BY <2>2
      <4>2. QED
        BY <1>0, <2>b, <3>3, <4>1, StillLog DEF EventAt, DoneAt
    <3>7. Regular(s)'
      <4>1. ASSUME NEW i \in 1 .. n - 1 PROVE EventAt(s, i)' \/ DoneAt(s, i)'
        <5>1. i + 1 \in 1 .. n
          OBVIOUS
        <5>2. EventAt(s, i + 1) \/ DoneAt(s, i + 1)
          BY <2>a, <3>1, <5>1 DEF Regular
        <5>3. QED
          BY <3>6, <5>2
      <4>2. QED
        BY <2>2, <4>1 DEF Regular
    <3>8. ASSUME conn'[s].pc # "none"
          PROVE  /\ conn'[s].next = page'[s].cursor + Len(wire'[s]) + 1
                 /\ \A i \in 1 .. Len(wire'[s]) : EventAt(s, i)'
      <4>1. conn[s].next = c + n + 1 /\ \A i \in 1 .. n : EventAt(s, i)
        BY <1>0, <1>2, <2>a, <2>b, <3>8 DEF Reader
      <4>2. conn'[s].next = page'[s].cursor + Len(wire'[s]) + 1
        <5>1. conn'[s].next = c + n + 1 /\ Len(wire'[s]) = n - 1
          BY <1>0, <2>2, <4>1
        <5>2. c + n + 1 = (c + 1) + (n - 1) + 1
          BY <2>b, <2>2 DEF TypeOK
        <5>3. QED
          BY <3>3, <5>1, <5>2
      <4>3. ASSUME NEW i \in 1 .. n - 1 PROVE EventAt(s, i)'
        <5>1. i + 1 \in 1 .. n
          OBVIOUS
        <5>2. QED
          BY <3>6, <4>1, <5>1
      <4>4. QED
        BY <2>2, <4>2, <4>3
    <3>9. QED
      BY <1>0, <1>2, <3>2, <3>3, <3>5, <3>7, <3>8 DEF Reader
  <2>10. QED
    BY <2>7, <2>8, <2>9
<1>3. QED
  BY <1>1, <1>2

(***************************************************************************)
(* A break or a restart cuts the wire and the connection.                  *)
(***************************************************************************)
LEMMA CutReader ==
  ASSUME TypeOK, NEW t \in Streams, Reader(t),
         UNCHANGED <<events, done, page, shown>>, conn'[t].pc = "none",
         page[t].pc = "read" \/ wire'[t] = wire[t],
         NEW n \in 0 .. Len(wire[t]), wire'[t] = SubSeq(wire[t], 1, n)
  PROVE  Reader(t)'
<1>1. /\ Len(wire'[t]) = n /\ \A i \in 1 .. n : wire'[t][i] = wire[t][i]
      /\ Len(wire[t]) \in Nat /\ n \in Nat
  BY PrefixFacts DEF TypeOK
<1>2. ASSUME NEW i \in 1 .. n
      PROVE  /\ EventAt(t, i) => EventAt(t, i)'
             /\ DoneAt(t, i) => DoneAt(t, i)'
  BY <1>1, StillLog DEF EventAt, DoneAt
<1>3. Regular(t) => Regular(t)'
  BY <1>1, <1>2 DEF Regular
<1>4. Gone(t) => Gone(t)'
  BY <1>1 DEF Gone
<1>5. PICK c : c = page[t].cursor
  OBVIOUS
<1>6. shown'[t] = First(t, c)'
  BY <1>5, StillLog DEF Reader
<1>7. QED
  BY <1>3, <1>4, <1>5, <1>6 DEF Reader

LEMMA BreakReader ==
  ASSUME TypeOK, NEW s \in Streams, Break(s), NEW t \in Streams, Reader(t)
  PROVE  Reader(t)'
<1>0. UNCHANGED <<events, done, page, shown>>
  BY DEF Break, server
<1>1. CASE t # s
  BY <1>0, <1>1, SameReader DEF Break, TypeOK
<1>2. CASE t = s
  <2>1. PICK n \in 0 .. Len(wire[s]) : wire'[s] = SubSeq(wire[s], 1, n)
    BY DEF Break, TypeOK
  <2>2. conn'[s].pc = "none" /\ page[s].pc = "read"
    BY DEF Break, TypeOK, NoConn
  <2>3. QED
    BY <1>0, <1>2, <2>1, <2>2, CutReader
<1>3. QED
  BY <1>1, <1>2

LEMMA CrashReader ==
  ASSUME TypeOK, Crash, NEW t \in Streams, Reader(t) PROVE Reader(t)'
<1>1. /\ UNCHANGED <<events, done, page, shown, wire>>
      /\ conn'[t].pc = "none"
  BY DEF Crash, NoConn
<1>2. Len(wire[t]) \in 0 .. Len(wire[t]) /\ wire[t] \in Seq(Frames)
  BY DEF TypeOK
<1>3. wire[t] = SubSeq(wire[t], 1, Len(wire[t]))
  BY <1>2
<1>4. QED
  BY <1>1, <1>2, <1>3, CutReader

-----------------------------------------------------------------------------
(***************************************************************************)
(* The writer.  A step that leaves the log and the thread of t alone       *)
(* leaves its writer as it is.                                             *)
(***************************************************************************)
LEMMA SameWriter ==
  ASSUME NEW t \in Streams, Writer(t),
         events'[t] = events[t], worker'[t] = worker[t],
         t \in done' <=> t \in done,
         page'[t].pc = "new" <=> page[t].pc = "new"
  PROVE  Writer(t)'
<1>1. Answered(t) => Answered(t)'
  BY DEF Answered
<1>2. QED
  BY <1>1 DEF Writer

LEMMA PageSteps ==
  ASSUME TypeOK, NEW s \in Streams,
         Fetch(s) \/ Read(s) \/ FetchFails(s) \/ Interrupted(s),
         NEW t \in Streams
  PROVE  page'[t].pc = "new" <=> page[t].pc = "new"
<1>1. page[s].pc # "new"
  BY DEF Fetch, Read, FetchFails, Interrupted
<1>2. page'[s].pc # "new"
  <2>1. CASE Fetch(s)
    BY <2>1, Records DEF Fetch, Pages
  <2>2. CASE Read(s)
    BY <2>2, Records DEF Read, Pages
  <2>3. CASE FetchFails(s) \/ Interrupted(s)
    BY <2>3, Records DEF FetchFails, Interrupted, Retry, Pages
  <2>4. QED
    BY <2>1, <2>2, <2>3
<1>3. CASE t # s
  BY <1>3 DEF Fetch, Read, FetchFails, Interrupted, Retry, TypeOK
<1>4. QED
  BY <1>1, <1>2, <1>3

\* Nobody but the worker, Send and Crash has anything to do with the writer.
LEMMA OtherWriters ==
  ASSUME TypeOK, NEW t \in Streams, Writer(t),
         \/ Metrics
         \/ \E s \in Streams :
              ConnStep(s) \/ PageStep(s) \/ FetchFails(s) \/ Break(s) \/ Expire(s)
  PROVE  Writer(t)'
<1>1. UNCHANGED <<events, worker, done>>
  BY DEF Metrics, ConnStep, PageStep, FetchFails, Break, Expire, Deliver,
         Nothing, Check, Fetch, Read, Interrupted, server
<1>2. page'[t].pc = "new" <=> page[t].pc = "new"
  <2>1. CASE UNCHANGED page
    BY <2>1
  <2>2. CASE \E s \in Streams : PageStep(s) \/ FetchFails(s)
    BY <2>2, PageSteps DEF PageStep
  <2>3. QED
    BY <2>1, <2>2 DEF Metrics, ConnStep, Break, Expire, Deliver, Nothing, Check
<1>3. QED
  BY <1>1, <1>2, SameWriter

LEMMA SendWriter ==
  ASSUME TypeOK, NEW s \in Streams, Send(s), NEW t \in Streams, Writer(t)
  PROVE  Writer(t)'
<1>1. Push(s, "meta") /\ "meta" \in Kinds /\ "meta" \notin Outcomes
  BY DEF Send, Kinds, Outcomes
<1>2. CASE t # s
  <2>1. events'[t] = events[t]
    BY <1>1, <1>2, PushFacts
  <2>2. QED
    BY <1>2, <2>1, SameWriter DEF Send, TypeOK
<1>3. CASE t = s
  <2>1. events[s] = <<>> /\ s \notin done /\ worker[s] = "none"
    BY <1>3 DEF Send, Writer
  <2>2. \A i \in 1 .. Len(events'[s]) : events'[s][i] \notin Outcomes
    BY <1>1, <2>1, PushFacts
  <2>3. worker'[s] = "run" /\ s \notin done'
    BY <2>1 DEF Send, TypeOK
  <2>4. page'[s].pc # "new"
    BY Records DEF Send, Pages
  <2>5. QED
    BY <1>3, <2>2, <2>3, <2>4 DEF Writer
<1>4. QED
  BY <1>2, <1>3

LEMMA ThinkWriter ==
  ASSUME TypeOK, NEW s \in Streams, Think(s), NEW t \in Streams, Writer(t)
  PROVE  Writer(t)'
<1>1. Push(s, "thinking") /\ "thinking" \in Kinds /\ "thinking" \notin Outcomes
  BY DEF Think, Kinds, Outcomes
<1>2. CASE t # s
  <2>1. events'[t] = events[t]
    BY <1>1, <1>2, PushFacts
  <2>2. QED
    BY <2>1, SameWriter DEF Think
<1>3. CASE t = s
  <2>1. /\ s \notin done /\ worker[s] = "run" /\ page[s].pc # "new"
        /\ \A i \in 1 .. Len(events[s]) : events[s][i] \notin Outcomes
    BY <1>3 DEF Think, Writer
  <2>2. \A i \in 1 .. Len(events'[s]) : events'[s][i] \notin Outcomes
    BY <1>1, <2>1, PushFacts
  <2>3. QED
    BY <1>3, <2>1, <2>2 DEF Think, Writer
<1>4. QED
  BY <1>2, <1>3

LEMMA AnswerWriter ==
  ASSUME TypeOK, NEW s \in Streams, Answer(s), NEW t \in Streams, Writer(t)
  PROVE  Writer(t)'
<1>1. PICK kind \in Outcomes : Push(s, kind)
  BY DEF Answer
<1>2. kind \in Kinds
  BY DEF Kinds
<1>3. CASE t # s
  <2>1. events'[t] = events[t]
    BY <1>1, <1>2, <1>3, PushFacts
  <2>2. QED
    BY <1>3, <2>1, SameWriter DEF Answer, TypeOK
<1>4. CASE t = s
  <2>1. /\ s \notin done /\ worker[s] = "run" /\ page[s].pc # "new"
        /\ \A i \in 1 .. Len(events[s]) : events[s][i] \notin Outcomes
    BY <1>4 DEF Answer, Writer
  <2>2. Answered(s)'
    BY <1>1, <1>2, <2>1, PushFacts DEF Answered
  <2>3. worker'[s] = "finish" /\ page'[s].pc # "new"
    BY <2>1 DEF Answer, TypeOK
  <2>4. QED
    BY <1>4, <2>2, <2>3 DEF Writer
<1>5. QED
  BY <1>3, <1>4

LEMMA FinishWriter ==
  ASSUME TypeOK, NEW s \in Streams, Finish(s) \/ Mark(s),
         NEW t \in Streams, Writer(t)
  PROVE  Writer(t)'
<1>1. CASE t # s
  BY <1>1, SameWriter DEF Finish, Mark, TypeOK
<1>2. CASE t = s
  <2>1. Answered(s) /\ page[s].pc # "new"
    BY <1>2 DEF Finish, Mark, Writer
  <2>2. Answered(s)' /\ page'[s].pc # "new"
    BY <2>1 DEF Finish, Mark, Answered
  <2>3. worker'[s] \in {"mark", "over"}
    BY DEF Finish, Mark, TypeOK
  <2>4. QED
    BY <1>2, <2>2, <2>3 DEF Writer
<1>3. QED
  BY <1>1, <1>2

LEMMA CrashWriter ==
  ASSUME TypeOK, Crash, NEW t \in Streams, Writer(t) PROVE Writer(t)'
<1>1. /\ UNCHANGED <<events, done, page>>
      /\ worker'[t] = IF worker[t] \in Busy THEN "dead" ELSE worker[t]
  BY DEF Crash
<1>2. Answered(t) => Answered(t)'
  BY <1>1 DEF Answered
<1>3. CASE worker[t] \in Busy
  BY <1>1, <1>2, <1>3 DEF Writer, Busy
<1>4. CASE worker[t] \notin Busy
  BY <1>1, <1>4, SameWriter
<1>5. QED
  BY <1>3, <1>4

-----------------------------------------------------------------------------
(***************************************************************************)
(* The invariant is inductive.                                             *)
(***************************************************************************)
LEMMA InitInv == Init => IInv
<1> SUFFICES ASSUME Init PROVE IInv
  OBVIOUS
<1>1. ASSUME NEW s \in Streams PROVE Reader(s) /\ Writer(s)
  <2>1. /\ events[s] = <<>> /\ wire[s] = <<>> /\ shown[s] = <<>>
        /\ page[s].pc = "new" /\ page[s].cursor = 0 /\ conn[s].pc = "none"
        /\ worker[s] = "none" /\ s \notin done
    BY DEF Init, NewPage, NoConn
  <2>2. First(s, 0) = <<>>
    BY DEF First
  <2>3. QED
    BY <2>1, <2>2 DEF Reader, Writer, Regular
<1>2. QED
  BY <1>1, InitType DEF IInv

LEMMA StepReader ==
  ASSUME IInv, Next, NEW t \in Streams PROVE Reader(t)'
<1>1. TypeOK /\ Reader(t) /\ Writer(t)
  BY DEF IInv
<1>2. CASE Metrics \/ \E s \in Streams : Expire(s)
  BY <1>1, <1>2, ManagerReaders
<1>3. CASE Crash
  BY <1>1, <1>3, CrashReader
<1>4. ASSUME NEW s \in Streams,
             Think(s) \/ Answer(s) \/ Finish(s) \/ Mark(s) \/ Send(s)
      PROVE  Reader(t)'
  BY <1>1, <1>4, WorkerReaders, SendReader
<1>5. ASSUME NEW s \in Streams, ConnStep(s) PROVE Reader(t)'
  BY <1>1, <1>5, DeliverReader, NothingReader, CheckReader DEF ConnStep
<1>6. ASSUME NEW s \in Streams, PageStep(s) \/ FetchFails(s) \/ Break(s)
      PROVE  Reader(t)'
  BY <1>1, <1>6, FetchReader, ReadReader, RetryReader, BreakReader DEF PageStep
<1>7. QED
  BY <1>2, <1>3, <1>4, <1>5, <1>6 DEF Next

LEMMA StepWriter ==
  ASSUME IInv, Next, NEW t \in Streams PROVE Writer(t)'
<1>1. TypeOK /\ Writer(t)
  BY DEF IInv
<1>2. ASSUME NEW s \in Streams, Send(s) \/ Think(s) \/ Answer(s)
      PROVE  Writer(t)'
  BY <1>1, <1>2, SendWriter, ThinkWriter, AnswerWriter
<1>3. ASSUME NEW s \in Streams, Finish(s) \/ Mark(s) PROVE Writer(t)'
  BY <1>1, <1>3, FinishWriter
<1>4. CASE Crash
  BY <1>1, <1>4, CrashWriter
<1>5. QED
  BY <1>1, <1>2, <1>3, <1>4, OtherWriters DEF Next

LEMMA StepInv == IInv /\ [Next]_vars => IInv'
<1> SUFFICES ASSUME IInv, [Next]_vars PROVE IInv'
  OBVIOUS
<1>1. TypeOK' /\ TriesLeft'
  BY StepType, StepTries DEF IInv
<1>2. ASSUME NEW t \in Streams PROVE Reader(t)' /\ Writer(t)'
  <2>1. CASE Next
    BY <2>1, StepReader, StepWriter
  <2>2. CASE UNCHANGED vars
    BY <2>2, SameReader, SameWriter DEF vars, IInv
  <2>3. QED
    BY <2>1, <2>2
<1>3. QED
  BY <1>1, <1>2 DEF IInv

LEMMA Invariant == Spec => []IInv
BY InitInv, StepInv, PTL DEF Spec

(***************************************************************************)
(* However often the connection breaks, and whatever expires or restarts,  *)
(* sendMessage has processed exactly the events up to its cursor, in order *)
(* and each one once: sse_iter resumes right after the cursor, and nothing *)
(* of an earlier connection is still on its way then.                      *)
(***************************************************************************)
THEOREM ShownInOrder == Spec => []ShownUpToCursor
<1>1. IInv => ShownUpToCursor
  BY DEF IInv, Reader, ShownUpToCursor
<1>2. QED
  BY <1>1, Invariant, PTL

(***************************************************************************)
(* [DONE] means all: a page that has read it has the whole log, whose last *)
(* event is its one answer or error, unless it was told before that the    *)
(* stream is lost.  The check for done in sse_iter comes after a wait that *)
(* returned nothing, outside the lock; that it looks at the length of the  *)
(* log again is what the theorem rests on.                                 *)
(***************************************************************************)
THEOREM DoneMeansAll == Spec => []NothingMissing
<1>1. IInv => NothingMissing
  <2> SUFFICES ASSUME IInv, NEW s \in Streams,
                      page[s].pc = "finished", ~ page[s].lost
               PROVE  /\ s \in done /\ shown[s] = Log(s)
                      /\ \A i \in 1 .. Len(shown[s]) :
                           shown[s][i].kind \in Outcomes <=> i = Len(shown[s])
    BY DEF NothingMissing
  <2>1. s \in done /\ shown[s] = Log(s) /\ Answered(s)
    BY DEF IInv, Reader, Writer, Log
  <2>2. Len(Log(s)) = Len(events[s])
    BY DEF Log, First, IInv, TypeOK
  <2>3. \A i \in 1 .. Len(events[s]) : Log(s)[i].kind = events[s][i]
    BY DEF Log, First, EventFrame
  <2>4. QED
    BY <2>1, <2>2, <2>3 DEF Answered
<1>2. QED
  BY <1>1, Invariant, PTL
-----------------------------------------------------------------------------
(***************************************************************************)
(* The counters of the manager.  Neither the streams it knows nor those    *)
(* that are done can be counted by themselves, since a stream may be       *)
(* dropped before or after it is done: what the counters differ by is the  *)
(* number of threads.                                                      *)
(***************************************************************************)
Working == {s \in Streams : worker[s] \in Busy}

Counted ==
  /\ IsFiniteSet(Working) /\ Cardinality(Working) + completed = started
  /\ streams \ done \subseteq Working
  /\ \A s \in Streams : worker[s] = "mark" => s \in done

LEMMA SameThreads ==
  ASSUME Counted, UNCHANGED <<worker, done, started, completed>>,
         streams' \subseteq streams
  PROVE  Counted'
<1>1. Working' = Working
  BY DEF Working
<1> QED
  BY <1>1 DEF Counted

LEMMA SendCounts ==
  ASSUME IInv, Counted, NEW s \in Streams, Send(s) PROVE Counted'
<1>1. worker[s] = "none" /\ TypeOK
  BY DEF IInv, Writer, Send
<1>2. /\ worker' = [worker EXCEPT ![s] = "run"] /\ started' = started + 1
      /\ completed' = completed /\ done' = done
      /\ streams' \subseteq streams \cup {s}
  BY DEF Send, Fresh
<1>3. Working' = Working \cup {s} /\ s \notin Working
  BY <1>1, <1>2 DEF TypeOK, Working, Busy
<1>4. IsFiniteSet(Working') /\ Cardinality(Working') = Cardinality(Working) + 1
  BY <1>3, FS_AddElement DEF Counted
<1>5. Cardinality(Working) \in Nat /\ completed \in Nat /\ started \in Nat
  BY <1>1, FS_CardinalityType DEF Counted, TypeOK
<1>6. streams' \ done' \subseteq Working'
  BY <1>2, <1>3 DEF Counted
<1>7. \A t \in Streams : worker'[t] = "mark" => t \in done'
  BY <1>1, <1>2 DEF Counted, TypeOK
<1> QED
  BY <1>2, <1>4, <1>5, <1>6, <1>7 DEF Counted

LEMMA MarkCounts ==
  ASSUME IInv, Counted, NEW s \in Streams, Mark(s) PROVE Counted'
<1>1. TypeOK /\ s \in done
  BY DEF IInv, Counted, Mark
<1>2. /\ worker[s] = "mark" /\ worker' = [worker EXCEPT ![s] = "over"]
      /\ completed' = completed + 1
      /\ UNCHANGED <<done, streams, started>>
  BY DEF Mark
<1>3. Working' = Working \ {s} /\ s \in Working
  BY <1>1, <1>2 DEF TypeOK, Working, Busy
<1>4. IsFiniteSet(Working') /\ Cardinality(Working') = Cardinality(Working) - 1
  BY <1>3, FS_RemoveElement DEF Counted
<1>5. Cardinality(Working) \in Nat /\ completed \in Nat /\ started \in Nat
  BY <1>1, FS_CardinalityType DEF Counted, TypeOK
<1>6. streams' \ done' \subseteq Working'
  BY <1>1, <1>2, <1>3 DEF Counted
<1>7. \A t \in Streams : worker'[t] = "mark" => t \in done'
  BY <1>1, <1>2 DEF Counted, TypeOK
<1> QED
  BY <1>2, <1>4, <1>5, <1>6, <1>7 DEF Counted

LEMMA ThreadCounts ==
  ASSUME IInv, Counted, NEW s \in Streams, Answer(s) \/ Finish(s) PROVE Counted'
<1>1. /\ worker[s] \in Busy /\ UNCHANGED <<streams, started, completed>>
      /\ \/ worker' = [worker EXCEPT ![s] = "finish"] /\ done' = done
         \/ worker' = [worker EXCEPT ![s] = "mark"] /\ done' = done \cup {s}
  BY DEF Answer, Finish, Busy
<1>2. Working' = Working
  BY <1>1 DEF IInv, TypeOK, Working, Busy
<1>3. streams' \ done' \subseteq Working'
  BY <1>1, <1>2 DEF Counted
<1>4. \A t \in Streams : worker'[t] = "mark" => t \in done'
  BY <1>1 DEF IInv, TypeOK, Counted
<1> QED
  BY <1>1, <1>2, <1>3, <1>4 DEF Counted

LEMMA CrashCounts == ASSUME IInv, Crash PROVE Counted'
<1>1. \A s \in Streams : worker'[s] \notin Busy
  BY DEF Crash, Busy
<1>2. Working' = {}
  BY <1>1 DEF Working
<1>3. streams' = {} /\ started' = 0 /\ completed' = 0
  BY DEF Crash
<1>4. \A s \in Streams : worker'[s] # "mark"
  BY <1>1 DEF Busy
<1> QED
  BY <1>2, <1>3, <1>4, FS_EmptySet DEF Counted

LEMMA StepCounts == IInv /\ Counted /\ [Next]_vars => Counted'
<1> SUFFICES ASSUME IInv, Counted, [Next]_vars PROVE Counted'
  OBVIOUS
<1>1. ASSUME NEW s \in Streams, Send(s) PROVE Counted'
  BY <1>1, SendCounts
<1>2. ASSUME NEW s \in Streams, Mark(s) PROVE Counted'
  BY <1>2, MarkCounts
<1>3. ASSUME NEW s \in Streams, Answer(s) \/ Finish(s) PROVE Counted'
  BY <1>3, ThreadCounts
<1>4. ASSUME NEW s \in Streams,
             Think(s) \/ ConnStep(s) \/ PageStep(s) \/ FetchFails(s) \/ Break(s)
               \/ Expire(s)
      PROVE  Counted'
  <2>1. UNCHANGED <<worker, done, started, completed>>
    BY <1>4 DEF Think, ConnStep, PageStep, Deliver, Nothing, Check, Fetch, Read,
       Interrupted, FetchFails, Break, Expire, server
  <2>2. streams' \subseteq streams
    BY <1>4 DEF Think, ConnStep, PageStep, Deliver, Nothing, Check, Fetch, Read,
       Interrupted, FetchFails, Break, Expire, manager, Fresh
  <2> QED
    BY <2>1, <2>2, SameThreads
<1>5. CASE Metrics
  BY <1>5, SameThreads DEF Metrics, Fresh
<1>6. CASE Crash
  BY <1>6, CrashCounts
<1>7. CASE UNCHANGED vars
  BY <1>7, SameThreads DEF vars
<1> QED
  BY <1>1, <1>2, <1>3, <1>4, <1>5, <1>6, <1>7 DEF Next

LEMMA InitCounts == Init => Counted
<1> SUFFICES ASSUME Init PROVE Counted
  OBVIOUS
<1>1. Working = {}
  BY DEF Init, Working, Busy
<1> QED
  BY <1>1, FS_EmptySet DEF Init, Counted

LEMMA CountHolds == Spec => [](IInv /\ Counted)
<1>1. Init => IInv /\ Counted
  BY InitInv, InitCounts
<1>2. IInv /\ Counted /\ [Next]_vars => (IInv /\ Counted)'
  BY StepInv, StepCounts
<1> QED
  BY <1>1, <1>2, PTL DEF Spec

(***************************************************************************)
(* The metrics never count a stream as active and as completed, however    *)
(* many streams there are and whenever the manager drops one (metrics,     *)
(* _cleanup_locked, _mark_stream_finished).                                *)
(***************************************************************************)
THEOREM CountersAgree == Spec => []ActiveNotCompleted
<1>1. IInv /\ Counted => ActiveNotCompleted
  <2> SUFFICES ASSUME IInv, Counted PROVE ActiveNotCompleted
    OBVIOUS
  <2>1. /\ IsFiniteSet(streams \ done)
        /\ Cardinality(streams \ done) <= Cardinality(Working)
    BY FS_Subset DEF Counted
  <2>2. /\ Cardinality(streams \ done) \in Nat /\ Cardinality(Working) \in Nat
        /\ completed \in Nat
    BY <2>1, FS_CardinalityType DEF Counted, IInv, TypeOK
  <2> QED
    BY <2>1, <2>2 DEF ActiveNotCompleted, Counted
<1> QED
  BY <1>1, CountHolds, PTL
-----------------------------------------------------------------------------
(***************************************************************************)
(* The stream implements the replayable log.  The abstract log is the      *)
(* function of the logs; the entries it may hold have the numbers that     *)
(* MaxSteps leaves room for, so the worker must be known to stop in time.  *)
(***************************************************************************)
Logs == [s \in Streams |-> Log(s)]
Entries == [id : 1 .. MaxSteps + 2, kind : Kinds]

RoomLeft ==
  \A s \in Streams : worker[s] = "run" => Len(events[s]) <= MaxSteps + 1

LEMMA RoomStep == IInv /\ RoomLeft /\ [Next]_vars => RoomLeft'
<1> SUFFICES ASSUME IInv, RoomLeft, [Next]_vars, NEW t \in Streams,
                    worker'[t] = "run"
             PROVE  Len(events'[t]) <= MaxSteps + 1
  BY DEF RoomLeft
<1> USE DEF IInv
<1>1. CASE events'[t] = events[t] /\ worker[t] = "run"
  BY <1>1 DEF RoomLeft
<1>2. CASE Send(t)
  <2>1. events[t] = <<>> /\ Push(t, "meta") /\ "meta" \in Kinds
    BY <1>2 DEF Send, Writer, Kinds
  <2>2. Len(events[t]) = 0
    BY <2>1
  <2> QED
    BY <2>1, <2>2, PushFacts, BoundsAssumption
<1>3. CASE Think(t)
  <2>1. Push(t, "thinking") /\ "thinking" \in Kinds /\ Len(events[t]) <= MaxSteps
    BY <1>3 DEF Think, Kinds
  <2> QED
    BY <2>1, PushFacts, BoundsAssumption
<1>4. ASSUME NEW s \in Streams \ {t}, Send(s) \/ Think(s) \/ Answer(s)
      PROVE  events'[t] = events[t] /\ worker[t] = "run"
  BY <1>4, PushFacts DEF Send, Think, Answer, Kinds, TypeOK
<1>5. ~ Answer(t)
  BY DEF Answer, TypeOK
<1>6. ASSUME NEW s \in Streams, Finish(s) \/ Mark(s)
      PROVE  events'[t] = events[t] /\ worker[t] = "run"
  BY <1>6 DEF Finish, Mark, TypeOK
<1>7. ASSUME NEW s \in Streams,
             ConnStep(s) \/ PageStep(s) \/ FetchFails(s) \/ Break(s) \/ Expire(s)
      PROVE  events'[t] = events[t] /\ worker[t] = "run"
  BY <1>7 DEF ConnStep, PageStep, Deliver, Nothing, Check, Fetch, Read,
     Interrupted, FetchFails, Break, Expire, server
<1>8. CASE Metrics \/ Crash \/ UNCHANGED vars
  BY <1>1, <1>8 DEF Metrics, Crash, vars
<1> QED
  BY <1>1, <1>2, <1>3, <1>4, <1>5, <1>6, <1>7, <1>8 DEF Next

(***************************************************************************)
(* What a push, and a step of the page, do to the abstract state.          *)
(***************************************************************************)
LEMMA LogFacts ==
  ASSUME TypeOK, NEW s \in Streams
  PROVE  /\ Log(s) \in Seq(Frames) /\ Len(Log(s)) = Len(events[s])
         /\ \A i \in 1 .. Len(events[s]) : Log(s)[i] = EventFrame(s, i)
BY EventFrameType DEF Log, First, TypeOK

LEMMA SameLogs == ASSUME UNCHANGED events PROVE Logs' = Logs
BY DEF Logs, Log, First, EventFrame

LEMMA PushLog ==
  ASSUME TypeOK, TypeOK', NEW s \in Streams, NEW kind \in Kinds, Push(s, kind)
  PROVE  Logs' = [Logs EXCEPT ![s] =
                    Append(@, [id |-> Len(events[s]) + 1, kind |-> kind])]
<1>1. \A t \in Streams \ {s} : Log(t)' = Log(t)
  BY PushFacts DEF Log, First, EventFrame
<1>2. PICK n \in Nat : n = Len(events[s])
  BY PushFacts
<1>3. PICK e \in Frames : e = [id |-> n + 1, kind |-> kind]
  <2>1. [id |-> n + 1, kind |-> kind] \in Frames
    BY <1>2 DEF Frames
  <2> QED
    BY <2>1
<1>4. /\ Len(events'[s]) = n + 1
      /\ \A i \in 1 .. n : EventFrame(s, i)' = EventFrame(s, i)
      /\ EventFrame(s, n + 1)' = e
  <2>1. /\ Len(events'[s]) = n + 1 /\ events'[s][n + 1] = kind
        /\ \A i \in 1 .. n : events'[s][i] = events[s][i]
    BY <1>2, PushFacts
  <2> QED
    BY <1>3, <2>1 DEF EventFrame
<1>5. /\ Log(s) = [i \in 1 .. n |-> EventFrame(s, i)]
      /\ Log(s)' = [i \in 1 .. n + 1 |-> EventFrame(s, i)']
  BY <1>2, <1>4 DEF Log, First
<1>6. \A i \in 1 .. n : EventFrame(s, i) \in Frames
  BY <1>2, EventFrameType
<1>7. Append([i \in 1 .. n |-> EventFrame(s, i)], e)
        = [i \in 1 .. n + 1 |-> EventFrame(s, i)']
  <2>1. [i \in 1 .. n |-> EventFrame(s, i)] \in Seq(Frames)
    BY <1>6
  <2>2. Append([i \in 1 .. n |-> EventFrame(s, i)], e)
          = [i \in 1 .. n + 1 |-> IF i <= n THEN EventFrame(s, i) ELSE e]
    BY <2>1
  <2>3. \A i \in 1 .. n + 1 :
          EventFrame(s, i)' = IF i <= n THEN EventFrame(s, i) ELSE e
    BY <1>4
  <2> QED
    BY <2>2, <2>3
<1> QED
  BY <1>1, <1>2, <1>3, <1>5, <1>7 DEF Logs

EndOf(p) ==
  IF p.pc = "failed" \/ (p.pc = "finished" /\ p.lost) THEN "gave up"
  ELSE IF p.pc = "finished" THEN "complete" ELSE "no"

LEMMA EndMoves ==
  ASSUME NEW s \in Streams, \A t \in Streams \ {s} : page'[t] = page[t]
  PROVE  /\ Ended[s] = EndOf(page[s])
         /\ Ended' = [Ended EXCEPT ![s] = EndOf(page'[s])]
BY DEF Ended, EndOf

LEMMA EndStays ==
  ASSUME NEW s \in Streams, \A t \in Streams \ {s} : page'[t] = page[t],
         EndOf(page'[s]) = EndOf(page[s])
  PROVE  Ended' = Ended
BY DEF Ended, EndOf

-----------------------------------------------------------------------------
LEMMA StutterLog ==
  ASSUME UNCHANGED <<events, done, shown>>, Ended' = Ended
  PROVE  UNCHANGED Delivery!vars
BY SameLogs DEF Delivery!vars, Logs

LEMMA SendLog ==
  ASSUME IInv, IInv', NEW s \in Streams, Send(s) PROVE Delivery!Next
<1> DEFINE e == [id |-> Len(events[s]) + 1, kind |-> "meta"]
<1>1. TypeOK /\ TypeOK' /\ Push(s, "meta") /\ "meta" \in Kinds
      /\ s \notin done /\ Len(events[s]) = 0
  BY DEF IInv, Writer, Send, Kinds
<1>2. Logs' = [Logs EXCEPT ![s] = Append(@, e)]
  BY <1>1, PushLog
<1>3. e \in Entries
  BY <1>1, BoundsAssumption DEF Entries
<1>4. UNCHANGED <<done, shown>> /\ \A t \in Streams \ {s} : page'[t] = page[t]
  BY <1>1, ZenonT(60) DEF Send, TypeOK
<1>5. page[s].pc = "new" /\ page'[s].pc \in {"fetch", "failed"}
  BY Records, <1>1 DEF Send, Pages
<1>6. Ended[s] = "no"
  BY <1>4, <1>5, EndMoves DEF EndOf
<1>7. CASE page'[s].pc = "fetch"
  <2>1. Ended' = Ended
    BY <1>4, <1>5, <1>7, EndStays DEF EndOf
  <2> HIDE DEF e
  <2>2. Delivery!Publish(s, e)
    BY <1>1, <1>2, <1>4, <2>1 DEF Delivery!Publish, Logs
  <2> QED
    BY <1>3, <2>2 DEF Delivery!Next, Entries
<1>8. CASE page'[s].pc = "failed"
  <2>1. Ended' = [Ended EXCEPT ![s] = "gave up"]
    BY <1>4, <1>8, EndMoves DEF EndOf
  <2> HIDE DEF e
  <2>2. Delivery!PublishUnread(s, e)
    BY <1>1, <1>2, <1>4, <1>6, <2>1 DEF Delivery!PublishUnread, Logs
  <2> QED
    BY <1>3, <2>2 DEF Delivery!Next, Entries
<1> QED
  BY <1>5, <1>7, <1>8

LEMMA WorkerLog ==
  ASSUME IInv, IInv', RoomLeft, NEW s \in Streams, Think(s) \/ Answer(s)
  PROVE  Delivery!Next
<1>1. PICK kind \in Kinds : Push(s, kind)
  BY DEF Think, Answer, Kinds
<1> DEFINE e == [id |-> Len(events[s]) + 1, kind |-> kind]
<1>2. TypeOK /\ TypeOK' /\ s \notin done /\ Len(events[s]) <= MaxSteps + 1
  BY DEF IInv, Writer, RoomLeft, Think, Answer
<1>3. Logs' = [Logs EXCEPT ![s] = Append(@, e)]
  BY <1>1, <1>2, PushLog
<1>4. e \in Entries
  <2>1. Len(events[s]) \in Nat
    BY <1>2 DEF TypeOK
  <2> QED
    BY <1>2, <2>1, BoundsAssumption DEF Entries
<1>5. UNCHANGED <<done, shown, page>>
  BY DEF Think, Answer
<1>6. Ended' = Ended
  BY <1>5 DEF Ended
<1> HIDE DEF e
<1>7. Delivery!Publish(s, e)
  BY <1>2, <1>3, <1>5, <1>6 DEF Delivery!Publish, Logs
<1> QED
  BY <1>4, <1>7 DEF Delivery!Next, Entries

LEMMA FinishLog ==
  ASSUME IInv, NEW s \in Streams, Finish(s)
  PROVE  Delivery!Next \/ UNCHANGED Delivery!vars
<1>1. UNCHANGED <<events, shown, page>> /\ done' = done \cup {s}
  BY DEF Finish
<1>2. Logs' = Logs /\ Ended' = Ended
  BY <1>1, SameLogs DEF Ended
<1>3. Logs[s] # <<>>
  <2>1. TypeOK /\ events[s] # <<>>
    BY DEF IInv, Writer, Answered, Finish
  <2>2. Len(events[s]) # 0
    BY <2>1 DEF TypeOK
  <2> QED
    BY <2>1, <2>2, LogFacts DEF Logs
<1>4. CASE s \in done
  BY <1>1, <1>2, <1>4, StutterLog
<1>5. CASE s \notin done
  <2>1. Delivery!Close(s)
    BY <1>1, <1>2, <1>3, <1>5 DEF Delivery!Close, Logs
  <2> QED
    BY <2>1 DEF Delivery!Next
<1> QED
  BY <1>4, <1>5

LEMMA RetryLog ==
  ASSUME IInv, NEW s \in Streams, FetchFails(s) \/ Interrupted(s)
  PROVE  Delivery!Next \/ UNCHANGED Delivery!vars
<1>1. UNCHANGED <<events, done, shown>> /\ page[s].pc \in {"fetch", "read"} /\ Retry(s)
  BY DEF FetchFails, Interrupted, server
<1>2. page \in [Streams -> Pages]
  BY Records DEF IInv
<1>3. /\ \A t \in Streams \ {s} : page'[t] = page[t]
      /\ page'[s].pc \in {"fetch", "failed"}
  BY <1>1, <1>2 DEF Retry, Pages
<1>4. CASE page'[s].pc = "fetch"
  BY <1>1, <1>3, <1>4, EndStays, StutterLog DEF EndOf
<1>5. CASE page'[s].pc = "failed"
  <2>1. Ended[s] = "no" /\ Ended' = [Ended EXCEPT ![s] = "gave up"]
    BY <1>1, <1>3, <1>5, EndMoves DEF EndOf
  <2>2. Delivery!GiveUp(s)
    BY <1>1, <2>1, SameLogs DEF Delivery!GiveUp, Logs
  <2> QED
    BY <2>2 DEF Delivery!Next
<1> QED
  BY <1>3, <1>4, <1>5

LEMMA FetchLog ==
  ASSUME IInv, NEW s \in Streams, Fetch(s) PROVE UNCHANGED Delivery!vars
<1>1. UNCHANGED <<events, done, shown>> /\ page[s].pc = "fetch"
  BY DEF Fetch
<1>2. /\ \A t \in Streams \ {s} : page'[t] = page[t]
      /\ page'[s].pc = "read"
  BY Records DEF IInv, Fetch, Pages
<1> QED
  BY <1>1, <1>2, EndStays, StutterLog DEF EndOf

(***************************************************************************)
(* A frame that is read is the next entry, the end, or says that there is  *)
(* nothing to read.                                                        *)
(***************************************************************************)
LEMMA ReadLog ==
  ASSUME IInv, IInv', NEW s \in Streams, Read(s)
  PROVE  Delivery!Next \/ UNCHANGED Delivery!vars
<1> DEFINE frame == Head(wire[s])
<1>1. UNCHANGED <<events, done>> /\ page[s].pc = "read" /\ TypeOK
      /\ Reader(s) /\ Reader(s)'
  BY DEF IInv, Read, server
<1>2. page \in [Streams -> Pages] /\ \A t \in Streams \ {s} : page'[t] = page[t]
  BY <1>1, Records DEF Read, Pages
<1>3. Ended[s] = "no"
  BY <1>1, <1>2, EndMoves DEF EndOf
<1>4. CASE frame = DoneFrame
  <2>1. /\ page'[s].pc = "finished" /\ page'[s].lost = page[s].lost
        /\ shown' = shown
    BY <1>2, <1>4, FrameTypes DEF Read, Pages
  <2>2. CASE page[s].lost
    <3>1. Ended' = [Ended EXCEPT ![s] = "gave up"]
      BY <1>2, <2>1, <2>2, EndMoves DEF EndOf
    <3>2. Delivery!GiveUp(s)
      BY <1>1, <1>3, <2>1, <3>1, SameLogs DEF Delivery!GiveUp, Logs
    <3> QED
      BY <3>2 DEF Delivery!Next
  <2>3. CASE ~ page[s].lost
    <3>1. Ended' = [Ended EXCEPT ![s] = "complete"]
      BY <1>2, <2>1, <2>3, EndMoves DEF EndOf
    <3>2. s \in done /\ shown[s] = Logs[s]
      BY <1>1, <2>1, <2>3, StillLog DEF Reader, Logs, Log
    <3>3. Delivery!Complete(s)
      BY <1>1, <1>3, <2>1, <3>1, <3>2, SameLogs DEF Delivery!Complete, Logs
    <3> QED
      BY <3>3 DEF Delivery!Next
  <2> QED
    BY <2>2, <2>3
<1>5. CASE frame = NotFoundFrame
  <2>1. page'[s].pc = "read" /\ shown' = shown
    BY <1>1, <1>2, <1>5, FrameTypes DEF Read, Pages
  <2> QED
    BY <1>1, <1>2, <2>1, EndStays, StutterLog DEF EndOf
<1>6. CASE frame \notin {DoneFrame, NotFoundFrame}
  <2>1. page'[s].pc = "read" /\ shown' = [shown EXCEPT ![s] = Append(@, frame)]
    BY <1>1, <1>2, <1>6 DEF Read, Pages
  <2>2. Ended' = Ended
    BY <1>1, <1>2, <2>1, EndStays DEF EndOf
  <2>3. PICK c : c = page[s].cursor
    OBVIOUS
  <2>4. PICK d : d = page'[s].cursor
    OBVIOUS
  <2>5. /\ c \in Nat /\ c <= Len(events[s]) /\ shown[s] = First(s, c)
        /\ d \in Nat /\ d <= Len(events[s]) /\ shown'[s] = First(s, d)
    <3>1. c \in Nat /\ d \in Nat
      BY <2>3, <2>4 DEF IInv, TypeOK
    <3>2. c <= Len(events[s]) /\ shown[s] = First(s, c)
      BY <1>1, <2>3 DEF Reader
    <3>3. d <= Len(events[s])
      BY <1>1, <2>4 DEF Reader
    <3>4. shown'[s] = First(s, d)'
      BY <1>1, <2>4 DEF Reader
    <3> QED
      BY <1>1, <3>1, <3>2, <3>3, <3>4, StillLog
  <2>6. /\ shown[s] \in Seq(Frames) /\ frame \in Frames
        /\ shown'[s] = Append(shown[s], frame)
    <3>1. wire[s] \in Seq(Frames) /\ wire[s] # <<>>
      BY <1>1 DEF TypeOK, Read
    <3> QED
      BY <1>1, <2>1, <3>1, TailFacts DEF TypeOK
  <2>7. Len(shown[s]) = c
    BY <2>5 DEF First
  <2>8. d = c + 1 /\ shown'[s][c + 1] = frame
    <3>1. Len(shown'[s]) = c + 1 /\ shown'[s][c + 1] = frame
      BY <2>6, <2>7, AppendFacts
    <3>2. Len(First(s, d)) = d
      BY <2>5 DEF First
    <3> QED
      BY <2>5, <3>1, <3>2
  <2>9. frame = EventFrame(s, c + 1)
    BY <2>5, <2>8 DEF First
  <2>10. frame = Logs[s][Len(shown[s]) + 1] /\ Len(shown[s]) < Len(Logs[s])
    <3>1. c + 1 \in 1 .. Len(events[s]) /\ Len(events[s]) \in Nat
      BY <1>1, <2>5, <2>8 DEF TypeOK
    <3> QED
      BY <1>1, <2>5, <2>7, <2>9, <3>1, LogFacts DEF Logs
  <2>11. shown' = [shown EXCEPT ![s] = Append(@, Logs[s][Len(@) + 1])]
    BY <2>1, <2>10
  <2>12. Delivery!Take(s)
    BY <1>1, <1>3, <2>2, <2>10, <2>11, SameLogs DEF Delivery!Take, Logs
  <2> QED
    BY <2>12 DEF Delivery!Next
<1> QED
  BY <1>4, <1>5, <1>6

LEMMA StepLog ==
  IInv /\ IInv' /\ RoomLeft /\ [Next]_vars => [Delivery!Next]_(Delivery!vars)
<1> SUFFICES ASSUME IInv, IInv', RoomLeft, [Next]_vars
             PROVE  Delivery!Next \/ UNCHANGED Delivery!vars
  OBVIOUS
<1>1. ASSUME UNCHANGED <<events, done, shown, page>>
      PROVE  UNCHANGED Delivery!vars
  BY <1>1, StutterLog DEF Ended
<1>2. ASSUME NEW s \in Streams, Mark(s) \/ ConnStep(s) \/ Break(s) \/ Expire(s)
      PROVE  UNCHANGED Delivery!vars
  BY <1>1, <1>2 DEF Mark, ConnStep, Deliver, Nothing, Check, Break, Expire, server
<1>3. CASE Metrics \/ Crash \/ UNCHANGED vars
  BY <1>1, <1>3 DEF Metrics, Crash, vars
<1> QED
  BY <1>2, <1>3, SendLog, WorkerLog, FinishLog, RetryLog, FetchLog, ReadLog
     DEF Next, PageStep

(***************************************************************************)
(* The stream manager, its worker and the page together are a replayable   *)
(* log, for any number of streams, events, failures and restarts: one      *)
(* entry after the other, none twice, nothing after the end.               *)
(***************************************************************************)
THEOREM IsReplayLog == Spec => ImplementsReplayLog
<1>1. Init => Delivery!Init /\ RoomLeft
  <2> SUFFICES ASSUME Init PROVE Delivery!Init /\ RoomLeft
    OBVIOUS
  <2>1. \A s \in Streams : Log(s) = <<>>
    BY DEF Init, Log, First
  <2>2. Logs = [s \in Streams |-> <<>>] /\ Ended = [s \in Streams |-> "no"]
    BY <2>1 DEF Init, Logs, Ended, NewPage
  <2> QED
    BY <2>2 DEF Init, Delivery!Init, Logs, RoomLeft
<1>2. IInv /\ RoomLeft /\ [Next]_vars => (IInv /\ RoomLeft)'
  BY StepInv, RoomStep
<1> QED
  BY <1>1, <1>2, InitInv, StepLog, PTL DEF Spec, ImplementsReplayLog, Delivery!Spec
=============================================================================
