----------------------------- MODULE AgentStream -----------------------------
(***************************************************************************)
(* The replayable answer stream of the agent page: the stream manager of   *)
(* app/services/agent_stream_service.py, its routes, and sendMessage of    *)
(* app/templates/agent.html.                                               *)
(*                                                                         *)
(* A page sends a message; the server appends what the worker thread       *)
(* produces to the log of a new stream.  The page reads the log over an    *)
(* HTTP response that may break at any point, and then asks again from its *)
(* cursor, the id of the last event it has processed.  The manager drops   *)
(* a stream that has not changed for ttl_seconds whenever anybody uses the *)
(* manager, and loses all of them when the process restarts.               *)
(*                                                                         *)
(* Each element of Streams is one message sent by one page, and the stream *)
(* the server makes for it.  The streams meet in the manager.              *)
(***************************************************************************)
EXTENDS Naturals, Sequences, FiniteSets

CONSTANTS
  Streams,
  MaxSteps,    \* bound on the thinking events of a stream
  MaxRetries,  \* consecutive reconnects a page tries (5 in the code)
  MaxBreaks,   \* bound on failures of the network
  MaxCrashes   \* bound on restarts of the server

ASSUME BoundsAssumption ==
  /\ MaxSteps \in Nat /\ MaxRetries \in Nat
  /\ MaxBreaks \in Nat /\ MaxCrashes \in Nat

VARIABLES
  events,     \* events[s]: kinds of the events pushed; the i-th has event id i.
              \* (A log the manager has dropped stays here as history.)
  done,       \* the streams whose state is done
  worker,     \* worker[s]: program counter of the worker thread
  streams,    \* the streams the manager knows: _streams
  idle,       \* those of them that have not changed for ttl_seconds
  started,    \* _total_streams_started
  completed,  \* _total_streams_completed
  conn,       \* conn[s]: the generator sse_iter of the connection of s
  wire,       \* wire[s]: frames sent and not yet read by the page
  page,       \* page[s]: sendMessage
  shown,      \* shown[s]: the events the page has processed
  breaks, crashes

server == <<events, done, worker, started, completed>>
manager == <<streams, idle>>
vars == <<events, done, worker, streams, idle, started, completed, conn, wire,
          page, shown, breaks, crashes>>

-----------------------------------------------------------------------------
(* Frames.  Event ids start at 1; a frame without an id has id 0. *)

Outcomes == {"response", "error"}
Kinds == Outcomes \cup {"meta", "thinking"}
Frames == [id : Nat, kind : Kinds \cup {"[DONE]"}]

EventFrame(s, i) == [id |-> i, kind |-> events[s][i]]
DoneFrame == [id |-> 0, kind |-> "[DONE]"]
NotFoundFrame == [id |-> 0, kind |-> "error"]

\* Mutant: the cursor is the event the page expects next.
CursorNext(cursor, frame) ==
  IF frame.id > cursor THEN frame.id + 1 ELSE cursor

\* The page's cursor after a frame.
Cursor(cursor, frame) == IF frame.id > cursor THEN frame.id ELSE cursor

-----------------------------------------------------------------------------
NoConn == [pc |-> "none", next |-> 1]
NewPage == [pc |-> "new", cursor |-> 0, attempts |-> 0, recovered |-> FALSE,
            lost |-> FALSE]
Busy == {"run", "finish", "mark"}

Init ==
  /\ events = [s \in Streams |-> <<>>] /\ done = {}
  /\ worker = [s \in Streams |-> "none"]
  /\ streams = {} /\ idle = {} /\ started = 0 /\ completed = 0
  /\ conn = [s \in Streams |-> NoConn]
  /\ wire = [s \in Streams |-> <<>>]
  /\ page = [s \in Streams |-> NewPage]
  /\ shown = [s \in Streams |-> <<>>]
  /\ breaks = 0 /\ crashes = 0

\* _cleanup_locked: every use of the manager drops the idle streams.
Fresh == streams \ idle

NetworkFails == breaks < MaxBreaks /\ breaks' = breaks + 1

-----------------------------------------------------------------------------
(* The worker thread. *)

Push(s, kind) == events' = [events EXCEPT ![s] = Append(@, kind)]

\* A thinking step, before the model is called or a notice after it.
Think(s) ==
  /\ worker[s] = "run"
  /\ Len(events[s]) <= MaxSteps
  /\ Push(s, "thinking")
  /\ idle' = idle \ {s}
  /\ UNCHANGED <<done, worker, streams, started, completed, conn, wire, page,
                 shown, breaks, crashes>>

\* Mutant: the stream is counted as completed when it has its answer.
AnswerCounts(s) ==
  /\ worker[s] = "run"
  /\ \E kind \in Outcomes : Push(s, kind)
  /\ worker' = [worker EXCEPT ![s] = "finish"]
  /\ idle' = idle \ {s}
  /\ completed' = completed + 1
  /\ UNCHANGED <<done, streams, started, conn, wire, page, shown, breaks,
                 crashes>>

\* The model has answered, or anything before that has raised.
Answer(s) ==
  /\ worker[s] = "run"
  /\ \E kind \in Outcomes : Push(s, kind)
  /\ worker' = [worker EXCEPT ![s] = "finish"]
  /\ idle' = idle \ {s}
  /\ UNCHANGED <<done, streams, started, completed, conn, wire, page, shown,
                 breaks, crashes>>

\* finish
Finish(s) ==
  /\ worker[s] = "finish"
  /\ done' = done \cup {s}
  /\ worker' = [worker EXCEPT ![s] = "mark"]
  /\ idle' = idle \ {s}
  /\ UNCHANGED <<events, streams, started, completed, conn, wire, page, shown,
                 breaks, crashes>>

\* _mark_stream_finished
Mark(s) ==
  /\ worker[s] = "mark"
  /\ completed' = completed + 1
  /\ worker' = [worker EXCEPT ![s] = "over"]
  /\ UNCHANGED <<events, done, streams, idle, started, conn, wire, page, shown,
                 breaks, crashes>>

-----------------------------------------------------------------------------
(* Requests.  The network may lose the answer of any of them. *)

\* POST stream/start: start_stream pushes the meta event, registers the stream
\* and starts its thread.  A page that does not get the answer reports failure.
Send(s) ==
  /\ page[s].pc = "new"
  /\ Push(s, "meta")
  /\ worker' = [worker EXCEPT ![s] = "run"]
  /\ streams' = Fresh \cup {s} /\ idle' = {}
  /\ started' = started + 1
  /\ \/ page' = [page EXCEPT ![s].pc = "fetch"] /\ UNCHANGED breaks
     \/ page' = [page EXCEPT ![s].pc = "failed"] /\ NetworkFails
  /\ UNCHANGED <<done, completed, conn, wire, shown, crashes>>

\* Mutant: the stream is resumed at the event the page has already.
FirstEventAgain(cursor) == IF cursor = 0 THEN 1 ELSE cursor

\* Where sse_iter starts for a cursor.
FirstEvent(cursor) == cursor + 1

\* POST stream: sse_iter looks the stream up; the page starts to read.
Fetch(s) ==
  /\ page[s].pc = "fetch"
  /\ streams' = Fresh /\ idle' = {}
  /\ page' = [page EXCEPT ![s].pc = "read", ![s].attempts = 0]
  /\ \/ /\ s \in Fresh
        /\ conn' = [conn EXCEPT ![s] =
             [pc |-> "wait", next |-> FirstEvent(page[s].cursor)]]
        /\ UNCHANGED wire
     \/ /\ s \notin Fresh
        /\ wire' = [wire EXCEPT ![s] = <<NotFoundFrame, DoneFrame>>]
        /\ UNCHANGED conn
  /\ UNCHANGED <<events, done, worker, started, completed, shown, breaks,
                 crashes>>

\* Mutant: the page never stops retrying.
RetryForever(s) ==
  page' = [page EXCEPT ![s].pc = "fetch", ![s].attempts = @ + 1,
                       ![s].recovered = TRUE]

\* The catch block of the page: another attempt, or the end.
Retry(s) ==
  \/ /\ page[s].attempts < MaxRetries
     /\ page' = [page EXCEPT ![s].pc = "fetch", ![s].attempts = @ + 1,
                             ![s].recovered = TRUE]
  \/ /\ page[s].attempts >= MaxRetries
     /\ page' = [page EXCEPT ![s].pc = "failed", ![s].attempts = @ + 1]

\* POST stream fails, before or after the server has looked at it.
FetchFails(s) ==
  /\ page[s].pc = "fetch"
  /\ NetworkFails
  /\ Retry(s)
  /\ \/ streams' = Fresh /\ idle' = {}
     \/ UNCHANGED manager
  /\ UNCHANGED <<events, done, worker, started, completed, conn, wire, shown,
                 crashes>>

\* metrics, by any page that shows them.
Metrics ==
  /\ streams' = Fresh /\ idle' = {}
  /\ UNCHANGED <<events, done, worker, started, completed, conn, wire, page,
                 shown, breaks, crashes>>

-----------------------------------------------------------------------------
(* The generator sse_iter.  Its stream may have been dropped by the manager
   in the meantime: it keeps its own reference. *)

\* Mutant: wait_for_event hands out an event only when the next one is there.
AvailableLate(s) == Len(events[s]) > conn[s].next

\* wait_for_event has an event to hand out.
Available(s) == Len(events[s]) >= conn[s].next

Deliver(s) ==
  /\ conn[s].pc = "wait"
  /\ Available(s)
  /\ wire' = [wire EXCEPT ![s] = Append(@, EventFrame(s, conn[s].next))]
  /\ conn' = [conn EXCEPT ![s].next = @ + 1]
  /\ UNCHANGED <<server, manager, page, shown, breaks, crashes>>

\* wait_for_event returns None: done, or 5 s without an event.
Nothing(s) ==
  /\ conn[s].pc = "wait"
  /\ ~ Available(s)
  /\ conn' = [conn EXCEPT ![s].pc = "check"]
  /\ UNCHANGED <<server, manager, wire, page, shown, breaks, crashes>>

\* Mutant: a stream that is done is taken to be delivered.
DeliveredWhenDone(s) == s \in done

\* The check that follows, outside the lock.
Delivered(s) == s \in done /\ Len(events[s]) < conn[s].next

\* A keepalive when there may be more, [DONE] when there is not.
Check(s) ==
  /\ conn[s].pc = "check"
  /\ \/ /\ ~ Delivered(s)
        /\ conn' = [conn EXCEPT ![s].pc = "wait"]
        /\ UNCHANGED wire
     \/ /\ Delivered(s)
        /\ conn' = [conn EXCEPT ![s] = NoConn]
        /\ wire' = [wire EXCEPT ![s] = Append(@, DoneFrame)]
  /\ UNCHANGED <<server, manager, page, shown, breaks, crashes>>

-----------------------------------------------------------------------------
(* The page reads. *)

\* The body of the frame loop.
Read(s) ==
  /\ page[s].pc = "read"
  /\ wire[s] # <<>>
  /\ wire' = [wire EXCEPT ![s] = Tail(@)]
  /\ LET frame == Head(wire[s])
     IN  \/ /\ frame = DoneFrame
            /\ page' = [page EXCEPT ![s].pc = "finished"]
            /\ UNCHANGED shown
         \/ /\ frame = NotFoundFrame
            /\ page' = [page EXCEPT ![s].lost = TRUE]
            /\ UNCHANGED shown
         \/ /\ frame \notin {DoneFrame, NotFoundFrame}
            /\ page' = [page EXCEPT ![s].cursor = Cursor(@, frame)]
            /\ shown' = [shown EXCEPT ![s] = Append(@, frame)]
  /\ UNCHANGED <<server, manager, conn, breaks, crashes>>

\* The response ends without [DONE].
Interrupted(s) ==
  /\ page[s].pc = "read"
  /\ wire[s] = <<>> /\ conn[s].pc = "none"
  /\ Retry(s)
  /\ UNCHANGED <<server, manager, conn, wire, shown, breaks, crashes>>

-----------------------------------------------------------------------------
(* The environment. *)

\* The connection breaks: the page still gets what had arrived.
Break(s) ==
  /\ page[s].pc = "read"
  /\ NetworkFails
  /\ conn' = [conn EXCEPT ![s] = NoConn]
  /\ \E n \in 0 .. Len(wire[s]) :
       wire' = [wire EXCEPT ![s] = SubSeq(@, 1, n)]
  /\ UNCHANGED <<server, manager, page, shown, crashes>>

\* ttl_seconds pass without a push to s.
Expire(s) ==
  /\ s \in streams \ idle
  /\ idle' = idle \cup {s}
  /\ UNCHANGED <<server, streams, conn, wire, page, shown, breaks, crashes>>

\* The server restarts: manager, threads and connections are gone.
Crash ==
  /\ crashes < MaxCrashes
  /\ crashes' = crashes + 1
  /\ streams' = {} /\ idle' = {} /\ started' = 0 /\ completed' = 0
  /\ worker' = [s \in Streams |-> IF worker[s] \in Busy THEN "dead"
                                  ELSE worker[s]]
  /\ conn' = [s \in Streams |-> NoConn]
  /\ UNCHANGED <<events, done, wire, page, shown, breaks>>

-----------------------------------------------------------------------------
ConnStep(s) == Deliver(s) \/ Nothing(s) \/ Check(s)
PageStep(s) == Fetch(s) \/ Read(s) \/ Interrupted(s)

Next ==
  \/ \E s \in Streams :
       \/ Send(s) \/ Think(s) \/ Answer(s) \/ Finish(s) \/ Mark(s)
       \/ ConnStep(s) \/ PageStep(s)
       \/ FetchFails(s) \/ Break(s) \/ Expire(s)
  \/ Metrics
  \/ Crash

Spec == Init /\ [][Next]_vars

\* A connection wakes at the latest after 5 s, and the page reads what arrives
\* and retries on a timer.  Nothing is assumed of the worker, which waits for
\* the model.
FairSpec ==
  Spec /\ \A s \in Streams : WF_vars(ConnStep(s)) /\ WF_vars(PageStep(s))

-----------------------------------------------------------------------------
\* Type invariant.
TypeOK ==
  /\ events \in [Streams -> Seq(Kinds)] /\ done \subseteq Streams
  /\ worker \in [Streams -> Busy \cup {"none", "over", "dead"}]
  /\ streams \subseteq Streams /\ idle \subseteq streams
  /\ started \in Nat /\ completed \in Nat
  /\ conn \in [Streams -> [pc : {"none", "wait", "check"}, next : Nat \ {0}]]
  /\ wire \in [Streams -> Seq(Frames)]
  /\ page \in [Streams -> [pc : {"new", "fetch", "read", "finished", "failed"},
                           cursor : Nat, attempts : 0 .. MaxRetries + 1,
                           recovered : BOOLEAN, lost : BOOLEAN]]
  /\ shown \in [Streams -> Seq(Frames)]
  /\ breaks \in 0 .. MaxBreaks /\ crashes \in 0 .. MaxCrashes

\* The first n events of a stream, and all of them, as frames.
First(s, n) == [i \in 1 .. n |-> EventFrame(s, i)]
Log(s) == First(s, Len(events[s]))

\* However often the connection breaks, a page has processed the events up to
\* its cursor, in order and each one once (sse_iter resumes at the cursor,
\* sendMessage does not look for duplicates).
ShownUpToCursor ==
  \A s \in Streams : /\ page[s].cursor <= Len(events[s])
                     /\ shown[s] = First(s, page[s].cursor)

\* A page that has seen [DONE] has the whole log, which ends with the answer or
\* the error and holds no other, unless it was told that the stream is lost
\* (sse_iter checks done and the length of the log outside the lock).
NothingMissing ==
  \A s \in Streams : page[s].pc = "finished" /\ ~ page[s].lost =>
    /\ s \in done /\ shown[s] = Log(s)
    /\ \A i \in 1 .. Len(shown[s]) :
         shown[s][i].kind \in Outcomes <=> i = Len(shown[s])

\* The metrics agree: streams that metrics() reports as active are not also
\* counted as completed, whatever was dropped in between.
ActiveNotCompleted == Cardinality(streams \ done) + completed <= started

\* How reading ended, as the page knows it.
Ended == [s \in Streams |->
  IF page[s].pc = "failed" \/ (page[s].pc = "finished" /\ page[s].lost)
  THEN "gave up"
  ELSE IF page[s].pc = "finished" THEN "complete" ELSE "no"]

Delivery == INSTANCE ReplayLog WITH
  Entries <- [id : 1 .. MaxSteps + 2, kind : Kinds],
  log <- [s \in Streams |-> Log(s)],
  closed <- done,
  got <- shown,
  ended <- Ended

\* The stream is a replayable log: through broken connections, expiry and
\* restarts the page takes one event after the other, and nothing is published
\* once the stream is done.
ImplementsReplayLog == Delivery!Spec

\* When the worker is done the page stops waiting, whatever breaks.
DoneIsDelivered ==
  \A s \in Streams : s \in done ~> page[s].pc \in {"finished", "failed"}

\* 'Connection recovered - stream resumed.': a page that says so has not been
\* told that the stream is lost (agent.html:1168).
RecoveredIsResumed ==
  \A s \in Streams : page[s].pc = "finished" /\ page[s].recovered =>
    ~ page[s].lost
=============================================================================
