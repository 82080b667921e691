------------------------------ MODULE ReplayLog ------------------------------
(***************************************************************************)
(* What a replayable stream promises to the page that reads it: entries    *)
(* are published one by one, a closed log never grows, the reader gets     *)
(* them in order and each one once, and is told that it has everything     *)
(* only when the log is closed and it does.  A reader may give up.         *)
(***************************************************************************)
EXTENDS Sequences, Naturals

CONSTANTS Streams, Entries

VARIABLES
  log,     \* log[s]: the entries published so far
  closed,  \* the streams that will publish nothing more
  got,     \* got[s]: the entries the reader has taken
  ended    \* ended[s]: how reading ended

vars == <<log, closed, got, ended>>

Init ==
  /\ log = [s \in Streams |-> <<>>] /\ closed = {}
  /\ got = [s \in Streams |-> <<>>]
  /\ ended = [s \in Streams |-> "no"]

Publish(s, entry) ==
  /\ s \notin closed
  /\ log' = [log EXCEPT ![s] = Append(@, entry)]
  /\ UNCHANGED <<closed, got, ended>>

\* An empty log is never closed: there is always an answer to read.
Close(s) ==
  /\ s \notin closed
  /\ log[s] # <<>>
  /\ closed' = closed \cup {s}
  /\ UNCHANGED <<log, got, ended>>

Take(s) ==
  /\ ended[s] = "no"
  /\ Len(got[s]) < Len(log[s])
  /\ got' = [got EXCEPT ![s] = Append(@, log[s][Len(@) + 1])]
  /\ UNCHANGED <<log, closed, ended>>

Complete(s) ==
  /\ ended[s] = "no"
  /\ s \in closed
  /\ got[s] = log[s]
  /\ ended' = [ended EXCEPT ![s] = "complete"]
  /\ UNCHANGED <<log, closed, got>>

GiveUp(s) ==
  /\ ended[s] = "no"
  /\ ended' = [ended EXCEPT ![s] = "gave up"]
  /\ UNCHANGED <<log, closed, got>>

\* Sending and losing the answer at once is publishing and giving up in one
\* step.
PublishUnread(s, entry) ==
  /\ s \notin closed
  /\ ended[s] = "no"
  /\ log' = [log EXCEPT ![s] = Append(@, entry)]
  /\ ended' = [ended EXCEPT ![s] = "gave up"]
  /\ UNCHANGED <<closed, got>>

Next ==
  \E s \in Streams :
    \/ \E entry \in Entries : Publish(s, entry) \/ PublishUnread(s, entry)
    \/ Close(s) \/ Take(s) \/ Complete(s) \/ GiveUp(s)

Spec == Init /\ [][Next]_vars
=============================================================================
