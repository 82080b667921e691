---------------------------- MODULE JobLifecycle ----------------------------
(***************************************************************************)
(* What the patch pipeline promises to somebody who follows a job through  *)
(* its status: a job becomes active once, ends at most once, stays as it   *)
(* ended, and is only ever reported canceled to users who asked for it.    *)
(* The server keeps a bounded number of records, so it may forget a job.   *)
(***************************************************************************)
CONSTANT Jobs

VARIABLES
  phase,  \* phase[j]: what a reader is told about j
  asked   \* jobs somebody asked to cancel while they were active

vars == <<phase, asked>>

Ended == {"completed", "failed", "canceled"}
Phases == Ended \cup {"new", "active", "forgotten"}

TypeOK == phase \in [Jobs -> Phases] /\ asked \subseteq Jobs

Init == phase = [j \in Jobs |-> "new"] /\ asked = {}

\* A new job is submitted; the server may forget other jobs to make room.
Submit(j, gone) ==
  /\ phase[j] = "new"
  /\ j \notin gone
  /\ \A k \in gone : phase[k] # "new"
  /\ phase' = [k \in Jobs |-> IF k = j THEN "active"
                              ELSE IF k \in gone THEN "forgotten"
                              ELSE phase[k]]
  /\ UNCHANGED asked

\* A job without a patch is recorded as failed at once.
Refuse(j) ==
  /\ phase[j] = "new"
  /\ phase' = [phase EXCEPT ![j] = "failed"]
  /\ UNCHANGED asked

\* A forgotten job may still be running, and be canceled.
Ask(j) ==
  /\ phase[j] \in {"active", "forgotten"}
  /\ asked' = asked \cup {j}
  /\ UNCHANGED phase

Finish(j, outcome) ==
  /\ phase[j] = "active"
  /\ outcome \in Ended
  /\ outcome = "canceled" => j \in asked
  /\ phase' = [phase EXCEPT ![j] = outcome]
  /\ UNCHANGED asked

Next ==
  \/ \E j \in Jobs, gone \in SUBSET Jobs : Submit(j, gone)
  \/ \E j \in Jobs : Refuse(j)
  \/ \E j \in Jobs : Ask(j)
  \/ \E j \in Jobs, outcome \in Ended : Finish(j, outcome)

Spec == Init /\ [][Next]_vars
=============================================================================
