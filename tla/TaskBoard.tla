------------------------------ MODULE TaskBoard ------------------------------
(***************************************************************************)
(* What the project plan promises about tasks, whatever the runs, the human *)
(* and the phase operations do at the same time: a task appears as one to   *)
(* do, and is done once.  It never goes back, and none is lost.             *)
(***************************************************************************)
CONSTANT Tasks
VARIABLES todo, done

Init == todo \subseteq Tasks /\ done = {}

\* New tasks: a phase made from the backlog, or an ad-hoc task.
Add ==
  /\ todo \subseteq todo'
  /\ todo' \subseteq Tasks /\ todo' \cap done = {}
  /\ UNCHANGED done

\* A task is approved, by the reviewer or by the human.
Complete(t) ==
  /\ todo' = todo \ {t}
  /\ done' = done \cup {t}

Next == Add \/ \E t \in todo : Complete(t)
Spec == Init /\ [][Next]_<<todo, done>>
=============================================================================
