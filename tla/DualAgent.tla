------------------------------ MODULE DualAgent ------------------------------
(***************************************************************************)
(* The dual-agent workflow: the designer and the architect of               *)
(* app/agents/dual_agent_orchestrator.py and architect_reviewer_agent.py,   *)
(* the routes of app/routes/dual_agent.py, and the plan they share.         *)
(*                                                                         *)
(* A run is a green thread.  It gives way to the others while it waits for  *)
(* the parallel thinker, a sleep or a helper thread (the designer's part of *)
(* a round) and while it sends mail (after a review, after the gate, at the *)
(* end); between two such points it is one step here.  There are two kinds  *)
(* of run: "graph" is POST /start, a daemon thread that walks the graph;    *)
(* "async" is POST /run, whose request waits for the end.                   *)
(*                                                                         *)
(* The model that reviews is external: its verdict is any of Verdicts, and  *)
(* its answer may fail to parse.                                            *)
(***************************************************************************)
EXTENDS ProjectPlan

CONSTANTS
  Runs,
  Verdicts,      \* the verdicts of the reviewing model
  InitialPlans,  \* the contents of PROJECT_PLAN.json to begin with
  MaxRounds,     \* MAX_ROUNDS, and the max_rounds of a request (5 in the code)
  MaxActs,       \* bound on the human's requests
  MaxCrashes     \* bound on restarts of the server

ASSUME DualAssumption ==
  /\ Verdicts \subseteq {"APPROVED", "NEEDS_REVISION", "HUMAN_REVIEW_REQUIRED"}
  /\ MaxRounds \in Nat \ {0} /\ MaxActs \in Nat /\ MaxCrashes \in Nat

VARIABLES
  plan,      \* PROJECT_PLAN.json
  sessions,  \* _sessions: the status of each run, in memory
  rows,      \* dual_agent_sessions.status
  pc,        \* where the run is
  opts,      \* the kind of the run and the options of its request
  task,      \* current_task_id / task_id of the run
  round,     \* round_num
  verdict,   \* the last verdict of the run
  acts,      \* requests of the human so far
  restarts

vars == <<plan, sessions, rows, pc, opts, task, round, verdict, acts, restarts>>

Live == {"designer", "mail", "gated", "finish"}
Pcs == Live \cup {"idle", "done", "dead"}
Statuses == {"none", "running", "paused", "complete"}
Opts == [kind : {"graph", "async"}, gate : BOOLEAN, continue : BOOLEAN]
NoVerdict == "none"

GraphOpts == [kind |-> "graph", gate |-> FALSE, continue |-> TRUE]
\* auto_continue makes no difference to a run that the hint gates.
AsyncOpts == {o \in Opts : o.kind = "async" /\ (o.gate => o.continue)}

PlanOK(pl) ==
  /\ pl \in Plans
  /\ pl.queue = {} /\ pl.completed = <<>> /\ pl.backlog = <<>>
  /\ Completed(pl) = {}
  /\ PlanActiveIsCurrent(pl) /\ PlanStrandedIsAdHoc(pl)
  /\ pl.status[AutoPhase] = "ABSENT" => pl.tasks[AutoPhase] = <<>>

ASSUME InitialPlansAssumption == \A pl \in InitialPlans : PlanOK(pl)

Init ==
  /\ plan \in InitialPlans
  /\ sessions = [r \in Runs |-> "none"] /\ rows = [r \in Runs |-> "none"]
  /\ pc = [r \in Runs |-> "idle"]
  /\ opts = [r \in Runs |-> GraphOpts]
  /\ task = [r \in Runs |-> NoTask]
  /\ round = [r \in Runs |-> 0]
  /\ verdict = [r \in Runs |-> NoVerdict]
  /\ acts = 0 /\ restarts = 0

-----------------------------------------------------------------------------
(* POST /start and POST /run. *)

\* start: the next pending task of the plan, for which a phase may have to
\* be made first.  Nothing marks the task as taken.
Start(r) ==
  LET pl == IF NextPending(plan) = NoTask THEN AutoCreate(plan) ELSE plan
  IN /\ pc[r] = "idle"
     /\ NextPending(pl) # NoTask
     /\ plan' = pl
     /\ task' = [task EXCEPT ![r] = NextPending(pl)]
     /\ opts' = [opts EXCEPT ![r] = GraphOpts]
     /\ sessions' = [sessions EXCEPT ![r] = "running"]
     /\ rows' = [rows EXCEPT ![r] = "running"]
     /\ pc' = [pc EXCEPT ![r] = "designer"]
     /\ UNCHANGED <<round, verdict, acts, restarts>>

\* _resolve_task_identity: the first pending task of the phase, whatever the
\* phase's status; a new one; or an id without a task.
ResolveTask(p) ==
  IF plan.status[p] = "ABSENT"
  THEN [plan |-> plan, task |-> <<p, 0>>]
  ELSE IF \E i \in DOMAIN plan.tasks[p] : plan.tasks[p][i].status = "PENDING"
  THEN [plan |-> plan, task |-> FirstPending(plan, p)]
  ELSE [plan |-> AddAdHoc(plan, p), task |-> <<p, Len(plan.tasks[p]) + 1>>]

RunRequest(r) ==
  /\ pc[r] = "idle"
  /\ \E p \in Phases, o \in AsyncOpts :
       LET resolved == ResolveTask(p) IN
       /\ Len(resolved.plan.tasks[p]) <= MaxTasks
       /\ plan' = resolved.plan
       /\ task' = [task EXCEPT ![r] = resolved.task]
       /\ opts' = [opts EXCEPT ![r] = o]
  /\ rows' = [rows EXCEPT ![r] = "running"]
  /\ verdict' = [verdict EXCEPT ![r] = "NEEDS_REVISION"]
  /\ pc' = [pc EXCEPT ![r] = "designer"]
  /\ UNCHANGED <<sessions, round, acts, restarts>>

-----------------------------------------------------------------------------
(* A round. *)

\* The locals of a run that has ended.
Forget(ended) ==
  /\ opts' = [r \in Runs |-> IF r \in ended THEN GraphOpts ELSE opts[r]]
  /\ round' = [r \in Runs |-> IF r \in ended THEN 0 ELSE round[r]]

\* Mutant: the item for the human is forgotten.
RejectsSilently(pl, v, t) == IF v = "APPROVED" THEN MarkComplete(pl, t) ELSE pl

\* What the verdict does to the plan.
Judged(pl, v, t) ==
  IF v = "APPROVED" THEN MarkComplete(pl, t)
  ELSE IF v = "HUMAN_REVIEW_REQUIRED" THEN AddHumanReview(pl, t)
  ELSE pl

\* The designer has answered (designer_node, _run_designer) and
\* ArchitectReviewerAgent.review runs up to its mails.  The enhancements of
\* an approval go to the backlog (one here: the bound is on the backlog).
Review(r) ==
  /\ pc[r] = "designer"
  /\ round' = [round EXCEPT ![r] = @ + 1]
  /\ \E v \in Verdicts :
       LET judged == Judged(plan, v, task[r]) IN
       /\ verdict' = [verdict EXCEPT ![r] = v]
       /\ \/ plan' = judged
          \/ /\ v = "APPROVED" /\ Len(plan.backlog) < MaxBacklog
             /\ \E title \in Titles : plan' = AddEnhancement(judged, title)
  /\ pc' = [pc EXCEPT ![r] = "mail"]
  /\ UNCHANGED <<sessions, rows, opts, task, acts, restarts>>

\* The answer of the model does not parse: the exception ends the thread of
\* a graph run (nothing catches it) or the request of an async one.
ReviewFails(r) ==
  /\ pc[r] = "designer"
  /\ pc' = [pc EXCEPT ![r] = "dead"]
  /\ Forget({r})
  /\ UNCHANGED <<plan, sessions, rows, task, verdict, acts, restarts>>

\* _force_human_gate, after the mails of the review: whatever the verdict
\* was, and whatever the review has done to the plan.
ForceGate(r) ==
  /\ pc[r] = "mail" /\ opts[r].gate
  /\ plan' = AddHumanReview(plan, task[r])
  /\ verdict' = [verdict EXCEPT ![r] = "HUMAN_REVIEW_REQUIRED"]
  /\ pc' = [pc EXCEPT ![r] = "gated"]
  /\ UNCHANGED <<sessions, rows, opts, task, round, acts, restarts>>

\* The run has had its mails sent and decides what comes next.
Decides(r) == pc[r] = "gated" \/ (pc[r] = "mail" /\ ~opts[r].gate)

\* Mutant: an approved run goes on although nothing is pending.
TakesAnything(r) == verdict[r] = "APPROVED"

\* An approved run takes the next task of the plan.
TakesNext(r) == verdict[r] = "APPROVED" /\ NextPending(plan) # NoTask

\* Mutant: the graph goes on after the last round.
GoesOnForever(r) ==
  IF opts[r].kind = "graph"
  THEN TakesNext(r) \/ verdict[r] = "NEEDS_REVISION"
  ELSE /\ round[r] < MaxRounds
       /\ \/ TakesNext(r) /\ opts[r].continue
          \/ verdict[r] = "NEEDS_REVISION"

\* route of the graph; the branches of the loop of ainvoke, whose counter
\* goes on when the task changes.
GoesOn(r) ==
  IF opts[r].kind = "graph"
  THEN TakesNext(r) \/ (verdict[r] = "NEEDS_REVISION" /\ round[r] < MaxRounds)
  ELSE /\ round[r] < MaxRounds
       /\ \/ TakesNext(r) /\ opts[r].continue
          \/ verdict[r] = "NEEDS_REVISION"

Outcome(r) ==
  IF verdict[r] = "HUMAN_REVIEW_REQUIRED" THEN "paused" ELSE "complete"

\* An async run that stops writes the table at once, a graph run only after
\* the mail of on_finish.
Decide(r) ==
  /\ Decides(r)
  /\ task' = [task EXCEPT ![r] = IF TakesNext(r) THEN NextPending(plan) ELSE @]
  /\ round' = [round EXCEPT ![r] =
                 IF TakesNext(r) /\ opts[r].kind = "graph" THEN 0 ELSE @]
  /\ pc' = [pc EXCEPT ![r] = IF GoesOn(r) THEN "designer" ELSE "finish"]
  /\ rows' = [rows EXCEPT ![r] = IF GoesOn(r) \/ opts[r].kind = "graph"
                                 THEN @ ELSE Outcome(r)]
  /\ UNCHANGED <<plan, sessions, opts, verdict, acts, restarts>>

\* The end of _run, memory and then the table; the end of run_dual_agent,
\* memory only (the table has it already).
Finish(r) ==
  /\ pc[r] = "finish"
  /\ sessions' = [sessions EXCEPT ![r] = Outcome(r)]
  /\ rows' = [rows EXCEPT ![r] = Outcome(r)]
  /\ pc' = [pc EXCEPT ![r] = "done"]
  /\ Forget({r})
  /\ UNCHANGED <<plan, task, verdict, acts, restarts>>

-----------------------------------------------------------------------------
(* The human. *)

HumanActs ==
  /\ acts < MaxActs
  /\ acts' = acts + 1
  /\ UNCHANGED <<sessions, rows, pc, opts, task, round, verdict, restarts>>

\* POST approve/<task_id>, for any task and any number of times.
Approve ==
  /\ HumanActs
  /\ \E t \in TasksOf(plan) : plan' = MarkComplete(plan, t)

\* POST phase5/auto-create, with or without the activation.
AutoCreatePhase ==
  /\ HumanActs
  /\ \/ plan' = AutoCreate(plan)
     \/ \E force \in BOOLEAN :
          plan' = Activate(AutoCreate(plan), AutoPhase, force)

\* POST phase/activate/<phase_id>.
ActivatePhase ==
  /\ HumanActs
  /\ \E p \in Phases, force \in BOOLEAN : plan' = Activate(plan, p, force)

\* The server restarts: the runs are gone, the plan and the table stay.
Crash ==
  /\ restarts < MaxCrashes
  /\ restarts' = restarts + 1
  /\ pc' = [r \in Runs |-> IF pc[r] \in Live THEN "dead" ELSE pc[r]]
  /\ sessions' = [r \in Runs |-> "none"]
  /\ Forget(Runs)
  /\ UNCHANGED <<plan, rows, task, verdict, acts>>

RunStep(r) ==
  Review(r) \/ ForceGate(r) \/ Decide(r) \/ Finish(r)

Next ==
  \/ \E r \in Runs : Start(r) \/ RunRequest(r) \/ RunStep(r) \/ ReviewFails(r)
  \/ Approve \/ AutoCreatePhase \/ ActivatePhase \/ Crash

Spec == Init /\ [][Next]_vars

\* A run's thread is scheduled; mail and the model answer or time out.
FairSpec == Spec /\ \A r \in Runs : WF_vars(RunStep(r))

-----------------------------------------------------------------------------
(* The type of the state. *)
TypeOK ==
  /\ plan \in Plans
  /\ sessions \in [Runs -> Statuses] /\ rows \in [Runs -> Statuses]
  /\ pc \in [Runs -> Pcs] /\ opts \in [Runs -> Opts]
  /\ task \in [Runs -> (Phases \cup {0}) \X Nat]
  /\ round \in [Runs -> 0 .. MaxRounds]
  /\ verdict \in [Runs -> Verdicts \cup
                          {NoVerdict, "NEEDS_REVISION", "HUMAN_REVIEW_REQUIRED"}]
  /\ acts \in 0 .. MaxActs /\ restarts \in 0 .. MaxCrashes

\* The phase in progress is current_phase, so get_next_pending_task looks
\* there first and there is never a second one, however the reviewers'
\* approvals, the human's and the phase operations interleave.
ActiveIsCurrent == PlanActiveIsCurrent(plan)

\* A complete phase keeps no task to do, except an ad-hoc one of POST /run:
\* no planned task is ever out of the reach of get_next_pending_task.
StrandedIsAdHoc == PlanStrandedIsAdHoc(plan)

\* completed_tasks lists the complete tasks once each, although two runs may
\* work on one task and the human may approve it while they do.
CompletedOnce == PlanCompletedOnce(plan)

\* A run that the table shows as paused has left something for the human: the
\* task it stopped at is in human_review_queue.
PausedIsQueued ==
  \A r \in Runs : rows[r] = "paused" => task[r] \in plan.queue

\* Advance is the loop of mark_task_complete, which goes on through the list
\* while it changes it, for every plan the runs and the human can bring about
\* and every task they can approve.
AdvanceIsLoop ==
  \A t \in TasksOf(plan) \cup {NoTask} :
    MarkComplete(plan, t) = Loop(Tick(plan, t))

\* The plan is a board on which a task is done once and never undone.
Board == INSTANCE TaskBoard WITH
  Tasks <- TaskIds,
  todo <- Pending(plan), done <- {plan.completed[i] : i \in DOMAIN plan.completed}
ImplementsTaskBoard == Board!Spec

\* Every run ends, by itself or with the server: approvals use up the tasks
\* and the rounds of a task are bounded.
RunEnds == \A r \in Runs : pc[r] \in Live ~> pc[r] \in {"done", "dead"}

\* What the gate is for: "Manual testing is required before this task can be
\* approved".  A task that a run holds back for the human is not complete yet.
HeldBackBeforeApproval ==
  [][\A t \in plan'.queue \ plan.queue : t \notin Completed(plan')]_vars
=============================================================================
