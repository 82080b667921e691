----------------------------- MODULE ProjectPlan -----------------------------
(***************************************************************************)
(* PROJECT_PLAN.json and the operations of ProjectPlanManager               *)
(* (app/agents/project_plan_manager.py).                                    *)
(*                                                                         *)
(* Every method loads the file, changes the document and saves it without   *)
(* giving way to another green thread, so each is an operator from plan to  *)
(* plan.  A task is named by its phase and its place in it, which is what   *)
(* its id spells ("3.2"): tasks are never removed and a new one gets the    *)
(* next number.  Names, descriptions, priorities and dates are left out.    *)
(***************************************************************************)
EXTENDS Naturals, Sequences, FiniteSets, FiniteSetsExt

CONSTANTS
  Phases,      \* the phase ids that may occur
  AutoPhase,   \* the id of the phase made from the backlog (5 in the code)
  Titles,      \* titles of enhancements, up to case and blanks
  MaxTasks,    \* bound on the tasks of a phase that get an ad-hoc one
  MaxBacklog   \* bound on the enhancement backlog

ASSUME PlanAssumption ==
  /\ Phases \subseteq Nat \ {0} /\ IsFiniteSet(Phases)
  /\ AutoPhase \in Phases /\ \A p \in Phases : p <= AutoPhase
  /\ MaxTasks \in Nat \ {0} /\ MaxBacklog \in Nat

PhaseStatus == {"ABSENT", "PLANNED", "IN_PROGRESS", "COMPLETE"}
Task == [status : {"PENDING", "COMPLETE"}, auto : BOOLEAN]
Enhancement == [title : Titles, status : {"PROPOSED", "PLANNED_FOR_EXECUTION"}]
TaskIds == Phases \X (Nat \ {0})
NoTask == <<0, 0>>

\* status, tasks: the phases; current: current_phase; backlog, queue,
\* completed: the lists of the same names (the queue as a set of task ids).
Plans == [status : [Phases -> PhaseStatus], tasks : [Phases -> Seq(Task)],
          current : Nat, backlog : Seq(Enhancement),
          queue : SUBSET (Phases \X Nat), completed : Seq(TaskIds)]

New(auto) == [status |-> "PENDING", auto |-> auto]

TasksOf(pl) == UNION {{p} \X DOMAIN pl.tasks[p] : p \in Phases}
TaskStatus(pl, t) == pl.tasks[t[1]][t[2]].status
Pending(pl) == {t \in TasksOf(pl) : TaskStatus(pl, t) = "PENDING"}
Completed(pl) == {t \in TasksOf(pl) : TaskStatus(pl, t) = "COMPLETE"}
InList(x, s) == \E i \in DOMAIN s : s[i] = x

-----------------------------------------------------------------------------
(* get_next_pending_task: the current phase first, then by id. *)

OpenPhases(pl) ==
  {p \in Phases : /\ pl.status[p] \in {"IN_PROGRESS", "PLANNED"}
                  /\ \E i \in DOMAIN pl.tasks[p] :
                       pl.tasks[p][i].status = "PENDING"}

FirstPending(pl, p) ==
  <<p, Min({i \in DOMAIN pl.tasks[p] : pl.tasks[p][i].status = "PENDING"})>>

NextPending(pl) ==
  IF OpenPhases(pl) = {} THEN NoTask
  ELSE IF pl.current \in OpenPhases(pl) THEN FirstPending(pl, pl.current)
  ELSE FirstPending(pl, Min(OpenPhases(pl)))

-----------------------------------------------------------------------------
(* mark_task_complete *)

\* The tasks of the phase are all complete, and there are some.
WorkedOff(pl, p) ==
  /\ pl.tasks[p] # <<>>
  /\ \A i \in DOMAIN pl.tasks[p] : pl.tasks[p][i].status = "COMPLETE"

\* Mutant: the list of completed tasks gets the task each time.
TickAgain(pl, t) ==
  IF t \notin TasksOf(pl) THEN pl
  ELSE [pl EXCEPT !.tasks[t[1]][t[2]].status = "COMPLETE",
                  !.completed = Append(@, t)]

\* The task of that id, if there is one, is complete and listed once.
Tick(pl, t) ==
  IF t \notin TasksOf(pl) THEN pl
  ELSE [pl EXCEPT !.tasks[t[1]][t[2]].status = "COMPLETE",
                  !.completed = IF InList(t, @) THEN @ ELSE Append(@, t)]

\* Mutant: current_phase is left alone when the next phase begins.
AdvanceQuietly(pl) ==
  LET ending == {p \in Phases : pl.status[p] = "IN_PROGRESS" /\ WorkedOff(pl, p)}
      planned == {p \in Phases : pl.status[p] = "PLANNED"}
      passed == {p \in planned : \A q \in planned : q <= p =>
                   WorkedOff(pl, q) /\ \A e \in ending : e < q}
      left == planned \ passed
  IN  IF ending = {} THEN pl
      ELSE [pl EXCEPT !.status = [p \in Phases |->
              IF p \in ending \cup passed THEN "COMPLETE"
              ELSE IF left # {} /\ p = Min(left) THEN "IN_PROGRESS" ELSE @[p]]]

\* Mutant: a phase that begins is not visited again in the same pass.
AdvanceOnce(pl) ==
  LET ending == {p \in Phases : pl.status[p] = "IN_PROGRESS" /\ WorkedOff(pl, p)}
      left == {p \in Phases : pl.status[p] = "PLANNED"}
  IN  IF ending = {} THEN pl
      ELSE [pl EXCEPT
              !.status = [p \in Phases |->
                 IF p \in ending THEN "COMPLETE"
                 ELSE IF left # {} /\ p = Min(left) THEN "IN_PROGRESS" ELSE @[p]],
              !.current = IF left # {} THEN Min(left) ELSE @]

\* The phase in progress ends when it is worked off, and the first planned
\* phase begins.  The loop of the code goes on in the list, so that it meets
\* a phase it has just begun if that comes later: if its tasks have all been
\* done before, it ends in the same pass, and the next planned phase begins.
Advance(pl) ==
  LET ending == {p \in Phases : pl.status[p] = "IN_PROGRESS" /\ WorkedOff(pl, p)}
      planned == {p \in Phases : pl.status[p] = "PLANNED"}
      passed == {p \in planned : \A q \in planned : q <= p =>
                   WorkedOff(pl, q) /\ \A e \in ending : e < q}
      left == planned \ passed
  IN  IF ending = {} THEN pl
      ELSE [pl EXCEPT
              !.status = [p \in Phases |->
                 IF p \in ending \cup passed THEN "COMPLETE"
                 ELSE IF left # {} /\ p = Min(left) THEN "IN_PROGRESS" ELSE @[p]],
              !.current = IF left # {} THEN Min(left)
                          ELSE IF passed # {} THEN Max(passed) ELSE @]

MarkComplete(pl, t) == Advance(Tick(pl, t))

(* The second loop of mark_task_complete as it is written: one turn for a    *)
(* phase of the list, which sees what the turns before it changed.           *)
Visit(pl, p) ==
  LET planned == {q \in Phases : pl.status[q] = "PLANNED"}
      ended == [pl EXCEPT !.status[p] = "COMPLETE"]
  IN  IF ~(pl.status[p] = "IN_PROGRESS" /\ WorkedOff(pl, p)) THEN pl
      ELSE IF planned = {} THEN ended
      ELSE [ended EXCEPT !.status[Min(planned)] = "IN_PROGRESS",
                         !.current = Min(planned)]

Turn(pl, n) == IF n \in Phases THEN Visit(pl, n) ELSE pl

Visits(pl) ==
  LET after[n \in 0 .. AutoPhase] == IF n = 0 THEN pl ELSE Turn(after[n - 1], n)
  IN  after

Loop(pl) == Visits(pl)[AutoPhase]

-----------------------------------------------------------------------------
(* add_enhancement, add_human_review_item, and the ad-hoc task that          *)
(* _resolve_task_identity adds to a phase without a pending task.            *)

AddEnhancement(pl, title) ==
  [pl EXCEPT !.backlog = Append(@, [title |-> title, status |-> "PROPOSED"])]

AddHumanReview(pl, t) == [pl EXCEPT !.queue = @ \cup {t}]

AddAdHoc(pl, p) == [pl EXCEPT !.tasks[p] = Append(@, New(TRUE))]

-----------------------------------------------------------------------------
(* auto_create_phase_from_enhancements *)

\* The proposed enhancements, the first one of each title.
Candidates(pl) ==
  {i \in DOMAIN pl.backlog :
     /\ pl.backlog[i].status = "PROPOSED"
     /\ \A j \in 1 .. i - 1 : pl.backlog[j].status = "PROPOSED" =>
                                pl.backlog[j].title # pl.backlog[i].title}

\* Mutant: the phase is made again when it exists.
AutoCreateAgain(pl) ==
  LET n == IF Candidates(pl) = {} THEN 1 ELSE Cardinality(Candidates(pl))
      prior == \A p \in Phases \ {AutoPhase} :
                 pl.status[p] \in {"ABSENT", "COMPLETE"}
  IN [pl EXCEPT
        !.status[AutoPhase] = IF prior THEN "IN_PROGRESS" ELSE "PLANNED",
        !.tasks[AutoPhase] = [i \in 1 .. n |-> New(FALSE)],
        !.current = IF prior THEN AutoPhase ELSE @]

\* One task for each candidate, or a single one.  The phase is active at once
\* if every earlier phase is complete.
AutoCreate(pl) ==
  IF pl.status[AutoPhase] # "ABSENT" THEN pl
  ELSE LET n == IF Candidates(pl) = {} THEN 1 ELSE Cardinality(Candidates(pl))
           prior == \A p \in Phases \ {AutoPhase} :
                      pl.status[p] \in {"ABSENT", "COMPLETE"}
       IN [pl EXCEPT
             !.status[AutoPhase] = IF prior THEN "IN_PROGRESS" ELSE "PLANNED",
             !.tasks[AutoPhase] = [i \in 1 .. n |-> New(FALSE)],
             !.current = IF prior THEN AutoPhase ELSE @,
             !.backlog = [i \in DOMAIN @ |->
                IF i \in Candidates(pl)
                THEN [@[i] EXCEPT !.status = "PLANNED_FOR_EXECUTION"]
                ELSE @[i]]]

-----------------------------------------------------------------------------
(* activate_phase *)

AlreadyActive(pl, p) ==
  pl.current = p /\ pl.status[p] \in {"IN_PROGRESS", "COMPLETE"}

MayActivate(pl, p, force) ==
  /\ pl.status[p] # "ABSENT"
  /\ \/ force
     \/ \A q \in Phases : q < p => pl.status[q] \in {"ABSENT", "COMPLETE"}

\* Mutant: the phase in progress is complete when another one is activated.
ActivateCompletes(pl, p) ==
  [pl EXCEPT !.status = [q \in Phases |->
                IF q = p THEN (IF @[p] = "COMPLETE" THEN @[p] ELSE "IN_PROGRESS")
                ELSE IF @[q] = "IN_PROGRESS" THEN "COMPLETE" ELSE @[q]],
             !.current = p]

\* The other phase in progress goes back to the plan, or ends if worked off.
Activated(pl, p) ==
  [pl EXCEPT !.status = [q \in Phases |->
                IF q = p THEN (IF @[p] = "COMPLETE" THEN @[p] ELSE "IN_PROGRESS")
                ELSE IF @[q] # "IN_PROGRESS" THEN @[q]
                ELSE IF WorkedOff(pl, q) THEN "COMPLETE" ELSE "PLANNED"],
             !.current = p]

Activate(pl, p, force) ==
  IF ~AlreadyActive(pl, p) /\ MayActivate(pl, p, force) THEN Activated(pl, p)
  ELSE pl

-----------------------------------------------------------------------------
(* What keeps a plan in order. *)

\* The phase in progress is the current phase, so there is at most one
\* (mark_task_complete, auto_create_phase_from_enhancements and
\* activate_phase each move both).
PlanActiveIsCurrent(pl) ==
  \A p \in Phases : pl.status[p] = "IN_PROGRESS" => pl.current = p

\* A complete phase has no task left to do, except one that a run added to
\* it later for its own use and that get_next_pending_task does not find.
PlanStrandedIsAdHoc(pl) ==
  \A t \in Pending(pl) :
    pl.status[t[1]] \in {"COMPLETE", "ABSENT"} => pl.tasks[t[1]][t[2]].auto

\* completed_tasks lists the complete tasks, each once, whoever completes
\* them and how often.
PlanCompletedOnce(pl) ==
  /\ {pl.completed[i] : i \in DOMAIN pl.completed} = Completed(pl)
  /\ \A i, j \in DOMAIN pl.completed :
       pl.completed[i] = pl.completed[j] => i = j
=============================================================================
