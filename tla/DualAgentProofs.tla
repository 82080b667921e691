--------------------------- MODULE DualAgentProofs ---------------------------
(***************************************************************************)
(* The plan stays in order under any number of runs, phases and tasks, any  *)
(* verdicts and any requests of the human, and it is a task board.          *)
(*                                                                         *)
(* Each operation of the plan keeps GoodPlan and is a move of the board     *)
(* (the lemmas on operators); each action applies one or two of them (the   *)
(* lemmas on steps).                                                        *)
(***************************************************************************)
EXTENDS DualAgent, FiniteSetTheorems, WellFoundedInduction, TLAPS

-----------------------------------------------------------------------------
(* Least and greatest phases. *)

LEMMA MinOfPhases ==
  ASSUME NEW S, S \subseteq Nat, S # {}
  PROVE  Min(S) \in S /\ \A y \in S : Min(S) <= y
<1> DEFINE Less == {p \in Nat \X Nat : p[1] < p[2]}
<1>1. IsWellFoundedOn(Less, Nat)
  <2>1. OpToRel(<, Nat) = Less
    BY SMT DEF OpToRel
  <2> QED
    BY <2>1, NatLessThanWellFounded
<1> HIDE DEF Less
<1>2. PICK x \in S : \A y \in S : ~(<<y, x>> \in Less)
  BY <1>1, WFMin, Zenon
<1>3. \A y \in S : x <= y
  <2> SUFFICES ASSUME NEW y \in S PROVE x <= y
    OBVIOUS
  <2>1. <<y, x>> \in Nat \X Nat /\ ~(<<y, x>> \in Less)
    BY <1>2
  <2>2. y < x => <<y, x>> \in Less
    BY <2>1 DEF Less
  <2> QED
    BY <2>1, <2>2
<1> QED
  BY <1>3 DEF Min

LEMMA MaxOfPhases ==
  ASSUME NEW S, S \subseteq Phases, S # {}
  PROVE  Max(S) \in S
<1> DEFINE Below == {AutoPhase - p : p \in S}
<1>1. Below \subseteq Nat /\ Below # {}
  <2>1. \A p \in S : p \in Nat /\ AutoPhase \in Nat /\ p <= AutoPhase
    BY PlanAssumption
  <2>2. \A p \in S : AutoPhase - p \in Nat
    BY <2>1
  <2> QED
    BY <2>2
<1>2. PICK p \in S : Min(Below) = AutoPhase - p
  BY <1>1, MinOfPhases
<1>3. \A q \in S : p >= q
  <2> SUFFICES ASSUME NEW q \in S PROVE p >= q
    OBVIOUS
  <2>1. \A y \in Below : AutoPhase - p <= y
    BY <1>1, <1>2, MinOfPhases
  <2>2. AutoPhase - p <= AutoPhase - q
    BY <2>1
  <2>3. p \in Nat /\ q \in Nat /\ AutoPhase \in Nat
    BY PlanAssumption
  <2> QED
    BY <2>2, <2>3
<1> QED
  BY <1>3 DEF Max

-----------------------------------------------------------------------------
(* The invariant of the plan: its type, the three parts that the runs check, *)
(* and that the phase to be made from the backlog has no tasks before.       *)

AbsentEmpty(pl) == pl.status[AutoPhase] = "ABSENT" => pl.tasks[AutoPhase] = <<>>

GoodPlan(pl) ==
  /\ pl \in Plans
  /\ PlanActiveIsCurrent(pl)
  /\ PlanStrandedIsAdHoc(pl)
  /\ PlanCompletedOnce(pl)
  /\ AbsentEmpty(pl)

\* A move of the board, after which nothing has left the review queue.
Move(pl, pk) ==
  /\ pl.queue \subseteq pk.queue
  /\ \/ Completed(pk) = Completed(pl) /\ Pending(pl) \subseteq Pending(pk)
     \/ \E t \in Pending(pl) : /\ Pending(pk) = Pending(pl) \ {t}
                               /\ Completed(pk) = Completed(pl) \cup {t}

LEMMA SameTasks ==
  ASSUME NEW pl, NEW pk, pk.tasks = pl.tasks
  PROVE  /\ TasksOf(pk) = TasksOf(pl)
         /\ Pending(pk) = Pending(pl)
         /\ Completed(pk) = Completed(pl)
BY DEF TasksOf, Pending, Completed, TaskStatus

LEMMA MoveThenSame ==
  ASSUME NEW pl, NEW pk, NEW pm, Move(pl, pk), pm.tasks = pk.tasks,
         pk.queue \subseteq pm.queue
  PROVE  Move(pl, pm)
BY SameTasks DEF Move

LEMMA Stay ==
  ASSUME NEW pl
  PROVE  Move(pl, pl)
BY DEF Move

LEMMA PlanFields ==
  ASSUME NEW pl \in Plans
  PROVE  /\ pl.status \in [Phases -> PhaseStatus]
         /\ pl.tasks \in [Phases -> Seq(Task)]
         /\ pl.current \in Nat
         /\ pl.backlog \in Seq(Enhancement)
         /\ pl.queue \subseteq Phases \X Nat
         /\ pl.completed \in Seq(TaskIds)
BY DEF Plans

LEMMA TaskFacts ==
  ASSUME NEW pl \in Plans, NEW t \in TasksOf(pl)
  PROVE  /\ t[1] \in Phases /\ t[2] \in DOMAIN pl.tasks[t[1]]
         /\ t = <<t[1], t[2]>> /\ t \in TaskIds
         /\ pl.tasks[t[1]][t[2]] \in Task
<1>1. PICK p \in Phases : t \in {p} \X DOMAIN pl.tasks[p]
  BY DEF TasksOf
<1>2. t = <<t[1], t[2]>> /\ t[1] = p /\ t[2] \in DOMAIN pl.tasks[p]
  BY <1>1
<1>3. pl.tasks[p] \in Seq(Task)
  BY PlanFields
<1> QED
  BY <1>2, <1>3 DEF TaskIds

LEMMA InTasks ==
  ASSUME NEW pl \in Plans, NEW p \in Phases, NEW i \in DOMAIN pl.tasks[p]
  PROVE  <<p, i>> \in TasksOf(pl)
BY DEF TasksOf

LEMMA TwoKinds ==
  ASSUME NEW pl \in Plans
  PROVE  /\ TasksOf(pl) = Pending(pl) \cup Completed(pl)
         /\ Pending(pl) \cap Completed(pl) = {}
BY TaskFacts DEF Pending, Completed, TaskStatus, Task

-----------------------------------------------------------------------------
(* Tick. *)

LEMMA TickFields ==
  ASSUME NEW pl \in Plans, NEW t \in TasksOf(pl)
  PROVE  /\ Tick(pl, t) \in Plans
         /\ Tick(pl, t).status = pl.status
         /\ Tick(pl, t).current = pl.current
         /\ Tick(pl, t).backlog = pl.backlog
         /\ Tick(pl, t).queue = pl.queue
         /\ Tick(pl, t).completed = IF InList(t, pl.completed) THEN pl.completed
                                    ELSE Append(pl.completed, t)
         /\ Tick(pl, t).tasks =
              [pl.tasks EXCEPT ![t[1]] =
                [pl.tasks[t[1]] EXCEPT ![t[2]] =
                  [pl.tasks[t[1]][t[2]] EXCEPT !.status = "COMPLETE"]]]
<1> DEFINE tasks == [pl.tasks EXCEPT ![t[1]] =
                [pl.tasks[t[1]] EXCEPT ![t[2]] =
                  [pl.tasks[t[1]][t[2]] EXCEPT !.status = "COMPLETE"]]]
           completed == IF InList(t, pl.completed) THEN pl.completed
                        ELSE Append(pl.completed, t)
<1>1. Tick(pl, t) = [pl EXCEPT !.tasks = tasks, !.completed = completed]
  BY TaskFacts, PlanFields DEF Tick, Plans
<1>2. [pl.tasks[t[1]][t[2]] EXCEPT !.status = "COMPLETE"] \in Task
  BY TaskFacts DEF Task
<1>3. pl.tasks[t[1]] \in Seq(Task) /\ t[2] \in DOMAIN pl.tasks[t[1]]
  BY TaskFacts, PlanFields
<1>4. [pl.tasks[t[1]] EXCEPT ![t[2]] =
         [pl.tasks[t[1]][t[2]] EXCEPT !.status = "COMPLETE"]] \in Seq(Task)
  BY <1>2, <1>3
<1>5. tasks \in [Phases -> Seq(Task)]
  BY <1>4, TaskFacts, PlanFields
<1>6. completed \in Seq(TaskIds)
  BY TaskFacts, PlanFields
<1> HIDE DEF tasks, completed
<1>7. /\ Tick(pl, t) \in Plans
      /\ Tick(pl, t).status = pl.status
      /\ Tick(pl, t).current = pl.current
      /\ Tick(pl, t).backlog = pl.backlog
      /\ Tick(pl, t).queue = pl.queue
      /\ Tick(pl, t).completed = completed
      /\ Tick(pl, t).tasks = tasks
  BY <1>1, <1>5, <1>6 DEF Plans
<1> QED
  BY <1>7 DEF tasks, completed

LEMMA TickTasks ==
  ASSUME NEW pl \in Plans, NEW t \in TasksOf(pl)
  PROVE  /\ TasksOf(Tick(pl, t)) = TasksOf(pl)
         /\ \A u \in TasksOf(pl) :
              /\ TaskStatus(Tick(pl, t), u) =
                   IF u = t THEN "COMPLETE" ELSE TaskStatus(pl, u)
              /\ Tick(pl, t).tasks[u[1]][u[2]].auto = pl.tasks[u[1]][u[2]].auto
         /\ \A p \in Phases : pl.tasks[p] = <<>> => Tick(pl, t).tasks[p] = <<>>
<1> DEFINE pk == Tick(pl, t)
<1>1. /\ pl.tasks \in [Phases -> Seq(Task)] /\ pk.tasks \in [Phases -> Seq(Task)]
      /\ t[1] \in Phases /\ t[2] \in DOMAIN pl.tasks[t[1]]
      /\ pl.tasks[t[1]][t[2]] \in Task
  BY TickFields, TaskFacts, PlanFields
<1>2. pk.tasks = [pl.tasks EXCEPT ![t[1]] =
                   [pl.tasks[t[1]] EXCEPT ![t[2]] =
                     [pl.tasks[t[1]][t[2]] EXCEPT !.status = "COMPLETE"]]]
  BY TickFields
<1> HIDE DEF pk
<1>3. \A p \in Phases : DOMAIN pk.tasks[p] = DOMAIN pl.tasks[p]
  BY <1>1, <1>2
<1>4. TasksOf(pk) = TasksOf(pl)
  BY <1>3 DEF TasksOf
<1>5. ASSUME NEW u \in TasksOf(pl)
      PROVE  /\ TaskStatus(pk, u) = IF u = t THEN "COMPLETE" ELSE TaskStatus(pl, u)
             /\ pk.tasks[u[1]][u[2]].auto = pl.tasks[u[1]][u[2]].auto
  <2>1. /\ u[1] \in Phases /\ u[2] \in DOMAIN pl.tasks[u[1]]
        /\ u = <<u[1], u[2]>> /\ t = <<t[1], t[2]>>
    BY TaskFacts
  <2>2. CASE u = t
    BY <1>1, <1>2, <2>1, <2>2 DEF TaskStatus, Task
  <2>3. CASE u[1] = t[1] /\ u[2] # t[2]
    <3>1. pk.tasks[u[1]][u[2]] = pl.tasks[u[1]][u[2]]
      BY <1>1, <1>2, <2>1, <2>3
    <3> QED
      BY <2>3, <3>1 DEF TaskStatus
  <2>4. CASE u[1] # t[1]
    <3>1. pk.tasks[u[1]] = pl.tasks[u[1]]
      BY <1>1, <1>2, <2>1, <2>4
    <3> QED
      BY <2>4, <3>1 DEF TaskStatus
  <2> QED
    BY <2>1, <2>2, <2>3, <2>4
<1>6. \A p \in Phases : pl.tasks[p] = <<>> => pk.tasks[p] = <<>>
  <2> SUFFICES ASSUME NEW p \in Phases, pl.tasks[p] = <<>>
               PROVE  pk.tasks[p] = <<>>
    OBVIOUS
  <2>1. pk.tasks[p] \in Seq(Task) /\ DOMAIN pk.tasks[p] = {}
    BY <1>1, <1>3
  <2>2. \A q \in Seq(Task) : DOMAIN q = {} => q = <<>>
    OBVIOUS
  <2> QED
    BY <2>1, <2>2
<1> QED
  BY <1>4, <1>5, <1>6 DEF pk

LEMMA TickSets ==
  ASSUME NEW pl \in Plans, NEW t \in TasksOf(pl)
  PROVE  /\ Pending(Tick(pl, t)) = Pending(pl) \ {t}
         /\ Completed(Tick(pl, t)) = Completed(pl) \cup {t}
BY TickTasks DEF Pending, Completed

LEMMA TickMove ==
  ASSUME NEW pl \in Plans, NEW t
  PROVE  Move(pl, Tick(pl, t))
<1>1. CASE t \notin TasksOf(pl)
  BY <1>1, Stay DEF Tick
<1>2. CASE t \in Pending(pl)
  <2>1. t \in TasksOf(pl)
    BY <1>2 DEF Pending
  <2> QED
    BY <1>2, <2>1, TickSets, TickFields DEF Move
<1>3. CASE t \in Completed(pl)
  <2>1. t \in TasksOf(pl) /\ t \notin Pending(pl)
    BY <1>3, TwoKinds DEF Completed
  <2>2. /\ Pending(Tick(pl, t)) = Pending(pl)
        /\ Completed(Tick(pl, t)) = Completed(pl)
    BY <1>3, <2>1, TickSets
  <2> QED
    BY <2>1, <2>2, TickFields DEF Move
<1> QED
  BY <1>1, <1>2, <1>3, TwoKinds

LEMMA TickGood ==
  ASSUME NEW pl, GoodPlan(pl), NEW t
  PROVE  GoodPlan(Tick(pl, t))
<1> DEFINE pk == Tick(pl, t)
<1>1. CASE t \notin TasksOf(pl)
  BY <1>1 DEF Tick
<1>2. CASE t \in TasksOf(pl)
  <2>1. pl \in Plans /\ pk \in Plans /\ pk.status = pl.status /\ pk.current = pl.current
    BY <1>2, TickFields DEF GoodPlan
  <2>2. PlanActiveIsCurrent(pk)
    BY <2>1 DEF GoodPlan, PlanActiveIsCurrent
  <2>3. PlanStrandedIsAdHoc(pk)
    <3> SUFFICES ASSUME NEW u \in Pending(pk),
                        pk.status[u[1]] \in {"COMPLETE", "ABSENT"}
                 PROVE  pk.tasks[u[1]][u[2]].auto
      BY DEF PlanStrandedIsAdHoc
    <3>1. u \in Pending(pl) /\ u \in TasksOf(pl)
      BY <1>2, <2>1, TickSets DEF Pending
    <3>2. pl.tasks[u[1]][u[2]].auto
      BY <2>1, <3>1 DEF GoodPlan, PlanStrandedIsAdHoc
    <3> QED
      BY <1>2, <2>1, <3>1, <3>2, TickTasks
  <2>4. PlanCompletedOnce(pk)
    <3> DEFINE s == pl.completed
    <3>1. s \in Seq(TaskIds) /\ t \in TaskIds
      BY <1>2, <2>1, PlanFields, TaskFacts
    <3>2. /\ {s[i] : i \in DOMAIN s} = Completed(pl)
          /\ \A i, j \in DOMAIN s : s[i] = s[j] => i = j
      BY DEF GoodPlan, PlanCompletedOnce
    <3>3. pk.completed = IF InList(t, s) THEN s ELSE Append(s, t)
      BY <1>2, <2>1, TickFields
    <3>4. Completed(pk) = Completed(pl) \cup {t}
      BY <1>2, <2>1, TickSets
    <3> HIDE DEF s, pk
    <3>5. CASE InList(t, s)
      BY <3>2, <3>3, <3>4, <3>5 DEF InList, PlanCompletedOnce
    <3>6. CASE ~InList(t, s)
      <4>1. /\ DOMAIN Append(s, t) = DOMAIN s \cup {Len(s) + 1}
            /\ Append(s, t)[Len(s) + 1] = t
            /\ \A i \in DOMAIN s : Append(s, t)[i] = s[i]
        BY <3>1
      <4>2. pk.completed = Append(s, t)
        BY <3>3, <3>6
      <4>3. {Append(s, t)[i] : i \in DOMAIN Append(s, t)} = Completed(pk)
        BY <3>2, <3>4, <4>1
      <4>4. \A i, j \in DOMAIN Append(s, t) : Append(s, t)[i] = Append(s, t)[j] => i = j
        BY <3>2, <3>6, <4>1 DEF InList
      <4> QED
        BY <4>2, <4>3, <4>4 DEF PlanCompletedOnce
    <3> QED
      BY <3>5, <3>6
  <2>5. AbsentEmpty(pk)
    BY <1>2, <2>1, TickTasks, PlanAssumption DEF GoodPlan, AbsentEmpty
  <2> QED
    BY <2>1, <2>2, <2>3, <2>4, <2>5 DEF GoodPlan
<1> QED
  BY <1>1, <1>2

-----------------------------------------------------------------------------
(* The operations on phases. *)

\* The status and the current phase are all that changes.
Restated(pl, status, current) ==
  [pl EXCEPT !.status = status, !.current = current]

MayRestate(pl, status, current) ==
  /\ status \in [Phases -> PhaseStatus] /\ current \in Nat
  /\ \A p \in Phases :
       /\ status[p] = "IN_PROGRESS" => current = p
       /\ status[p] = "COMPLETE" => pl.status[p] = "COMPLETE" \/ WorkedOff(pl, p)
       /\ status[p] = "ABSENT" <=> pl.status[p] = "ABSENT"

LEMMA Restatus ==
  ASSUME NEW pl, GoodPlan(pl), NEW status, NEW current,
         MayRestate(pl, status, current)
  PROVE  /\ GoodPlan(Restated(pl, status, current))
         /\ Restated(pl, status, current).tasks = pl.tasks
         /\ Restated(pl, status, current).queue = pl.queue
<1> DEFINE pk == Restated(pl, status, current)
<1> USE DEF MayRestate
<1>1. /\ pk \in Plans /\ pk.status = status /\ pk.current = current
      /\ pk.tasks = pl.tasks /\ pk.queue = pl.queue /\ pk.completed = pl.completed
  BY DEF GoodPlan, Plans, Restated
<1> HIDE DEF pk
<1>2. PlanActiveIsCurrent(pk)
  BY <1>1 DEF PlanActiveIsCurrent
<1>3. PlanStrandedIsAdHoc(pk)
  <2> SUFFICES ASSUME NEW t \in Pending(pk), pk.status[t[1]] \in {"COMPLETE", "ABSENT"}
               PROVE  pk.tasks[t[1]][t[2]].auto
    BY DEF PlanStrandedIsAdHoc
  <2>1. t \in Pending(pl) /\ t \in TasksOf(pl)
    BY <1>1, SameTasks DEF Pending
  <2>2. /\ t[1] \in Phases /\ t[2] \in DOMAIN pl.tasks[t[1]]
        /\ pl.tasks[t[1]][t[2]].status = "PENDING"
    BY <2>1, TaskFacts DEF GoodPlan, Pending, TaskStatus
  <2>3. ~WorkedOff(pl, t[1])
    BY <2>2 DEF WorkedOff
  <2>4. pl.status[t[1]] \in {"COMPLETE", "ABSENT"}
    BY <1>1, <2>2, <2>3
  <2> QED
    BY <1>1, <2>1, <2>4 DEF GoodPlan, PlanStrandedIsAdHoc
<1>4. PlanCompletedOnce(pk)
  <2>1. Completed(pk) = Completed(pl)
    BY <1>1, SameTasks
  <2> QED
    BY <1>1, <2>1 DEF GoodPlan, PlanCompletedOnce
<1>5. AbsentEmpty(pk)
  BY <1>1, PlanAssumption DEF GoodPlan, AbsentEmpty
<1> QED
  BY <1>1, <1>2, <1>3, <1>4, <1>5 DEF GoodPlan, pk

LEMMA AdvanceGood ==
  ASSUME NEW pl, GoodPlan(pl)
  PROVE  /\ GoodPlan(Advance(pl))
         /\ Advance(pl).tasks = pl.tasks /\ Advance(pl).queue = pl.queue
<1> DEFINE ending == {p \in Phases : pl.status[p] = "IN_PROGRESS" /\ WorkedOff(pl, p)}
           planned == {p \in Phases : pl.status[p] = "PLANNED"}
           passed == {p \in planned : \A q \in planned : q <= p =>
                        WorkedOff(pl, q) /\ \A e \in ending : e < q}
           left == planned \ passed
           status == [p \in Phases |->
                        IF p \in ending \cup passed THEN "COMPLETE"
                        ELSE IF left # {} /\ p = Min(left) THEN "IN_PROGRESS"
                        ELSE pl.status[p]]
           current == IF left # {} THEN Min(left)
                      ELSE IF passed # {} THEN Max(passed) ELSE pl.current
<1>1. CASE ending = {}
  BY <1>1 DEF Advance
<1>2. CASE ending # {}
  <2>1. Advance(pl) = Restated(pl, status, current)
    BY <1>2 DEF Advance, GoodPlan, Plans, Restated
  <2>2. /\ left # {} => Min(left) \in left
        /\ passed # {} => Max(passed) \in passed
        /\ left \subseteq Phases /\ passed \subseteq Phases /\ ending \subseteq Phases
        /\ passed \subseteq planned /\ left \subseteq planned
    BY MinOfPhases, MaxOfPhases, PlanAssumption
  <2>3. \A p \in passed : WorkedOff(pl, p)
    BY PlanAssumption
  <2>4. \A p \in Phases : pl.status[p] \in PhaseStatus /\ pl.current \in Nat
    BY PlanFields DEF GoodPlan
  <2>5. \A p \in Phases : pl.status[p] = "IN_PROGRESS" => p \in ending
    BY <1>2 DEF GoodPlan, PlanActiveIsCurrent
  <2>6. /\ \A p \in ending : pl.status[p] = "IN_PROGRESS" /\ WorkedOff(pl, p)
        /\ \A p \in planned : pl.status[p] = "PLANNED"
    OBVIOUS
  <2> HIDE DEF ending, planned, passed, left
  <2>7. status \in [Phases -> PhaseStatus]
    BY <2>4 DEF PhaseStatus
  <2>8. current \in Nat
    BY <2>2, <2>4, PlanAssumption
  <2>9. \A p \in Phases : status[p] = "IN_PROGRESS" => current = p
    BY <2>5
  <2>10. \A p \in Phases : status[p] = "COMPLETE" =>
           pl.status[p] = "COMPLETE" \/ WorkedOff(pl, p)
    BY <2>3, <2>6
  <2>11. \A p \in Phases : status[p] = "ABSENT" <=> pl.status[p] = "ABSENT"
    BY <2>2, <2>6
  <2> HIDE DEF status, current
  <2>12. MayRestate(pl, status, current)
    BY <2>7, <2>8, <2>9, <2>10, <2>11 DEF MayRestate
  <2> QED
    BY <2>1, <2>12, Restatus
<1> QED
  BY <1>1, <1>2

LEMMA MarkCompleteGood ==
  ASSUME NEW pl, GoodPlan(pl), NEW t
  PROVE  GoodPlan(MarkComplete(pl, t)) /\ Move(pl, MarkComplete(pl, t))
<1>1. GoodPlan(Tick(pl, t)) /\ Move(pl, Tick(pl, t))
  BY TickGood, TickMove DEF GoodPlan
<1> QED
  BY <1>1, AdvanceGood, MoveThenSame DEF MarkComplete

LEMMA ActivateGood ==
  ASSUME NEW pl, GoodPlan(pl), NEW p \in Phases, NEW force
  PROVE  /\ GoodPlan(Activate(pl, p, force))
         /\ Activate(pl, p, force).tasks = pl.tasks
         /\ Activate(pl, p, force).queue = pl.queue
<1> DEFINE status == [q \in Phases |->
                IF q = p THEN (IF pl.status[q] = "COMPLETE" THEN pl.status[q]
                               ELSE "IN_PROGRESS")
                ELSE IF pl.status[q] # "IN_PROGRESS" THEN pl.status[q]
                ELSE IF WorkedOff(pl, q) THEN "COMPLETE" ELSE "PLANNED"]
<1>1. CASE Activate(pl, p, force) = pl
  BY <1>1
<1>2. CASE pl.status[p] # "ABSENT" /\ Activate(pl, p, force) = Activated(pl, p)
  <2>1. Activated(pl, p) = Restated(pl, status, p)
    BY DEF Activated, GoodPlan, Plans, Restated
  <2>2. \A q \in Phases : pl.status[q] \in PhaseStatus
    BY PlanFields DEF GoodPlan
  <2>3. status \in [Phases -> PhaseStatus] /\ p \in Nat
    BY <2>2, PlanAssumption DEF PhaseStatus
  <2>4. /\ \A q \in Phases : status[q] = "IN_PROGRESS" => p = q
        /\ \A q \in Phases : status[q] = "COMPLETE" =>
             pl.status[q] = "COMPLETE" \/ WorkedOff(pl, q)
        /\ \A q \in Phases : status[q] = "ABSENT" <=> pl.status[q] = "ABSENT"
    BY <1>2
  <2> HIDE DEF status
  <2>5. MayRestate(pl, status, p)
    BY <2>3, <2>4 DEF MayRestate
  <2> QED
    BY <1>2, <2>1, <2>5, Restatus
<1> QED
  BY <1>1, <1>2 DEF Activate, MayActivate

-----------------------------------------------------------------------------
(* The operations that add something. *)

LEMMA AddEnhancementGood ==
  ASSUME NEW pl, GoodPlan(pl), NEW title \in Titles
  PROVE  /\ GoodPlan(AddEnhancement(pl, title))
         /\ AddEnhancement(pl, title).tasks = pl.tasks
         /\ AddEnhancement(pl, title).queue = pl.queue
<1> DEFINE pk == AddEnhancement(pl, title)
<1>1. [title |-> title, status |-> "PROPOSED"] \in Enhancement
  BY DEF Enhancement
<1>2. Append(pl.backlog, [title |-> title, status |-> "PROPOSED"]) \in Seq(Enhancement)
  BY <1>1, PlanFields DEF GoodPlan
<1>3. /\ pk \in Plans /\ pk.status = pl.status /\ pk.current = pl.current
      /\ pk.tasks = pl.tasks /\ pk.completed = pl.completed /\ pk.queue = pl.queue
  BY <1>2 DEF GoodPlan, Plans, AddEnhancement
<1> HIDE DEF pk
<1>4. Pending(pk) = Pending(pl) /\ Completed(pk) = Completed(pl)
  BY <1>3, SameTasks
<1>5. GoodPlan(pk)
  BY <1>3, <1>4 DEF GoodPlan, PlanActiveIsCurrent, PlanStrandedIsAdHoc,
                    PlanCompletedOnce, AbsentEmpty
<1> QED
  BY <1>3, <1>5 DEF pk

LEMMA AddHumanReviewGood ==
  ASSUME NEW pl, GoodPlan(pl), NEW t \in Phases \X Nat
  PROVE  /\ GoodPlan(AddHumanReview(pl, t))
         /\ AddHumanReview(pl, t).tasks = pl.tasks
         /\ AddHumanReview(pl, t).queue = pl.queue \cup {t}
<1> DEFINE pk == AddHumanReview(pl, t)
<1>1. /\ pk \in Plans /\ pk.status = pl.status /\ pk.current = pl.current
      /\ pk.tasks = pl.tasks /\ pk.completed = pl.completed
      /\ pk.queue = pl.queue \cup {t}
  BY DEF GoodPlan, Plans, AddHumanReview
<1> HIDE DEF pk
<1>2. Pending(pk) = Pending(pl) /\ Completed(pk) = Completed(pl)
  BY <1>1, SameTasks
<1>3. GoodPlan(pk)
  BY <1>1, <1>2 DEF GoodPlan, PlanActiveIsCurrent, PlanStrandedIsAdHoc,
                    PlanCompletedOnce, AbsentEmpty
<1> QED
  BY <1>1, <1>3 DEF pk

\* Pending tasks are added at the end of a phase.
Extends(q, s) ==
  /\ DOMAIN s \subseteq DOMAIN q
  /\ \A i \in DOMAIN s : q[i] = s[i]
  /\ \A i \in DOMAIN q \ DOMAIN s : q[i].status = "PENDING"

LEMMA NewTasks ==
  ASSUME NEW pl \in Plans, NEW pk \in Plans, NEW p \in Phases, NEW q,
         pk.tasks = [pl.tasks EXCEPT ![p] = q],
         Extends(q, pl.tasks[p]),
         pl.queue = pk.queue
  PROVE  /\ Completed(pk) = Completed(pl)
         /\ \A t \in Pending(pk) :
              \/ t \in Pending(pl) /\ pk.tasks[t[1]][t[2]] = pl.tasks[t[1]][t[2]]
              \/ t[1] = p /\ t[2] \in DOMAIN q \ DOMAIN pl.tasks[p]
         /\ Move(pl, pk)
<1>1. pl.tasks \in [Phases -> Seq(Task)] /\ pk.tasks[p] = q
  BY PlanFields
<1>2. \A r \in Phases : r # p => pk.tasks[r] = pl.tasks[r]
  BY <1>1
<1>3. ASSUME NEW t \in TasksOf(pl)
      PROVE  t \in TasksOf(pk) /\ pk.tasks[t[1]][t[2]] = pl.tasks[t[1]][t[2]]
  <2>1. t[1] \in Phases /\ t[2] \in DOMAIN pl.tasks[t[1]] /\ t = <<t[1], t[2]>>
    BY TaskFacts
  <2>2. t[2] \in DOMAIN pk.tasks[t[1]] /\ pk.tasks[t[1]][t[2]] = pl.tasks[t[1]][t[2]]
    BY <1>1, <1>2, <2>1 DEF Extends
  <2>3. <<t[1], t[2]>> \in TasksOf(pk)
    BY <2>1, <2>2, InTasks
  <2> QED
    BY <2>1, <2>2, <2>3
<1>4. ASSUME NEW t \in TasksOf(pk), t \notin TasksOf(pl)
      PROVE  /\ t[1] = p /\ t[2] \in DOMAIN q \ DOMAIN pl.tasks[p]
             /\ pk.tasks[t[1]][t[2]].status = "PENDING"
  <2>1. t[1] \in Phases /\ t[2] \in DOMAIN pk.tasks[t[1]] /\ t = <<t[1], t[2]>>
    BY TaskFacts
  <2>2. t[2] \notin DOMAIN pl.tasks[t[1]]
    BY <1>4, <2>1, InTasks
  <2>3. t[1] = p
    BY <1>2, <2>1, <2>2
  <2> QED
    BY <1>1, <2>1, <2>2, <2>3 DEF Extends
<1>5. Completed(pk) = Completed(pl)
  BY <1>3, <1>4 DEF Completed, TaskStatus
<1>6. Pending(pl) \subseteq Pending(pk)
  BY <1>3 DEF Pending, TaskStatus
<1>7. \A t \in Pending(pk) :
        \/ t \in Pending(pl) /\ pk.tasks[t[1]][t[2]] = pl.tasks[t[1]][t[2]]
        \/ t[1] = p /\ t[2] \in DOMAIN q \ DOMAIN pl.tasks[p]
  BY <1>3, <1>4 DEF Pending, TaskStatus
<1> QED
  BY <1>5, <1>6, <1>7 DEF Move

LEMMA Appended ==
  ASSUME NEW S, NEW s \in Seq(S), NEW x \in S
  PROVE  /\ Append(s, x) \in Seq(S)
         /\ DOMAIN Append(s, x) = DOMAIN s \cup {Len(s) + 1}
         /\ Append(s, x)[Len(s) + 1] = x
         /\ \A i \in DOMAIN s : Append(s, x)[i] = s[i]
OBVIOUS

LEMMA FunctionIsSeq ==
  ASSUME NEW S, NEW n \in Nat, NEW f \in [1 .. n -> S]
  PROVE  f \in Seq(S)
OBVIOUS

LEMMA AddAdHocGood ==
  ASSUME NEW pl, GoodPlan(pl), NEW p \in Phases, pl.status[p] # "ABSENT"
  PROVE  GoodPlan(AddAdHoc(pl, p)) /\ Move(pl, AddAdHoc(pl, p))
<1> DEFINE pk == AddAdHoc(pl, p)
           q == Append(pl.tasks[p], New(TRUE))
<1>1. New(TRUE) \in Task /\ New(TRUE).status = "PENDING" /\ New(TRUE).auto
  BY DEF New, Task
<1>2. pl.tasks[p] \in Seq(Task)
  BY PlanFields DEF GoodPlan
<1>3. /\ q \in Seq(Task)
      /\ DOMAIN q = DOMAIN pl.tasks[p] \cup {Len(pl.tasks[p]) + 1}
      /\ q[Len(pl.tasks[p]) + 1] = New(TRUE)
      /\ \A i \in DOMAIN pl.tasks[p] : q[i] = pl.tasks[p][i]
  <2> HIDE DEF q
  <2>1. q = Append(pl.tasks[p], New(TRUE))
    BY DEF q
  <2> QED
    <3> DEFINE s == pl.tasks[p]
               x == New(TRUE)
    <3>1. s \in Seq(Task) /\ x \in Task
      BY <1>1, <1>2
    <3>2. q = Append(s, x)
      BY <2>1
    <3> HIDE DEF s, x
    <3>3. /\ q \in Seq(Task)
          /\ DOMAIN q = DOMAIN s \cup {Len(s) + 1}
          /\ q[Len(s) + 1] = x
          /\ \A i \in DOMAIN s : q[i] = s[i]
      BY <3>1, <3>2, Appended
    <3> QED
      BY <3>3 DEF s, x
<1> HIDE DEF q
<1>4. \A i \in DOMAIN q \ DOMAIN pl.tasks[p] : q[i] = New(TRUE)
  BY <1>3
<1>5. q \in Seq(Task) /\ Extends(q, pl.tasks[p])
  BY <1>1, <1>3, <1>4 DEF Extends
<1>6. pl \in Plans
  BY DEF GoodPlan
<1>7. pk = [pl EXCEPT !.tasks = [pl.tasks EXCEPT ![p] = q]]
  BY <1>6 DEF AddAdHoc, Plans, q
<1>8. /\ pk \in Plans /\ pk.status = pl.status /\ pk.current = pl.current
      /\ pk.tasks = [pl.tasks EXCEPT ![p] = q]
      /\ pk.completed = pl.completed /\ pk.queue = pl.queue
  BY <1>5, <1>6, <1>7, ZenonT(60) DEF Plans
<1> HIDE DEF pk
<1>9. /\ Completed(pk) = Completed(pl) /\ Move(pl, pk)
      /\ \A t \in Pending(pk) :
           \/ t \in Pending(pl) /\ pk.tasks[t[1]][t[2]] = pl.tasks[t[1]][t[2]]
           \/ t[1] = p /\ t[2] \in DOMAIN q \ DOMAIN pl.tasks[p]
  BY <1>5, <1>6, <1>8, NewTasks
<1>10. pk.tasks[p] = q
  BY <1>8, <1>6, PlanFields
<1>11. PlanStrandedIsAdHoc(pk)
  <2> SUFFICES ASSUME NEW t \in Pending(pk), pk.status[t[1]] \in {"COMPLETE", "ABSENT"}
               PROVE  pk.tasks[t[1]][t[2]].auto
    BY DEF PlanStrandedIsAdHoc
  <2>1. CASE t \in Pending(pl) /\ pk.tasks[t[1]][t[2]] = pl.tasks[t[1]][t[2]]
    BY <1>8, <2>1 DEF GoodPlan, PlanStrandedIsAdHoc
  <2>2. CASE t[1] = p /\ t[2] \in DOMAIN q \ DOMAIN pl.tasks[p]
    BY <1>1, <1>4, <1>10, <2>2
  <2> QED
    BY <1>9, <2>1, <2>2
<1>12. AbsentEmpty(pk)
  BY <1>8, <1>6, PlanFields, PlanAssumption DEF GoodPlan, AbsentEmpty
<1>13. GoodPlan(pk)
  BY <1>8, <1>9, <1>11, <1>12 DEF GoodPlan, PlanActiveIsCurrent, PlanCompletedOnce
<1> QED
  BY <1>9, <1>13 DEF pk

LEMMA CandidatesFinite ==
  ASSUME NEW pl \in Plans
  PROVE  Cardinality(Candidates(pl)) \in Nat
<1>1. pl.backlog \in Seq(Enhancement)
  BY PlanFields
<1>2. Candidates(pl) \subseteq 1 .. Len(pl.backlog) /\ Len(pl.backlog) \in Nat
  BY <1>1 DEF Candidates
<1>3. IsFiniteSet(1 .. Len(pl.backlog))
  BY <1>2, FS_Interval
<1> QED
  BY <1>2, <1>3, FS_Subset, FS_CardinalityType

LEMMA AutoCreateGood ==
  ASSUME NEW pl, GoodPlan(pl)
  PROVE  GoodPlan(AutoCreate(pl)) /\ Move(pl, AutoCreate(pl))
<1> DEFINE n == IF Candidates(pl) = {} THEN 1 ELSE Cardinality(Candidates(pl))
           prior == \A p \in Phases \ {AutoPhase} : pl.status[p] \in {"ABSENT", "COMPLETE"}
           q == [i \in 1 .. n |-> New(FALSE)]
           begin == IF prior THEN "IN_PROGRESS" ELSE "PLANNED"
           current == IF prior THEN AutoPhase ELSE pl.current
           backlog == [i \in DOMAIN pl.backlog |->
                         IF i \in Candidates(pl)
                         THEN [pl.backlog[i] EXCEPT !.status = "PLANNED_FOR_EXECUTION"]
                         ELSE pl.backlog[i]]
           pk == AutoCreate(pl)
<1>1. CASE pl.status[AutoPhase] # "ABSENT"
  BY <1>1, Stay DEF AutoCreate
<1>2. CASE pl.status[AutoPhase] = "ABSENT"
  <2>1. pl \in Plans /\ AutoPhase \in Phases /\ AutoPhase \in Nat
    BY PlanAssumption DEF GoodPlan
  <2>2. n \in Nat
    BY <2>1, CandidatesFinite
  <2>3. New(FALSE) \in Task /\ New(FALSE).status = "PENDING"
    BY DEF New, Task
  <2> HIDE DEF n
  <2>4. q \in Seq(Task) /\ \A i \in DOMAIN q : q[i].status = "PENDING"
    <3>1. q \in [1 .. n -> Task]
      BY <2>3
    <3> QED
      BY <2>2, <2>3, <3>1, FunctionIsSeq
  <2>5. pl.tasks[AutoPhase] = <<>>
    BY <1>2 DEF GoodPlan, AbsentEmpty
  <2> HIDE DEF q
  <2>6. Extends(q, pl.tasks[AutoPhase])
    <3>1. DOMAIN pl.tasks[AutoPhase] = {}
      BY <2>5
    <3> QED
      BY <2>4, <3>1 DEF Extends
  <2>7. backlog \in Seq(Enhancement)
    <3>1. pl.backlog \in Seq(Enhancement)
      BY <2>1, PlanFields
    <3>2. \A e \in Enhancement :
            [e EXCEPT !.status = "PLANNED_FOR_EXECUTION"] \in Enhancement
      BY DEF Enhancement
    <3>3. /\ DOMAIN pl.backlog = 1 .. Len(pl.backlog) /\ Len(pl.backlog) \in Nat
          /\ \A i \in DOMAIN pl.backlog : pl.backlog[i] \in Enhancement
      BY <3>1
    <3>4. backlog \in [1 .. Len(pl.backlog) -> Enhancement]
      BY <3>2, <3>3
    <3> QED
      BY <3>3, <3>4, FunctionIsSeq
  <2> HIDE DEF backlog
  <2>8. pk = [pl EXCEPT !.status = [pl.status EXCEPT ![AutoPhase] = begin],
                        !.tasks = [pl.tasks EXCEPT ![AutoPhase] = q],
                        !.current = current, !.backlog = backlog]
    BY <1>2, <2>1 DEF AutoCreate, Plans, n, q, backlog
  <2>9. /\ current \in Nat
        /\ [pl.status EXCEPT ![AutoPhase] = begin] \in [Phases -> PhaseStatus]
        /\ [pl.tasks EXCEPT ![AutoPhase] = q] \in [Phases -> Seq(Task)]
    BY <2>1, <2>4, PlanFields DEF PhaseStatus
  <2>10. /\ pk \in Plans /\ pk.status = [pl.status EXCEPT ![AutoPhase] = begin]
         /\ pk.tasks = [pl.tasks EXCEPT ![AutoPhase] = q]
         /\ pk.current = current
         /\ pk.completed = pl.completed /\ pk.queue = pl.queue
    BY <2>1, <2>7, <2>8, <2>9 DEF Plans
  <2> HIDE DEF pk
  <2>11. /\ Completed(pk) = Completed(pl) /\ Move(pl, pk)
         /\ \A t \in Pending(pk) :
              \/ t \in Pending(pl) /\ pk.tasks[t[1]][t[2]] = pl.tasks[t[1]][t[2]]
              \/ t[1] = AutoPhase
    BY <2>1, <2>6, <2>10, NewTasks
  <2>12. /\ pk.status[AutoPhase] = begin
         /\ \A p \in Phases \ {AutoPhase} : pk.status[p] = pl.status[p]
    BY <2>1, <2>10, PlanFields
  <2>13. PlanActiveIsCurrent(pk)
    BY <2>10, <2>12 DEF GoodPlan, PlanActiveIsCurrent
  <2>14. PlanStrandedIsAdHoc(pk)
    <3> SUFFICES ASSUME NEW t \in Pending(pk), pk.status[t[1]] \in {"COMPLETE", "ABSENT"}
                 PROVE  pk.tasks[t[1]][t[2]].auto
      BY DEF PlanStrandedIsAdHoc
    <3>1. t[1] # AutoPhase /\ t \in Pending(pl)
          /\ pk.tasks[t[1]][t[2]] = pl.tasks[t[1]][t[2]]
      BY <2>11, <2>12
    <3>2. t[1] \in Phases
      BY <2>1, <3>1, TaskFacts DEF Pending
    <3> QED
      BY <2>12, <3>1, <3>2 DEF GoodPlan, PlanStrandedIsAdHoc
  <2>15. AbsentEmpty(pk)
    BY <2>12 DEF AbsentEmpty
  <2>16. GoodPlan(pk)
    BY <2>10, <2>11, <2>13, <2>14, <2>15 DEF GoodPlan, PlanCompletedOnce
  <2> QED
    BY <2>11, <2>16 DEF pk
<1> QED
  BY <1>1, <1>2

-----------------------------------------------------------------------------
(* The loop of mark_task_complete.  What it has done when it has met the     *)
(* phases up to n is told without the loop: nothing before it meets the      *)
(* phase that ends; then the planned phases it met in their order, all       *)
(* worked off, have ended with it and the next one has begun.                *)

\* The functions that Visits defines by recursion exist, one turn at a time.
LEMMA VisitsFacts ==
  ASSUME NEW pl
  PROVE  /\ Visits(pl)[0] = pl
         /\ \A n \in 1 .. AutoPhase : Visits(pl)[n] = Turn(Visits(pl)[n - 1], n)
<1> DEFINE Is(g, k) == g = [n \in 0 .. k |-> IF n = 0 THEN pl ELSE Turn(g[n - 1], n)]
           None == {k \in Nat : ~ \E g : Is(g, k)}
<1>1. ASSUME None # {} PROVE FALSE
  <2>1. PICK m \in None : \A k \in None : m <= k
    <3>1. None \subseteq Nat
      OBVIOUS
    <3> HIDE DEF None
    <3> QED
      BY <1>1, <3>1, MinOfPhases
  <2>2. m \in Nat /\ ~ \E g : Is(g, m)
    BY <2>1
  <2>3. m # 0
    <3>1. Is([n \in 0 .. 0 |-> pl], 0)
      OBVIOUS
    <3> QED
      BY <2>2, <3>1
  <2>4. m - 1 \in Nat /\ m - 1 \notin None
    <3> HIDE DEF None
    <3>1. m - 1 \in Nat /\ ~(m <= m - 1)
      BY <2>2, <2>3
    <3> QED
      BY <2>1, <3>1
  <2>5. PICK g : Is(g, m - 1)
    BY <2>4
  <2> DEFINE h == [n \in 0 .. m |-> IF n <= m - 1 THEN g[n] ELSE Turn(g[m - 1], m)]
  <2> HIDE DEF None
  <2>6. ASSUME NEW n \in 0 .. m
        PROVE  h[n] = IF n = 0 THEN pl ELSE Turn(h[n - 1], n)
    <3>1. CASE n = 0
      BY <2>2, <2>4, <2>5, <3>1
    <3>2. CASE n # 0 /\ n <= m - 1
      <4>1. n \in 0 .. (m - 1) /\ n - 1 \in 0 .. m /\ n - 1 <= m - 1
        BY <2>2, <3>2
      <4>2. h[n] = g[n] /\ h[n - 1] = g[n - 1]
        BY <3>2, <4>1
      <4>3. g[n] = Turn(g[n - 1], n)
        BY <2>5, <3>2, <4>1
      <4> QED
        BY <3>2, <4>2, <4>3
    <3>3. CASE n > m - 1
      <4>1. n = m /\ n - 1 \in 0 .. m /\ n - 1 <= m - 1
        BY <2>2, <2>4, <3>3
      <4>2. h[n] = Turn(g[m - 1], m) /\ h[n - 1] = g[m - 1]
        BY <3>3, <4>1
      <4> QED
        BY <2>3, <4>1, <4>2
    <3> QED
      BY <2>2, <3>1, <3>2, <3>3
  <2>7. h = [n \in 0 .. m |-> IF n = 0 THEN pl ELSE Turn(h[n - 1], n)]
    <3>1. h = [n \in 0 .. m |-> h[n]]
      OBVIOUS
    <3> HIDE DEF h
    <3> QED
      BY <2>6, <3>1
  <2> QED
    BY <2>2, <2>7
<1>2. AutoPhase \in Nat
  BY PlanAssumption
<1>3. \E g : g = [n \in 0 .. AutoPhase |-> IF n = 0 THEN pl ELSE Turn(g[n - 1], n)]
  BY <1>1, <1>2
<1> DEFINE v == Visits(pl)
<1>4. v = [n \in 0 .. AutoPhase |-> IF n = 0 THEN pl ELSE Turn(v[n - 1], n)]
  BY <1>3 DEF Visits
<1> HIDE DEF v
<1>5. v[0] = pl /\ \A n \in 1 .. AutoPhase : v[n] = Turn(v[n - 1], n)
  BY <1>2, <1>4
<1> QED
  BY <1>5 DEF v

Ending(pl) == {p \in Phases : pl.status[p] = "IN_PROGRESS" /\ WorkedOff(pl, p)}
Planned(pl) == {p \in Phases : pl.status[p] = "PLANNED"}
PassedTo(pl, n) ==
  {p \in Planned(pl) : /\ p <= n
                       /\ \A q \in Planned(pl) : q <= p =>
                            WorkedOff(pl, q) /\ \A e \in Ending(pl) : e < q}
LeftAt(pl, n) == Planned(pl) \ PassedTo(pl, n)
Begun(pl, n) == \E e \in Ending(pl) : e <= n
StatusAt(pl, n) ==
  [p \in Phases |->
     IF ~Begun(pl, n) THEN pl.status[p]
     ELSE IF p \in Ending(pl) \cup PassedTo(pl, n) THEN "COMPLETE"
     ELSE IF LeftAt(pl, n) # {} /\ p = Min(LeftAt(pl, n)) THEN "IN_PROGRESS"
     ELSE pl.status[p]]
CurrentAt(pl, n) ==
  IF ~Begun(pl, n) THEN pl.current
  ELSE IF LeftAt(pl, n) # {} THEN Min(LeftAt(pl, n))
  ELSE IF PassedTo(pl, n) # {} THEN Max(PassedTo(pl, n)) ELSE pl.current
Sofar(pl, n) == Restated(pl, StatusAt(pl, n), CurrentAt(pl, n))

\* A turn of the loop, told by the status and the current phase it finds.
Visited(pl, s, c, p, planned) ==
  IF ~(s[p] = "IN_PROGRESS" /\ WorkedOff(pl, p)) THEN Restated(pl, s, c)
  ELSE IF planned = {} THEN Restated(pl, [s EXCEPT ![p] = "COMPLETE"], c)
  ELSE Restated(pl, [[s EXCEPT ![p] = "COMPLETE"] EXCEPT ![Min(planned)] = "IN_PROGRESS"],
                Min(planned))

LEMMA VisitRestated ==
  ASSUME NEW pl \in Plans, NEW s \in [Phases -> PhaseStatus], NEW c \in Nat,
         NEW p \in Phases, NEW planned, \A q : q \in planned <=> q \in Phases /\ s[q] = "PLANNED"
  PROVE  Visit(Restated(pl, s, c), p) = Visited(pl, s, c, p, planned)
<1> DEFINE pk == Restated(pl, s, c)
<1>1. /\ pk.status = s /\ pk.tasks = pl.tasks
      /\ WorkedOff(pk, p) <=> WorkedOff(pl, p)
      /\ planned = {q \in Phases : pk.status[q] = "PLANNED"}
  BY DEF Restated, Plans, WorkedOff
<1>2. [pk EXCEPT !.status[p] = "COMPLETE"] = Restated(pl, [s EXCEPT ![p] = "COMPLETE"], c)
  BY DEF Restated, Plans
<1>3. [[pk EXCEPT !.status[p] = "COMPLETE"]
         EXCEPT !.status[Min(planned)] = "IN_PROGRESS", !.current = Min(planned)]
      = Restated(pl, [[s EXCEPT ![p] = "COMPLETE"] EXCEPT ![Min(planned)] = "IN_PROGRESS"],
                 Min(planned))
  BY DEF Restated, Plans
<1> HIDE DEF pk
<1> QED
  BY <1>1, <1>2, <1>3 DEF Visit, Visited, pk

LEMMA OneEnding ==
  ASSUME NEW pl, GoodPlan(pl), NEW e \in Ending(pl)
  PROVE  /\ Ending(pl) = {e} /\ e \in Phases /\ pl.status[e] = "IN_PROGRESS" /\ WorkedOff(pl, e)
         /\ \A p \in Phases : pl.status[p] = "IN_PROGRESS" => p = e
BY DEF Ending, GoodPlan, PlanActiveIsCurrent

LEMMA PhaseFacts ==
  ASSUME NEW pl, GoodPlan(pl)
  PROVE  /\ \A p \in Phases : p \in Nat /\ p # 0 /\ p <= AutoPhase
         /\ \A p \in Phases : pl.status[p] \in PhaseStatus
         /\ \A p \in Planned(pl) : p \in Phases /\ pl.status[p] = "PLANNED"
         /\ \A n : \A p \in PassedTo(pl, n) : p \in Planned(pl) /\ WorkedOff(pl, p) /\ p <= n
         /\ \A n : LeftAt(pl, n) # {} =>
              /\ Min(LeftAt(pl, n)) \in LeftAt(pl, n)
              /\ \A q \in LeftAt(pl, n) : Min(LeftAt(pl, n)) <= q
         /\ \A n : PassedTo(pl, n) # {} => Max(PassedTo(pl, n)) \in PassedTo(pl, n)
<1>1. /\ \A p \in Phases : p \in Nat /\ p # 0 /\ p <= AutoPhase
      /\ \A p \in Phases : pl.status[p] \in PhaseStatus
  BY PlanAssumption, PlanFields DEF GoodPlan
<1>2. \A p \in Planned(pl) : p \in Phases /\ pl.status[p] = "PLANNED"
  BY DEF Planned
<1>3. ASSUME NEW n, NEW p \in PassedTo(pl, n)
      PROVE  p \in Planned(pl) /\ WorkedOff(pl, p) /\ p <= n
  <2>1. p <= p
    BY <1>1, <1>2 DEF PassedTo
  <2> QED
    BY <2>1 DEF PassedTo
<1>4. ASSUME NEW n, LeftAt(pl, n) # {}
      PROVE  /\ Min(LeftAt(pl, n)) \in LeftAt(pl, n)
             /\ \A q \in LeftAt(pl, n) : Min(LeftAt(pl, n)) <= q
  <2>1. LeftAt(pl, n) \subseteq Nat
    BY <1>1, <1>2 DEF LeftAt
  <2> QED
    BY <1>4, <2>1, MinOfPhases
<1>5. ASSUME NEW n, PassedTo(pl, n) # {}
      PROVE  Max(PassedTo(pl, n)) \in PassedTo(pl, n)
  <2>1. PassedTo(pl, n) \subseteq Phases
    BY <1>2, <1>3
  <2> QED
    BY <1>5, <2>1, MaxOfPhases
<1> QED
  BY <1>1, <1>2, <1>3, <1>4, <1>5

LEMMA SofarTypes ==
  ASSUME NEW pl, GoodPlan(pl), NEW n
  PROVE  StatusAt(pl, n) \in [Phases -> PhaseStatus] /\ CurrentAt(pl, n) \in Nat
<1>1. \A p \in Phases : StatusAt(pl, n)[p] \in PhaseStatus
  BY PhaseFacts DEF StatusAt, PhaseStatus
<1>2. StatusAt(pl, n) \in [Phases -> PhaseStatus]
  BY <1>1 DEF StatusAt
<1>3. CurrentAt(pl, n) \in Nat
  BY PhaseFacts, PlanFields DEF CurrentAt, LeftAt, GoodPlan
<1> QED
  BY <1>2, <1>3

\* The planned phases that have been passed grow by the one that is met, if it
\* is the next one and worked off.
LEMMA PassedGrows ==
  ASSUME NEW pl, GoodPlan(pl), NEW n \in Nat, Begun(pl, n)
  PROVE  PassedTo(pl, n + 1) =
           IF LeftAt(pl, n) # {} /\ n + 1 = Min(LeftAt(pl, n)) /\ WorkedOff(pl, n + 1)
           THEN PassedTo(pl, n) \cup {n + 1} ELSE PassedTo(pl, n)
<1>1. PICK e \in Ending(pl) : e <= n
  BY DEF Begun
<1>2. /\ Ending(pl) = {e} /\ e \in Nat
      /\ \A p \in Planned(pl) : p \in Nat
  BY OneEnding, PhaseFacts
<1>3. PassedTo(pl, n) \subseteq PassedTo(pl, n + 1)
  BY <1>2 DEF PassedTo
<1>4. ASSUME NEW p \in PassedTo(pl, n + 1), p \notin PassedTo(pl, n)
      PROVE  p = n + 1 /\ LeftAt(pl, n) # {} /\ p = Min(LeftAt(pl, n)) /\ WorkedOff(pl, p)
  <2>1. p \in Planned(pl) /\ p <= n + 1 /\ WorkedOff(pl, p) /\ p \in Nat
    BY <1>2, PhaseFacts
  <2>2. ~(p <= n)
    BY <1>4, <2>1 DEF PassedTo
  <2>3. p = n + 1
    BY <2>1, <2>2
  <2>4. p \in LeftAt(pl, n)
    BY <1>4, <2>1 DEF LeftAt
  <2>5. ASSUME NEW q \in LeftAt(pl, n) PROVE p <= q
    <3>1. q \in Planned(pl) /\ q \notin PassedTo(pl, n) /\ q \in Nat
      BY <1>2 DEF LeftAt
    <3>2. ASSUME q <= n PROVE FALSE
      <4>1. \A r \in Planned(pl) : r <= q => r <= p
        BY <1>2, <2>3, <3>1, <3>2
      <4>2. \A r \in Planned(pl) : r <= q => WorkedOff(pl, r) /\ \A d \in Ending(pl) : d < r
        BY <4>1 DEF PassedTo
      <4> QED
        BY <3>1, <3>2, <4>2 DEF PassedTo
    <3> QED
      BY <2>3, <3>1, <3>2
  <2>6. Min(LeftAt(pl, n)) \in LeftAt(pl, n) /\ Min(LeftAt(pl, n)) <= p
    BY <2>4, PhaseFacts
  <2>7. Min(LeftAt(pl, n)) \in Nat /\ p <= Min(LeftAt(pl, n))
    BY <1>2, <2>5, <2>6 DEF LeftAt
  <2>8. p = Min(LeftAt(pl, n))
    BY <2>1, <2>6, <2>7
  <2> QED
    BY <2>1, <2>3, <2>4, <2>8
<1>5. ASSUME LeftAt(pl, n) # {}, n + 1 = Min(LeftAt(pl, n)), WorkedOff(pl, n + 1)
      PROVE  n + 1 \in PassedTo(pl, n + 1)
  <2>1. n + 1 \in Planned(pl) /\ \A q \in LeftAt(pl, n) : n + 1 <= q
    BY <1>5, PhaseFacts DEF LeftAt
  <2>2. ASSUME NEW q \in Planned(pl), q <= n + 1
        PROVE  WorkedOff(pl, q) /\ \A d \in Ending(pl) : d < q
    <3>1. CASE q = n + 1
      BY <1>1, <1>2, <1>5, <3>1
    <3>2. CASE q # n + 1
      <4>1. q \in Nat /\ ~(n + 1 <= q)
        BY <1>2, <2>2, <3>2
      <4>2. q \in PassedTo(pl, n)
        BY <2>1, <4>1 DEF LeftAt
      <4>3. q <= q
        BY <4>1
      <4> QED
        BY <4>2, <4>3 DEF PassedTo
    <3> QED
      BY <3>1, <3>2
  <2> QED
    BY <2>1, <2>2 DEF PassedTo
<1> QED
  BY <1>3, <1>4, <1>5

LEMMA TurnAt ==
  ASSUME NEW pl, GoodPlan(pl), NEW n \in Nat
  PROVE  Turn(Sofar(pl, n), n + 1) = Sofar(pl, n + 1)
<1> DEFINE p == n + 1
           planned == {q \in Phases : StatusAt(pl, n)[q] = "PLANNED"}
<1>1. pl \in Plans /\ StatusAt(pl, n) \in [Phases -> PhaseStatus] /\ CurrentAt(pl, n) \in Nat
  BY SofarTypes DEF GoodPlan
<1>2. ASSUME p \in Phases
      PROVE  Turn(Sofar(pl, n), p) =
        IF ~(StatusAt(pl, n)[p] = "IN_PROGRESS" /\ WorkedOff(pl, p)) THEN Sofar(pl, n)
        ELSE IF planned = {}
        THEN Restated(pl, [StatusAt(pl, n) EXCEPT ![p] = "COMPLETE"], CurrentAt(pl, n))
        ELSE Restated(pl, [[StatusAt(pl, n) EXCEPT ![p] = "COMPLETE"]
                             EXCEPT ![Min(planned)] = "IN_PROGRESS"],
                      Min(planned))
  <2>1. planned = {q \in Phases : StatusAt(pl, n)[q] = "PLANNED"}
    OBVIOUS
  <2> HIDE DEF p, planned
  <2>2. Turn(Sofar(pl, n), p) = Visit(Restated(pl, StatusAt(pl, n), CurrentAt(pl, n)), p)
    BY <1>2 DEF Turn, Sofar
  <2> DEFINE s == StatusAt(pl, n)
             c == CurrentAt(pl, n)
  <2>3. /\ pl \in Plans /\ s \in [Phases -> PhaseStatus] /\ c \in Nat /\ p \in Phases
        /\ \A q : q \in planned <=> q \in Phases /\ s[q] = "PLANNED"
    BY <1>1, <1>2, <2>1
  <2> HIDE DEF s, c
  <2>4. Visit(Restated(pl, s, c), p) = Visited(pl, s, c, p, planned)
    BY <2>3, VisitRestated
  <2> QED
    BY <2>2, <2>4 DEF Visited, Sofar, s, c
<1>3. CASE ~Begun(pl, p)
  <2>1. ~Begun(pl, n)
    BY <1>3, PhaseFacts DEF Begun, Ending
  <2>2. StatusAt(pl, p) = StatusAt(pl, n) /\ CurrentAt(pl, p) = CurrentAt(pl, n)
    BY <1>3, <2>1 DEF StatusAt, CurrentAt
  <2>3. p \in Phases => ~(StatusAt(pl, n)[p] = "IN_PROGRESS" /\ WorkedOff(pl, p))
    <3> SUFFICES ASSUME p \in Phases, StatusAt(pl, n)[p] = "IN_PROGRESS", WorkedOff(pl, p)
                 PROVE  FALSE
      OBVIOUS
    <3>1. p \in Ending(pl)
      BY <2>1 DEF StatusAt, Ending
    <3>2. p <= p
      OBVIOUS
    <3> QED
      BY <1>3, <3>1, <3>2 DEF Begun
  <2>4. Sofar(pl, p) = Sofar(pl, n)
    BY <2>2 DEF Sofar
  <2> QED
    BY <1>2, <2>3, <2>4 DEF Turn
<1>4. CASE ~Begun(pl, n) /\ Begun(pl, p)
  <2>1. PICK e \in Ending(pl) : e <= p
    BY <1>4 DEF Begun
  <2>2. e \in Phases /\ e \in Nat /\ ~(e <= n)
    BY <1>4, <2>1, PhaseFacts DEF Begun, Ending
  <2>3. e = p
    BY <2>1, <2>2
  <2>4. Ending(pl) = {p} /\ p \in Phases /\ pl.status[p] = "IN_PROGRESS" /\ WorkedOff(pl, p)
    <3> HIDE DEF p
    <3> QED
      BY <2>3, OneEnding
  <2>5. PassedTo(pl, p) = {} /\ LeftAt(pl, p) = Planned(pl)
    <3>1. ASSUME NEW q \in PassedTo(pl, p) PROVE FALSE
      <4>1. q \in Planned(pl) /\ q \in Nat /\ q <= p
        BY PhaseFacts
      <4>2. q <= q
        BY <4>1
      <4>3. p < q
        BY <2>4, <4>1, <4>2 DEF PassedTo
      <4> QED
        BY <4>1, <4>3
    <3> QED
      BY <3>1 DEF LeftAt
  <2>6. StatusAt(pl, n) = pl.status /\ CurrentAt(pl, n) = pl.current /\ planned = Planned(pl)
    <3>1. pl.status = [q \in Phases |-> pl.status[q]]
      BY PlanFields DEF GoodPlan
    <3>2. StatusAt(pl, n) = pl.status
      BY <1>4, <3>1 DEF StatusAt
    <3> QED
      BY <1>4, <3>2 DEF CurrentAt, Planned
  <2>7. p \notin Planned(pl)
    BY <2>4, PhaseFacts
  <2> HIDE DEF p, planned
  <2>8. CASE Planned(pl) = {}
    <3>1. CurrentAt(pl, p) = pl.current
      BY <1>4, <2>5, <2>8 DEF CurrentAt
    <3>2. StatusAt(pl, p) = [pl.status EXCEPT ![p] = "COMPLETE"]
      BY <1>4, <2>4, <2>5, <2>8, PlanFields DEF StatusAt, GoodPlan
    <3> QED
      BY <1>2, <2>4, <2>6, <2>8, <3>1, <3>2 DEF Sofar, p
  <2>9. CASE Planned(pl) # {}
    <3>1. Min(Planned(pl)) \in Planned(pl)
      BY <2>5, <2>9, PhaseFacts
    <3>2. CurrentAt(pl, p) = Min(Planned(pl))
      BY <1>4, <2>5, <2>9 DEF CurrentAt
    <3>3. StatusAt(pl, p) = [[pl.status EXCEPT ![p] = "COMPLETE"]
                               EXCEPT ![Min(Planned(pl))] = "IN_PROGRESS"]
      BY <1>4, <2>4, <2>5, <2>7, <2>9, <3>1, PlanFields DEF StatusAt, GoodPlan
    <3> QED
      BY <1>2, <2>4, <2>6, <2>9, <3>2, <3>3 DEF Sofar, p
  <2> QED
    BY <2>8, <2>9
<1>5. CASE Begun(pl, n)
  <2> DEFINE next == Min(LeftAt(pl, n))
  <2>1. PICK e \in Ending(pl) : e <= n
    BY <1>5 DEF Begun
  <2>2. /\ Ending(pl) = {e} /\ e \in Phases /\ e \in Nat /\ pl.status[e] = "IN_PROGRESS"
        /\ \A q \in Phases : pl.status[q] = "IN_PROGRESS" => q = e
    BY OneEnding, PhaseFacts
  <2>3. Begun(pl, p)
    BY <2>1, <2>2 DEF Begun
  <2>4. \A q \in LeftAt(pl, n) : /\ q \in Phases /\ pl.status[q] = "PLANNED"
                                 /\ q \notin Ending(pl) \cup PassedTo(pl, n)
    BY <2>2, PhaseFacts DEF LeftAt
  <2>5. LeftAt(pl, n) # {} => next \in LeftAt(pl, n)
    BY PhaseFacts
  <2>6. PassedTo(pl, p) = IF LeftAt(pl, n) # {} /\ p = next /\ WorkedOff(pl, p)
                          THEN PassedTo(pl, n) \cup {p} ELSE PassedTo(pl, n)
    BY <1>5, PassedGrows
  <2>7. \A q \in Phases : StatusAt(pl, n)[q] =
          IF q \in Ending(pl) \cup PassedTo(pl, n) THEN "COMPLETE"
          ELSE IF LeftAt(pl, n) # {} /\ q = next THEN "IN_PROGRESS" ELSE pl.status[q]
    BY <1>5 DEF StatusAt
  <2>8. \A q \in Phases : StatusAt(pl, p)[q] =
          IF q \in Ending(pl) \cup PassedTo(pl, p) THEN "COMPLETE"
          ELSE IF LeftAt(pl, p) # {} /\ q = Min(LeftAt(pl, p)) THEN "IN_PROGRESS"
          ELSE pl.status[q]
    BY <2>3 DEF StatusAt
  <2> HIDE DEF p, next, planned
  <2>9. ASSUME NEW q \in Phases
        PROVE  StatusAt(pl, n)[q] = "IN_PROGRESS" <=> LeftAt(pl, n) # {} /\ q = next
    BY <2>2, <2>4, <2>5, <2>7
  <2>10. CASE ~(LeftAt(pl, n) # {} /\ p = next /\ WorkedOff(pl, p))
    <3>1. PassedTo(pl, p) = PassedTo(pl, n) /\ LeftAt(pl, p) = LeftAt(pl, n)
      BY <2>6, <2>10 DEF LeftAt
    <3>2. StatusAt(pl, p) = StatusAt(pl, n) /\ CurrentAt(pl, p) = CurrentAt(pl, n)
      BY <1>5, <2>3, <3>1 DEF StatusAt, CurrentAt
    <3>3. p \in Phases => ~(StatusAt(pl, n)[p] = "IN_PROGRESS" /\ WorkedOff(pl, p))
      BY <2>9, <2>10
    <3>4. Sofar(pl, p) = Sofar(pl, n)
      BY <3>2 DEF Sofar
    <3>5. Turn(Sofar(pl, n), p) = Sofar(pl, n)
      BY <1>2, <3>3 DEF Turn, p
    <3> QED
      BY <3>4, <3>5 DEF p
  <2>11. CASE LeftAt(pl, n) # {} /\ p = next /\ WorkedOff(pl, p)
    <3>1. /\ PassedTo(pl, p) = PassedTo(pl, n) \cup {p}
          /\ LeftAt(pl, p) = LeftAt(pl, n) \ {p}
          /\ p \in LeftAt(pl, n) /\ p \in Phases
      BY <2>4, <2>5, <2>6, <2>11 DEF LeftAt
    <3>2. planned = LeftAt(pl, p)
      <4>1. ASSUME NEW q \in Phases
            PROVE  StatusAt(pl, n)[q] = "PLANNED" <=> q \in LeftAt(pl, n) /\ q # next
        BY <2>4, <2>5, <2>7, PhaseFacts DEF LeftAt, Planned
      <4> QED
        BY <2>4, <2>11, <3>1, <4>1 DEF planned
    <3>3. /\ LeftAt(pl, p) # {} => /\ Min(LeftAt(pl, p)) \in LeftAt(pl, p)
                                   /\ Min(LeftAt(pl, p)) \in Phases
                                   /\ Min(LeftAt(pl, p)) # p
      BY <2>4, <3>1, PhaseFacts
    <3>4. Turn(Sofar(pl, n), p) =
            IF planned = {}
            THEN Restated(pl, [StatusAt(pl, n) EXCEPT ![p] = "COMPLETE"], CurrentAt(pl, n))
            ELSE Restated(pl, [[StatusAt(pl, n) EXCEPT ![p] = "COMPLETE"]
                                 EXCEPT ![Min(planned)] = "IN_PROGRESS"],
                          Min(planned))
      BY <1>2, <2>9, <2>11, <3>1
    <3>5. CASE planned = {}
      <4>1. Max(PassedTo(pl, p)) = p
        <5>1. PassedTo(pl, p) # {} /\ PassedTo(pl, p) \subseteq Phases
          BY <3>1, PhaseFacts
        <5>2. /\ p \in PassedTo(pl, p) /\ \A q \in PassedTo(pl, p) : p >= q
              /\ \A q \in PassedTo(pl, p) : q \in Nat
          BY <3>1, <5>1, PhaseFacts DEF p
        <5>3. ASSUME NEW x \in PassedTo(pl, p), \A q \in PassedTo(pl, p) : x >= q
              PROVE  x = p
          BY <5>2, <5>3
        <5> QED
          BY <5>2, <5>3 DEF Max
      <4>2. CurrentAt(pl, p) = p /\ CurrentAt(pl, n) = p
        BY <1>5, <2>3, <2>11, <3>1, <3>2, <3>5, <4>1 DEF CurrentAt, next
      <4>3. StatusAt(pl, p) = [StatusAt(pl, n) EXCEPT ![p] = "COMPLETE"]
        <5>1. ASSUME NEW q \in Phases
              PROVE  StatusAt(pl, p)[q] = [StatusAt(pl, n) EXCEPT ![p] = "COMPLETE"][q]
          BY <1>1, <2>7, <2>8, <2>11, <3>1, <3>2, <3>5
        <5>2. StatusAt(pl, p) = [q \in Phases |-> StatusAt(pl, p)[q]]
          BY DEF StatusAt
        <5> QED
          BY <1>1, <5>1, <5>2
      <4> QED
        BY <3>4, <3>5, <4>2, <4>3 DEF Sofar, p
    <3>6. CASE planned # {}
      <4>1. CurrentAt(pl, p) = Min(planned)
        BY <2>3, <3>2, <3>6 DEF CurrentAt
      <4> DEFINE s == [[StatusAt(pl, n) EXCEPT ![p] = "COMPLETE"]
                          EXCEPT ![Min(planned)] = "IN_PROGRESS"]
      <4>2. StatusAt(pl, p) = s
        <5>1. ASSUME NEW q \in Phases PROVE StatusAt(pl, p)[q] = s[q]
          <6>1. CASE q = Min(planned)
            <7>1. q \notin Ending(pl) \cup PassedTo(pl, p)
              BY <2>4, <3>1, <3>2, <3>3, <3>6, <6>1
            <7> QED
              BY <1>1, <2>8, <3>2, <3>6, <6>1, <7>1
          <6>2. CASE q # Min(planned)
            BY <1>1, <2>7, <2>8, <2>11, <3>1, <3>2, <3>6, <6>2
          <6> QED
            BY <6>1, <6>2
        <5>2. StatusAt(pl, p) = [q \in Phases |-> StatusAt(pl, p)[q]]
          BY DEF StatusAt
        <5>3. s = [q \in Phases |-> s[q]]
          BY <1>1
        <5> HIDE DEF s
        <5> QED
          BY <5>1, <5>2, <5>3
      <4> QED
        BY <3>4, <3>6, <4>1, <4>2 DEF Sofar, p
    <3> QED
      BY <3>5, <3>6
  <2> QED
    BY <2>10, <2>11
<1> QED
  BY <1>3, <1>4, <1>5

\* Advance is what the loop has done in the end.
LEMMA LoopIsAdvance ==
  ASSUME NEW pl, GoodPlan(pl)
  PROVE  Loop(pl) = Advance(pl)
<1> DEFINE v == Visits(pl)
           Off == {n \in 0 .. AutoPhase : v[n] # Sofar(pl, n)}
<1>1. /\ AutoPhase \in Nat /\ AutoPhase \in Phases /\ v[0] = pl
      /\ \A n \in 1 .. AutoPhase : v[n] = Turn(v[n - 1], n)
  BY VisitsFacts, PlanAssumption
<1> HIDE DEF v
<1>2. Sofar(pl, 0) = pl
  <2>1. ~Begun(pl, 0)
    <3>1. ASSUME NEW q \in Ending(pl) PROVE ~(q <= 0)
      <4>1. q \in Phases
        BY DEF Ending
      <4>2. q \in Nat /\ q # 0
        BY <4>1, PhaseFacts
      <4> QED
        BY <4>2
    <3> QED
      BY <3>1 DEF Begun
  <2>2. StatusAt(pl, 0) = pl.status /\ CurrentAt(pl, 0) = pl.current
    BY <2>1, PlanFields DEF StatusAt, CurrentAt, GoodPlan
  <2> QED
    BY <2>2 DEF Sofar, Restated, GoodPlan, Plans
<1>3. Off = {}
  <2> SUFFICES ASSUME Off # {} PROVE FALSE
    OBVIOUS
  <2>1. PICK m \in Off : \A k \in Off : m <= k
    <3>1. Off \subseteq Nat
      BY <1>1
    <3> HIDE DEF Off
    <3> QED
      BY <3>1, MinOfPhases
  <2>2. m \in 0 .. AutoPhase /\ v[m] # Sofar(pl, m) /\ m \in Nat
    BY <1>1
  <2>3. m # 0
    BY <1>1, <1>2, <2>2
  <2>4. m - 1 \in Nat /\ m - 1 \in 0 .. AutoPhase /\ ~(m <= m - 1) /\ (m - 1) + 1 = m
        /\ m \in 1 .. AutoPhase
    BY <1>1, <2>2, <2>3
  <2>5. v[m - 1] = Sofar(pl, m - 1)
    BY <2>1, <2>4
  <2>6. Turn(Sofar(pl, m - 1), m) = Sofar(pl, m)
    BY <2>4, TurnAt
  <2> HIDE DEF Off
  <2> QED
    BY <1>1, <2>2, <2>4, <2>5, <2>6
<1>4. v[AutoPhase] = Sofar(pl, AutoPhase)
  BY <1>1, <1>3
<1>5. Sofar(pl, AutoPhase) = Advance(pl)
  <2> DEFINE passed == {p \in Planned(pl) : \A q \in Planned(pl) : q <= p =>
                          WorkedOff(pl, q) /\ \A e \in Ending(pl) : e < q}
             left == Planned(pl) \ passed
  <2>1. PassedTo(pl, AutoPhase) = passed /\ LeftAt(pl, AutoPhase) = left
    BY PhaseFacts DEF PassedTo, LeftAt
  <2>2. Begun(pl, AutoPhase) <=> Ending(pl) # {}
    BY PhaseFacts DEF Begun, Ending
  <2>3. Advance(pl) =
          IF Ending(pl) = {} THEN pl
          ELSE Restated(pl, [p \in Phases |->
                  IF p \in Ending(pl) \cup passed THEN "COMPLETE"
                  ELSE IF left # {} /\ p = Min(left) THEN "IN_PROGRESS" ELSE pl.status[p]],
                IF left # {} THEN Min(left) ELSE IF passed # {} THEN Max(passed)
                ELSE pl.current)
    BY DEF Advance, Ending, Planned, GoodPlan, Plans, Restated
  <2> HIDE DEF passed, left
  <2>4. CASE Ending(pl) = {}
    <3>1. StatusAt(pl, AutoPhase) = StatusAt(pl, 0) /\ CurrentAt(pl, AutoPhase) = CurrentAt(pl, 0)
      BY <2>4 DEF StatusAt, CurrentAt, Begun
    <3> QED
      BY <1>2, <2>3, <2>4, <3>1 DEF Sofar
  <2>5. CASE Ending(pl) # {}
    BY <2>1, <2>2, <2>3, <2>5 DEF Sofar, StatusAt, CurrentAt
  <2> QED
    BY <2>4, <2>5
<1> QED
  BY <1>4, <1>5 DEF Loop, v

-----------------------------------------------------------------------------
(* The invariant of the workflow. *)

RunInv(r) ==
  /\ pc[r] \in {"idle", "done", "dead"} => round[r] = 0
  /\ pc[r] = "designer" => round[r] < MaxRounds
  /\ pc[r] \in Live => task[r] \in Phases \X Nat
  /\ pc[r] \in {"mail", "gated", "finish"} /\ verdict[r] = "HUMAN_REVIEW_REQUIRED"
       => task[r] \in plan.queue
  /\ rows[r] = "paused" =>
       pc[r] \in {"finish", "done", "dead"} /\ task[r] \in plan.queue

IInv ==
  /\ TypeOK
  /\ GoodPlan(plan)
  /\ \A r \in Runs : RunInv(r)

\* What a step does to the plan.
PlanStep == GoodPlan(plan') /\ Move(plan, plan')

LEMMA OtherRun ==
  ASSUME NEW r \in Runs, RunInv(r), plan.queue \subseteq plan'.queue,
         pc'[r] = pc[r], round'[r] = round[r], task'[r] = task[r],
         verdict'[r] = verdict[r], rows'[r] = rows[r]
  PROVE  RunInv(r)'
BY DEF RunInv

LEMMA NextPendingType ==
  ASSUME NEW pl \in Plans, NextPending(pl) # NoTask
  PROVE  NextPending(pl) \in Phases \X Nat
<1>1. ASSUME NEW p \in OpenPhases(pl) PROVE FirstPending(pl, p) \in Phases \X Nat
  <2> DEFINE S == {i \in DOMAIN pl.tasks[p] : pl.tasks[p][i].status = "PENDING"}
  <2>1. p \in Phases /\ S # {}
    BY DEF OpenPhases
  <2>2. S \subseteq Nat
    BY <2>1, PlanFields
  <2>3. Min(S) \in Nat
    BY <2>1, <2>2, MinOfPhases
  <2> QED
    BY <2>1, <2>3 DEF FirstPending
<1>2. OpenPhases(pl) # {} => Min(OpenPhases(pl)) \in OpenPhases(pl)
  <2>1. OpenPhases(pl) \subseteq Nat
    BY PlanAssumption DEF OpenPhases
  <2> QED
    BY <2>1, MinOfPhases
<1> QED
  BY <1>1, <1>2 DEF NextPending

LEMMA InitInv == Init => IInv
<1> SUFFICES ASSUME Init PROVE IInv
  OBVIOUS
<1>1. GoodPlan(plan)
  <2>1. PlanOK(plan)
    BY InitialPlansAssumption DEF Init
  <2>2. PlanCompletedOnce(plan)
    <3>1. plan.completed = <<>> /\ Completed(plan) = {}
      BY <2>1 DEF PlanOK
    <3>2. DOMAIN plan.completed = {}
      BY <3>1
    <3> QED
      BY <3>1, <3>2 DEF PlanCompletedOnce
  <2> QED
    BY <2>1, <2>2 DEF PlanOK, GoodPlan, AbsentEmpty
<1>2. TypeOK
  <2>1. GraphOpts \in Opts
    BY DEF GraphOpts, Opts
  <2>2. NoTask \in (Phases \cup {0}) \X Nat
    BY DEF NoTask
  <2> QED
    BY <1>1, <2>1, <2>2, DualAssumption DEF Init, TypeOK, GoodPlan, Statuses, Pcs
<1>3. \A r \in Runs : RunInv(r)
  BY DEF Init, RunInv, Live
<1> QED
  BY <1>1, <1>2, <1>3 DEF IInv

-----------------------------------------------------------------------------
(* The steps. *)

\* The steps of one run touch no other.
LEMMA RunsInv ==
  ASSUME IInv, NEW r \in Runs, RunInv(r)', plan.queue \subseteq plan'.queue,
         \A q \in Runs \ {r} :
           /\ pc'[q] = pc[q] /\ round'[q] = round[q] /\ task'[q] = task[q]
           /\ verdict'[q] = verdict[q] /\ rows'[q] = rows[q]
  PROVE  \A q \in Runs : RunInv(q)'
BY OtherRun DEF IInv

LEMMA StartInv ==
  ASSUME IInv, NEW r \in Runs, Start(r)
  PROVE  IInv' /\ PlanStep
<1> DEFINE pl == IF NextPending(plan) = NoTask THEN AutoCreate(plan) ELSE plan
<1>1. GoodPlan(pl) /\ Move(plan, pl)
  BY AutoCreateGood, Stay DEF IInv
<1>2. plan' = pl /\ NextPending(pl) # NoTask /\ task' = [task EXCEPT ![r] = NextPending(pl)]
  BY DEF Start
<1> HIDE DEF pl
<1>3. NextPending(pl) \in Phases \X Nat
  BY <1>1, <1>2, NextPendingType DEF GoodPlan
<1>4. GraphOpts \in Opts
  BY DEF GraphOpts, Opts
<1>5. TypeOK'
  BY <1>1, <1>2, <1>3, <1>4 DEF IInv, TypeOK, Start, GoodPlan, Statuses, Pcs, Live
<1>6. RunInv(r)'
  BY <1>2, <1>3, DualAssumption DEF IInv, TypeOK, RunInv, Start, Live
<1>7. \A q \in Runs : RunInv(q)'
  BY <1>1, <1>2, <1>6, RunsInv DEF Start, IInv, TypeOK, Move
<1> QED
  BY <1>1, <1>2, <1>5, <1>7 DEF IInv, PlanStep

LEMMA ResolveGood ==
  ASSUME IInv, NEW p \in Phases
  PROVE  /\ GoodPlan(ResolveTask(p).plan) /\ Move(plan, ResolveTask(p).plan)
         /\ ResolveTask(p).task \in Phases \X Nat
<1>1. plan \in Plans /\ GoodPlan(plan)
  BY DEF IInv, GoodPlan
<1>2. plan.tasks[p] \in Seq(Task)
  BY <1>1, PlanFields
<1> DEFINE S == {i \in DOMAIN plan.tasks[p] : plan.tasks[p][i].status = "PENDING"}
<1>3. S # {} => FirstPending(plan, p) \in Phases \X Nat
  <2>1. S \subseteq Nat
    BY <1>2
  <2>2. S # {} => Min(S) \in Nat
    BY <2>1, MinOfPhases
  <2> QED
    BY <2>2 DEF FirstPending
<1>4. CASE plan.status[p] = "ABSENT"
  BY <1>1, <1>4, Stay DEF ResolveTask
<1>5. CASE plan.status[p] # "ABSENT" /\ S # {}
  BY <1>1, <1>3, <1>5, Stay DEF ResolveTask
<1>6. CASE plan.status[p] # "ABSENT" /\ S = {}
  <2>1. ResolveTask(p) = [plan |-> AddAdHoc(plan, p), task |-> <<p, Len(plan.tasks[p]) + 1>>]
    BY <1>6 DEF ResolveTask
  <2> QED
    BY <1>1, <1>2, <1>6, <2>1, AddAdHocGood
<1> QED
  BY <1>4, <1>5, <1>6

LEMMA RunRequestInv ==
  ASSUME IInv, NEW r \in Runs, RunRequest(r)
  PROVE  IInv' /\ PlanStep
<1>1. PICK p \in Phases, o \in AsyncOpts :
        /\ plan' = ResolveTask(p).plan
        /\ task' = [task EXCEPT ![r] = ResolveTask(p).task]
        /\ opts' = [opts EXCEPT ![r] = o]
  BY DEF RunRequest
<1>2. GoodPlan(plan') /\ Move(plan, plan') /\ ResolveTask(p).task \in Phases \X Nat
  BY <1>1, ResolveGood
<1>3. o \in Opts
  BY DEF AsyncOpts
<1>4. TypeOK'
  BY <1>1, <1>2, <1>3 DEF IInv, TypeOK, RunRequest, GoodPlan, Statuses, Pcs, Live
<1>5. RunInv(r)'
  BY <1>1, <1>2, DualAssumption DEF IInv, TypeOK, RunInv, RunRequest, Live
<1>6. \A q \in Runs : RunInv(q)'
  BY <1>1, <1>2, <1>5, RunsInv DEF RunRequest, IInv, TypeOK, Move
<1> QED
  BY <1>2, <1>4, <1>6 DEF IInv, PlanStep

LEMMA ReviewInv ==
  ASSUME IInv, NEW r \in Runs, Review(r)
  PROVE  IInv' /\ PlanStep
<1>1. PICK v \in Verdicts :
        /\ verdict' = [verdict EXCEPT ![r] = v]
        /\ \/ plan' = Judged(plan, v, task[r])
           \/ /\ v = "APPROVED"
              /\ \E title \in Titles :
                   plan' = AddEnhancement(Judged(plan, v, task[r]), title)
  BY DEF Review
<1>2. pc[r] = "designer" /\ task[r] \in Phases \X Nat /\ round[r] < MaxRounds
  BY DEF Review, IInv, RunInv, Live
<1>3. /\ GoodPlan(Judged(plan, v, task[r])) /\ Move(plan, Judged(plan, v, task[r]))
      /\ v = "HUMAN_REVIEW_REQUIRED" => task[r] \in Judged(plan, v, task[r]).queue
  <2>1. GoodPlan(plan)
    BY DEF IInv
  <2>2. CASE v = "APPROVED"
    BY <2>1, <2>2, MarkCompleteGood DEF Judged
  <2>3. CASE v = "HUMAN_REVIEW_REQUIRED"
    <3>1. /\ GoodPlan(AddHumanReview(plan, task[r]))
          /\ AddHumanReview(plan, task[r]).tasks = plan.tasks
          /\ AddHumanReview(plan, task[r]).queue = plan.queue \cup {task[r]}
      BY <1>2, <2>1, AddHumanReviewGood
    <3>2. Move(plan, AddHumanReview(plan, task[r]))
      BY <3>1, Stay, MoveThenSame
    <3> QED
      BY <2>3, <3>1, <3>2 DEF Judged
  <2>4. CASE v # "APPROVED" /\ v # "HUMAN_REVIEW_REQUIRED"
    BY <2>1, <2>4, Stay DEF Judged
  <2> QED
    BY <2>2, <2>3, <2>4
<1>4. /\ GoodPlan(plan') /\ Move(plan, plan')
      /\ v = "HUMAN_REVIEW_REQUIRED" => task[r] \in plan'.queue
  <2>1. CASE plan' = Judged(plan, v, task[r])
    BY <1>3, <2>1
  <2>2. ASSUME NEW title \in Titles, v = "APPROVED",
               plan' = AddEnhancement(Judged(plan, v, task[r]), title)
        PROVE  GoodPlan(plan') /\ Move(plan, plan')
    BY <1>3, <2>2, AddEnhancementGood, MoveThenSame
  <2> QED
    BY <1>1, <2>1, <2>2
<1>5. TypeOK'
  BY <1>1, <1>2, <1>4, DualAssumption
     DEF IInv, TypeOK, Review, GoodPlan, Pcs, Live
<1>6. RunInv(r)'
  BY <1>1, <1>2, <1>4 DEF IInv, TypeOK, RunInv, Review, Live, Move
<1>7. /\ round' = [round EXCEPT ![r] = round[r] + 1]
      /\ pc' = [pc EXCEPT ![r] = "mail"]
      /\ rows' = rows /\ task' = task
  BY DEF Review
<1>8. \A q \in Runs \ {r} :
        /\ pc'[q] = pc[q] /\ round'[q] = round[q] /\ task'[q] = task[q]
        /\ verdict'[q] = verdict[q] /\ rows'[q] = rows[q]
  BY <1>1, <1>7 DEF IInv, TypeOK
<1>9. \A q \in Runs : RunInv(q)'
  BY <1>4, <1>6, <1>8, RunsInv DEF Move
<1> QED
  BY <1>4, <1>5, <1>9 DEF IInv, PlanStep

LEMMA ReviewFailsInv ==
  ASSUME IInv, NEW r \in Runs, ReviewFails(r)
  PROVE  IInv' /\ PlanStep
<1>1. TypeOK'
  BY DualAssumption DEF IInv, TypeOK, ReviewFails, Forget, Pcs, GraphOpts, Opts
<1>2. RunInv(r)'
  BY DEF IInv, TypeOK, RunInv, ReviewFails, Forget, Live
<1>3. \A q \in Runs : RunInv(q)'
  BY <1>2, RunsInv DEF ReviewFails, Forget, IInv, TypeOK
<1> QED
  BY <1>1, <1>3, Stay DEF IInv, PlanStep, ReviewFails

LEMMA ForceGateInv ==
  ASSUME IInv, NEW r \in Runs, ForceGate(r)
  PROVE  IInv' /\ PlanStep
<1>1. pc[r] = "mail" /\ task[r] \in Phases \X Nat /\ GoodPlan(plan)
  BY DEF ForceGate, IInv, RunInv, Live
<1>2. /\ GoodPlan(plan') /\ plan'.tasks = plan.tasks
      /\ plan'.queue = plan.queue \cup {task[r]}
  BY <1>1, AddHumanReviewGood DEF ForceGate
<1>3. Move(plan, plan')
  BY <1>2, Stay, MoveThenSame
<1>4. TypeOK'
  BY <1>2 DEF IInv, TypeOK, ForceGate, GoodPlan, Pcs, Live
<1>5. RunInv(r)'
  BY <1>1, <1>2 DEF IInv, TypeOK, RunInv, ForceGate, Live
<1>6. \A q \in Runs : RunInv(q)'
  BY <1>2, <1>5, RunsInv DEF ForceGate, IInv, TypeOK
<1> QED
  BY <1>2, <1>3, <1>4, <1>6 DEF IInv, PlanStep

LEMMA DecideInv ==
  ASSUME IInv, NEW r \in Runs, Decide(r)
  PROVE  IInv' /\ PlanStep
<1>1. /\ pc[r] \in {"mail", "gated"} /\ task[r] \in Phases \X Nat
      /\ round[r] \in 0 .. MaxRounds /\ RunInv(r)
  BY DEF Decide, Decides, IInv, TypeOK, RunInv, Live
<1>2. TakesNext(r) =>
        NextPending(plan) \in Phases \X Nat /\ verdict[r] = "APPROVED"
  BY NextPendingType DEF TakesNext, IInv, GoodPlan
<1>3. GoesOn(r) => (opts[r].kind = "graph" /\ TakesNext(r)) \/ round[r] < MaxRounds
  BY DEF GoesOn
<1>4. TypeOK'
  BY <1>1, <1>2, DualAssumption
     DEF IInv, TypeOK, Decide, Pcs, Live, Statuses, Outcome
<1>5. /\ task'[r] = IF TakesNext(r) THEN NextPending(plan) ELSE task[r]
      /\ round'[r] = IF TakesNext(r) /\ opts[r].kind = "graph" THEN 0 ELSE round[r]
      /\ pc'[r] = IF GoesOn(r) THEN "designer" ELSE "finish"
      /\ rows'[r] = IF GoesOn(r) \/ opts[r].kind = "graph" THEN rows[r] ELSE Outcome(r)
      /\ plan' = plan /\ verdict' = verdict
  <2>1. /\ task \in [Runs -> (Phases \cup {0}) \X Nat] /\ pc \in [Runs -> Pcs]
        /\ rows \in [Runs -> Statuses]
    BY DEF IInv, TypeOK
  <2>2. r \in DOMAIN round
    BY DEF IInv, TypeOK
  <2> QED
    BY <2>1, <2>2 DEF Decide
<1>6. RunInv(r)'
  BY <1>1, <1>2, <1>3, <1>5, DualAssumption DEF RunInv, Outcome
<1>7. \A q \in Runs : RunInv(q)'
  BY <1>6, RunsInv DEF Decide, IInv, TypeOK
<1> QED
  BY <1>4, <1>5, <1>7, Stay DEF IInv, PlanStep

LEMMA FinishInv ==
  ASSUME IInv, NEW r \in Runs, Finish(r)
  PROVE  IInv' /\ PlanStep
<1>1. TypeOK'
  BY DualAssumption
     DEF IInv, TypeOK, Finish, Forget, Pcs, GraphOpts, Opts, Statuses, Outcome
<1>2. RunInv(r)'
  BY DEF IInv, TypeOK, RunInv, Finish, Forget, Live, Outcome
<1>3. \A q \in Runs : RunInv(q)'
  BY <1>2, RunsInv DEF Finish, Forget, IInv, TypeOK
<1> QED
  BY <1>1, <1>3, Stay DEF IInv, PlanStep, Finish

LEMMA HumanInv ==
  ASSUME IInv, HumanActs, PlanStep
  PROVE  IInv'
<1>1. TypeOK'
  BY DualAssumption DEF IInv, TypeOK, HumanActs, PlanStep, GoodPlan
<1>2. \A r \in Runs : RunInv(r)'
  BY OtherRun DEF IInv, HumanActs, PlanStep, Move
<1> QED
  BY <1>1, <1>2 DEF IInv, PlanStep

LEMMA ApproveInv == IInv /\ Approve => IInv' /\ PlanStep
BY HumanInv, MarkCompleteGood DEF Approve, IInv, PlanStep

LEMMA AutoCreatePhaseInv == IInv /\ AutoCreatePhase => IInv' /\ PlanStep
<1> SUFFICES ASSUME IInv, AutoCreatePhase PROVE PlanStep
  BY HumanInv DEF AutoCreatePhase
<1>1. GoodPlan(AutoCreate(plan)) /\ Move(plan, AutoCreate(plan))
  BY AutoCreateGood DEF IInv
<1>2. ASSUME NEW force \in BOOLEAN,
             plan' = Activate(AutoCreate(plan), AutoPhase, force)
      PROVE  PlanStep
  BY <1>1, <1>2, ActivateGood, MoveThenSame, PlanAssumption DEF PlanStep
<1> QED
  BY <1>1, <1>2 DEF AutoCreatePhase, PlanStep

LEMMA ActivatePhaseInv == IInv /\ ActivatePhase => IInv' /\ PlanStep
<1> SUFFICES ASSUME IInv, ActivatePhase PROVE PlanStep
  BY HumanInv DEF ActivatePhase
<1>1. PICK p \in Phases, force \in BOOLEAN : plan' = Activate(plan, p, force)
  BY DEF ActivatePhase
<1>2. GoodPlan(plan) /\ Move(plan, plan)
  BY Stay DEF IInv
<1> QED
  BY <1>1, <1>2, ActivateGood, MoveThenSame DEF PlanStep

LEMMA CrashInv == IInv /\ Crash => IInv' /\ PlanStep
<1> SUFFICES ASSUME IInv, Crash PROVE IInv' /\ PlanStep
  OBVIOUS
<1>1. TypeOK'
  BY DualAssumption
     DEF IInv, TypeOK, Crash, Forget, Pcs, Live, GraphOpts, Opts, Statuses
<1>2. \A r \in Runs : RunInv(r)'
  BY DEF IInv, TypeOK, RunInv, Crash, Forget, Live, Pcs
<1> QED
  BY <1>1, <1>2, Stay DEF IInv, PlanStep, Crash

LEMMA NextInv == IInv /\ Next => IInv' /\ PlanStep
BY StartInv, RunRequestInv, ReviewInv, ReviewFailsInv, ForceGateInv, DecideInv,
   FinishInv, ApproveInv, AutoCreatePhaseInv, ActivatePhaseInv, CrashInv
   DEF Next, RunStep

LEMMA StepInv == IInv /\ [Next]_vars => IInv'
<1>1. IInv /\ UNCHANGED vars => IInv'
  BY DEF IInv, TypeOK, RunInv, vars, Live, GoodPlan, PlanActiveIsCurrent,
         PlanStrandedIsAdHoc, PlanCompletedOnce, AbsentEmpty
<1> QED
  BY <1>1, NextInv

LEMMA Invariant == Spec => []IInv
BY InitInv, StepInv, PTL DEF Spec

-----------------------------------------------------------------------------
(* The theorems. *)

\* The plan, the runs and their rows stay well formed, and no run works on a
\* task for more than MaxRounds rounds.
THEOREM TypeCorrect == Spec => []TypeOK
<1>1. IInv => TypeOK
  BY DEF IInv
<1> QED
  BY <1>1, Invariant, PTL

\* A phase in progress is current_phase, whatever the order in which runs and
\* the human complete tasks and open phases.
THEOREM OneActivePhase == Spec => []ActiveIsCurrent
<1>1. IInv => ActiveIsCurrent
  BY DEF IInv, GoodPlan, ActiveIsCurrent
<1> QED
  BY <1>1, Invariant, PTL

\* mark_task_complete and activate_phase close a phase only when nothing
\* planned is left in it.
THEOREM NothingStranded == Spec => []StrandedIsAdHoc
<1>1. IInv => StrandedIsAdHoc
  BY DEF IInv, GoodPlan, StrandedIsAdHoc
<1> QED
  BY <1>1, Invariant, PTL

\* completed_tasks is the complete tasks, once each.
THEOREM ListedOnce == Spec => []CompletedOnce
<1>1. IInv => CompletedOnce
  BY DEF IInv, GoodPlan, CompletedOnce
<1> QED
  BY <1>1, Invariant, PTL

\* The one-pass form of the end of a phase is the loop of mark_task_complete,
\* which changes the list it goes through: for every number of phases and every
\* plan that the runs and the human bring about.
THEOREM AdvancesLikeTheLoop == Spec => []AdvanceIsLoop
<1>1. IInv => AdvanceIsLoop
  <2> SUFFICES ASSUME IInv, NEW t PROVE MarkComplete(plan, t) = Loop(Tick(plan, t))
    BY DEF AdvanceIsLoop
  <2>1. GoodPlan(Tick(plan, t))
    BY TickGood DEF IInv
  <2> QED
    BY <2>1, LoopIsAdvance DEF MarkComplete
<1> QED
  BY <1>1, Invariant, PTL

\* A run paused for the human is found in human_review_queue, also after a
\* restart.
THEOREM PausedForAHuman == Spec => []PausedIsQueued
<1>1. IInv => PausedIsQueued
  BY DEF IInv, RunInv, PausedIsQueued
<1> QED
  BY <1>1, Invariant, PTL

LEMMA BoardStep ==
  IInv /\ [Next]_vars => [Board!Next]_<<Pending(plan), {plan.completed[i] : i \in DOMAIN plan.completed}>>
<1> DEFINE done == {plan.completed[i] : i \in DOMAIN plan.completed}
<1>1. CASE UNCHANGED vars
  BY <1>1 DEF vars
<1>2. ASSUME IInv, Next PROVE Board!Next
  <2>1. IInv' /\ GoodPlan(plan) /\ GoodPlan(plan)' /\ Move(plan, plan')
    BY <1>2, NextInv DEF IInv, PlanStep
  <2>2. done = Completed(plan) /\ done' = Completed(plan')
    BY <2>1 DEF GoodPlan, PlanCompletedOnce
  <2>3. /\ Pending(plan') \subseteq TaskIds
        /\ Pending(plan') \cap Completed(plan') = {}
    BY <2>1, TaskFacts, TwoKinds DEF GoodPlan, Pending
  <2>4. CASE Completed(plan') = Completed(plan) /\ Pending(plan) \subseteq Pending(plan')
    BY <2>2, <2>3, <2>4 DEF Board!Next, Board!Add
  <2>5. CASE \E t \in Pending(plan) : /\ Pending(plan') = Pending(plan) \ {t}
                                      /\ Completed(plan') = Completed(plan) \cup {t}
    <3>1. Pending(plan) \subseteq TaskIds
      BY <2>1, TaskFacts DEF GoodPlan, Pending
    <3> QED
      BY <2>2, <2>5, <3>1 DEF Board!Next, Board!Complete
  <2> QED
    BY <2>1, <2>4, <2>5 DEF Move
<1> QED
  BY <1>1, <1>2

\* The plan implements the board: a task is done once and never undone, and
\* none is lost, whoever works on it.
THEOREM IsTaskBoard == Spec => ImplementsTaskBoard
<1>1. Init => Board!Init
  <2> SUFFICES ASSUME Init PROVE Board!Init
    OBVIOUS
  <2>1. plan \in Plans /\ plan.completed = <<>>
    BY InitialPlansAssumption DEF Init, PlanOK
  <2>2. DOMAIN plan.completed = {}
    BY <2>1
  <2>3. Pending(plan) \subseteq TaskIds
    BY <2>1, TaskFacts DEF Pending
  <2> QED
    BY <2>2, <2>3 DEF Board!Init
<1> QED
  BY <1>1, Invariant, BoardStep, PTL DEF Spec, ImplementsTaskBoard, Board!Spec
=============================================================================
