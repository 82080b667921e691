----------------------------- MODULE MCDualAgent -----------------------------
(* Plans for TLC.                                                           *)
EXTENDS DualAgent, TLC

CONSTANTS r1, r2

Todo(n) == [i \in 1 .. n |-> New(FALSE)]
MCPhases == {3, 4, 5}

PlanWith(current, status, tasks) ==
  [status |-> status, tasks |-> tasks, current |-> current,
   backlog |-> <<>>, queue |-> {}, completed |-> <<>>]

\* The shipped plan, made smaller: a planned phase, an empty complete one, and
\* the phase in progress.
Shipped == PlanWith(5,
  3 :> "PLANNED" @@ 4 :> "COMPLETE" @@ 5 :> "IN_PROGRESS",
  3 :> Todo(1) @@ 4 :> <<>> @@ 5 :> Todo(1))

\* A plan whose last phase is still to be made from the backlog.
Early == PlanWith(3,
  3 :> "IN_PROGRESS" @@ 4 :> "PLANNED" @@ 5 :> "ABSENT",
  3 :> Todo(1) @@ 4 :> Todo(1) @@ 5 :> <<>>)

MCPlans == {Shipped, Early}
MCTwo == {r1, r2}
MCOne == {r1}
Sym == Permutations(MCTwo)
=============================================================================
