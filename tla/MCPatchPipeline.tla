-------------------------- MODULE MCPatchPipeline --------------------------
(***************************************************************************)
(* Small instances of PatchPipeline for TLC.                               *)
(***************************************************************************)
EXTENDS PatchPipeline, TLC

\* Job identifiers are interchangeable.
JobSymmetry == Permutations(Jobs)

\* Bound of the restart run, which is about the two stores and not about the
\* threads: beyond one thread at a time and two runs in all (the other rows are
\* those of jobs without a patch) no successors are explored, so that four
\* rows fit.
FewRuns ==
  /\ Cardinality({j \in Jobs : worker[j].pc \in Alive}) <= 1
  /\ Cardinality({j \in Jobs : worker[j].input # NoSession}) <= 2
=============================================================================
