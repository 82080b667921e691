--------------------------- MODULE MCAgentStream ---------------------------
(***************************************************************************)
(* Small instances of AgentStream for TLC.                                 *)
(***************************************************************************)
EXTENDS AgentStream, TLC

\* Pages are interchangeable.
StreamSymmetry == Permutations(Streams)

\* Streams do not get old: what is left of their loss is the restart.
NothingExpires == idle = {}
=============================================================================
