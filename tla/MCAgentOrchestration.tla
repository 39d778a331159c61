------------------------- MODULE MCAgentOrchestration -------------------------
(***************************************************************************)
(* A few calls on a small collection, for TLC.                             *)
(***************************************************************************)
EXTENDS AgentOrchestration, TLC

MCSymmetry == Permutations(Requests) \union Permutations(Docs)
==============================================================================
