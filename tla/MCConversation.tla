---------------------------- MODULE MCConversation ----------------------------
(***************************************************************************)
(* A few connections, each with a few turns, for TLC.                      *)
(***************************************************************************)
EXTENDS Conversation

MCTurns == Sessions \X (1 .. MaxTurns)
==============================================================================
