--------------------------- MODULE MCRepoWorkspaces ---------------------------
(***************************************************************************)
(* Two tasks, in the order of their records, one service and the sweeper.  *)
(***************************************************************************)
EXTENDS RepoWorkspaces

MCTasks == 1 .. 2
==============================================================================
