----------------------------- MODULE MCLabWorker -----------------------------
(***************************************************************************)
(* Small sets of workers and jobs for TLC: a specification that may be     *)
(* tried twice and one that may be tried once.                             *)
(***************************************************************************)
EXTENDS LabWorker

CONSTANTS twice, once

MCMaxAttempts == [s \in Specs |-> IF s = once THEN 1 ELSE 2]
==============================================================================
