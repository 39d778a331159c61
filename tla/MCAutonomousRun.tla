--------------------------- MODULE MCAutonomousRun ---------------------------
(***************************************************************************)
(* The checks of an evaluation in evals/manifest.json, by number.          *)
(***************************************************************************)
EXTENDS AutonomousRun

MCChecks == <<1, 2>>
MCJobIds == 1 .. 2
==============================================================================
