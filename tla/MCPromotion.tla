----------------------------- MODULE MCPromotion -----------------------------
(***************************************************************************)
(* Two invocations of the scripts, for TLC.                                *)
(***************************************************************************)
EXTENDS Promotion, TLC

MCSymmetry == Permutations(Invocations) \union Permutations(Candidates)
==============================================================================
