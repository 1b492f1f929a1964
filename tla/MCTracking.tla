----------------------------- MODULE MCTracking -----------------------------
(***************************************************************************)
(* Instances of Tracking for TLC.                                          *)
(***************************************************************************)
EXTENDS Tracking, TLC

Symmetry == Permutations(Files) \cup Permutations(Keys)
=============================================================================
