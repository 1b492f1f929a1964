----------------------------- MODULE MCMatching -----------------------------
(***************************************************************************)
(* Instances of Matching for TLC: a series with an episode and a movie, so *)
(* that a file may be taken for the wrong one.                             *)
(***************************************************************************)
EXTENDS Matching, TLC

CONSTANTS s1, e1
MCShowOf == e1 :> s1
Symmetry == Permutations(Files)
=============================================================================
