---------------------------- MODULE MCCatalogue ----------------------------
(***************************************************************************)
(* Instance of Catalogue for TLC: a list of one directory, with a file of  *)
(* the show that it is named for and a stray file of another show, beside  *)
(* a request and the syncs.                                                *)
(***************************************************************************)
EXTENDS Catalogue

CONSTANTS s1, s2

Paths ==
  [i \in Imports |-> <<[show |-> s1, files |-> {<<s1, 2>>, <<s2, 1>>}, split |-> FALSE]>>]
=============================================================================
