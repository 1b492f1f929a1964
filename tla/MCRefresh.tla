----------------------------- MODULE MCRefresh -----------------------------
(***************************************************************************)
(* Instance of Refresh for TLC: a show whose data stay odd, one that TMDB  *)
(* has deleted, and two others.                                            *)
(***************************************************************************)
EXTENDS Refresh

CONSTANTS odd, gone, plain, spare

AtHome == <<odd, gone, plain>>
=============================================================================
