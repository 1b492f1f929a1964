--------------------------- MODULE MCSingleFlight ---------------------------
(***************************************************************************)
(* Instances of SingleFlight for TLC.                                      *)
(***************************************************************************)
EXTENDS SingleFlight
=============================================================================
