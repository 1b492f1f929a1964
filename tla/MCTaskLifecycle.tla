--------------------------- MODULE MCTaskLifecycle ---------------------------
(***************************************************************************)
(* Instances of TaskLifecycle for TLC.                                     *)
(***************************************************************************)
EXTENDS TaskLifecycle
=============================================================================
