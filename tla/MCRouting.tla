------------------------------ MODULE MCRouting ------------------------------
(***************************************************************************)
(* Instances of Routing for TLC.                                           *)
(***************************************************************************)
EXTENDS Routing

CONSTANTS f1, s1

\* Two files of one episode: the same destination.
Shared == [f \in Files |-> s1]

\* The show of every file but f1 has no local_path, until a user matches it again.
OneHomeless == [f \in Files |-> IF f = f1 THEN s1 ELSE NoSlot]
=============================================================================
