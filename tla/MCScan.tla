------------------------------- MODULE MCScan -------------------------------
(***************************************************************************)
(* Instances of Scan for TLC: a file in a root, and a directory with a     *)
(* directory below it that holds another file.                             *)
(***************************************************************************)
EXTENDS Scan

CONSTANTS root, d1, d2, f0, f2

Tree == [e \in {d1, d2, f0, f2} |->
           CASE e \in {d1, f0} -> root [] e = d2 -> d1 [] e = f2 -> d2]
=============================================================================
