------------------------------- MODULE MCRss -------------------------------
(* Rss for TLC. *)
EXTENDS Rss
=============================================================================
