----------------------------- MODULE MCSkipList -----------------------------
(* Instances of SkipList for TLC. *)
EXTENDS SkipList
=============================================================================
