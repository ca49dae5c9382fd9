------------------------------ MODULE MCDBIter ------------------------------
(* Instances of DBIter for TLC. *)
EXTENDS DBIter
=============================================================================
