---------------------------- MODULE MCTableCache ----------------------------
(* Instance of TableCache for TLC. *)
EXTENDS TableCache, TLC

Symmetry == Permutations(Threads) \cup Permutations(Tables)
=============================================================================
