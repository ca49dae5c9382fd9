----------------------------- MODULE MCWritePath -----------------------------
(* Instances of WritePath for TLC. *)
EXTENDS WritePath, TLC

MCBatches == {[count |-> 1, size |-> 0], [count |-> 2, size |-> 1]}

MCOneBatch == {[count |-> 1, size |-> 0]}
MCLargeBatch == {[count |-> 2, size |-> 1]}
Symmetry == Permutations(Threads)
=============================================================================
