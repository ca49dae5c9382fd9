---------------------------- MODULE MCBackground ----------------------------
(* Instances of BackgroundWork for TLC. *)
EXTENDS BackgroundWork, TLC

MCParts == 1..2

\* A table in level 0; two in level 1, so that a manual compaction of it may go
\* in two pieces; and one in level 2, so that CompactRange gets there.
MCInitFiles == {[l \in 0..2 |-> <<<<1, 0>>, <<1, 1>>, <<1, 0>>>>[l + 1]]}

\* The table of level 0 can be moved to level 1, and a new one cannot pass it.
MCMovableFiles == {[l \in 0..2 |-> <<<<1, 0>>, <<0, 1>>, <<1, 0>>>>[l + 1]]}

Symmetry == Permutations(Callers)
=============================================================================
