------------------------------ MODULE MCLevels ------------------------------
(* Instances of LevelCompaction for TLC. *)
EXTENDS LevelCompaction

\* Any three writes of two keys, and a snapshot.
ThreeWrites(h, snaps) ==
  Len(h) <= 3 /\ Cardinality(snaps) <= 1 /\ \A i \in DOMAIN h : h[i].key <= 2

\* Values only, one for key 2 and two for each of the keys around it, in any
\* order: key 2 can fall between two tables of every level above the last.
FivePuts(h, snaps) ==
  /\ snaps = {}
  /\ \A i \in DOMAIN h : h[i].type = "put"
  /\ \A k \in Keys :
       Cardinality({i \in DOMAIN h : h[i].key = k}) <= IF k = 2 THEN 1 ELSE 2

ThreeWritesOrFivePuts(h, snaps) == ThreeWrites(h, snaps) \/ FivePuts(h, snaps)

NoSnapshots(h, snaps) == snaps = {}
=============================================================================
