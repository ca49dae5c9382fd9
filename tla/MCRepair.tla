------------------------------ MODULE MCRepair ------------------------------
(* A log with a write and an empty one, and two tables in every state.  The    *)
(* tables have the last numbers, so that numbers of archived tables are given  *)
(* out again.                                                                  *)
EXTENDS Repair

MCLogs == [n \in {1, 2} |-> IF n = 1 THEN {3} ELSE {}]
MCTables == [n \in {4, 5} |-> IF n = 4 THEN {1} ELSE {2}]

NoLogs == [n \in {} |-> {}]
=============================================================================
