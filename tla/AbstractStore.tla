---------------------------- MODULE AbstractStore ----------------------------
(***************************************************************************)
(* What the database promises (include/leveldb/db.h): a map from keys to   *)
(* values that Put and Delete change one key at a time, and snapshots that *)
(* keep what they saw.  Everything else the database does is invisible.    *)
(***************************************************************************)
EXTENDS Naturals

CONSTANTS
  Keys,
  Values,    \* what Put may store
  NotFound   \* the result of Get for a key without a value

VARIABLES
  latest,   \* latest[k]: what Get(k) returns now
  views     \* what the live snapshots see

Views == [Keys -> Values \cup {NotFound}]

Init ==
  /\ latest = [k \in Keys |-> NotFound]
  /\ views = {}

Put(k, v) ==
  /\ latest' = [latest EXCEPT ![k] = v]
  /\ UNCHANGED views

Delete(k) ==
  /\ latest' = [latest EXCEPT ![k] = NotFound]
  /\ UNCHANGED views

GetSnapshot ==
  /\ views' = views \cup {latest}
  /\ UNCHANGED latest

\* Also the end of the process, which takes every snapshot with it.
ReleaseSnapshots ==
  /\ views' \in SUBSET views
  /\ UNCHANGED latest

Next ==
  \/ ReleaseSnapshots
  \/ GetSnapshot
  \/ \E k \in Keys : Delete(k)
  \/ \E k \in Keys, v \in Values : Put(k, v)

Spec == Init /\ [][Next]_<<latest, views>>
=============================================================================
