-------------------------- MODULE AbstractIterator --------------------------
(***************************************************************************)
(* What include/leveldb/iterator.h promises of an iterator of the          *)
(* database: it walks, in both directions, over the keys that are present  *)
(* in one fixed view of the store, or it reports an error.                 *)
(***************************************************************************)
EXTENDS Integers

CONSTANTS
  Targets,  \* what Seek may be asked for
  Nothing   \* the iterator is not Valid()

VARIABLES
  view,   \* the pairs <<key, value>> of the snapshot, one for every key present
  call,   \* the pending call, <<"none">> between calls
  pos,    \* the pair the iterator stands at, or Nothing
  error   \* ~status().ok()

vars == <<view, call, pos, error>>

First(S) == IF S = {} THEN Nothing ELSE CHOOSE p \in S : \A q \in S : p[1] <= q[1]
Last(S)  == IF S = {} THEN Nothing ELSE CHOOSE p \in S : \A q \in S : p[1] >= q[1]

Result ==
  CASE call[1] = "first" -> First(view)
    [] call[1] = "last"  -> Last(view)
    [] call[1] = "seek"  -> First({p \in view : p[1] >= call[2]})
    [] call[1] = "next"  -> First({p \in view : p[1] > pos[1]})
    [] call[1] = "prev"  -> Last({p \in view : p[1] < pos[1]})

Calls == {<<"first">>, <<"last">>} \cup {<<"seek", k>> : k \in Targets}

Init ==
  /\ call = <<"none">>
  /\ pos = Nothing
  /\ error = FALSE

Call ==
  /\ call = <<"none">>
  /\ call' \in Calls \cup (IF pos = Nothing THEN {} ELSE {<<"next">>, <<"prev">>})
  /\ UNCHANGED <<view, pos>>

Return ==
  /\ call # <<"none">>
  /\ call' = <<"none">>
  /\ error' \/ pos' = Result
  /\ UNCHANGED view

\* An error is never taken back, and nothing is promised after it.
Next ==
  /\ error => error'
  /\ error' \/ Call \/ Return

Spec == Init /\ [][Next]_vars
=============================================================================
