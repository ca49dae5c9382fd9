------------------------------ MODULE BlockIter ------------------------------
(***************************************************************************)
(* A block of a table and the iterator over it (table/block_builder.cc and *)
(* table/block.cc).                                                        *)
(*                                                                         *)
(* A block is the sequence s of its entries, with a restart point at every *)
(* r-th of them; an offset in the block is the place of the entry that     *)
(* begins there.  The iterator is x = [current, restart], current_ and     *)
(* restart_index_; past the last entry it is not valid.  Entries are taken *)
(* to decode, and keys are not compressed.                                 *)
(***************************************************************************)
EXTENDS Integers, Sequences, FiniteSetsExt

\* An entry is <<user key, sequence, type>>.
None == <<0, 0, "none">>

\* InternalKeyComparator
Less(a, b) == a[1] < b[1] \/ (a[1] = b[1] /\ a[2] > b[2])

\* BlockBuilder::Add begins a restart every r entries, the first with the block.
NumRestarts(s, r) == Max({1, (Len(s) + r - 1) \div r})
RestartPoint(r, i) == 1 + i * r

\* A new iterator, and one that ran off either end
NotValid(s, r) == [current |-> Len(s) + 1, restart |-> NumRestarts(s, r)]
Valid(s, x) == x.current <= Len(s)

\* SeekToRestartPoint: ParseNextKey goes on from there.
SeekToRestartPoint(r, i) == [current |-> RestartPoint(r, i) - 1, restart |-> i]

\* Calls of ParseNextKey up to the one that reads entry n.
ParseTo(s, r, x, n) ==
  IF n > Len(s) THEN NotValid(s, r)
  ELSE [current |-> n,
        restart |-> Max({x.restart} \cup {i \in x.restart..NumRestarts(s, r) - 1 :
                                            RestartPoint(r, i) < n})]

BlockSeekToFirst(s, r) == ParseTo(s, r, SeekToRestartPoint(r, 0), 1)
BlockSeekToLast(s, r) ==
  ParseTo(s, r, SeekToRestartPoint(r, NumRestarts(s, r) - 1), Max({1, Len(s)}))

BlockNext(s, r, x) == ParseTo(s, r, x, x.current + 1)

\* Back to a restart point before the entry, and on to the entry before it.
BlockPrev(s, r, x) ==
  LET before == {i \in 0..x.restart : RestartPoint(r, i) < x.current}
  IN IF before = {} THEN NotValid(s, r)
     ELSE ParseTo(s, r, SeekToRestartPoint(r, Max(before)), x.current - 1)

\* The last restart point of left..right with a key below target, or left.
RECURSIVE BinarySearch(_, _, _, _, _)
BinarySearch(s, r, target, left, right) ==
  LET mid == (left + right + 1) \div 2
  IN IF left >= right THEN left
     ELSE IF Less(s[RestartPoint(r, mid)], target)
          THEN BinarySearch(s, r, target, mid, right)
          ELSE BinarySearch(s, r, target, left, mid - 1)

\* A valid iterator narrows the search to one side of where it is, and is not
\* moved back if the search ends in its own restart block, behind it.
BlockSeek(s, r, x, target) ==
  LET below == Valid(s, x) /\ Less(s[x.current], target)
      above == Valid(s, x) /\ Less(target, s[x.current])
      left == BinarySearch(s, r, target,
                           IF below THEN x.restart ELSE 0,
                           IF above THEN x.restart ELSE NumRestarts(s, r) - 1)
      from == IF below /\ left = x.restart THEN x ELSE SeekToRestartPoint(r, left)
      hits == {n \in from.current + 1..Len(s) : ~Less(s[n], target)}
  IN IF Valid(s, x) /\ ~below /\ ~above THEN x
     ELSE ParseTo(s, r, from, Min(hits \cup {Len(s) + 1}))
=============================================================================
