------------------------------- MODULE DBIter -------------------------------
(***************************************************************************)
(* The iterator of the database: DBIter (db/db_iter.cc) over a             *)
(* MergingIterator (table/merger.cc) of a memtable that a writer goes on   *)
(* filling and of a table read through a TwoLevelIterator                  *)
(* (table/two_level_iterator.cc) over an index block and data blocks.      *)
(*                                                                         *)
(* One action is one round of a loop of DBIter, that is one call of the    *)
(* merging iterator; the writer adds entries in between.  The one call     *)
(* that looks at the memtable twice, a Prev that changes direction, is two *)
(* actions.  The value of an entry is its sequence number.                 *)
(***************************************************************************)
EXTENDS BlockIter, FiniteSets, SequencesExt

CONSTANTS
  Keys,     \* user keys
  Targets,  \* arguments of Seek
  Intervals, \* values of block_restart_interval
  InitSeq,  \* number of entries when the iterator is created
  MaxSeq    \* bound: number of entries ever written

ASSUME IterAssumption ==
  /\ Keys \subseteq Nat /\ Targets \subseteq Nat /\ Intervals \subseteq Nat \ {0}
  /\ InitSeq \in Nat /\ MaxSeq \in Nat /\ InitSeq <= MaxSeq

Types == {"put", "del"}  \* kTypeValue, kTypeDeletion

VARIABLES
  blocks,  \* the data blocks of the table
  index,   \* the keys of its index block
  interval, \* block_restart_interval of the data blocks
  bad,     \* the blocks that cannot be read
  mem,     \* the entries of the memtable
  seq,     \* sequence_
  two,     \* the TwoLevelIterator
  merge,   \* the MergingIterator, with its child over the memtable
  it,      \* the DBIter, with the call it is executing
  shown    \* what the last finished call left the iterator at

table == <<blocks, index, interval, bad>>
vars == <<table, mem, seq, two, merge, it, shown>>

-----------------------------------------------------------------------------
(* Ordered sets of entries: the skip list *)

Smallest(S) == IF S = {} THEN None ELSE CHOOSE a \in S : \A b \in S : ~Less(b, a)
Largest(S)  == IF S = {} THEN None ELSE CHOOSE a \in S : \A b \in S : ~Less(a, b)

SeekIn(S, target) == Smallest({a \in S : ~Less(a, target)})
NextIn(S, a) == Smallest({b \in S : Less(a, b)})
PrevIn(S, a) == Largest({b \in S : Less(b, a)})

-----------------------------------------------------------------------------
(* TwoLevelIterator: [index, block, data, error], the iterator of the index  *)
(* block, the block that is open (0 for none) and the iterator over it.      *)

kIndexInterval == 1

Content(i) == IF i = 0 \/ i \in bad THEN << >> ELSE blocks[i]
IndexAt(w) == IF Valid(index, w.index) THEN w.index.current ELSE 0
TwoAt(w) ==
  LET s == Content(w.block) IN IF Valid(s, w.data) THEN s[w.data.current] ELSE None

SetIndex(w, x) == [w EXCEPT !.index = x]
SetData(w, x) == [w EXCEPT !.data = x]

\* The iterator of a block that is open already is kept where it is.  A block that
\* cannot be read gives an empty iterator, whose error status() reports and
\* SetDataIterator saves.
InitDataBlock(w) ==
  LET i == IndexAt(w)
  IN IF i = w.block /\ i # 0 THEN w
     ELSE [w EXCEPT !.block = i, !.data = NotValid(Content(i), interval),
                    !.error = @ \/ i \in bad]

RECURSIVE SkipEmptyDataBlocksForward(_)
SkipEmptyDataBlocksForward(w) ==
  IF TwoAt(w) # None THEN w
  ELSE IF IndexAt(w) = 0 THEN InitDataBlock(w)
  ELSE LET v == InitDataBlock(SetIndex(w, BlockNext(index, kIndexInterval, w.index)))
       IN SkipEmptyDataBlocksForward(SetData(v, BlockSeekToFirst(Content(v.block), interval)))

RECURSIVE SkipEmptyDataBlocksBackward(_)
SkipEmptyDataBlocksBackward(w) ==
  IF TwoAt(w) # None THEN w
  ELSE IF IndexAt(w) = 0 THEN InitDataBlock(w)
  ELSE LET v == InitDataBlock(SetIndex(w, BlockPrev(index, kIndexInterval, w.index)))
       IN SkipEmptyDataBlocksBackward(SetData(v, BlockSeekToLast(Content(v.block), interval)))

TwoSeek(w, target) ==
  LET v == InitDataBlock(SetIndex(w, BlockSeek(index, kIndexInterval, w.index, target)))
  IN SkipEmptyDataBlocksForward(
       SetData(v, BlockSeek(Content(v.block), interval, v.data, target)))

TwoSeekToFirst(w) ==
  LET v == InitDataBlock(SetIndex(w, BlockSeekToFirst(index, kIndexInterval)))
  IN SkipEmptyDataBlocksForward(SetData(v, BlockSeekToFirst(Content(v.block), interval)))

TwoSeekToLast(w) ==
  LET v == InitDataBlock(SetIndex(w, BlockSeekToLast(index, kIndexInterval)))
  IN SkipEmptyDataBlocksBackward(SetData(v, BlockSeekToLast(Content(v.block), interval)))

TwoNext(w) ==
  SkipEmptyDataBlocksForward(SetData(w, BlockNext(Content(w.block), interval, w.data)))
TwoPrev(w) ==
  SkipEmptyDataBlocksBackward(SetData(w, BlockPrev(Content(w.block), interval, w.data)))

-----------------------------------------------------------------------------
(* MergingIterator.  Its operations are functions of the state m of the      *)
(* iterators, [mem, two, current, reverse].                                  *)

M == [mem |-> merge.mem, two |-> two, current |-> merge.current, reverse |-> merge.reverse]

At(m) == CASE m.current = "mem" -> m.mem
           [] m.current = "two" -> TwoAt(m.two)
           [] m.current = "none" -> None

FindSmallest(m) ==
  [m EXCEPT !.current =
     CASE m.mem = None /\ TwoAt(m.two) = None -> "none"
       [] m.mem # None /\ (TwoAt(m.two) = None \/ Less(m.mem, TwoAt(m.two))) -> "mem"
       [] OTHER -> "two"]

FindLargest(m) ==
  [m EXCEPT !.current =
     CASE m.mem = None /\ TwoAt(m.two) = None -> "none"
       [] m.mem # None /\ (TwoAt(m.two) = None \/ Less(TwoAt(m.two), m.mem)) -> "mem"
       [] OTHER -> "two"]

MergeSeekToFirst(m) ==
  FindSmallest([m EXCEPT !.mem = Smallest(mem), !.two = TwoSeekToFirst(@), !.reverse = FALSE])

MergeSeekToLast(m) ==
  FindLargest([m EXCEPT !.mem = Largest(mem), !.two = TwoSeekToLast(@), !.reverse = TRUE])

MergeSeek(m, target) ==
  FindSmallest([m EXCEPT !.mem = SeekIn(mem, target), !.two = TwoSeek(@, target),
                         !.reverse = FALSE])

\* Mutant: a change of direction leaves the other child where it is.
MergeNextUnturned(m) ==
  FindSmallest(IF m.current = "mem" THEN [m EXCEPT !.mem = NextIn(mem, @), !.reverse = FALSE]
               ELSE [m EXCEPT !.two = TwoNext(@), !.reverse = FALSE])

\* No two children have an entry in common.
MergeNext(m) ==
  LET turned == CASE ~m.reverse -> m
                  [] m.current = "mem" -> [m EXCEPT !.two = TwoSeek(@, At(m))]
                  [] m.current = "two" -> [m EXCEPT !.mem = SeekIn(mem, At(m))]
      moved == IF m.current = "mem" THEN [turned EXCEPT !.mem = NextIn(mem, @)]
               ELSE [turned EXCEPT !.two = TwoNext(@)]
  IN FindSmallest([moved EXCEPT !.reverse = FALSE])

\* The child of the memtable was sought already (DoPrev) when it is not the
\* current one.
MergePrev(m) ==
  LET back == TwoSeek(m.two, At(m))
      turned == CASE m.reverse -> m
                  [] m.current = "mem" ->
                       [m EXCEPT !.two = IF TwoAt(back) # None THEN TwoPrev(back)
                                         ELSE TwoSeekToLast(back)]
                  [] m.current = "two" ->
                       [m EXCEPT !.mem = IF @ # None THEN PrevIn(mem, @) ELSE Largest(mem)]
      moved == IF m.current = "mem" THEN [turned EXCEPT !.mem = PrevIn(mem, @)]
               ELSE [turned EXCEPT !.two = TwoPrev(@)]
  IN FindLargest([moved EXCEPT !.reverse = TRUE])

-----------------------------------------------------------------------------
(* DBIter.  it.key is saved_key_ and it.value saved_value_; skipping and     *)
(* value_type are the local variables of the loops.                          *)

Nothing == <<0, 0>>

\* key() and value()
Shown(i, m) ==
  CASE ~i.valid -> Nothing
    [] i.valid /\ i.reverse -> <<i.key, i.value>>
    [] i.valid /\ ~i.reverse -> <<At(m)[1], At(m)[2]>>

SetMerge(m) ==
  /\ two' = m.two
  /\ merge' = [mem |-> m.mem, current |-> m.current, reverse |-> m.reverse]

\* The call returns.
Finish(i, m) ==
  /\ SetMerge(m)
  /\ it' = [i EXCEPT !.pc = "idle", !.call = <<"none">>]
  /\ shown' = Shown(i, m)
  /\ UNCHANGED <<table, mem, seq>>

\* The call goes on at pc.
Continue(i, m, pc) ==
  /\ SetMerge(m)
  /\ it' = [i EXCEPT !.pc = pc]
  /\ UNCHANGED <<table, mem, seq, shown>>

\* iter_ is not valid: valid_ = false and saved_key_.clear()
Invalid(i) == [i EXCEPT !.valid = FALSE, !.key = 0, !.skipping = FALSE]

SeekToFirst ==
  /\ it.pc = "idle"
  /\ Continue([it EXCEPT !.call = <<"first">>, !.reverse = FALSE, !.value = 0,
                            !.skipping = FALSE],
                 MergeSeekToFirst(M), "find_next")

Seek(k) ==
  /\ it.pc = "idle"
  /\ Continue([it EXCEPT !.call = <<"seek", k>>, !.reverse = FALSE, !.value = 0,
                            !.key = 0, !.skipping = FALSE],
                 MergeSeek(M, <<k, seq, "put">>), "find_next")

SeekToLast ==
  /\ it.pc = "idle"
  /\ Continue([it EXCEPT !.call = <<"last">>, !.reverse = TRUE, !.value = 0, !.type = "del"],
              MergeSeekToLast(M), "find_prev")

DoNext ==
  /\ it.pc = "idle" /\ it.valid
  /\ Continue([it EXCEPT !.call = <<"next">>, !.reverse = FALSE, !.skipping = TRUE,
                            !.key = IF it.reverse THEN @ ELSE At(M)[1]],
                 IF it.reverse /\ At(M) = None THEN MergeSeekToFirst(M) ELSE MergeNext(M), "find_next")

\* The test for iter_->Valid(), and one round of FindNextUserEntry
FindNextUserEntry ==
  LET e == At(M)
      visible == e[2] <= seq
      hidden == it.skipping /\ e[1] <= it.key
  IN /\ it.pc = "find_next"
     /\ IF e = None THEN Finish(Invalid(it), M)
        ELSE IF visible /\ e[3] = "put" /\ ~hidden
        THEN Finish([it EXCEPT !.valid = TRUE, !.key = 0, !.skipping = FALSE], M)
        ELSE Continue(IF visible /\ e[3] = "del"
                         THEN [it EXCEPT !.key = e[1], !.skipping = TRUE] ELSE it,
                         MergeNext(M), "find_next")

\* Prev begins.  In the reverse direction, FindPrevUserEntry follows.
DoPrev ==
  /\ it.pc = "idle" /\ it.valid
  /\ IF it.reverse
     THEN Continue([it EXCEPT !.call = <<"prev">>, !.type = "del"], M, "find_prev")
     ELSE Continue([it EXCEPT !.call = <<"prev">>, !.key = At(M)[1]],
                   [M EXCEPT !.mem = IF M.current = "two" /\ ~M.reverse
                                     THEN SeekIn(mem, At(M)) ELSE @],
                   "scan")

\* A round of the loop that scans backwards until the key changes.  The first
\* one turns the merging iterator around; the child of the memtable was already
\* sought in DoPrev, and the writer may have added entries since.
ScanBack ==
  LET m == MergePrev(M)
  IN /\ it.pc = "scan"
     /\ IF At(m) = None THEN Finish([Invalid(it) EXCEPT !.value = 0], m)
        ELSE IF At(m)[1] < it.key
             THEN Continue([it EXCEPT !.reverse = TRUE, !.type = "del"], m, "find_prev")
             ELSE Continue(it, m, "scan")

\* One round of FindPrevUserEntry, or its end
FindPrevUserEntry ==
  LET e == At(M)
      visible == e # None /\ e[2] <= seq
      passed == visible /\ it.type # "del" /\ e[1] < it.key
      found == [it EXCEPT !.valid = TRUE, !.type = "del"]
      end == [Invalid(it) EXCEPT !.value = 0, !.reverse = FALSE]
      seen == CASE ~visible -> it
                [] visible /\ e[3] = "del" -> [it EXCEPT !.type = "del", !.key = 0, !.value = 0]
                [] OTHER -> [it EXCEPT !.type = "put", !.key = e[1], !.value = e[2]]
  IN /\ it.pc = "find_prev"
     /\ IF e = None \/ passed
        THEN Finish(IF it.type = "del" THEN end ELSE found, M)
        ELSE Continue(seen, MergePrev(M), "find_prev")

-----------------------------------------------------------------------------
\* The entries of the table
Tabled == UNION {ToSet(blocks[i]) : i \in DOMAIN blocks}

\* A writer adds an entry to the memtable the iterator reads.
Write ==
  LET n == 1 + Cardinality(mem) + Cardinality(Tabled)
  IN /\ n <= MaxSeq
     /\ \E k \in Keys, type \in Types : mem' = mem \cup {<<k, n, type>>}
     /\ UNCHANGED <<table, seq, two, merge, it, shown>>

\* TableBuilder::Add and Finish: the index key of the block that ends with entry
\* n is its last key or, if the comparator finds one, a shorter key after it and
\* before the next block.
IndexKey(sorted, n, shorten) ==
  LET k == sorted[n][1] + 1
  IN IF shorten /\ (n < Len(sorted) => k < sorted[n + 1][1]) THEN <<k, MaxSeq, "put">>
     ELSE sorted[n]

\* The older entries are in a table, cut into blocks in every way.
Init ==
  \E hist \in [1..InitSeq -> Keys \X Types], flushed \in 0..InitSeq, shorten \in BOOLEAN :
    LET All(from, to) == {<<hist[i][1], i, hist[i][2]>> : i \in from..to}
        sorted == SetToSortSeq(All(1, flushed), Less)
    IN \E cuts \in SUBSET (1..flushed - 1) :
         LET ends == SetToSortSeq(cuts \cup (IF flushed = 0 THEN {} ELSE {flushed}), <)
             from(i) == IF i = 1 THEN 1 ELSE ends[i - 1] + 1
         IN /\ blocks = [i \in 1..Len(ends) |-> SubSeq(sorted, from(i), ends[i])]
            /\ index = [i \in 1..Len(ends) |-> IndexKey(sorted, ends[i], shorten)]
            /\ interval \in Intervals
            /\ bad \in SUBSET (1..Len(ends))
            /\ Cardinality(bad) <= 1
            /\ mem = All(flushed + 1, InitSeq)
            /\ seq \in {InitSeq - 1, InitSeq}
            /\ two = [index |-> NotValid(index, kIndexInterval), block |-> 0,
                      data |-> NotValid(<< >>, interval), error |-> FALSE]
            /\ merge = [mem |-> None, current |-> "none", reverse |-> FALSE]
            /\ it = [pc |-> "idle", call |-> <<"none">>, reverse |-> FALSE, valid |-> FALSE,
                     key |-> 0, value |-> 0, skipping |-> FALSE, type |-> "del"]
            /\ shown = Nothing

Next ==
  \/ SeekToFirst \/ SeekToLast \/ (\E k \in Targets : Seek(k))
  \/ DoNext \/ FindNextUserEntry
  \/ DoPrev \/ ScanBack \/ FindPrevUserEntry
  \/ Write

Spec == Init /\ [][Next]_vars

-----------------------------------------------------------------------------
(* Properties *)

Entries == mem \cup Tabled

\* What a read at sequence_ finds: the newest visible entry of every key, unless
\* it is a deletion.
SnapshotView ==
  {<<e[1], e[2]>> : e \in {e \in Entries :
     /\ e[2] <= seq /\ e[3] = "put"
     /\ \A f \in Entries : f[1] = e[1] /\ f[2] <= seq => f[2] <= e[2]}}

Promise == INSTANCE AbstractIterator
  WITH view <- SnapshotView, call <- it.call, pos <- shown, error <- two.error

\* The iterator walks over the snapshot, in both directions and with any changes
\* of direction, skipping no key and showing none twice, deleted or overwritten,
\* whatever a writer adds to the memtable during a call; a block that cannot be
\* read is reported by status() before anything is missed.
WalksSnapshot == Promise!Spec

=============================================================================
