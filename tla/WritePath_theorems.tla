----------------------- MODULE WritePath_theorems --------------------------
(***************************************************************************)
(* What holds in every behaviour of the write path, for every set of       *)
(* client threads and of batches.  WritePath_proofs and                    *)
(* WritePathCalls_proofs show that each step keeps IInv and CInv, given    *)
(* what a batch group contains (GroupsTyped, GroupsNumbered).  This module *)
(* shows that a group contains that, which takes counting its entries, and *)
(* draws the conclusions.                                                  *)
(***************************************************************************)
EXTENDS WritePathCalls_proofs, FiniteSetTheorems

----------------------------------------------------------------------------
(* The entries of a batch group.                                           *)

\* A batch group has finitely many entries, numbered with natural numbers
\* (BuildBatchGroup, SetSequence).
LEMMA GroupType ==
  ASSUME TypeOK, NEW n \in 1..Len(writers)
  PROVE  /\ Cardinality(Positions(n)) \in Nat
         /\ GroupEntries(n) \subseteq Entry
<1>1. IsFiniteSet((1..n) \X (1..MaxCount))
  <2>1. n \in Int /\ MaxCount \in Int
    BY BatchesAssumption DEF TypeOK
  <2>2. IsFiniteSet(1..n) /\ IsFiniteSet(1..MaxCount)
    BY SMTT(30), <2>1, FS_Interval
  <2>3. QED
    BY Zenon, <2>2, FS_Product
<1>2. IsFiniteSet(Positions(n)) /\ Cardinality(Positions(n)) \in Nat
  <2>1. Positions(n) \in SUBSET ((1..n) \X (1..MaxCount))
    BY Zenon DEF Positions
  <2>2. QED
    BY Zenon, <1>1, <2>1, FS_Subset, FS_CardinalityType
<1>3. ASSUME NEW e \in Positions(n)
      PROVE  [seq  |-> last + 1 + Cardinality(Before(n, e)),
              call |-> writer[writers[e[1]]].call] \in Entry
  <2>1. Before(n, e) \in SUBSET Positions(n)
    BY Zenon DEF Before
  <2>2. Cardinality(Before(n, e)) \in Nat
    BY Zenon, <1>2, <2>1, FS_Subset, FS_CardinalityType
  <2>3. e[1] \in 1..Len(writers)
    BY SMTT(30) DEF Positions, TypeOK
  <2>4. writer[writers[e[1]]] \in Work
    BY SMTT(30), <2>3 DEF TypeOK
  <2>5. writer[writers[e[1]]].call \in Nat
    BY SMTT(30), <2>4 DEF Work
  <2>6. QED
    BY SMTT(30), <2>2, <2>5 DEF Entry, TypeOK
<1>4. QED
  BY Zenon, <1>2, <1>3 DEF GroupEntries

\* Of any group, so of the group of whoever leads the queue.
LEMMA GroupsAreTyped == TypeOK => GroupsTyped
  BY Zenon, GroupType DEF GroupsTyped

\* The entry at a position of the merged batch
EntryAt(n, e) ==
  [seq |-> last + 1 + Cardinality(Before(n, e)), call |-> writer[writers[e[1]]].call]

\* A group has finitely many positions, and the one at e is not before e.
LEMMA PositionsFinite ==
  ASSUME TypeOK, NEW n \in 1..Len(writers)
  PROVE  /\ IsFiniteSet(Positions(n)) /\ Cardinality(Positions(n)) \in Nat
         /\ \A e \in Positions(n) :
              /\ IsFiniteSet(Before(n, e)) /\ Cardinality(Before(n, e)) \in Nat
              /\ Cardinality(Before(n, e)) < Cardinality(Positions(n))
         /\ \A e \in Positions(n) : EntryAt(n, e) \in Entry
<1>1. IsFiniteSet((1..n) \X (1..MaxCount))
  <2>1. n \in Int /\ MaxCount \in Int
    BY BatchesAssumption DEF TypeOK
  <2>2. IsFiniteSet(1..n) /\ IsFiniteSet(1..MaxCount)
    BY <2>1, FS_Interval
  <2>3. QED
    BY Zenon, <2>2, FS_Product
<1>2. IsFiniteSet(Positions(n)) /\ Cardinality(Positions(n)) \in Nat
  <2>1. Positions(n) \in SUBSET ((1..n) \X (1..MaxCount))
    BY Zenon DEF Positions
  <2>2. QED
    BY Zenon, <1>1, <2>1, FS_Subset, FS_CardinalityType
<1>3. ASSUME NEW e \in Positions(n)
      PROVE  /\ IsFiniteSet(Before(n, e)) /\ Cardinality(Before(n, e)) \in Nat
             /\ Cardinality(Before(n, e)) < Cardinality(Positions(n))
  <2>1. e[1] \in Int /\ e[2] \in Int
    BY DEF Positions
  <2>2. Before(n, e) \in SUBSET (Positions(n) \ {e})
    BY <2>1 DEF Before
  <2>3. /\ IsFiniteSet(Positions(n) \ {e})
        /\ Cardinality(Positions(n) \ {e}) = Cardinality(Positions(n)) - 1
    BY Zenon, <1>2, FS_RemoveElement
  <2>4. /\ IsFiniteSet(Before(n, e))
        /\ Cardinality(Before(n, e)) <= Cardinality(Positions(n) \ {e})
    BY Zenon, <2>2, <2>3, FS_Subset
  <2>5. Cardinality(Before(n, e)) \in Nat
    BY Zenon, <2>4, FS_CardinalityType
  <2>6. QED
    BY SMTT(30), <1>2, <2>3, <2>4, <2>5
<1>4. \A e \in Positions(n) : EntryAt(n, e) \in GroupEntries(n)
  BY Zenon DEF EntryAt, GroupEntries
<1>5. QED
  BY SMTT(30), <1>2, <1>3, <1>4, GroupType

\* The entries of a group are numbered from LastSequence + 1 without going past
\* the new last sequence number, and each belongs to a writer of the group.
LEMMA GroupRange ==
  ASSUME TypeOK, NEW n \in 1..Len(writers), NEW e \in GroupEntries(n)
  PROVE  /\ e.seq > last /\ e.seq <= last + Cardinality(Positions(n))
         /\ \E i \in 1..n : e.call = CallOf(i)
<1>1. PICK f \in Positions(n) : e = EntryAt(n, f)
  BY Zenon DEF GroupEntries, EntryAt
<1>2. f[1] \in 1..n
  BY Zenon DEF Positions
<1>3. e.seq = last + 1 + Cardinality(Before(n, f)) /\ e.call = CallOf(f[1])
  BY Zenon, <1>1 DEF EntryAt, CallOf
<1>4. last \in Nat
  BY Zenon DEF TypeOK
<1>5. e.seq > last /\ e.seq <= last + Cardinality(Positions(n))
  BY SMTT(30), <1>3, <1>4, PositionsFinite
<1>6. QED
  BY Zenon, <1>2, <1>3, <1>5

\* The numbers from 1 to k are k.
LEMMA IntervalCount ==
  ASSUME NEW k \in Nat
  PROVE  IsFiniteSet(1..k) /\ Cardinality(1..k) = k
<1>1. 1 \in Int /\ k \in Int
  OBVIOUS
<1>2. IsFiniteSet(1..k) /\ Cardinality(1..k) = IF 1 > k THEN 0 ELSE k - 1 + 1
  BY <1>1, Zenon, FS_Interval
<1>3. QED
  BY <1>2

\* A batch has as many entries in its group as its count says.
LEMMA GroupCount ==
  ASSUME TypeOK, MemberInv, CallInv, NEW n \in 1..Len(writers), NEW i \in 1..n
  PROVE  Cardinality(Of(GroupEntries(n), CallOf(i))) = Count(BatchOf(i))
<1>0. DEFINE k == Count(BatchOf(i))
             T == Of(GroupEntries(n), CallOf(i))
             g == [j \in 1..k |-> EntryAt(n, <<i, j>>)]
<1>1. Len(writers) \in Nat /\ n \in Int /\ i \in Int /\ i \in 1..Len(writers)
  BY QueueType
<1>2. k \in 0..MaxCount /\ (k > 0 => BatchOf(i) # NullBatch /\ k = BatchOf(i).count)
  <2>1. BatchOf(i) \in Batches \cup {NullBatch}
    <3>1. writer[writers[i]] \in Work
      BY Zenon, <1>1, QueueType, WriterType
    <3>2. QED
      BY Zenon, <3>1 DEF Work, BatchOf
  <2>2. QED
    BY SMTT(30), <2>1, BatchesAssumption DEF Count
<1>3. \A j \in 1..k : <<i, j>> \in Positions(n)
  BY SMTT(30), <1>2, BatchesAssumption DEF Positions
<1>4. \A e \in Positions(n) : e[1] = i => e[2] \in 1..k /\ e = <<i, e[2]>>
  <2>1. TAKE e \in Positions(n)
  <2>2. HAVE e[1] = i
  <2>3. /\ e = <<e[1], e[2]>> /\ e[2] \in 1..MaxCount
        /\ BatchOf(i) # NullBatch /\ e[2] <= BatchOf(i).count
    BY <2>2 DEF Positions
  <2>4. k = BatchOf(i).count
    BY Zenon, <2>3 DEF Count
  <2>5. QED
    BY SMTT(30), <1>2, <2>2, <2>3, <2>4
<1>5. ASSUME NEW j \in 1..k, NEW l \in 1..k, j < l
      PROVE  EntryAt(n, <<i, j>>).seq < EntryAt(n, <<i, l>>).seq
  <2>1. /\ <<i, j>> \in Positions(n) /\ <<i, l>> \in Positions(n)
        /\ <<i, j>>[1] = i /\ <<i, j>>[2] = j /\ <<i, l>>[1] = i /\ <<i, l>>[2] = l
    BY Zenon, <1>3
  <2>2. \A e \in Positions(n) : e[1] \in Int /\ e[2] \in Int
    BY SMTT(30) DEF Positions
  <2>3. Before(n, <<i, j>>) \in SUBSET (Before(n, <<i, l>>) \ {<<i, j>>})
    BY SMTT(30), <1>1, <1>2, <1>5, <2>1, <2>2 DEF Before
  <2>4. <<i, j>> \in Before(n, <<i, l>>)
    BY Zenon, <1>5, <2>1 DEF Before
  <2>5. /\ IsFiniteSet(Before(n, <<i, l>>)) /\ Cardinality(Before(n, <<i, l>>)) \in Nat
        /\ Cardinality(Before(n, <<i, j>>)) \in Nat
    BY Zenon, <2>1, PositionsFinite
  <2>6. /\ IsFiniteSet(Before(n, <<i, l>>) \ {<<i, j>>})
        /\ Cardinality(Before(n, <<i, l>>) \ {<<i, j>>})
             = Cardinality(Before(n, <<i, l>>)) - 1
    BY Zenon, <2>4, <2>5, FS_RemoveElement
  <2>7. Cardinality(Before(n, <<i, j>>)) <= Cardinality(Before(n, <<i, l>>)) - 1
    BY SMTT(30), <2>3, <2>6, FS_Subset
  <2>8. last \in Nat
    BY Zenon DEF TypeOK
  <2>9. QED
    BY SMTT(30), <2>5, <2>7, <2>8 DEF EntryAt
<1>6. \A j, l \in 1..k : g[j] = g[l] => j = l
  <2>1. TAKE j, l \in 1..k
  <2>2. HAVE g[j] = g[l]
  <2>3. EntryAt(n, <<i, j>>) = EntryAt(n, <<i, l>>)
    BY Zenon, <2>2
  <2>4. EntryAt(n, <<i, j>>).seq \in Nat
    BY Zenon, <1>3, PositionsFinite DEF Entry
  <2>5. ~(j < l) /\ ~(l < j)
    BY SMTT(30), <1>5, <2>3, <2>4
  <2>6. QED
    BY SMTT(30), <1>2, <2>5
<1>7. \A j \in 1..k : g[j] \in T
  <2>1. TAKE j \in 1..k
  <2>2. EntryAt(n, <<i, j>>) \in GroupEntries(n)
    BY Zenon, <1>3 DEF GroupEntries, EntryAt
  <2>3. EntryAt(n, <<i, j>>).call = CallOf(i)
    BY Zenon DEF EntryAt, CallOf
  <2>4. QED
    BY SMTT(30), <2>2, <2>3 DEF Of
<1>8. \A e \in T : \E j \in 1..k : g[j] = e
  <2>1. TAKE e \in T
  <2>2. PICK f \in Positions(n) : e = EntryAt(n, f)
    BY Zenon DEF Of, GroupEntries, EntryAt
  <2>3. f[1] \in 1..Len(writers) /\ CallOf(f[1]) = CallOf(i)
    BY SMTT(30), <1>1, <2>2 DEF EntryAt, CallOf, Of, Positions
  <2>4. f[1] = i
    BY Zenon, <1>1, <2>3, CallsDiffer
  <2>5. QED
    BY SMTT(30), <1>4, <2>2, <2>4
<1>9. g \in Bijection(1..k, T)
  BY Zenon, <1>6, <1>7, <1>8 DEF Bijection, Injection, Surjection, IsInjective
<1>10. IsFiniteSet(1..k) /\ Cardinality(1..k) = k
  <2>1. k \in Nat
    BY SMTT(30), <1>2, BatchesAssumption
  <2>2. QED
    BY Zenon, <2>1, IntervalCount
<1>11. QED
  BY SMTT(30), <1>9, <1>10, FS_Bijection DEF ExistsBijection

\* What SetSequence and Append give a group, for the calls in it.
LEMMA GroupsAreNumbered == TypeOK /\ MemberInv /\ CallInv => GroupsNumbered
  BY Zenon, GroupRange, GroupCount DEF GroupsNumbered

----------------------------------------------------------------------------
(* The queue, the log and the background work.                             *)

\* Every step of a client, of the background thread or of a reader keeps it.
THEOREM Invariance == Spec => []IInv
<1>1. IInv /\ [Next]_vars => IInv'
  BY Zenon, NextInv, GroupsAreTyped DEF IInv
<1>2. QED
  BY <1>1, InitInv, PTL DEF Spec

\* DBImpl's members keep their types, whatever the threads do.
THEOREM TypeCorrect == Spec => []TypeOK
<1>1. IInv => TypeOK
  BY Zenon DEF IInv
<1>2. QED
  BY <1>1, Invariance, PTL

\* MakeRoomForWrite, AddRecord and InsertInto are run by the front of the queue
\* alone, although mutex_ is released in all three.
THEOREM SingleLeader == Spec => []LeaderIsFront
<1>1. IInv => LeaderIsFront
  <2>1. SUFFICES ASSUME IInv, NEW t \in Threads, pc[t] \in Leading
                 PROVE  writers # <<>> /\ Head(writers) = t
    BY Zenon DEF LeaderIsFront
  <2>2. Len(writers) > 0 /\ writers[1] = t
    BY SMTT(30), <2>1 DEF IInv, QueueInv
  <2>3. QED
    BY SMTT(30), <2>1, <2>2 DEF IInv, TypeOK
<1>2. QED
  BY <1>1, Invariance, PTL

\* A log file is ahead of its memtable at every moment: recovery can rebuild
\* the memtable from it.
THEOREM WriteAheadLogging == Spec => []MemtableIsLogged
<1>1. IInv => MemtableIsLogged
  BY Zenon DEF IInv, LogInv
<1>2. QED
  BY <1>1, Invariance, PTL

\* There is no lost wakeup and no forgotten work: unless an error stopped
\* everything, a full imm_ or level 0 has a background call scheduled, and
\* who waits without a signal waits for a scheduled call.
THEOREM NoLostWork == Spec => [](WorkIsScheduled /\ NoStrandedWaiter)
<1>1. IInv => WorkIsScheduled /\ NoStrandedWaiter
  BY SMTT(30) DEF IInv, ScheduleInv
<1>2. QED
  BY <1>1, Invariance, PTL

\* The number of level-0 files never passes kL0_StopWritesTrigger.
THEOREM StallBoundsLevel0 == Spec => []Level0Bounded
<1>1. IInv => Level0Bounded
  BY Zenon DEF IInv, BgInv, Level0Bounded
<1>2. QED
  BY <1>1, Invariance, PTL

\* LastSequence, read before mutex_ is released to log a group and set after
\* it is taken again, never goes back.
THEOREM SequenceGrows == Spec => LastSequenceGrows
<1>1. IInv /\ [Next]_vars => [last' >= last]_vars
  BY Zenon, LastStep
<1>2. QED
  BY <1>1, Invariance, PTL DEF Spec, LastSequenceGrows

----------------------------------------------------------------------------
(* The calls of Write and of Get.                                          *)

\* What the queue, the logs and the memtables hold of every call of Write, at
\* every point of every interleaving.
THEOREM CallsInvariance == Spec => []CInv
<1>1. IInv /\ IInv' /\ CInv /\ [Next]_vars => CInv'
  BY Zenon, CallsStep, GroupsAreNumbered DEF IInv, CInv
<1>2. QED
  BY <1>1, Invariance, InitCalls, PTL DEF Spec

\* A write that returned OK is in one whole log record, and the record is
\* synced if the write asked for it, although it was another thread's call
\* of Write that logged it, with other batches in the record.
THEOREM AcknowledgedIsLogged == Spec => []AckedIsLogged
<1>1. QED
  BY LoggedFromInv, Invariance, CallsInvariance, PTL

\* A write that returned OK is read by whoever reads from then on: all its
\* entries are in a memtable or table that Get looks at, and published.
THEOREM AcknowledgedIsVisible == Spec => []AckedIsVisible
<1>1. QED
  BY VisibleFromInv, Invariance, CallsInvariance, PTL

\* A write that is called after another has returned gets greater sequence
\* numbers: every entry is numbered behind what was published at the call.
THEOREM SequencesFollowTime == Spec => []RealTimeOrder
<1>1. CInv => RealTimeOrder
  BY Zenon DEF CInv, OrderInv, Stored, RealTimeOrder
<1>2. QED
  BY <1>1, CallsInvariance, PTL

\* Get without the lock: its memtables and its version give what they gave
\* when it took its sequence number, whatever writers and flushes do.
THEOREM SnapshotReads == Spec => []SnapshotIsStable
<1>1. CInv => SnapshotIsStable
  BY Zenon DEF CInv, ReadInv, SnapshotIsStable
<1>2. QED
  BY <1>1, CallsInvariance, PTL

============================================================================
