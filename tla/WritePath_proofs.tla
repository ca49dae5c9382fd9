--------------------------- MODULE WritePath_proofs ---------------------------
(***************************************************************************)
(* Proofs about WritePath, for every set of threads, every batch and every *)
(* trigger: the type invariant, the single leader of the writer queue,     *)
(* the schedule of background work, the bound on level 0, write-ahead      *)
(* logging, and the growth of the last sequence number.                    *)
(***************************************************************************)
EXTENDS WritePath, TLAPS

----------------------------------------------------------------------------
(* The background thread.                                                  *)

BgType == [pc : BgPc, inputs : Nat, nested : BOOLEAN]

\* What holds of the background call between its steps: it flushes only
\* while imm_ is there, the level-0 files it compacts stay there until it
\* installs its result, and a switch leaves room for one more level-0 file.
BgInv ==
  /\ bg.pc \in {"build", "manifest"} => imm # 0
  /\ bg.pc \in {"idle", "compact", "install"} => ~bg.nested
  /\ bg.pc \in {"compact", "install"} \/ bg.nested => bg.inputs <= l0
  /\ bg.pc # "idle" => scheduled
  /\ imm # 0 => l0 < kL0_StopWritesTrigger
  /\ l0 <= kL0_StopWritesTrigger

(* The writer queue.                                                       *)

\* Where a leader is that has formed its group, and where the new last
\* sequence number of the group is known
Grouped == {"log", "sync", "insert", "relock", "finish"}
Logging == {"log", "sync", "insert", "relock"}

\* What holds of the queue between two steps: a leader is at the front, its
\* group is a part of the queue and ends at or after LastSequence, and a
\* writer that waits and is not done is in the queue.
QueueInv ==
  /\ \A t \in Threads : pc[t] \in Leading => Len(writers) > 0 /\ writers[1] = t
  /\ \A t \in Threads : pc[t] \in Grouped => writer[t].last_writer \in 1..Len(writers)
  /\ \A t \in Threads : pc[t] \in Logging => writer[t].last_sequence >= last
  /\ \A t \in Threads : pc[t] = "wait" /\ ~writer[t].done
                         => \E i \in 1..Len(writers) : writers[i] = t

----------------------------------------------------------------------------
(* Types.                                                                  *)

\* A batch group has finitely many entries, numbered with natural numbers
\* (BuildBatchGroup, SetSequence).  WritePath_theorems shows it of every queue.
GroupsTyped ==
  \A n \in 1..Len(writers) :
    Cardinality(Positions(n)) \in Nat /\ GroupEntries(n) \subseteq Entry

\* What PopGroup leaves of the queue.
LEMMA Suffix ==
  ASSUME NEW S, NEW s \in Seq(S), NEW n \in Nat
  PROVE  LET r == SubSeq(s, n + 1, Len(s))
         IN  /\ r \in Seq(S)
             /\ n <= Len(s) => Len(r) = Len(s) - n
             /\ n <= Len(s) => \A i \in 1..(Len(s) - n) : r[i] = s[i + n]
<1>0. Len(s) \in Nat /\ \A i \in 1..Len(s) : s[i] \in S
  OBVIOUS
<1>1. CASE n <= Len(s)
  <2>1. SubSeq(s, n + 1, Len(s)) = [i \in 1..(Len(s) - n) |-> s[i + n]]
    BY <1>0, <1>1
  <2>2. \A i \in 1..(Len(s) - n) : s[i + n] \in S
    BY <1>0, <1>1
  <2>3. QED
    BY <1>0, <1>1, <2>1, <2>2
<1>2. CASE ~(n <= Len(s))
  <2>1. SubSeq(s, n + 1, Len(s)) = << >>
    BY <1>0, <1>2
  <2>2. QED
    BY <1>2, <2>1
<1>3. QED
  BY Zenon, <1>1, <1>2

\* The queue is a sequence of threads.
LEMMA QueueType ==
  ASSUME TypeOK
  PROVE  /\ Len(writers) \in Nat
         /\ \A i \in 1..Len(writers) : writers[i] \in Threads
<1>1. writers \in Seq(Threads)
  BY Zenon DEF TypeOK
<1>2. QED
  BY <1>1

\* Logs are sequences of records, one log for each memtable.
LEMMA LogsType ==
  ASSUME TypeOK
  PROVE  /\ logs \in Seq(SUBSET Record) /\ contents \in Seq(SUBSET Entry)
         /\ Len(logs) = Len(contents) /\ Len(logs) \in Nat /\ Len(logs) \in 1..Len(logs)
         /\ DOMAIN logs = 1..Len(logs) /\ DOMAIN contents = 1..Len(logs)
         /\ logs[Len(logs)] \in SUBSET Record
<1>1. /\ logs \in Seq(SUBSET Record) /\ contents \in Seq(SUBSET Entry)
      /\ Len(logs) = Len(contents) /\ Len(contents) > 0
  BY Zenon DEF TypeOK
<1>2. QED
  BY <1>1

\* The numbers of level-0 files that matter to the background thread.
LEMMA Level0Type ==
  ASSUME TypeOK, BgInv
  PROVE  /\ l0 \in Nat /\ kL0_StopWritesTrigger \in Nat
         /\ l0 <= kL0_StopWritesTrigger
         /\ imm # 0 => l0 < kL0_StopWritesTrigger
<1>1. l0 \in Nat
  BY Zenon DEF TypeOK
<1>2. QED
  BY Zenon, <1>1, TriggersAssumption DEF BgInv

\* Setting the status of a call keeps the history a sequence of calls.
LEMMA CallsType ==
  ASSUME TypeOK, NEW c, NEW s \in Status \cup {"pending"}
  PROVE  [calls EXCEPT ![c].status = s] \in Seq(Call)
<1>1. calls \in Seq(Call)
  BY Zenon DEF TypeOK
<1>2. CASE c \in 1..Len(calls)
  <2>1. calls[c] \in Call
    BY <1>1, <1>2
  <2>2. [calls[c] EXCEPT !.status = s] \in Call
    BY Zenon, <2>1 DEF Call
  <2>3. QED
    BY <1>1, <1>2, <2>2
<1>3. CASE c \notin 1..Len(calls)
  <2>1. [calls EXCEPT ![c].status = s] = calls
    BY <1>1, <1>3
  <2>2. QED
    BY Zenon, <1>1, <2>1
<1>4. QED
  BY Zenon, <1>2, <1>3

\* The Writer struct of t is a Work, and replacing it by one keeps the type.
LEMMA WriterType ==
  ASSUME TypeOK, NEW t \in Threads
  PROVE  /\ writer[t] \in Work
         /\ \A w \in Work : [writer EXCEPT ![t] = w] \in [Threads -> Work]
BY Zenon DEF TypeOK

\* A Writer struct at rest has the type of a Writer struct.
LEMMA NoWorkType == NoWork \in Work
BY Zenon DEF Work, NoWork, Status

\* The end of Write keeps the types of the queue, of the Writer structs and
\* of the history.
LEMMA PopGroupType ==
  ASSUME TypeOK, NEW t \in Threads, PopGroup(t)
  PROVE  /\ writers' \in Seq(Threads) /\ writer' \in [Threads -> Work]
         /\ calls' \in Seq(Call) /\ pc' \in [Threads -> ClientPc]
         /\ mutex' = NoThread
<1>1. writer[t] \in Work /\ writer[t].status \in Status
      /\ writer[t].last_writer \in Nat
  BY Zenon, WriterType DEF Work
<1>2. writers' \in Seq(Threads)
  <2>1. writers \in Seq(Threads)
    BY Zenon DEF TypeOK
  <2>2. SubSeq(writers, writer[t].last_writer + 1, Len(writers)) \in Seq(Threads)
    BY Zenon, <1>1, <2>1, Suffix
  <2>3. QED
    BY Zenon, <2>2 DEF PopGroup
<1>3. writer' \in [Threads -> Work]
  <2>1. ASSUME NEW u \in Threads
        PROVE  [writer[u] EXCEPT !.done = TRUE, !.status = writer[t].status] \in Work
    <3>1. writer[u] \in Work
      BY Zenon, WriterType
    <3>2. QED
      BY Zenon, <1>1, <3>1 DEF Work
  <2>2. QED
    BY Zenon, <2>1, NoWorkType, WriterType DEF PopGroup
<1>4. ReturnsTo(t, writer[t].status) \in ClientPc
  BY Zenon DEF ReturnsTo, ClientPc
<1>5. CallStatus(t, writer[t].status) \in Status \cup {"pending"}
  BY Zenon, <1>1 DEF CallStatus
<1>6. calls' \in Seq(Call)
  BY Zenon, <1>5, CallsType DEF PopGroup
<1>7. QED
  BY Zenon, <1>2, <1>3, <1>4, <1>6 DEF PopGroup, Goto, TypeOK

\* The record of the background thread keeps its type whatever its next
\* place is.
LEMMA BgRecordType ==
  ASSUME TypeOK
  PROVE  /\ bg \in BgType /\ NoCompaction \in BgType
         /\ \A p \in BgPc : [bg EXCEPT !.pc = p] \in BgType
         /\ \A p \in BgPc, n \in Nat : [bg EXCEPT !.pc = p, !.inputs = n] \in BgType
         /\ \A p \in BgPc, b \in BOOLEAN : [bg EXCEPT !.pc = p, !.nested = b] \in BgType
<1>1. bg \in BgType
  BY Zenon DEF TypeOK, BgType
<1>2. QED
  BY Zenon, <1>1 DEF BgType, NoCompaction, BgPc

\* The end of BackgroundCall keeps the types of what it assigns.
LEMMA EndCallType ==
  ASSUME TypeOK, NEW err, NEW i, NEW n, EndCall(err, i, n)
  PROVE  bg' \in BgType /\ scheduled' \in BOOLEAN /\ signaled' \subseteq Threads
<1>1. bg' \in BgType
  BY Zenon, BgRecordType DEF EndCall
<1>2. scheduled' \in BOOLEAN
  BY Zenon DEF EndCall, MaybeSchedule
<1>3. QED
  BY Zenon, <1>1, <1>2 DEF EndCall, Woken, TypeOK

\* The end of CompactMemTable keeps the types of what it assigns.
LEMMA AfterFlushType ==
  ASSUME TypeOK, NEW err, NEW i, NEW n, AfterFlush(err, i, n)
  PROVE  bg' \in BgType /\ scheduled' \in BOOLEAN /\ signaled' \subseteq Threads
<1>1. CASE bg.nested
  <2>1. [bg EXCEPT !.pc = "compact", !.nested = FALSE] \in BgType
    BY Zenon, BgRecordType DEF BgPc
  <2>2. QED
    BY Zenon, <1>1, <2>1 DEF AfterFlush, Woken, TypeOK
<1>2. CASE ~bg.nested
  BY Zenon, <1>2, EndCallType DEF AfterFlush
<1>3. QED
  BY Zenon, <1>1, <1>2

\* Every step keeps the types, given the two other invariants.
LEMMA TypeStep ==
  ASSUME TypeOK, GroupsTyped, BgInv, QueueInv, [Next]_vars
  PROVE  TypeOK'
<1>0. USE DEF Goto, queueVars, memVars, bgVars, readVars
<1>1. ASSUME NEW t \in Threads, Enqueue(t) PROVE TypeOK'
  <2>1. PICK b \in Batches \cup {NullBatch}, s \in Syncs :
          /\ calls' = Append(calls, [batch |-> b, sync |-> s,
                                     status |-> "pending", after |-> last])
          /\ writer' = [writer EXCEPT ![t] =
               [NoWork EXCEPT !.batch = b, !.sync = s, !.call = Len(calls) + 1,
                              !.force = (b = NullBatch),
                              !.allow_delay = (b # NullBatch)]]
    BY ZenonT(60), <1>1 DEF Enqueue
  <2>2. s \in BOOLEAN /\ Len(calls) + 1 \in Nat
    BY BatchesAssumption DEF TypeOK
  <2>3. (b = NullBatch) \in BOOLEAN /\ (b # NullBatch) \in BOOLEAN
    BY Zenon
  <2>4. [NoWork EXCEPT !.batch = b, !.sync = s, !.call = Len(calls) + 1,
                       !.force = (b = NullBatch),
                       !.allow_delay = (b # NullBatch)] \in Work
    BY Zenon, <2>2, <2>3, NoWorkType DEF Work
  <2>5. writer' \in [Threads -> Work]
    BY <2>1, <2>4, WriterType
  <2>6. calls' \in Seq(Call)
    BY <2>1, <2>2 DEF Call, TypeOK
  <2>7. writers' \in Seq(Threads)
    BY <1>1 DEF Enqueue, TypeOK
  <2>8. pc' \in [Threads -> ClientPc] /\ mutex' \in Threads \cup {NoThread}
    BY ZenonT(60), <1>1 DEF Enqueue, TypeOK, ClientPc
  <2>9. QED
    BY Zenon, <1>1, <2>5, <2>6, <2>7, <2>8 DEF Enqueue, TypeOK
<1>2. ASSUME NEW t \in Threads, Wake(t) PROVE TypeOK'
  <2>1. writer[t] \in Work /\ writer[t].status \in Status
    BY Zenon, WriterType DEF Work
  <2>2. writer' \in [Threads -> Work]
    BY ZenonT(60), <1>2, <2>1, NoWorkType, WriterType DEF Wake, TypeOK
  <2>3. CallStatus(t, writer[t].status) \in Status \cup {"pending"}
    BY Zenon, <2>1 DEF CallStatus
  <2>4. calls' \in Seq(Call)
    <3>1. [calls EXCEPT ![writer[t].call].status =
             CallStatus(t, writer[t].status)] \in Seq(Call)
      BY Zenon, <2>3, CallsType
    <3>2. calls \in Seq(Call)
      BY Zenon DEF TypeOK
    <3>3. QED
      BY Zenon, <1>2, <3>1, <3>2 DEF Wake
  <2>5. pc' \in [Threads -> ClientPc]
    BY SMTT(30), <1>2 DEF Wake, TypeOK, ClientPc, ReturnsTo
  <2>6. QED
    BY Zenon, <1>2, <2>2, <2>4, <2>5 DEF Wake, TypeOK
<1>3. ASSUME NEW t \in Threads, RoomError(t) PROVE TypeOK'
  <2>1. [writer[t] EXCEPT !.status = bg_error, !.last_writer = 1] \in Work
    <3>1. bg_error \in Status
      BY Zenon DEF TypeOK
    <3>2. QED
      BY ZenonT(60), <3>1, WriterType DEF Work
  <2>2. writer' \in [Threads -> Work]
    BY Zenon, <1>3, <2>1, WriterType DEF RoomError
  <2>3. QED
    BY Zenon, <1>3, <2>2 DEF RoomError, TypeOK, ClientPc
<1>4. ASSUME NEW t \in Threads, RoomDelay(t) PROVE TypeOK'
  <2>1. [writer[t] EXCEPT !.allow_delay = FALSE] \in Work
    BY ZenonT(60), WriterType DEF Work
  <2>2. writer' \in [Threads -> Work]
    BY Zenon, <1>4, <2>1, WriterType DEF RoomDelay
  <2>3. QED
    BY Zenon, <1>4, <2>2 DEF RoomDelay, TypeOK, ClientPc
<1>5. ASSUME NEW t \in Threads, Slept(t) PROVE TypeOK'
  BY Zenon, <1>5 DEF Slept, TypeOK, ClientPc
<1>6. ASSUME NEW t \in Threads, RoomWait(t) PROVE TypeOK'
  BY Zenon, <1>6 DEF RoomWait, TypeOK, ClientPc
<1>7. ASSUME NEW t \in Threads, RoomWoken(t) PROVE TypeOK'
  BY Zenon, <1>7 DEF RoomWoken, TypeOK, ClientPc
<1>8. ASSUME NEW t \in Threads, RoomSwitch(t) PROVE TypeOK'
  <2>1. [writer[t] EXCEPT !.force = FALSE] \in Work
    BY Zenon, WriterType DEF Work
  <2>2. writer' \in [Threads -> Work]
    BY Zenon, <1>8, <2>1, WriterType DEF RoomSwitch
  <2>3. scheduled' \in BOOLEAN
    BY Zenon, <1>8 DEF RoomSwitch, MaybeSchedule, TypeOK
  <2>4. /\ logs' \in Seq(SUBSET Record) /\ contents' \in Seq(SUBSET Entry)
        /\ Len(logs') = Len(logs) + 1 /\ Len(contents') = Len(contents) + 1
    BY SMTT(30), <1>8 DEF RoomSwitch, TypeOK
  <2>5. QED
    BY SMTT(30), <1>8, <2>2, <2>3, <2>4 DEF RoomSwitch, TypeOK, mem
<1>9. ASSUME NEW t \in Threads, RoomSwitchFails(t) PROVE TypeOK'
  <2>1. [writer[t] EXCEPT !.status = "error", !.last_writer = 1] \in Work
    BY ZenonT(60), WriterType DEF Work, Status
  <2>2. writer' \in [Threads -> Work]
    BY Zenon, <1>9, <2>1, WriterType DEF RoomSwitchFails
  <2>3. QED
    BY SMTT(30), <1>9, <2>2 DEF RoomSwitchFails, TypeOK, ClientPc, Fault
<1>10. ASSUME NEW t \in Threads, RoomReady(t) PROVE TypeOK'
  <2>1. [writer[t] EXCEPT !.last_writer = 1] \in Work
    BY WriterType DEF Work
  <2>2. ASSUME NEW n \in 1..Len(writers)
        PROVE  [writer[t] EXCEPT !.last_writer = n, !.group = GroupEntries(n),
                  !.last_sequence = last + Cardinality(Positions(n))] \in Work
    <3>1. n \in Nat /\ last + Cardinality(Positions(n)) \in Nat
      BY DEF TypeOK, GroupsTyped
    <3>2. GroupEntries(n) \in SUBSET Entry
      BY Zenon DEF GroupsTyped
    <3>3. QED
      BY ZenonT(60), <3>1, <3>2, WriterType DEF Work
  <2>3. writer' \in [Threads -> Work]
    <3>1. CASE writer[t].batch = NullBatch
      <4>1. writer' = [writer EXCEPT ![t] = [writer[t] EXCEPT !.last_writer = 1]]
        BY Zenon, <1>10, <3>1 DEF RoomReady
      <4>2. QED
        BY Zenon, <2>1, <4>1, WriterType
    <3>2. CASE writer[t].batch # NullBatch
      <4>1. PICK n \in 1..Len(writers) :
              writer' = [writer EXCEPT ![t] =
                [writer[t] EXCEPT !.last_writer = n, !.group = GroupEntries(n),
                   !.last_sequence = last + Cardinality(Positions(n))]]
        BY ZenonT(60), <1>10, <3>2 DEF RoomReady
      <4>2. QED
        BY Zenon, <2>2, <4>1, WriterType
    <3>3. QED
      BY Zenon, <3>1, <3>2
  <2>4. QED
    BY Zenon, <1>10, <2>3 DEF RoomReady, TypeOK, ClientPc
<1>11. ASSUME NEW t \in Threads, AddRecord(t) PROVE TypeOK'
  <2>1. [entries |-> writer[t].group, whole |-> TRUE, synced |-> FALSE] \in Record
    BY Zenon, WriterType DEF Work, Record
  <2>2. logs' \in Seq(SUBSET Record) /\ Len(logs') = Len(logs)
    <3>1. logs \in Seq(SUBSET Record) /\ Len(logs) \in 1..Len(logs)
      BY DEF TypeOK
    <3>2. \A r \in Record : logs[Len(logs)] \cup {r} \in SUBSET Record
      BY <3>1
    <3>3. PICK r \in Record : logs' = [logs EXCEPT ![Len(logs)] = @ \cup {r}]
      BY Zenon, <1>11, <2>1 DEF AddRecord, lastLog
    <3>4. QED
      BY <3>1, <3>2, <3>3
  <2>3. QED
    BY Zenon, <1>11, <2>2 DEF AddRecord, TypeOK, ClientPc
<1>12. ASSUME NEW t \in Threads, AddRecordFails(t) PROVE TypeOK'
  <2>1. \A b \in BOOLEAN :
          [entries |-> writer[t].group, whole |-> b, synced |-> FALSE] \in Record
    BY Zenon, WriterType DEF Work, Record
  <2>2. logs' \in Seq(SUBSET Record) /\ Len(logs') = Len(logs)
    BY SMTT(30), <1>12, <2>1 DEF AddRecordFails, TypeOK, lastLog
  <2>3. [writer[t] EXCEPT !.status = "error"] \in Work
    BY WriterType DEF Work, Status
  <2>4. writer' \in [Threads -> Work]
    BY Zenon, <1>12, <2>3, WriterType DEF AddRecordFails
  <2>5. QED
    BY SMTT(30), <1>12, <2>2, <2>4 DEF AddRecordFails, TypeOK, ClientPc, Fault
<1>13. ASSUME NEW t \in Threads, Sync(t) PROVE TypeOK'
  <2>1. \A r \in Record : [r EXCEPT !.synced = TRUE] \in Record
    BY Zenon DEF Record
  <2>2. logs' \in Seq(SUBSET Record) /\ Len(logs') = Len(logs)
    BY SMTT(30), <1>13, <2>1 DEF Sync, TypeOK, lastLog
  <2>3. QED
    BY Zenon, <1>13, <2>2 DEF Sync, TypeOK, ClientPc
<1>14. ASSUME NEW t \in Threads, SyncFails(t) PROVE TypeOK'
  <2>1. [writer[t] EXCEPT !.status = "error", !.sync_error = TRUE] \in Work
    BY ZenonT(60), WriterType DEF Work, Status
  <2>2. writer' \in [Threads -> Work]
    BY Zenon, <1>14, <2>1, WriterType DEF SyncFails
  <2>3. QED
    BY SMTT(30), <1>14, <2>2 DEF SyncFails, TypeOK, ClientPc, Fault
<1>15. ASSUME NEW t \in Threads, Insert(t) PROVE TypeOK'
  <2>1. PICK e \in writer[t].group :
          /\ contents' = [contents EXCEPT ![mem] = @ \cup {e}]
          /\ writer' = [writer EXCEPT ![t].group = @ \ {e}]
          /\ Goto(t, IF writer[t].group = {e} THEN "relock" ELSE "insert")
    BY Zenon, <1>15 DEF Insert
  <2>2. writer[t].group \in SUBSET Entry
    BY Zenon, WriterType DEF Work
  <2>3. contents' \in Seq(SUBSET Entry) /\ Len(contents') = Len(contents)
    BY <2>1, <2>2, LogsType DEF mem
  <2>4. [writer[t] EXCEPT !.group = @ \ {e}] \in Work
    BY <2>2, WriterType DEF Work
  <2>5. writer' \in [Threads -> Work]
    BY Zenon, <2>1, <2>4, WriterType
  <2>6. QED
    BY Zenon, <1>15, <2>1, <2>3, <2>5 DEF Insert, TypeOK, ClientPc
<1>16. ASSUME NEW t \in Threads, Commit(t) PROVE TypeOK'
  <2>1. last' \in Nat
    BY Zenon, <1>16, WriterType DEF Commit, Work
  <2>2. Members(t) \cup NextLeader(t) \cup ErrorWakes \subseteq Threads
    <3>1. writer[t].last_writer \in 1..Len(writers)
      BY Zenon, <1>16 DEF Commit, QueueInv, Grouped
    <3>2. \A i \in 1..Len(writers) : writers[i] \in Threads
      BY DEF TypeOK
    <3>3. writer[t].last_writer < Len(writers)
          => writer[t].last_writer + 1 \in 1..Len(writers)
      BY SMTT(30), <3>1 DEF TypeOK
    <3>4. QED
      BY SMTT(30), <3>1, <3>2, <3>3 DEF Members, NextLeader, ErrorWakes, Woken, TypeOK
  <2>3. QED
    BY Zenon, <1>16, <2>1, <2>2, PopGroupType DEF Commit, TypeOK, Status
<1>17. ASSUME NEW t \in Threads, Finish(t) PROVE TypeOK'
  <2>1. Members(t) \cup NextLeader(t) \subseteq Threads
    <3>1. writer[t].last_writer \in 1..Len(writers)
      BY Zenon, <1>17 DEF Finish, QueueInv, Grouped
    <3>2. \A i \in 1..Len(writers) : writers[i] \in Threads
      BY DEF TypeOK
    <3>3. writer[t].last_writer < Len(writers)
          => writer[t].last_writer + 1 \in 1..Len(writers)
      BY <3>1 DEF TypeOK
    <3>4. QED
      BY SMTT(30), <3>1, <3>2, <3>3 DEF Members, NextLeader, TypeOK
  <2>2. QED
    BY Zenon, <1>17, <2>1, PopGroupType DEF Finish, TypeOK
<1>18. ASSUME NEW t \in Threads, FlushWait(t) PROVE TypeOK'
  <2>1. writer' \in [Threads -> Work]
    BY ZenonT(60), <1>18, NoWorkType, WriterType DEF FlushWait, TypeOK
  <2>2. (IF imm = 0 THEN "ok" ELSE "error") \in Status \cup {"pending"}
    BY Zenon DEF Status
  <2>3. calls' \in Seq(Call)
    <3>1. [calls EXCEPT ![writer[t].call].status =
             IF imm = 0 THEN "ok" ELSE "error"] \in Seq(Call)
      BY Zenon, <2>2, CallsType
    <3>2. calls \in Seq(Call)
      BY Zenon DEF TypeOK
    <3>3. QED
      BY Zenon, <1>18, <3>1, <3>2 DEF FlushWait
  <2>4. QED
    BY Zenon, <1>18, <2>1, <2>3 DEF FlushWait, TypeOK, ClientPc
<1>19. ASSUME BackgroundCall PROVE TypeOK'
  <2>1. bg' \in BgType /\ scheduled' \in BOOLEAN /\ signaled' \subseteq Threads
    <3>1. CASE bg_error # "ok"
      BY Zenon, <1>19, <3>1, EndCallType DEF BackgroundCall
    <3>2. CASE bg_error = "ok" /\ imm # 0
      BY Zenon, <1>19, <3>2, BgRecordType DEF BackgroundCall, BgPc, TypeOK
    <3>3. CASE bg_error = "ok" /\ imm = 0
      <4>1. PICK n \in 1..l0 : bg' = [bg EXCEPT !.pc = "compact", !.inputs = n]
        BY Zenon, <1>19, <3>3 DEF BackgroundCall
      <4>2. n \in Nat
        BY DEF TypeOK
      <4>3. QED
        BY Zenon, <1>19, <3>3, <4>1, <4>2, BgRecordType DEF BackgroundCall,
           BgPc, TypeOK
    <3>4. QED
      BY Zenon, <3>1, <3>2, <3>3
  <2>2. QED
    BY Zenon, <1>19, <2>1 DEF BackgroundCall, BgType, TypeOK
<1>20. ASSUME NestedFlush PROVE TypeOK'
  BY Zenon, <1>20 DEF NestedFlush, BgPc, TypeOK
<1>21. ASSUME TableBuilt PROVE TypeOK'
  BY Zenon, <1>21 DEF TableBuilt, BgPc, TypeOK
<1>22. ASSUME FlushFails PROVE TypeOK'
  <2>1. bg' \in BgType /\ scheduled' \in BOOLEAN /\ signaled' \subseteq Threads
    BY Zenon, <1>22, AfterFlushType DEF FlushFails
  <2>2. QED
    BY SMTT(30), <1>22, <2>1 DEF FlushFails, BgType, Fault, Status, TypeOK
<1>23. ASSUME FlushInstalled PROVE TypeOK'
  <2>1. bg' \in BgType /\ scheduled' \in BOOLEAN /\ signaled' \subseteq Threads
    <3>1. CASE bg_error = "ok"
      BY Zenon, <1>23, <3>1, BgRecordType DEF FlushInstalled, BgPc, TypeOK
    <3>2. CASE bg_error # "ok"
      BY Zenon, <1>23, <3>2, AfterFlushType DEF FlushInstalled
    <3>3. QED
      BY Zenon, <3>1, <3>2
  <2>2. l0' \in Nat /\ imm \in 1..(Len(contents) - 1)
    BY SMTT(30), <1>23 DEF FlushInstalled, BgInv, TypeOK
  <2>3. QED
    BY SMTT(30), <1>23, <2>1, <2>2 DEF FlushInstalled, BgType, TypeOK
<1>24. ASSUME FilesRemoved PROVE TypeOK'
  <2>1. bg' \in BgType /\ scheduled' \in BOOLEAN /\ signaled' \subseteq Threads
    BY Zenon, <1>24, AfterFlushType DEF FilesRemoved
  <2>2. QED
    BY Zenon, <1>24, <2>1 DEF FilesRemoved, BgType, TypeOK
<1>25. ASSUME CompactionWritten PROVE TypeOK'
  BY Zenon, <1>25 DEF CompactionWritten, BgPc, TypeOK
<1>26. ASSUME CompactionFails PROVE TypeOK'
  <2>1. bg' \in BgType /\ scheduled' \in BOOLEAN /\ signaled' \subseteq Threads
    BY Zenon, <1>26, EndCallType DEF CompactionFails
  <2>2. QED
    BY SMTT(30), <1>26, <2>1 DEF CompactionFails, BgType, Fault, Status, TypeOK
<1>27. ASSUME CompactionInstalled PROVE TypeOK'
  <2>1. bg' \in BgType /\ scheduled' \in BOOLEAN /\ signaled' \subseteq Threads
    <3>1. CASE bg_error = "ok"
      BY Zenon, <1>27, <3>1, BgRecordType DEF CompactionInstalled, BgPc, TypeOK
    <3>2. CASE bg_error # "ok"
      BY Zenon, <1>27, <3>2, EndCallType DEF CompactionInstalled
    <3>3. QED
      BY Zenon, <3>1, <3>2
  <2>2. l0' \in Nat
    BY <1>27 DEF CompactionInstalled, BgInv, TypeOK
  <2>3. QED
    BY Zenon, <1>27, <2>1, <2>2 DEF CompactionInstalled, BgType, TypeOK
<1>28. ASSUME NEW r \in Readers, BeginGet(r) PROVE TypeOK'
  <2>1. Visible(last) \in SUBSET Entry
    BY DEF Visible, TypeOK
  <2>2. mem \in Nat /\ imm \in Nat /\ flushed \in SUBSET Nat /\ last \in Nat
    BY DEF mem, TypeOK
  <2>3. [active |-> TRUE, snapshot |-> last, mem |-> mem, imm |-> imm,
         files |-> flushed, expect |-> Visible(last)] \in Read
    BY Zenon, <2>1, <2>2 DEF Read
  <2>4. QED
    BY SMTT(30), <1>28, <2>3 DEF BeginGet, TypeOK
<1>29. ASSUME NEW r \in Readers, EndGet(r) PROVE TypeOK'
  BY Zenon, <1>29 DEF EndGet, Read, NoRead, TypeOK
<1>30. ASSUME UNCHANGED vars PROVE TypeOK'
  BY Zenon, <1>30 DEF vars, TypeOK
<1>31. QED
  BY <1>1, <1>2, <1>3, <1>4, <1>5, <1>6, <1>7, <1>8, <1>9, <1>10, <1>11, <1>12,
     <1>13, <1>14, <1>15, <1>16, <1>17, <1>18, <1>19, <1>20, <1>21, <1>22,
     <1>23, <1>24, <1>25, <1>26, <1>27, <1>28, <1>29, <1>30
  DEF Next, Client, ClientFault, Background, BackgroundFault, Quiescent

----------------------------------------------------------------------------
(* Background work.                                                        *)

\* Work that exists is scheduled, and who waits for it is told.
ScheduleInv == WorkIsScheduled /\ NoStrandedWaiter

\* What BgInv and ScheduleInv speak of, where only a client thread t moves.
LEMMA ClientKeepsBg ==
  ASSUME TypeOK, BgInv, UNCHANGED <<imm, l0, scheduled, bg>>
  PROVE  BgInv'
BY Zenon DEF BgInv

\* A call that ends leaves an idle background thread.
LEMMA EndCallBg ==
  ASSUME BgInv, NEW err, EndCall(err, imm', l0'),
         imm' # 0 => l0' < kL0_StopWritesTrigger, l0' <= kL0_StopWritesTrigger
  PROVE  BgInv'
<1>1. bg'.pc = "idle" /\ bg'.nested = FALSE
  BY Zenon DEF EndCall, NoCompaction
<1>2. QED
  BY Zenon, <1>1 DEF BgInv

\* A flush that ends leaves BgInv to its caller.
LEMMA AfterFlushBg ==
  ASSUME TypeOK, TypeOK', BgInv, NEW err, AfterFlush(err, imm', l0'),
         bg.pc \in {"build", "manifest", "gc"},
         bg.nested => bg.inputs <= l0',
         imm' # 0 => l0' < kL0_StopWritesTrigger, l0' <= kL0_StopWritesTrigger
  PROVE  BgInv'
<1>1. CASE bg.nested
  <2>1. bg' = [bg EXCEPT !.pc = "compact", !.nested = FALSE] /\ scheduled' = scheduled
    BY Zenon, <1>1 DEF AfterFlush
  <2>2. bg'.pc = "compact" /\ bg'.nested = FALSE /\ bg'.inputs = bg.inputs
    BY Zenon, <2>1, BgRecordType DEF BgType
  <2>3. scheduled'
    BY Zenon, <2>1 DEF BgInv
  <2>4. QED
    BY Zenon, <1>1, <2>2, <2>3 DEF BgInv
<1>2. CASE ~bg.nested
  BY Zenon, <1>2, EndCallBg DEF AfterFlush
<1>3. QED
  BY Zenon, <1>1, <1>2

\* Every step keeps the invariant of the background thread.
LEMMA BgStep ==
  ASSUME TypeOK, TypeOK', BgInv, [Next]_vars
  PROVE  BgInv'
<1>0. USE DEF queueVars, memVars, bgVars, readVars
<1>1. ASSUME NEW t \in Threads, RoomSwitch(t) PROVE BgInv'
  <2>1. scheduled => scheduled'
    BY Zenon, <1>1 DEF RoomSwitch, MaybeSchedule
  <2>2. QED
    BY Zenon, <1>1, <2>1 DEF RoomSwitch, BgInv
<1>2. ASSUME NEW t \in Threads, Enqueue(t) \/ Client(t) \/ ClientFault(t), ~RoomSwitch(t)
      PROVE  BgInv'
  <2>1. UNCHANGED <<imm, l0, scheduled, bg>>
    BY Zenon, <1>2 DEF Client, ClientFault, Enqueue, Wake, RoomError, RoomDelay,
       Slept, RoomWait, RoomWoken, RoomReady, AddRecord, Sync, Insert, Commit,
       Finish, FlushWait, RoomSwitchFails, AddRecordFails, SyncFails
  <2>2. QED
    BY Zenon, <2>1, ClientKeepsBg
<1>3. ASSUME BackgroundCall PROVE BgInv'
  <2>1. CASE bg_error # "ok"
    <3>1. imm' = imm /\ l0' = l0 /\ EndCall(bg_error, imm', l0')
      BY Zenon, <1>3, <2>1 DEF BackgroundCall
    <3>2. QED
      BY Zenon, <3>1, EndCallBg DEF BgInv
  <2>2. CASE bg_error = "ok" /\ imm # 0
    <3>1. bg'.pc = "build" /\ bg'.nested = bg.nested /\ bg'.inputs = bg.inputs
      BY Zenon, <1>3, <2>2, BgRecordType DEF BackgroundCall, BgType
    <3>2. QED
      BY Zenon, <1>3, <2>2, <3>1 DEF BackgroundCall, BgInv
  <2>3. CASE bg_error = "ok" /\ imm = 0
    <3>1. bg'.pc = "compact" /\ bg'.nested = bg.nested /\ bg'.inputs \in 1..l0
      BY Zenon, <1>3, <2>3, BgRecordType DEF BackgroundCall, BgType
    <3>2. bg'.inputs <= l0
      BY <3>1 DEF TypeOK
    <3>3. QED
      BY Zenon, <1>3, <2>3, <3>1, <3>2 DEF BackgroundCall, BgInv
  <2>4. QED
    BY Zenon, <2>1, <2>2, <2>3
<1>4. ASSUME NestedFlush PROVE BgInv'
  <2>1. bg'.pc = "build" /\ bg'.nested = TRUE /\ bg'.inputs = bg.inputs
    BY Zenon, <1>4, BgRecordType DEF NestedFlush, BgType
  <2>2. QED
    BY Zenon, <1>4, <2>1 DEF NestedFlush, BgInv
<1>5. ASSUME TableBuilt PROVE BgInv'
  <2>1. bg'.pc = "manifest" /\ bg'.nested = bg.nested /\ bg'.inputs = bg.inputs
    BY Zenon, <1>5, BgRecordType DEF TableBuilt, BgType
  <2>2. QED
    BY Zenon, <1>5, <2>1 DEF TableBuilt, BgInv
<1>6. ASSUME FlushFails PROVE BgInv'
  <2>1. imm' = imm /\ l0' = l0 /\ AfterFlush("error", imm', l0')
    BY Zenon, <1>6 DEF FlushFails
  <2>2. bg.pc \in {"build", "manifest", "gc"}
    BY Zenon, <1>6 DEF FlushFails
  <2>3. QED
    BY Zenon, <2>1, <2>2, AfterFlushBg DEF BgInv
<1>7. ASSUME FlushInstalled PROVE BgInv'
  <2>1. /\ imm' = 0 /\ l0' \in Nat /\ l0 <= l0' /\ l0' <= l0 + 1
        /\ bg.pc = "manifest" /\ imm # 0
    BY SMTT(30), <1>7 DEF FlushInstalled, BgInv, TypeOK
  <2>2. l0' <= kL0_StopWritesTrigger /\ (bg.nested => bg.inputs <= l0')
    <3>1. bg.inputs \in Nat
      BY Zenon, BgRecordType DEF BgType
    <3>2. QED
      BY <2>1, <3>1, Level0Type DEF BgInv
  <2>3. CASE bg_error = "ok"
    <3>1. bg' = [bg EXCEPT !.pc = "gc"]
      BY Zenon, <1>7, <2>3 DEF FlushInstalled
    <3>2. bg'.pc = "gc" /\ bg'.nested = bg.nested /\ bg'.inputs = bg.inputs
      BY Zenon, <3>1, BgRecordType DEF BgType
    <3>3. QED
      BY Zenon, <1>7, <2>1, <2>2, <2>3, <3>2 DEF FlushInstalled, BgInv
  <2>4. CASE bg_error # "ok"
    <3>1. AfterFlush(bg_error, imm', l0')
      BY Zenon, <1>7, <2>1, <2>4 DEF FlushInstalled
    <3>2. QED
      BY Zenon, <2>1, <2>2, <3>1, AfterFlushBg
  <2>5. QED
    BY Zenon, <2>3, <2>4
<1>8. ASSUME FilesRemoved PROVE BgInv'
  <2>1. imm' = imm /\ l0' = l0 /\ AfterFlush(bg_error, imm', l0') /\ bg.pc = "gc"
    BY Zenon, <1>8 DEF FilesRemoved
  <2>2. QED
    BY Zenon, <2>1, AfterFlushBg DEF BgInv
<1>9. ASSUME CompactionWritten PROVE BgInv'
  <2>1. bg'.pc = "install" /\ bg'.nested = bg.nested /\ bg'.inputs = bg.inputs
    BY Zenon, <1>9, BgRecordType DEF CompactionWritten, BgType
  <2>2. QED
    BY Zenon, <1>9, <2>1 DEF CompactionWritten, BgInv
<1>10. ASSUME CompactionFails PROVE BgInv'
  BY Zenon, <1>10 DEF CompactionFails, EndCall, NoCompaction, BgInv
<1>11. ASSUME CompactionInstalled PROVE BgInv'
  <2>1. bg.inputs \in Nat /\ bg.inputs <= l0 /\ l0' = l0 - bg.inputs /\ ~bg.nested
    BY Zenon, <1>11, BgRecordType DEF CompactionInstalled, BgInv, BgType
  <2>2. l0' <= l0 /\ l0' <= kL0_StopWritesTrigger
        /\ (imm # 0 => l0' < kL0_StopWritesTrigger)
    BY <2>1, Level0Type
  <2>3. CASE bg_error = "ok"
    <3>1. bg' = [bg EXCEPT !.pc = "gc"]
      BY Zenon, <1>11, <2>3 DEF CompactionInstalled
    <3>2. bg'.pc = "gc" /\ bg'.nested = bg.nested
      BY Zenon, <3>1, BgRecordType DEF BgType
    <3>3. QED
      BY Zenon, <1>11, <2>1, <2>2, <2>3, <3>2 DEF CompactionInstalled, BgInv
  <2>4. CASE bg_error # "ok"
    <3>1. imm' = imm /\ EndCall(bg_error, imm', l0')
      BY Zenon, <1>11, <2>4 DEF CompactionInstalled, EndCall
    <3>2. QED
      BY Zenon, <2>2, <3>1, EndCallBg
  <2>5. QED
    BY Zenon, <2>3, <2>4
<1>12. ASSUME NEW r \in Readers, BeginGet(r) \/ EndGet(r) PROVE BgInv'
  BY Zenon, <1>12, ClientKeepsBg DEF BeginGet, EndGet
<1>13. ASSUME UNCHANGED vars PROVE BgInv'
  BY Zenon, <1>13, ClientKeepsBg DEF vars
<1>14. QED
  BY Zenon, <1>1, <1>2, <1>3, <1>4, <1>5, <1>6, <1>7, <1>8, <1>9, <1>10, <1>11, <1>12,
     <1>13
  DEF Next, Background, BackgroundFault, Quiescent

----------------------------------------------------------------------------
(* The writer queue.                                                       *)

\* Background threads and readers do not touch the queue.
LEMMA OthersKeepQueue ==
  ASSUME QueueInv, UNCHANGED <<writers, writer, pc, last>>
  PROVE  QueueInv'
BY Zenon DEF QueueInv

\* A leader that goes on as the leader keeps the queue in order: it is alone,
\* and only its own Writer changes.
LEMMA LeaderMoves ==
  ASSUME TypeOK, QueueInv, NEW t \in Threads, NEW p \in Leading,
         pc[t] \in Leading, pc' = [pc EXCEPT ![t] = p],
         UNCHANGED <<writers, last>>,
         \A u \in Threads \ {t} : writer'[u] = writer[u],
         p \in Grouped => writer'[t].last_writer \in 1..Len(writers),
         p \in Logging => writer'[t].last_sequence >= last
  PROVE  QueueInv'
<1>1. \A u \in Threads : pc[u] \in Leading => u = t
  BY SMTT(30) DEF QueueInv
<1>2. pc'[t] = p /\ \A u \in Threads \ {t} : pc'[u] = pc[u]
  BY Zenon DEF TypeOK
<1>3. p # "wait" /\ Grouped \subseteq Leading /\ Logging \subseteq Leading
  BY Zenon DEF Leading, Grouped, Logging
<1>4. QED
  BY SMTT(30), <1>1, <1>2, <1>3 DEF QueueInv

\* A leader at the end of Write leaves the queue to the writers behind its
\* group, and everyone it takes along is done.
LEMMA PopGroupQueue ==
  ASSUME TypeOK, QueueInv, NEW t \in Threads, pc[t] \in Grouped, PopGroup(t)
  PROVE  QueueInv'
<1>0. DEFINE n == writer[t].last_writer
<1>1. n \in 1..Len(writers) /\ Len(writers) \in Nat /\ writers[1] = t
  BY DEF QueueInv, Grouped, Leading, TypeOK
<1>2. \A u \in Threads \ {t} : pc[u] \notin Leading /\ pc'[u] = pc[u]
  BY Zenon DEF QueueInv, Grouped, Leading, PopGroup, Goto, TypeOK
<1>3. pc'[t] \in {"idle", "flush"}
  BY Zenon DEF PopGroup, Goto, ReturnsTo, TypeOK
<1>4. \A u \in Threads : pc'[u] \notin Leading
  BY Zenon, <1>2, <1>3 DEF Leading
<1>5. \A u \in Threads : pc'[u] \notin Grouped /\ pc'[u] \notin Logging
  BY Zenon, <1>4 DEF Leading, Grouped, Logging
<1>6. ASSUME NEW u \in Threads, pc'[u] = "wait", ~writer'[u].done
      PROVE  \E i \in 1..Len(writers') : writers'[i] = u
  <2>1. u # t /\ pc[u] = "wait"
    BY Zenon, <1>2, <1>3, <1>6
  <2>2. u \notin Members(t) /\ writer'[u] = writer[u]
    <3>1. CASE u \in Members(t)
      <4>1. writer'[u] = [writer[u] EXCEPT !.done = TRUE, !.status = writer[t].status]
        BY Zenon, <2>1, <3>1 DEF PopGroup
      <4>2. writer'[u].done = TRUE
        BY Zenon, <4>1, WriterType DEF Work
      <4>3. QED
        BY Zenon, <1>6, <4>2
    <3>2. CASE u \notin Members(t)
      BY Zenon, <2>1, <3>2 DEF PopGroup
    <3>3. QED
      BY Zenon, <3>1, <3>2
  <2>3. PICK i \in 1..Len(writers) : writers[i] = u
    BY Zenon, <1>6, <2>1, <2>2 DEF QueueInv
  <2>4. i > n
    BY <1>1, <2>1, <2>2, <2>3 DEF Members
  <2>5. writers' = SubSeq(writers, n + 1, Len(writers))
    BY Zenon DEF PopGroup
  <2>6. Len(writers') = Len(writers) - n /\ writers'[i - n] = writers[i]
    <3>1. writers \in Seq(Threads) /\ n \in Nat /\ n <= Len(writers)
      BY <1>1 DEF TypeOK
    <3>2. /\ Len(writers') = Len(writers) - n
          /\ \A j \in 1..(Len(writers) - n) : writers'[j] = writers[j + n]
      BY Zenon, <2>5, <3>1, Suffix
    <3>3. i - n \in 1..(Len(writers) - n) /\ (i - n) + n = i
      BY SMTT(30), <1>1, <2>3, <2>4, <3>1
    <3>4. QED
      BY Zenon, <3>2, <3>3
  <2>7. i - n \in 1..Len(writers')
    <3>1. n \in Nat /\ i \in Nat /\ Len(writers) \in Nat
      BY SMTT(30), <1>1, <2>3
    <3>2. i - n \in 1..(Len(writers) - n)
      BY SMTT(30), <2>3, <2>4, <3>1
    <3>3. QED
      BY Zenon, <2>6, <3>2
  <2>8. QED
    BY Zenon, <2>3, <2>6, <2>7
<1>7. QED
  BY Zenon, <1>4, <1>5, <1>6 DEF QueueInv

\* Every step keeps the queue invariant.
LEMMA QueueStep ==
  ASSUME TypeOK, GroupsTyped, QueueInv, [Next]_vars
  PROVE  QueueInv'
<1>0. USE DEF Goto, queueVars, memVars, bgVars, readVars
<1>1. ASSUME NEW t \in Threads, Enqueue(t) PROVE QueueInv'
  <2>1. /\ writers' = Append(writers, t) /\ last' = last /\ pc[t] = "idle"
        /\ \A u \in Threads \ {t} : pc'[u] = pc[u] /\ writer'[u] = writer[u]
        /\ IF writers = <<>> THEN pc'[t] = "room" ELSE pc'[t] = "wait"
    BY SMTT(30), <1>1 DEF Enqueue, TypeOK
  <2>2. /\ Len(writers') = Len(writers) + 1 /\ Len(writers) \in Nat
        /\ writers'[Len(writers) + 1] = t
        /\ \A i \in 1..Len(writers) : writers'[i] = writers[i]
    BY SMTT(30), <2>1 DEF TypeOK
  <2>3. CASE writers = <<>>
    <3>1. Len(writers) = 0 /\ pc'[t] = "room"
      BY Zenon, <2>1, <2>3
    <3>2. \A u \in Threads : pc[u] \notin Leading
                             /\ ~(pc[u] = "wait" /\ ~writer[u].done)
      BY <3>1 DEF QueueInv
    <3>3. QED
      BY SMTT(30), <2>1, <2>2, <3>1, <3>2 DEF QueueInv, Leading, Grouped, Logging
  <2>4. CASE writers # <<>>
    <3>1. pc'[t] = "wait" /\ Len(writers) > 0
      <4>1. writers \in Seq(Threads) /\ pc'[t] = "wait"
        BY Zenon, <2>1, <2>4 DEF TypeOK
      <4>2. QED
        BY <2>4, <4>1
    <3>2. ASSUME NEW u \in Threads, pc'[u] \in Leading
          PROVE  Len(writers') > 0 /\ writers'[1] = u
      <4>1. u # t /\ pc[u] \in Leading
        BY Zenon, <2>1, <3>1, <3>2 DEF Leading
      <4>2. writers[1] = u
        BY Zenon, <4>1 DEF QueueInv
      <4>3. QED
        BY <2>2, <3>1, <4>2
    <3>3. \A u \in Threads :
            /\ pc'[u] \in Grouped => writer'[u].last_writer \in 1..Len(writers')
            /\ pc'[u] \in Logging => writer'[u].last_sequence >= last'
      BY <2>1, <2>2, <3>1 DEF QueueInv, Grouped, Logging
    <3>4. ASSUME NEW u \in Threads, pc'[u] = "wait", ~writer'[u].done
          PROVE  \E i \in 1..Len(writers') : writers'[i] = u
      <4>1. CASE u = t
        BY <2>2, <4>1
      <4>2. CASE u # t
        <5>1. PICK i \in 1..Len(writers) : writers[i] = u
          BY Zenon, <2>1, <3>4, <4>2 DEF QueueInv
        <5>2. i \in 1..Len(writers') /\ writers'[i] = u
          BY <2>2, <5>1
        <5>3. QED
          BY Zenon, <5>2
      <4>3. QED
        BY Zenon, <4>1, <4>2
    <3>5. QED
      BY Zenon, <3>2, <3>3, <3>4 DEF QueueInv
  <2>5. QED
    BY Zenon, <2>3, <2>4
<1>2. ASSUME NEW t \in Threads, Wake(t) PROVE QueueInv'
  <2>1. UNCHANGED <<writers, last>> /\ pc[t] = "wait"
    BY Zenon, <1>2 DEF Wake
  <2>2. \A u \in Threads \ {t} : pc'[u] = pc[u] /\ writer'[u] = writer[u]
    BY Zenon, <1>2 DEF Wake, TypeOK
  <2>3. CASE writer[t].done
    <3>1. pc'[t] \in {"idle", "flush"}
      BY Zenon, <1>2, <2>3 DEF Wake, ReturnsTo, TypeOK
    <3>2. QED
      BY Zenon, <2>1, <2>2, <3>1 DEF QueueInv, Leading, Grouped, Logging
  <2>4. CASE ~writer[t].done
    <3>1. pc'[t] = "room" /\ Head(writers) = t
      BY Zenon, <1>2, <2>4 DEF Wake, TypeOK
    <3>2. Len(writers) > 0 /\ writers[1] = t
      BY SMTT(30), <2>1, <2>4, <3>1 DEF QueueInv, TypeOK
    <3>3. QED
      BY Zenon, <2>1, <2>2, <3>1, <3>2 DEF QueueInv, Leading, Grouped, Logging
  <2>5. QED
    BY Zenon, <2>3, <2>4
<1>3. ASSUME NEW t \in Threads,
             RoomDelay(t) \/ Slept(t) \/ RoomWait(t) \/ RoomWoken(t) \/ RoomSwitch(t)
      PROVE  QueueInv'
  <2>1. PICK p \in {"room", "sleep", "bgwait"} : pc' = [pc EXCEPT ![t] = p]
    BY SMTT(30), <1>3 DEF RoomDelay, Slept, RoomWait, RoomWoken, RoomSwitch, TypeOK
  <2>2. /\ pc[t] \in Leading /\ UNCHANGED <<writers, last>>
        /\ \A u \in Threads \ {t} : writer'[u] = writer[u]
    BY SMTT(30), <1>3 DEF RoomDelay, Slept, RoomWait, RoomWoken, RoomSwitch, TypeOK, Leading
  <2>3. p \in Leading /\ p \notin Grouped /\ p \notin Logging
    BY Zenon, <2>1 DEF Leading, Grouped, Logging
  <2>4. QED
    BY Zenon, <2>1, <2>2, <2>3, LeaderMoves
<1>4. ASSUME NEW t \in Threads, RoomError(t) \/ RoomSwitchFails(t) PROVE QueueInv'
  <2>1. /\ pc' = [pc EXCEPT ![t] = "finish"] /\ pc[t] = "room"
        /\ UNCHANGED <<writers, last>>
        /\ \A u \in Threads \ {t} : writer'[u] = writer[u]
    BY Zenon, <1>4 DEF RoomError, RoomSwitchFails, TypeOK
  <2>2. writer'[t].last_writer = 1
    BY <1>4, WriterType DEF RoomError, RoomSwitchFails, Work, TypeOK
  <2>3. 1 \in 1..Len(writers)
    BY <2>1 DEF QueueInv, Leading, TypeOK
  <2>4. "finish" \in Leading /\ "finish" \notin Logging /\ pc[t] \in Leading
    BY Zenon, <2>1 DEF Leading, Logging
  <2>5. QED
    BY Zenon, <2>1, <2>2, <2>3, <2>4, LeaderMoves
<1>5. ASSUME NEW t \in Threads, RoomReady(t) PROVE QueueInv'
  <2>1. /\ pc[t] = "room" /\ UNCHANGED <<writers, last>>
        /\ \A u \in Threads \ {t} : writer'[u] = writer[u]
    BY Zenon, <1>5 DEF RoomReady, TypeOK
  <2>2. CASE writer[t].batch = NullBatch
    <3>1. pc' = [pc EXCEPT ![t] = "finish"]
      BY Zenon, <1>5, <2>2 DEF RoomReady
    <3>2. writer' = [writer EXCEPT ![t] = [writer[t] EXCEPT !.last_writer = 1]]
      BY Zenon, <1>5, <2>2 DEF RoomReady
    <3>3. writer'[t].last_writer = 1
      BY Zenon, <3>2, WriterType DEF Work, TypeOK
    <3>4. 1 \in 1..Len(writers)
      BY SMTT(30), <2>1 DEF QueueInv, Leading, TypeOK
    <3>5. "finish" \in Leading /\ "finish" \notin Logging /\ pc[t] \in Leading
      BY Zenon, <2>1 DEF Leading, Logging
    <3>6. QED
      BY Zenon, <2>1, <3>1, <3>3, <3>4, <3>5, LeaderMoves
  <2>3. CASE writer[t].batch # NullBatch
    <3>1. pc' = [pc EXCEPT ![t] = "log"]
      BY Zenon, <1>5, <2>3 DEF RoomReady
    <3>2. PICK n \in 1..Len(writers) :
            writer' = [writer EXCEPT ![t] =
              [writer[t] EXCEPT !.last_writer = n, !.group = GroupEntries(n),
                 !.last_sequence = last + Cardinality(Positions(n))]]
      BY ZenonT(60), <1>5, <2>3 DEF RoomReady
    <3>3. /\ writer'[t].last_writer = n
          /\ writer'[t].last_sequence = last + Cardinality(Positions(n))
      BY SMTT(30), <3>2, WriterType DEF Work, TypeOK
    <3>4. writer'[t].last_sequence >= last
      BY SMTT(30), <3>3 DEF TypeOK, GroupsTyped
    <3>5. "log" \in Leading /\ pc[t] \in Leading
      BY Zenon, <2>1 DEF Leading
    <3>6. QED
      BY Zenon, <2>1, <3>1, <3>3, <3>4, <3>5, LeaderMoves
  <2>4. QED
    BY Zenon, <2>2, <2>3
<1>6. ASSUME NEW t \in Threads,
             AddRecord(t) \/ AddRecordFails(t) \/ Sync(t) \/ SyncFails(t) \/ Insert(t)
      PROVE  QueueInv'
  <2>1. PICK p \in {"sync", "insert", "relock"} : pc' = [pc EXCEPT ![t] = p]
    BY Zenon, <1>6 DEF AddRecord, AddRecordFails, Sync, SyncFails, Insert
  <2>2. /\ pc[t] \in Logging /\ UNCHANGED <<writers, last>>
        /\ \A u \in Threads \ {t} : writer'[u] = writer[u]
    BY Zenon, <1>6 DEF AddRecord, AddRecordFails, Sync, SyncFails, Insert, TypeOK,
       Logging
  <2>3. /\ writer'[t].last_writer = writer[t].last_writer
        /\ writer'[t].last_sequence = writer[t].last_sequence
    <3>1. CASE AddRecord(t) \/ Sync(t)
      BY Zenon, <3>1 DEF AddRecord, Sync
    <3>2. CASE AddRecordFails(t)
      BY <3>2, WriterType DEF AddRecordFails, Work, TypeOK
    <3>3. CASE SyncFails(t)
      BY <3>3, WriterType DEF SyncFails, Work, TypeOK
    <3>4. CASE Insert(t)
      BY <3>4, WriterType DEF Insert, Work, TypeOK
    <3>5. QED
      BY Zenon, <1>6, <3>1, <3>2, <3>3, <3>4
  <2>4. p \in Leading /\ pc[t] \in Leading /\ pc[t] \in Grouped
    BY Zenon, <2>1, <2>2 DEF Leading, Logging, Grouped
  <2>5. writer'[t].last_writer \in 1..Len(writers) /\ writer'[t].last_sequence >= last
    BY Zenon, <2>2, <2>3, <2>4 DEF QueueInv
  <2>6. QED
    BY Zenon, <2>1, <2>2, <2>4, <2>5, LeaderMoves
<1>7. ASSUME NEW t \in Threads, Commit(t) \/ Finish(t) PROVE QueueInv'
  BY Zenon, <1>7, PopGroupQueue DEF Commit, Finish, Grouped
<1>8. ASSUME NEW t \in Threads, FlushWait(t) PROVE QueueInv'
  <2>1. /\ UNCHANGED <<writers, last>> /\ pc'[t] \in {"flushwait", "idle"}
        /\ \A u \in Threads \ {t} : pc'[u] = pc[u] /\ writer'[u] = writer[u]
    BY <1>8 DEF FlushWait, TypeOK
  <2>2. QED
    BY Zenon, <2>1 DEF QueueInv, Leading, Grouped, Logging
<1>9. ASSUME Background \/ BackgroundFault PROVE QueueInv'
  <2>1. UNCHANGED <<writers, writer, pc, last>>
    BY Zenon, <1>9 DEF Background, BackgroundFault, BackgroundCall, NestedFlush,
       TableBuilt, FlushInstalled, FilesRemoved, CompactionWritten,
       CompactionInstalled, FlushFails, CompactionFails
  <2>2. QED
    BY Zenon, <2>1, OthersKeepQueue
<1>10. ASSUME NEW r \in Readers, BeginGet(r) \/ EndGet(r) PROVE QueueInv'
  BY Zenon, <1>10, OthersKeepQueue DEF BeginGet, EndGet
<1>11. ASSUME UNCHANGED vars PROVE QueueInv'
  BY Zenon, <1>11, OthersKeepQueue DEF vars
<1>12. QED
  BY Zenon, <1>1, <1>2, <1>3, <1>4, <1>5, <1>6, <1>7, <1>8, <1>9, <1>10, <1>11
  DEF Next, Client, ClientFault, Quiescent

----------------------------------------------------------------------------
(* Scheduling and waiting.                                                 *)

\* The end of BackgroundCall schedules what is left to do and wakes everyone.
LEMMA EndCallSchedules ==
  ASSUME TypeOK, TypeOK', EndCall(bg_error', imm', l0'), pc' = pc
  PROVE  ScheduleInv'
<1>1. WorkIsScheduled'
  BY Zenon DEF EndCall, MaybeSchedule, WorkIsScheduled
<1>2. NoStrandedWaiter'
  BY Zenon DEF EndCall, Woken, NoStrandedWaiter
<1>3. QED
  BY Zenon, <1>1, <1>2 DEF ScheduleInv

\* While a background call is under way, it stays scheduled.
LEMMA RunningIsScheduled ==
  ASSUME BgInv, ScheduleInv, bg.pc # "idle", scheduled' = scheduled
  PROVE  ScheduleInv'
BY Zenon DEF BgInv, ScheduleInv, WorkIsScheduled, NoStrandedWaiter

\* A flush that ends wakes everyone, or goes back to a running compaction.
LEMMA AfterFlushSchedules ==
  ASSUME TypeOK, TypeOK', BgInv, ScheduleInv, bg.pc # "idle", pc' = pc,
         AfterFlush(bg_error', imm', l0')
  PROVE  ScheduleInv'
<1>1. CASE bg.nested
  BY Zenon, <1>1, RunningIsScheduled DEF AfterFlush
<1>2. CASE ~bg.nested
  BY Zenon, <1>2, EndCallSchedules DEF AfterFlush
<1>3. QED
  BY Zenon, <1>1, <1>2

\* A client thread that does not start to wait, and does not take a signal
\* from another thread, strands no one.
LEMMA ClientStrandsNoOne ==
  ASSUME TypeOK, ScheduleInv, NEW t \in Threads,
         \A u \in Threads \ {t} : pc'[u] = pc[u],
         signaled \ {t} \subseteq signaled',
         pc'[t] \in {"bgwait", "flushwait"} => scheduled,
         UNCHANGED <<imm, l0, scheduled>>, bg_error' # bg_error => bg_error' # "ok"
  PROVE  ScheduleInv'
<1>1. WorkIsScheduled'
  BY Zenon DEF ScheduleInv, WorkIsScheduled
<1>2. NoStrandedWaiter'
  BY Zenon DEF ScheduleInv, NoStrandedWaiter
<1>3. QED
  BY Zenon, <1>1, <1>2 DEF ScheduleInv

\* Every step keeps work scheduled and waiters attended to.
LEMMA ScheduleStep ==
  ASSUME TypeOK, TypeOK', BgInv, ScheduleInv, [Next]_vars
  PROVE  ScheduleInv'
<1>0. USE DEF Goto, queueVars, memVars, bgVars, readVars
<1>1. ASSUME NEW t \in Threads,
             Enqueue(t) \/ Wake(t) \/ RoomError(t) \/ RoomDelay(t) \/ Slept(t)
               \/ RoomWoken(t) \/ RoomReady(t) \/ RoomSwitchFails(t)
               \/ AddRecord(t) \/ AddRecordFails(t) \/ Sync(t) \/ SyncFails(t)
               \/ Insert(t)
      PROVE  ScheduleInv'
  <2>1. /\ \A u \in Threads \ {t} : pc'[u] = pc[u]
        /\ pc'[t] \notin {"bgwait", "flushwait"}
    <3>1. PICK p \in ClientPc \ {"bgwait", "flushwait"} : pc' = [pc EXCEPT ![t] = p]
      <4>1. CASE Enqueue(t)
        BY Zenon, <4>1 DEF Enqueue, ClientPc
      <4>2. CASE Wake(t)
        BY Zenon, <4>2 DEF Wake, ReturnsTo, ClientPc
      <4>3. CASE RoomError(t) \/ RoomDelay(t) \/ Slept(t) \/ RoomWoken(t)
                 \/ RoomReady(t) \/ RoomSwitchFails(t)
        BY Zenon, <4>3 DEF RoomError, RoomDelay, Slept, RoomWoken, RoomReady,
           RoomSwitchFails, ClientPc
      <4>4. CASE AddRecord(t) \/ AddRecordFails(t) \/ Sync(t) \/ SyncFails(t)
                 \/ Insert(t)
        BY Zenon, <4>4 DEF AddRecord, AddRecordFails, Sync, SyncFails, Insert, ClientPc
      <4>5. QED
        BY Zenon, <1>1, <4>1, <4>2, <4>3, <4>4
    <3>2. QED
      BY Zenon, <3>1 DEF TypeOK
  <2>2. signaled \ {t} \subseteq signaled' /\ UNCHANGED <<imm, l0, scheduled, bg_error>>
    BY Zenon, <1>1 DEF Enqueue, Wake, RoomError, RoomDelay, Slept, RoomWoken,
       RoomReady, RoomSwitchFails, AddRecord, AddRecordFails, Sync, SyncFails,
       Insert
  <2>3. QED
    BY Zenon, <2>1, <2>2, ClientStrandsNoOne
<1>2. ASSUME NEW t \in Threads, RoomWait(t) PROVE ScheduleInv'
  <2>1. /\ \A u \in Threads \ {t} : pc'[u] = pc[u]
        /\ signaled \ {t} \subseteq signaled' /\ UNCHANGED <<imm, l0, scheduled, bg_error>>
    BY Zenon, <1>2 DEF RoomWait, TypeOK
  <2>2. imm # 0 \/ l0 >= kL0_CompactionTrigger
    BY SMTT(30), <1>2, TriggersAssumption DEF RoomWait, TypeOK
  <2>3. scheduled
    BY Zenon, <1>2, <2>2 DEF RoomWait, ScheduleInv, WorkIsScheduled
  <2>4. QED
    BY Zenon, <2>1, <2>3, ClientStrandsNoOne
<1>3. ASSUME NEW t \in Threads, RoomSwitch(t) PROVE ScheduleInv'
  <2>1. scheduled'
    <3>1. imm' # 0 /\ bg_error = "ok"
      BY <1>3 DEF RoomSwitch, mem, TypeOK
    <3>2. QED
      BY Zenon, <1>3, <3>1 DEF RoomSwitch, MaybeSchedule
  <2>2. QED
    BY Zenon, <2>1 DEF ScheduleInv, WorkIsScheduled, NoStrandedWaiter
<1>4. ASSUME NEW t \in Threads, Commit(t) \/ Finish(t) PROVE ScheduleInv'
  <2>1. /\ \A u \in Threads \ {t} : pc'[u] = pc[u]
        /\ pc'[t] \notin {"bgwait", "flushwait"}
    BY Zenon, <1>4 DEF Commit, Finish, PopGroup, ReturnsTo, TypeOK
  <2>2. signaled \ {t} \subseteq signaled' /\ UNCHANGED <<imm, l0, scheduled>>
    BY Zenon, <1>4 DEF Commit, Finish
  <2>3. bg_error' # bg_error => bg_error' # "ok"
    BY Zenon, <1>4 DEF Commit, Finish
  <2>4. QED
    BY Zenon, <2>1, <2>2, <2>3, ClientStrandsNoOne
<1>5. ASSUME NEW t \in Threads, FlushWait(t) PROVE ScheduleInv'
  <2>1. /\ \A u \in Threads \ {t} : pc'[u] = pc[u]
        /\ signaled \ {t} \subseteq signaled' /\ UNCHANGED <<imm, l0, scheduled, bg_error>>
    BY Zenon, <1>5 DEF FlushWait, TypeOK
  <2>2. pc'[t] = "flushwait" => scheduled
    BY Zenon, <1>5 DEF FlushWait, ScheduleInv, WorkIsScheduled, TypeOK
  <2>3. pc'[t] # "bgwait"
    BY Zenon, <1>5 DEF FlushWait, TypeOK
  <2>4. QED
    BY Zenon, <2>1, <2>2, <2>3, ClientStrandsNoOne
<1>6. ASSUME BackgroundCall PROVE ScheduleInv'
  <2>1. CASE bg_error # "ok"
    <3>1. EndCall(bg_error', imm', l0') /\ pc' = pc
      BY Zenon, <1>6, <2>1 DEF BackgroundCall
    <3>2. QED
      BY Zenon, <3>1, EndCallSchedules
  <2>2. CASE bg_error = "ok"
    <3>1. scheduled /\ scheduled' = scheduled
      BY Zenon, <1>6, <2>2 DEF BackgroundCall
    <3>2. QED
      BY Zenon, <3>1 DEF ScheduleInv, WorkIsScheduled, NoStrandedWaiter
  <2>3. QED
    BY Zenon, <2>1, <2>2
<1>7. ASSUME NestedFlush \/ TableBuilt \/ CompactionWritten PROVE ScheduleInv'
  BY Zenon, <1>7, RunningIsScheduled DEF NestedFlush, TableBuilt, CompactionWritten
<1>8. ASSUME FlushFails \/ FilesRemoved PROVE ScheduleInv'
  BY Zenon, <1>8, AfterFlushSchedules DEF FlushFails, FilesRemoved
<1>9. ASSUME FlushInstalled PROVE ScheduleInv'
  <2>1. bg.pc # "idle" /\ pc' = pc /\ bg_error' = bg_error /\ imm' = 0
    BY Zenon, <1>9 DEF FlushInstalled
  <2>2. CASE bg_error = "ok"
    BY Zenon, <1>9, <2>1, <2>2, RunningIsScheduled DEF FlushInstalled
  <2>3. CASE bg_error # "ok"
    <3>1. AfterFlush(bg_error', imm', l0')
      BY Zenon, <1>9, <2>1, <2>3 DEF FlushInstalled
    <3>2. QED
      BY Zenon, <2>1, <3>1, AfterFlushSchedules
  <2>4. QED
    BY Zenon, <2>2, <2>3
<1>10. ASSUME CompactionFails PROVE ScheduleInv'
  BY Zenon, <1>10, EndCallSchedules DEF CompactionFails
<1>11. ASSUME CompactionInstalled PROVE ScheduleInv'
  <2>1. bg.pc # "idle" /\ pc' = pc /\ bg_error' = bg_error /\ imm' = imm
    BY Zenon, <1>11 DEF CompactionInstalled
  <2>2. CASE bg_error = "ok"
    BY Zenon, <1>11, <2>1, <2>2, RunningIsScheduled DEF CompactionInstalled
  <2>3. CASE bg_error # "ok"
    <3>1. EndCall(bg_error', imm', l0')
      BY Zenon, <1>11, <2>1, <2>3 DEF CompactionInstalled
    <3>2. QED
      BY Zenon, <2>1, <3>1, EndCallSchedules
  <2>4. QED
    BY Zenon, <2>2, <2>3
<1>12. ASSUME (\E r \in Readers : BeginGet(r) \/ EndGet(r)) \/ UNCHANGED vars
       PROVE  ScheduleInv'
  <2>1. UNCHANGED <<imm, l0, scheduled, bg_error, pc, signaled>>
    BY Zenon, <1>12 DEF BeginGet, EndGet, vars
  <2>2. QED
    BY Zenon, <2>1 DEF ScheduleInv, WorkIsScheduled, NoStrandedWaiter
<1>13. QED
  BY Zenon, <1>1, <1>2, <1>3, <1>4, <1>5, <1>6, <1>7, <1>8, <1>9, <1>10, <1>11, <1>12
  DEF Next, Client, ClientFault, Background, BackgroundFault, Quiescent

----------------------------------------------------------------------------
(* Write-ahead logging.                                                    *)

\* What a memtable holds is in its log, and so is what the leader is about to
\* insert.
Inserting == {"sync", "insert"}
GroupIsLogged(t) ==
  \E r \in logs[Len(logs)] : r.whole /\ writer[t].group \subseteq r.entries
LogInv ==
  /\ MemtableIsLogged
  /\ \A t \in Threads : pc[t] \in Inserting => GroupIsLogged(t)

\* At most one thread is between AddRecord and the end of InsertInto.
LEMMA OneInserter ==
  ASSUME QueueInv, NEW t \in Threads, NEW u \in Threads,
         pc[t] \in Leading, pc[u] \in Inserting
  PROVE  u = t
BY Zenon DEF QueueInv, Leading, Inserting

\* Whoever leaves logs and memtables alone and starts no insertion keeps
\* LogInv.
LEMMA LogUntouched ==
  ASSUME LogInv, UNCHANGED <<logs, contents>>,
         \A u \in Threads : pc'[u] \in Inserting
           => pc[u] \in Inserting /\ writer'[u] = writer[u]
  PROVE  LogInv'
<1>1. MemtableIsLogged'
  BY Zenon DEF LogInv, MemtableIsLogged
<1>2. \A u \in Threads : pc'[u] \in Inserting => GroupIsLogged(u)'
  BY Zenon DEF LogInv, GroupIsLogged
<1>3. QED
  BY Zenon, <1>1, <1>2 DEF LogInv

\* A log that only grows, or whose records are synced, still covers every
\* memtable.
LEMMA LogGrows ==
  ASSUME MemtableIsLogged, contents' = contents,
         \A i \in DOMAIN contents : \A r \in logs[i] : r.whole =>
           \E q \in logs'[i] : q.whole /\ r.entries \subseteq q.entries
  PROVE  MemtableIsLogged'
BY DEF MemtableIsLogged

\* Every step keeps the log ahead of the memtable.
LEMMA LogStep ==
  ASSUME TypeOK, QueueInv, LogInv, [Next]_vars
  PROVE  LogInv'
<1>0. USE DEF Goto, queueVars, memVars, bgVars, readVars
<1>1. ASSUME NEW t \in Threads,
             Enqueue(t) \/ Wake(t) \/ RoomError(t) \/ RoomDelay(t) \/ Slept(t)
               \/ RoomWait(t) \/ RoomWoken(t) \/ RoomReady(t)
               \/ RoomSwitchFails(t) \/ SyncFails(t) \/ FlushWait(t)
      PROVE  LogInv'
  <2>1. PICK p \in ClientPc \ Inserting : pc' = [pc EXCEPT ![t] = p]
    <3>1. CASE Enqueue(t) \/ FlushWait(t)
      BY Zenon, <3>1 DEF Enqueue, FlushWait, ClientPc, Inserting
    <3>2. CASE Wake(t)
      BY Zenon, <3>2 DEF Wake, ReturnsTo, ClientPc, Inserting
    <3>3. CASE RoomError(t) \/ RoomDelay(t) \/ Slept(t) \/ RoomWait(t) \/ RoomWoken(t)
               \/ RoomReady(t) \/ RoomSwitchFails(t) \/ SyncFails(t)
      BY Zenon, <3>3 DEF RoomError, RoomDelay, Slept, RoomWait, RoomWoken,
         RoomReady, RoomSwitchFails, SyncFails, ClientPc, Inserting
    <3>4. QED
      BY Zenon, <1>1, <3>1, <3>2, <3>3
  <2>2. \A u \in Threads \ {t} : writer'[u] = writer[u]
    BY ZenonT(60), <1>1 DEF Enqueue, Wake, RoomError, RoomDelay, Slept, RoomWait,
       RoomWoken, RoomReady, RoomSwitchFails, SyncFails, FlushWait, TypeOK
  <2>3. UNCHANGED <<logs, contents>>
    BY Zenon, <1>1 DEF Enqueue, Wake, RoomError, RoomDelay, Slept, RoomWait,
       RoomWoken, RoomReady, RoomSwitchFails, SyncFails, FlushWait
  <2>4. pc'[t] \notin Inserting /\ \A u \in Threads \ {t} : pc'[u] = pc[u]
    BY Zenon, <2>1 DEF TypeOK
  <2>5. QED
    BY Zenon, <2>2, <2>3, <2>4, LogUntouched
<1>2. ASSUME NEW t \in Threads, RoomSwitch(t) PROVE LogInv'
  <2>1. \A u \in Threads : pc'[u] \notin Inserting
    <3>1. pc' = pc /\ pc[t] = "room"
      BY Zenon, <1>2 DEF RoomSwitch
    <3>2. QED
      BY Zenon, <3>1, OneInserter DEF Leading, Inserting
  <2>2. /\ Len(logs) = Len(contents) /\ Len(contents) \in Nat
        /\ Len(contents') = Len(contents) + 1 /\ DOMAIN contents' = 1..(Len(contents) + 1)
        /\ \A i \in 1..Len(contents) : contents'[i] = contents[i] /\ logs'[i] = logs[i]
        /\ contents'[Len(contents) + 1] = {} /\ DOMAIN contents = 1..Len(contents)
    BY SMTT(30), <1>2 DEF RoomSwitch, TypeOK
  <2>3. MemtableIsLogged'
    BY SMTT(30), <2>2 DEF LogInv, MemtableIsLogged
  <2>4. QED
    BY Zenon, <2>1, <2>3 DEF LogInv
<1>3. ASSUME NEW t \in Threads, AddRecord(t) \/ AddRecordFails(t) PROVE LogInv'
  <2>1. pc[t] = "log" /\ contents' = contents
        /\ \A u \in Threads \ {t} : pc'[u] = pc[u] /\ pc[u] \notin Inserting
    <3>1. pc[t] = "log" /\ contents' = contents
          /\ \A u \in Threads \ {t} : pc'[u] = pc[u]
      BY Zenon, <1>3 DEF AddRecord, AddRecordFails, TypeOK
    <3>2. QED
      BY Zenon, <3>1, OneInserter DEF Leading, Inserting
  <2>2. PICK new : logs' = [logs EXCEPT ![Len(logs)] = logs[Len(logs)] \cup new]
    BY Zenon, <1>3 DEF AddRecord, AddRecordFails, lastLog
  <2>3. MemtableIsLogged'
    <3>1. \A i \in DOMAIN contents : logs[i] \subseteq logs'[i]
      BY <2>2 DEF TypeOK
    <3>2. QED
      BY Zenon, <2>1, <3>1, LogGrows DEF LogInv
  <2>4. pc'[t] \in Inserting => GroupIsLogged(t)'
    <3>1. CASE AddRecordFails(t)
      BY Zenon, <3>1 DEF AddRecordFails, Inserting, TypeOK
    <3>2. CASE AddRecord(t)
      <4>1. DEFINE r == [entries |-> writer[t].group, whole |-> TRUE, synced |-> FALSE]
      <4>2. writer' = writer /\ logs' = [logs EXCEPT ![Len(logs)] = @ \cup {r}]
        BY Zenon, <3>2 DEF AddRecord, lastLog
      <4>3. Len(logs') = Len(logs) /\ r \in logs'[Len(logs)]
        BY <4>2, LogsType
      <4>4. r.whole /\ writer'[t].group \subseteq r.entries
        BY Zenon, <4>2
      <4>5. QED
        BY Zenon, <4>3, <4>4 DEF GroupIsLogged
    <3>3. QED
      BY Zenon, <1>3, <3>1, <3>2
  <2>5. QED
    BY Zenon, <2>1, <2>3, <2>4 DEF LogInv
<1>4. ASSUME NEW t \in Threads, Sync(t) PROVE LogInv'
  <2>1. /\ pc[t] = "sync" /\ contents' = contents /\ writer' = writer
        /\ \A u \in Threads \ {t} : pc'[u] = pc[u] /\ pc[u] \notin Inserting
    <3>1. pc[t] = "sync" /\ contents' = contents /\ writer' = writer
          /\ \A u \in Threads \ {t} : pc'[u] = pc[u]
      BY Zenon, <1>4 DEF Sync, TypeOK
    <3>2. QED
      BY Zenon, <3>1, OneInserter DEF Leading, Inserting
  <2>2. /\ logs' = [logs EXCEPT ![Len(logs)] =
                      {[r EXCEPT !.synced = TRUE] : r \in logs[Len(logs)]}]
        /\ Len(logs') = Len(logs)
        /\ logs'[Len(logs)] = {[r EXCEPT !.synced = TRUE] : r \in logs[Len(logs)]}
    BY SMTT(30), <1>4 DEF Sync, lastLog, TypeOK
  <2>3. ASSUME NEW r \in logs[Len(logs)]
        PROVE  \E q \in {[x EXCEPT !.synced = TRUE] : x \in logs[Len(logs)]} :
                 q.whole = r.whole /\ q.entries = r.entries
    <3>1. r \in Record
      BY Zenon, LogsType
    <3>2. [r EXCEPT !.synced = TRUE].whole = r.whole
          /\ [r EXCEPT !.synced = TRUE].entries = r.entries
      BY Zenon, <3>1 DEF Record
    <3>3. QED
      BY Zenon, <3>2
  <2>4. MemtableIsLogged'
    <3>1. \A i \in DOMAIN contents : i # Len(logs) => logs'[i] = logs[i]
      BY <2>2 DEF TypeOK
    <3>2. \A i \in DOMAIN contents : \A r \in logs[i] : r.whole =>
            \E q \in logs'[i] : q.whole /\ r.entries \subseteq q.entries
      BY Zenon, <2>2, <2>3, <3>1
    <3>3. QED
      BY Zenon, <2>1, <3>2, LogGrows DEF LogInv
  <2>5. GroupIsLogged(t)'
    <3>1. PICK r \in logs[Len(logs)] : r.whole /\ writer[t].group \subseteq r.entries
      BY Zenon, <2>1 DEF LogInv, GroupIsLogged, Inserting
    <3>2. PICK q \in logs'[Len(logs)] : q.whole = r.whole /\ q.entries = r.entries
      BY Zenon, <2>2, <2>3
    <3>3. QED
      BY Zenon, <2>1, <2>2, <3>1, <3>2 DEF GroupIsLogged
  <2>6. QED
    BY Zenon, <2>1, <2>4, <2>5 DEF LogInv
<1>5. ASSUME NEW t \in Threads, Insert(t) PROVE LogInv'
  <2>1. PICK e \in writer[t].group :
          /\ contents' = [contents EXCEPT ![mem] = @ \cup {e}]
          /\ writer' = [writer EXCEPT ![t].group = @ \ {e}]
    BY Zenon, <1>5 DEF Insert
  <2>2. /\ pc[t] = "insert" /\ logs' = logs
        /\ \A u \in Threads \ {t} : pc'[u] = pc[u] /\ pc[u] \notin Inserting
    <3>1. pc[t] = "insert" /\ logs' = logs
          /\ \A u \in Threads \ {t} : pc'[u] = pc[u]
      BY Zenon, <1>5 DEF Insert, TypeOK
    <3>2. QED
      BY Zenon, <3>1, OneInserter DEF Leading, Inserting
  <2>3. PICK r \in logs[Len(logs)] : r.whole /\ writer[t].group \subseteq r.entries
    BY Zenon, <2>2 DEF LogInv, GroupIsLogged, Inserting
  <2>4. writer'[t].group = writer[t].group \ {e}
    BY Zenon, <2>1, WriterType DEF Work, TypeOK
  <2>5. GroupIsLogged(t)'
    BY Zenon, <2>2, <2>3, <2>4 DEF GroupIsLogged
  <2>6. /\ Len(logs) = Len(contents) /\ DOMAIN contents' = DOMAIN contents
        /\ contents'[Len(contents)] = contents[Len(contents)] \cup {e}
        /\ \A i \in DOMAIN contents : i # Len(contents) => contents'[i] = contents[i]
    BY SMTT(30), <2>1 DEF mem, TypeOK
  <2>7. MemtableIsLogged'
    BY SMTT(30), <2>2, <2>3, <2>6 DEF LogInv, MemtableIsLogged
  <2>8. QED
    BY Zenon, <2>2, <2>5, <2>7 DEF LogInv
<1>6. ASSUME NEW t \in Threads, Commit(t) \/ Finish(t) PROVE LogInv'
  <2>1. /\ pc[t] \in Leading /\ UNCHANGED <<logs, contents>>
        /\ pc'[t] \notin Inserting /\ \A u \in Threads \ {t} : pc'[u] = pc[u]
    BY Zenon, <1>6 DEF Commit, Finish, PopGroup, ReturnsTo, Inserting, Leading,
       TypeOK
  <2>2. \A u \in Threads : pc'[u] \notin Inserting
    BY Zenon, <2>1, OneInserter
  <2>3. QED
    BY Zenon, <2>1, <2>2, LogUntouched
<1>7. ASSUME Background \/ BackgroundFault PROVE LogInv'
  <2>1. UNCHANGED <<logs, contents, writer, pc>>
    BY Zenon, <1>7 DEF Background, BackgroundFault, BackgroundCall, NestedFlush,
       TableBuilt, FlushInstalled, FilesRemoved, CompactionWritten,
       CompactionInstalled, FlushFails, CompactionFails
  <2>2. QED
    BY Zenon, <2>1, LogUntouched
<1>8. ASSUME (\E r \in Readers : BeginGet(r) \/ EndGet(r)) \/ UNCHANGED vars
      PROVE  LogInv'
  BY Zenon, <1>8, LogUntouched DEF BeginGet, EndGet, vars
<1>9. QED
  BY Zenon, <1>1, <1>2, <1>3, <1>4, <1>5, <1>6, <1>7, <1>8
  DEF Next, Client, ClientFault, Quiescent

----------------------------------------------------------------------------
(* The inductive invariant.                                                *)

\* The inductive invariant.
IInv == TypeOK /\ BgInv /\ QueueInv /\ ScheduleInv /\ LogInv

\* A database that was just opened satisfies the invariant.
LEMMA InitInv == Init => IInv
<1>1. SUFFICES ASSUME Init PROVE IInv
  BY Zenon
<1>2. TypeOK
  <2>1. writer \in [Threads -> Work] /\ NoCompaction \in BgType
    BY Zenon, <1>1, NoWorkType DEF Init, NoCompaction, BgType, BgPc
  <2>2. reader \in [Readers -> Read]
    BY Zenon, <1>1 DEF Init, NoRead, Read
  <2>3. logs = <<{}>> /\ logs \in Seq(SUBSET Record) /\ contents \in Seq(SUBSET Entry)
        /\ Len(logs) = 1 /\ Len(contents) = 1
    BY <1>1 DEF Init
  <2>4. writers \in Seq(Threads) /\ calls \in Seq(Call) /\ pc \in [Threads -> ClientPc]
    BY <1>1 DEF Init, ClientPc
  <2>5. imm \in 0..(Len(contents) - 1) /\ flushed \subseteq 1..(Len(contents) - 1)
    BY <1>1, <2>3 DEF Init
  <2>6. bg \in [pc : BgPc, inputs : Nat, nested : BOOLEAN]
    BY Zenon, <1>1, <2>1 DEF Init, BgType
  <2>7. /\ mutex \in Threads \cup {NoThread} /\ signaled \subseteq Threads
        /\ last \in Nat /\ l0 \in Nat /\ bg_error \in Status /\ scheduled \in BOOLEAN
        /\ reads \in Nat /\ faults \in Nat
    BY Zenon, <1>1 DEF Init, Status
  <2>8. QED
    BY SMTT(30), <2>1, <2>2, <2>3, <2>4, <2>5, <2>6, <2>7 DEF TypeOK
<1>3. BgInv
  BY SMTT(30), <1>1, TriggersAssumption DEF Init, BgInv, NoCompaction
<1>4. QueueInv
  BY Zenon, <1>1 DEF Init, QueueInv, Leading, Grouped, Logging
<1>5. ScheduleInv
  BY <1>1, TriggersAssumption DEF Init, ScheduleInv, WorkIsScheduled,
     NoStrandedWaiter
<1>6. LogInv
  BY SMTT(30), <1>1 DEF Init, LogInv, MemtableIsLogged, Inserting
<1>7. QED
  BY Zenon, <1>2, <1>3, <1>4, <1>5, <1>6 DEF IInv

\* Every step of a client, of the background thread or of a reader keeps it.
LEMMA NextInv ==
  ASSUME IInv, GroupsTyped, [Next]_vars
  PROVE  IInv'
BY Zenon, TypeStep, BgStep, QueueStep, ScheduleStep, LogStep DEF IInv

\* LastSequence is set by the commit of a group alone, to what BuildBatchGroup
\* numbered its last entry.
LEMMA LastStep ==
  ASSUME IInv, [Next]_vars
  PROVE  last' >= last
<1>0. last \in Nat
  BY Zenon DEF IInv, TypeOK
<1>1. ASSUME NEW t \in Threads, Commit(t) PROVE last' >= last
  BY Zenon, <1>1 DEF Commit, IInv, QueueInv, Logging
<1>2. ASSUME NEW t \in Threads, Enqueue(t) \/ Client(t) \/ ClientFault(t), ~Commit(t)
      PROVE  last' = last
  BY Zenon, <1>2 DEF memVars, Client, ClientFault, Enqueue, Wake, RoomError,
     RoomDelay, Slept, RoomWait, RoomWoken, RoomSwitch, RoomReady, AddRecord,
     Sync, Insert, Finish, FlushWait, RoomSwitchFails, AddRecordFails, SyncFails
<1>3. ASSUME Background \/ BackgroundFault PROVE last' = last
  BY Zenon, <1>3 DEF memVars, Background, BackgroundFault, BackgroundCall,
     NestedFlush, TableBuilt, FlushInstalled, FilesRemoved, CompactionWritten,
     CompactionInstalled, FlushFails, CompactionFails
<1>4. ASSUME NEW r \in Readers, BeginGet(r) \/ EndGet(r) PROVE last' = last
  BY Zenon, <1>4 DEF memVars, BeginGet, EndGet
<1>5. ASSUME Quiescent \/ UNCHANGED vars PROVE last' = last
  BY Zenon, <1>5 DEF Quiescent, vars
<1>6. QED
  BY <1>0, <1>1, <1>2, <1>3, <1>4, <1>5 DEF Next

----------------------------------------------------------------------------
(* The writers in the queue and the calls they work for.                   *)

\* The call that the i-th writer of the queue works for; how many entries it
\* has; which of a set are its own; everything in a memtable or table.
CallOf(i) == writer[writers[i]].call
Count(b) == IF b = NullBatch THEN 0 ELSE b.count
Of(S, c) == {e \in S : e.call = c}
Stored == UNION {contents[i] : i \in DOMAIN contents}

\* The queue holds each thread once; behind its front everyone waits, and
\* nobody in it is done.  Who comes to the end without having logged anything
\* failed, or had nothing to write.
MemberInv ==
  /\ \A i, j \in 1..Len(writers) : writers[i] = writers[j] => i = j
  /\ \A i \in 1..Len(writers) :
       /\ pc[writers[i]] \in Leading \cup {"wait"}
       /\ i > 1 => pc[writers[i]] = "wait"
       /\ ~writer[writers[i]].done
  /\ \A t \in Threads : pc[t] = "finish" =>
       /\ writer[t].last_writer = 1
       /\ writer[t].status = "error" \/ writer[t].batch = NullBatch
  /\ \A t \in Threads : pc[t] \in {"flush", "flushwait"} => writer[t].batch = NullBatch

\* A thread that is in Write works for a call of its own that has not returned.
CallInv ==
  /\ \A t \in Threads : pc[t] # "idle" =>
       /\ writer[t].call \in 1..Len(calls)
       /\ calls[writer[t].call].status = "pending"
       /\ calls[writer[t].call].batch = writer[t].batch
       /\ calls[writer[t].call].sync = writer[t].sync
  /\ \A t, u \in Threads :
       pc[t] # "idle" /\ pc[u] # "idle" /\ writer[t].call = writer[u].call => t = u
  /\ \A c \in 1..Len(calls) : calls[c].after <= last

----------------------------------------------------------------------------
(* What the steps of a client change.                                      *)

\* The steps of MakeRoomForWrite, up to the end of a null batch or of a write
\* that fails there.
InRoom(t) ==
  \/ RoomError(t) \/ RoomDelay(t) \/ Slept(t) \/ RoomWait(t) \/ RoomWoken(t)
  \/ RoomSwitch(t) \/ RoomSwitchFails(t)
  \/ RoomReady(t) /\ writer[t].batch = NullBatch

\* What they change for the queue: nothing, but for the status of t.
InRoomEffect(t) ==
  /\ UNCHANGED <<writers, calls, last, reader, flushed>>
  /\ pc[t] \in {"room", "sleep", "bgwait"}
  /\ pc'[t] \in {"room", "sleep", "bgwait", "finish"}
  /\ \A u \in Threads \ {t} : pc'[u] = pc[u] /\ writer'[u] = writer[u]
  /\ writer'[t].call = writer[t].call /\ writer'[t].batch = writer[t].batch
  /\ writer'[t].sync = writer[t].sync /\ writer'[t].done = writer[t].done
  /\ pc'[t] = "finish" =>
       /\ writer'[t].last_writer = 1
       /\ writer'[t].status = "error" \/ writer'[t].batch = NullBatch

\* The branches of MakeRoomForWrite change no more than that.
LEMMA InRoomChanges ==
  ASSUME TypeOK, NEW t \in Threads, InRoom(t)
  PROVE  InRoomEffect(t)
<1>. USE DEF InRoomEffect
<1>0. USE DEF Goto, memVars, bgVars, readVars
<1>1. writer[t] \in Work /\ pc \in [Threads -> ClientPc] /\ writer \in [Threads -> Work]
  BY Zenon, WriterType DEF TypeOK
<1>2. CASE RoomError(t)
  <2>1. bg_error = "error"
    BY Zenon, <1>2 DEF RoomError, TypeOK, Status
  <2>2. QED
    BY Zenon, <1>1, <1>2, <2>1 DEF RoomError, Work
<1>3. CASE RoomDelay(t)
  BY Zenon, <1>1, <1>3 DEF RoomDelay, Work
<1>4. CASE Slept(t) \/ RoomWait(t) \/ RoomWoken(t)
  BY Zenon, <1>1, <1>4 DEF Slept, RoomWait, RoomWoken
<1>5. CASE RoomSwitch(t)
  BY Zenon, <1>1, <1>5 DEF RoomSwitch, Work
<1>6. CASE RoomSwitchFails(t)
  BY Zenon, <1>1, <1>6 DEF RoomSwitchFails, Work
<1>7. CASE RoomReady(t) /\ writer[t].batch = NullBatch
  BY <1>1, <1>7 DEF RoomReady, Work
<1>8. QED
  BY Zenon, <1>2, <1>3, <1>4, <1>5, <1>6, <1>7 DEF InRoom

\* The steps from AddRecord to the end of InsertInto, without mutex_.
InLogging(t) ==
  AddRecord(t) \/ AddRecordFails(t) \/ Sync(t) \/ SyncFails(t) \/ Insert(t)

\* Of the writers they change the leader alone: where it is, what is left of
\* its group, its status.
InLoggingEffect(t) ==
  /\ UNCHANGED <<writers, calls, last, reader, imm, flushed>>
  /\ pc[t] \in {"log", "sync", "insert"}
  /\ pc'[t] \in {"sync", "insert", "relock"}
  /\ \A u \in Threads \ {t} : pc'[u] = pc[u] /\ writer'[u] = writer[u]
  /\ writer'[t].call = writer[t].call /\ writer'[t].batch = writer[t].batch
  /\ writer'[t].sync = writer[t].sync /\ writer'[t].done = writer[t].done
  /\ writer'[t].last_writer = writer[t].last_writer
  /\ writer'[t].last_sequence = writer[t].last_sequence
  /\ writer'[t].group \subseteq writer[t].group

\* AddRecord, Sync and InsertInto, with and without success, change no more.
LEMMA InLoggingChanges ==
  ASSUME TypeOK, NEW t \in Threads, InLogging(t)
  PROVE  InLoggingEffect(t)
<1>. USE DEF InLoggingEffect
<1>0. USE DEF Goto, memVars, bgVars, readVars
<1>1. writer[t] \in Work /\ pc \in [Threads -> ClientPc] /\ writer \in [Threads -> Work]
  BY Zenon, WriterType DEF TypeOK
<1>2. CASE AddRecord(t) \/ Sync(t)
  BY Zenon, <1>1, <1>2 DEF AddRecord, Sync
<1>3. CASE AddRecordFails(t)
  BY Zenon, <1>1, <1>3 DEF AddRecordFails, Work
<1>4. CASE SyncFails(t)
  BY Zenon, <1>1, <1>4 DEF SyncFails, Work
<1>5. CASE Insert(t)
  BY <1>1, <1>5 DEF Insert, Work
<1>6. QED
  BY Zenon, <1>2, <1>3, <1>4, <1>5 DEF InLogging

\* A call that joins the queue.
EnqueueEffect(t) ==
  /\ UNCHANGED <<last, logs, contents, imm, flushed, reader>>
  /\ pc[t] = "idle" /\ pc'[t] = IF writers = <<>> THEN "room" ELSE "wait"
  /\ \A u \in Threads \ {t} : pc'[u] = pc[u] /\ writer'[u] = writer[u]
  /\ Len(writers') = Len(writers) + 1 /\ writers'[Len(writers) + 1] = t
  /\ \A i \in 1..Len(writers) : writers'[i] = writers[i]
  /\ Len(calls') = Len(calls) + 1
  /\ \A c \in 1..Len(calls) : calls'[c] = calls[c]
  /\ writer'[t].call = Len(calls) + 1 /\ ~writer'[t].done
  /\ calls'[Len(calls) + 1].status = "pending"
  /\ calls'[Len(calls) + 1].after = last
  /\ calls'[Len(calls) + 1].batch = writer'[t].batch
  /\ calls'[Len(calls) + 1].sync = writer'[t].sync

\* A call of Write adds its writer to the queue and itself to the history.
LEMMA EnqueueChanges ==
  ASSUME TypeOK, NEW t \in Threads, Enqueue(t)
  PROVE  EnqueueEffect(t)
<1>. USE DEF EnqueueEffect
<1>1. PICK b \in Batches \cup {NullBatch}, s \in Syncs :
        /\ calls' = Append(calls, [batch |-> b, sync |-> s,
                                   status |-> "pending", after |-> last])
        /\ writer' = [writer EXCEPT ![t] =
             [NoWork EXCEPT !.batch = b, !.sync = s, !.call = Len(calls) + 1,
                            !.force = (b = NullBatch),
                            !.allow_delay = (b # NullBatch)]]
  BY ZenonT(60) DEF Enqueue
<1>2. /\ writer'[t] = [NoWork EXCEPT !.batch = b, !.sync = s, !.call = Len(calls) + 1,
                         !.force = (b = NullBatch), !.allow_delay = (b # NullBatch)]
      /\ \A u \in Threads \ {t} : writer'[u] = writer[u]
  BY Zenon, <1>1 DEF TypeOK
<1>3. /\ writer'[t].call = Len(calls) + 1 /\ ~writer'[t].done
      /\ writer'[t].batch = b /\ writer'[t].sync = s
  BY <1>2 DEF NoWork
<1>4. /\ Len(calls') = Len(calls) + 1
      /\ \A c \in 1..Len(calls) : calls'[c] = calls[c]
      /\ calls'[Len(calls) + 1] =
           [batch |-> b, sync |-> s, status |-> "pending", after |-> last]
  BY <1>1 DEF TypeOK
<1>5. /\ Len(writers') = Len(writers) + 1 /\ writers'[Len(writers) + 1] = t
      /\ \A i \in 1..Len(writers) : writers'[i] = writers[i]
  BY DEF Enqueue, TypeOK
<1>6. /\ pc[t] = "idle" /\ pc'[t] = IF writers = <<>> THEN "room" ELSE "wait"
      /\ \A u \in Threads \ {t} : pc'[u] = pc[u]
  BY ZenonT(60) DEF Enqueue, Goto, TypeOK
<1>7. UNCHANGED <<last, logs, contents, imm, flushed, reader>>
  BY Zenon DEF Enqueue, memVars, readVars
<1>8. QED
  BY <1>2, <1>3, <1>4, <1>5, <1>6, <1>7

\* A call that returns changes the status of its entry in the history.
LEMMA StatusChanges ==
  ASSUME TypeOK, NEW c \in 1..Len(calls), NEW s \in Status \cup {"pending"},
         calls' = [calls EXCEPT ![c].status = s]
  PROVE  /\ Len(calls') = Len(calls) /\ calls'[c].status = s
         /\ \A d \in 1..Len(calls) :
              /\ calls'[d].batch = calls[d].batch /\ calls'[d].sync = calls[d].sync
              /\ calls'[d].after = calls[d].after
              /\ d # c => calls'[d] = calls[d]
<1>1. calls \in Seq(Call) /\ \A d \in 1..Len(calls) : calls[d] \in Call
  BY SMTT(30) DEF TypeOK
<1>2. [calls[c] EXCEPT !.status = s] \in Call
  BY Zenon, <1>1 DEF Call
<1>3. /\ Len(calls') = Len(calls) /\ calls'[c] = [calls[c] EXCEPT !.status = s]
      /\ \A d \in 1..Len(calls) : d # c => calls'[d] = calls[d]
  BY <1>1, <1>2
<1>4. QED
  BY <1>1, <1>3 DEF Call

\* A writer in the queue that is woken: its work is done, or it is the front.
WakeEffect(t) ==
  /\ UNCHANGED <<writers, last, logs, contents, imm, flushed, reader>>
  /\ pc[t] = "wait"
  /\ \A u \in Threads \ {t} : pc'[u] = pc[u] /\ writer'[u] = writer[u]
  /\ writer[t].done =>
       /\ pc'[t] = ReturnsTo(t, writer[t].status)
       /\ pc'[t] = "flush" => writer'[t] = writer[t] /\ writer[t].batch = NullBatch
       /\ calls' = [calls EXCEPT ![writer[t].call].status =
                      CallStatus(t, writer[t].status)]
  /\ ~writer[t].done =>
       /\ UNCHANGED <<writer, calls>> /\ pc'[t] = "room"
       /\ Len(writers) > 0 /\ writers[1] = t

\* A woken writer returns, or leads.
LEMMA WakeChanges ==
  ASSUME TypeOK, QueueInv, NEW t \in Threads, Wake(t)
  PROVE  WakeEffect(t)
<1>. USE DEF WakeEffect
<1>1. UNCHANGED <<writers, last, logs, contents, imm, flushed, reader>> /\ pc[t] = "wait"
  BY Zenon DEF Wake, memVars, readVars
<1>2. \A u \in Threads \ {t} : pc'[u] = pc[u] /\ writer'[u] = writer[u]
  BY Zenon DEF Wake, TypeOK, Goto
<1>3. ASSUME writer[t].done
      PROVE  /\ pc'[t] = ReturnsTo(t, writer[t].status)
             /\ pc'[t] = "flush" => writer'[t] = writer[t] /\ writer[t].batch = NullBatch
             /\ calls' = [calls EXCEPT ![writer[t].call].status =
                            CallStatus(t, writer[t].status)]
  <2>1. /\ calls' = [calls EXCEPT ![writer[t].call].status =
                       CallStatus(t, writer[t].status)]
        /\ pc'[t] = ReturnsTo(t, writer[t].status)
        /\ writer'[t] = IF ReturnsTo(t, writer[t].status) = "idle"
                        THEN NoWork ELSE writer[t]
    BY Zenon, <1>3 DEF Wake, Goto, TypeOK
  <2>2. QED
    BY Zenon, <2>1 DEF ReturnsTo
<1>4. ASSUME ~writer[t].done
      PROVE  /\ UNCHANGED <<writer, calls>> /\ pc'[t] = "room"
             /\ Len(writers) > 0 /\ writers[1] = t
  <2>1. UNCHANGED <<writer, calls>> /\ pc'[t] = "room" /\ Head(writers) = t
    BY Zenon, <1>4 DEF Wake, Goto, TypeOK
  <2>2. writers \in Seq(Threads)
    BY Zenon DEF TypeOK
  <2>3. \E i \in 1..Len(writers) : writers[i] = t
    BY Zenon, <1>1, <1>4 DEF QueueInv
  <2>4. QED
    BY <2>1, <2>2, <2>3
<1>5. QED
  BY Zenon, <1>1, <1>2, <1>3, <1>4

\* The places of the queue behind the first n, once those are popped.
LEMMA QueueShift ==
  ASSUME TypeOK, NEW n \in 1..Len(writers),
         writers' = SubSeq(writers, n + 1, Len(writers))
  PROVE  /\ Len(writers') = Len(writers) - n
         /\ \A i \in 1..Len(writers') :
              i + n \in 2..Len(writers) /\ i + n > n /\ writers'[i] = writers[i + n]
<1>1. /\ Len(writers) \in Nat /\ n \in Int /\ 1 <= n /\ n <= Len(writers)
      /\ \A i \in 1..Len(writers) : writers[i] \in Threads
  BY QueueType
<1>2. writers \in Seq(Threads) /\ n \in Nat
  BY SMTT(30), <1>1 DEF TypeOK
<1>3. /\ Len(writers') = Len(writers) - n
      /\ \A i \in 1..(Len(writers) - n) : writers'[i] = writers[i + n]
  BY Zenon, <1>1, <1>2, Suffix
<1>4. ASSUME NEW i \in 1..Len(writers')
      PROVE  i + n \in 2..Len(writers) /\ i + n > n /\ writers'[i] = writers[i + n]
  <2>1. i \in 1..(Len(writers) - n) /\ i + n \in 2..Len(writers) /\ i + n > n
    BY SMTT(30), <1>1, <1>3
  <2>2. QED
    BY Zenon, <1>3, <2>1
<1>5. QED
  BY Zenon, <1>3, <1>4

\* A leader at the end of Write: its group leaves the queue, and the other
\* members have their status.
PopGroupEffect(t) ==
  /\ writer[t].last_writer \in 1..Len(writers) /\ writers[1] = t
  /\ Len(writers') = Len(writers) - writer[t].last_writer
  /\ \A i \in 1..Len(writers') :
       /\ i + writer[t].last_writer \in 2..Len(writers)
       /\ i + writer[t].last_writer > writer[t].last_writer
       /\ writers'[i] = writers[i + writer[t].last_writer]
  /\ \A u \in Threads \ {t} : pc'[u] = pc[u]
  /\ pc'[t] = ReturnsTo(t, writer[t].status)
  /\ pc'[t] = "flush" => writer'[t] = writer[t] /\ writer[t].batch = NullBatch
  /\ \A i \in 2..writer[t].last_writer :
       LET u == writers[i] IN
       /\ u \in Threads /\ u # t /\ pc[u] = "wait"
       /\ writer'[u].done /\ writer'[u].status = writer[t].status
       /\ writer'[u].call = writer[u].call /\ writer'[u].batch = writer[u].batch
       /\ writer'[u].sync = writer[u].sync
  /\ \A u \in Threads \ ({t} \cup Members(t)) : writer'[u] = writer[u]
  /\ calls' = [calls EXCEPT ![writer[t].call].status =
                 CallStatus(t, writer[t].status)]

\* The end of Write takes its group off the queue and tells its members.
LEMMA PopGroupChanges ==
  ASSUME TypeOK, QueueInv, MemberInv, NEW t \in Threads, pc[t] \in Grouped, PopGroup(t)
  PROVE  PopGroupEffect(t)
<1>. USE DEF PopGroupEffect
<1>0. DEFINE n == writer[t].last_writer
<1>1. n \in 1..Len(writers) /\ Len(writers) \in Nat /\ writers[1] = t
  BY SMTT(30) DEF QueueInv, Grouped, Leading, TypeOK
<1>2. /\ writers' = SubSeq(writers, n + 1, Len(writers))
      /\ pc'[t] = ReturnsTo(t, writer[t].status)
      /\ \A u \in Threads \ {t} : pc'[u] = pc[u]
      /\ calls' = [calls EXCEPT ![writer[t].call].status = CallStatus(t, writer[t].status)]
  BY Zenon DEF PopGroup, Goto, TypeOK
<1>3. /\ Len(writers') = Len(writers) - n
      /\ \A i \in 1..Len(writers') :
           i + n \in 2..Len(writers) /\ i + n > n /\ writers'[i] = writers[i + n]
  BY Zenon, <1>1, <1>2, QueueShift
<1>4. ASSUME NEW i \in 2..n
      PROVE  /\ writers[i] \in Threads /\ writers[i] # t /\ pc[writers[i]] = "wait"
             /\ writers[i] \in Members(t) \ {t}
  <2>1. i \in 1..Len(writers) /\ i > 1 /\ 1 \in 1..Len(writers)
    BY SMTT(30), <1>1
  <2>2. writers[i] # t
    BY SMTT(30), <1>1, <2>1 DEF MemberInv
  <2>3. QED
    BY SMTT(30), <1>1, <2>1, <2>2 DEF MemberInv, TypeOK, Members
<1>5. ASSUME NEW i \in 2..n
      PROVE  LET u == writers[i] IN
             /\ writer'[u].done /\ writer'[u].status = writer[t].status
             /\ writer'[u].call = writer[u].call /\ writer'[u].batch = writer[u].batch
             /\ writer'[u].sync = writer[u].sync
  <2>1. writer'[writers[i]] = [writer[writers[i]] EXCEPT !.done = TRUE,
                                 !.status = writer[t].status]
    BY Zenon, <1>4 DEF PopGroup
  <2>2. QED
    BY <1>4, <2>1, WriterType DEF Work
<1>6. \A u \in Threads \ ({t} \cup Members(t)) : writer'[u] = writer[u]
  BY Zenon DEF PopGroup
<1>7. t \notin Members(t)
  BY Zenon, <1>4 DEF Members
<1>8. ASSUME pc'[t] = "flush"
      PROVE  writer'[t] = writer[t] /\ writer[t].batch = NullBatch
  <2>1. ReturnsTo(t, writer[t].status) = "flush" /\ writer[t].batch = NullBatch
    BY Zenon, <1>2, <1>8 DEF ReturnsTo
  <2>2. QED
    BY Zenon, <2>1, <1>7 DEF PopGroup
<1>9. QED
  BY ZenonT(60), <1>1, <1>2, <1>3, <1>4, <1>5, <1>6, <1>8

\* TEST_CompactMemTable waits on, or returns.
FlushWaitEffect(t) ==
  /\ UNCHANGED <<writers, last, logs, contents, imm, flushed, reader>>
  /\ pc[t] \in {"flush", "flushwait"}
  /\ \A u \in Threads \ {t} : pc'[u] = pc[u] /\ writer'[u] = writer[u]
  /\ \/ pc'[t] = "flushwait" /\ UNCHANGED <<writer, calls>>
     \/ /\ pc'[t] = "idle"
        /\ \E s \in Status : calls' = [calls EXCEPT ![writer[t].call].status = s]

\* TEST_CompactMemTable waits for imm_ or returns.
LEMMA FlushWaitChanges ==
  ASSUME TypeOK, NEW t \in Threads, FlushWait(t)
  PROVE  FlushWaitEffect(t)
<1>. USE DEF FlushWaitEffect
<1>1. /\ UNCHANGED <<writers, last, logs, contents, imm, flushed, reader>>
      /\ pc[t] \in {"flush", "flushwait"}
  BY Zenon DEF FlushWait, memVars, readVars
<1>2. \A u \in Threads \ {t} : pc'[u] = pc[u] /\ writer'[u] = writer[u]
  BY Zenon DEF FlushWait, Goto, TypeOK
<1>3. \/ pc'[t] = "flushwait" /\ UNCHANGED <<writer, calls>>
      \/ /\ pc'[t] = "idle"
         /\ calls' = [calls EXCEPT ![writer[t].call].status =
                        IF imm = 0 THEN "ok" ELSE "error"]
  BY Zenon DEF FlushWait, Goto, TypeOK
<1>4. QED
  BY Zenon, <1>1, <1>2, <1>3 DEF Status

\* A leader that forms a group.
ReadyEffect(t) ==
  /\ UNCHANGED <<writers, calls, last, logs, contents, imm, flushed, reader>>
  /\ pc[t] = "room" /\ pc'[t] = "log"
  /\ \A u \in Threads \ {t} : pc'[u] = pc[u] /\ writer'[u] = writer[u]
  /\ writer'[t].call = writer[t].call /\ writer'[t].batch = writer[t].batch
  /\ writer'[t].sync = writer[t].sync /\ writer'[t].done = writer[t].done
  /\ \E n \in 1..Len(writers) :
       /\ IsGroup(n) /\ writer'[t].last_writer = n
       /\ writer'[t].group = GroupEntries(n)
       /\ writer'[t].last_sequence = last + Cardinality(Positions(n))

\* A leader with room forms its group.
LEMMA ReadyChanges ==
  ASSUME TypeOK, NEW t \in Threads, RoomReady(t), writer[t].batch # NullBatch
  PROVE  ReadyEffect(t)
<1>. USE DEF ReadyEffect
<1>1. PICK n \in 1..Len(writers) :
        /\ IsGroup(n)
        /\ writer' = [writer EXCEPT ![t] =
             [writer[t] EXCEPT !.last_writer = n, !.group = GroupEntries(n),
                !.last_sequence = last + Cardinality(Positions(n))]]
  BY Zenon DEF RoomReady
<1>2. /\ writer'[t] = [writer[t] EXCEPT !.last_writer = n, !.group = GroupEntries(n),
                         !.last_sequence = last + Cardinality(Positions(n))]
      /\ \A u \in Threads \ {t} : writer'[u] = writer[u]
  BY Zenon, <1>1 DEF TypeOK
<1>3. /\ writer'[t].call = writer[t].call /\ writer'[t].batch = writer[t].batch
      /\ writer'[t].sync = writer[t].sync /\ writer'[t].done = writer[t].done
      /\ writer'[t].last_writer = n /\ writer'[t].group = GroupEntries(n)
      /\ writer'[t].last_sequence = last + Cardinality(Positions(n))
  BY Zenon, <1>2, WriterType DEF Work
<1>4. pc[t] = "room" /\ pc'[t] = "log" /\ \A u \in Threads \ {t} : pc'[u] = pc[u]
  BY Zenon DEF RoomReady, Goto, TypeOK
<1>5. UNCHANGED <<writers, calls, last, logs, contents, imm, flushed, reader>>
  BY Zenon DEF RoomReady, memVars, readVars
<1>6. QED
  BY Zenon, <1>1, <1>2, <1>3, <1>4, <1>5

\* The background thread and the readers leave writers, logs and memtables alone.
LEMMA StepCases ==
  ASSUME [Next]_vars
  PROVE  \/ \E t \in Threads :
              \/ Enqueue(t) \/ Wake(t) \/ InRoom(t) \/ InLogging(t) \/ Commit(t)
              \/ Finish(t) \/ FlushWait(t)
              \/ RoomReady(t) /\ writer[t].batch # NullBatch
         \/ UNCHANGED <<writers, writer, pc, calls, last, logs, contents>>
<1>1. ASSUME Background \/ BackgroundFault
      PROVE  UNCHANGED <<writers, writer, pc, calls, last, logs, contents>>
  BY Zenon, <1>1 DEF Background, BackgroundFault, BackgroundCall, NestedFlush, TableBuilt,
     FlushInstalled, FilesRemoved, CompactionWritten, CompactionInstalled,
     FlushFails, CompactionFails, queueVars, memVars
<1>2. ASSUME NEW r \in Readers, BeginGet(r) \/ EndGet(r)
      PROVE  UNCHANGED <<writers, writer, pc, calls, last, logs, contents>>
  BY Zenon, <1>2 DEF BeginGet, EndGet, queueVars, memVars
<1>3. ASSUME UNCHANGED vars
      PROVE  UNCHANGED <<writers, writer, pc, calls, last, logs, contents>>
  BY Zenon, <1>3 DEF vars
<1>4. ASSUME NEW t \in Threads, Enqueue(t) \/ Client(t) \/ ClientFault(t)
      PROVE  \/ Enqueue(t) \/ Wake(t) \/ InRoom(t) \/ InLogging(t) \/ Commit(t)
             \/ Finish(t) \/ FlushWait(t)
             \/ RoomReady(t) /\ writer[t].batch # NullBatch
  BY Zenon, <1>4 DEF Client, ClientFault, InRoom, InLogging
<1>5. QED
  BY Zenon, <1>1, <1>2, <1>3, <1>4 DEF Next, Quiescent

----------------------------------------------------------------------------
(* Who is in the queue.                                                    *)

\* A step of the front writer that leaves the queue alone keeps MemberInv.
LEMMA MemberKept ==
  ASSUME MemberInv, \A i \in 1..Len(writers) : writers[i] \in Threads,
         NEW t \in Threads, writers' = writers,
         \A u \in Threads \ {t} : pc'[u] = pc[u] /\ writer'[u] = writer[u],
         pc[t] \in Leading, pc'[t] \in Leading, writer'[t].done = writer[t].done,
         pc'[t] = "finish" => /\ writer'[t].last_writer = 1
                              /\ writer'[t].status = "error" \/ writer'[t].batch = NullBatch
  PROVE  MemberInv'
<1>1. pc[t] # "wait" /\ pc'[t] \notin {"flush", "flushwait"}
  BY Zenon DEF Leading
<1>2. ASSUME NEW i \in 1..Len(writers')
      PROVE  /\ pc'[writers'[i]] \in Leading \cup {"wait"}
             /\ i > 1 => pc'[writers'[i]] = "wait"
             /\ ~writer'[writers'[i]].done
  <2>1. CASE writers[i] = t
    BY Zenon, <1>1, <2>1 DEF MemberInv
  <2>2. CASE writers[i] # t
    BY Zenon, <2>2 DEF MemberInv
  <2>3. QED
    BY Zenon, <2>1, <2>2
<1>3. ASSUME NEW u \in Threads
      PROVE  /\ pc'[u] = "finish" =>
                  /\ writer'[u].last_writer = 1
                  /\ writer'[u].status = "error" \/ writer'[u].batch = NullBatch
             /\ pc'[u] \in {"flush", "flushwait"} => writer'[u].batch = NullBatch
  <2>1. CASE u = t
    BY Zenon, <1>1, <2>1
  <2>2. CASE u # t
    BY ZenonT(60), <2>2 DEF MemberInv
  <2>3. QED
    BY Zenon, <2>1, <2>2
<1>4. \A i, j \in 1..Len(writers') : writers'[i] = writers'[j] => i = j
  BY Zenon DEF MemberInv
<1>5. QED
  BY Zenon, <1>2, <1>3, <1>4 DEF MemberInv

\* Every step keeps the invariant of the queue's members.
LEMMA MemberStep ==
  ASSUME TypeOK, QueueInv, MemberInv, [Next]_vars
  PROVE  MemberInv'
<1>0. \A i \in 1..Len(writers) : writers[i] \in Threads
  BY Zenon, QueueType
<1>1. ASSUME NEW t \in Threads, Enqueue(t) PROVE MemberInv'
  <2>0. EnqueueEffect(t)
    BY Zenon, <1>1, EnqueueChanges
  <2>1. \A i \in 1..Len(writers) : writers[i] # t
    BY Zenon, <1>0, <2>0 DEF EnqueueEffect, MemberInv, Leading
  <2>2. Len(writers) \in Nat /\ (Len(writers) = 0 <=> writers = <<>>)
    BY DEF TypeOK
  <2>3. \A i, j \in 1..Len(writers') : writers'[i] = writers'[j] => i = j
    BY SMTT(30), <2>0, <2>1, <2>2 DEF EnqueueEffect, MemberInv
  <2>4. \A i \in 1..Len(writers') :
          /\ pc'[writers'[i]] \in Leading \cup {"wait"}
          /\ i > 1 => pc'[writers'[i]] = "wait"
          /\ ~writer'[writers'[i]].done
    BY SMTT(30), <1>0, <2>0, <2>1, <2>2 DEF EnqueueEffect, MemberInv, Leading
  <2>5. \A u \in Threads : pc'[u] \in {"finish", "flush", "flushwait"} =>
          pc[u] = pc'[u] /\ writer'[u] = writer[u]
    BY Zenon, <2>0 DEF EnqueueEffect
  <2>6. ASSUME NEW u \in Threads
        PROVE  /\ pc'[u] = "finish" =>
                    /\ writer'[u].last_writer = 1
                    /\ writer'[u].status = "error" \/ writer'[u].batch = NullBatch
               /\ pc'[u] \in {"flush", "flushwait"} => writer'[u].batch = NullBatch
    BY Zenon, <2>5 DEF MemberInv
  <2>7. QED
    BY Zenon, <2>3, <2>4, <2>6 DEF MemberInv
<1>2. ASSUME NEW t \in Threads, Wake(t) PROVE MemberInv'
  <2>0. WakeEffect(t)
    BY Zenon, <1>2, WakeChanges
  <2>1. CASE writer[t].done
    <3>1. \A i \in 1..Len(writers) : writers[i] # t
      BY Zenon, <2>1 DEF MemberInv
    <3>2. pc'[t] \in {"idle", "flush"}
      BY Zenon, <2>0, <2>1 DEF WakeEffect, ReturnsTo
    <3>3. \A i \in 1..Len(writers) :
            pc'[writers[i]] = pc[writers[i]] /\ writer'[writers[i]] = writer[writers[i]]
      BY Zenon, <1>0, <2>0, <3>1 DEF WakeEffect
    <3>4. \A u \in Threads : pc'[u] \in {"finish", "flushwait"} =>
            pc[u] = pc'[u] /\ writer'[u] = writer[u]
      BY Zenon, <2>0, <3>2 DEF WakeEffect
    <3>5. \A u \in Threads : pc'[u] = "flush" => writer'[u].batch = NullBatch
      BY ZenonT(60), <2>0, <2>1 DEF WakeEffect, MemberInv
    <3>6. UNCHANGED writers
      BY Zenon, <2>0 DEF WakeEffect
    <3>7. QED
      BY ZenonT(60), <3>3, <3>4, <3>5, <3>6 DEF MemberInv
  <2>2. CASE ~writer[t].done
    <3>1. /\ UNCHANGED <<writers, writer>> /\ Len(writers) \in Nat /\ writers[1] = t
          /\ Len(writers) > 0 /\ pc'[t] = "room"
          /\ \A u \in Threads \ {t} : pc'[u] = pc[u]
      BY Zenon, <2>0, <2>2, QueueType DEF WakeEffect
    <3>2. \A i \in 1..Len(writers) : i > 1 => writers[i] # t
      BY SMTT(30), <3>1 DEF MemberInv
    <3>3. QED
      BY SMTT(30), <1>0, <3>1, <3>2 DEF MemberInv, Leading
  <2>3. QED
    BY Zenon, <2>1, <2>2
<1>3. ASSUME NEW t \in Threads, InRoom(t) PROVE MemberInv'
  <2>1. InRoomEffect(t)
    BY Zenon, <1>3, InRoomChanges
  <2>2. pc[t] \in Leading /\ pc'[t] \in Leading
    BY Zenon, <2>1 DEF InRoomEffect, Leading
  <2>3. QED
    BY Zenon, <1>0, <2>1, <2>2, MemberKept DEF InRoomEffect
<1>4. ASSUME NEW t \in Threads, InLogging(t) PROVE MemberInv'
  <2>1. InLoggingEffect(t)
    BY Zenon, <1>4, InLoggingChanges
  <2>2. pc[t] \in Leading /\ pc'[t] \in Leading /\ pc'[t] # "finish"
    BY Zenon, <2>1 DEF InLoggingEffect, Leading
  <2>3. QED
    BY Zenon, <1>0, <2>1, <2>2, MemberKept DEF InLoggingEffect
<1>5. ASSUME NEW t \in Threads, Commit(t) \/ Finish(t) PROVE MemberInv'
  <2>0. PopGroupEffect(t)
    BY Zenon, <1>5, PopGroupChanges DEF Commit, Finish, Grouped
  <2>1. DEFINE n == writer[t].last_writer
  <2>2. n \in 1..Len(writers) /\ Len(writers) \in Nat /\ writers[1] = t
    BY Zenon, <2>0, QueueType DEF PopGroupEffect
  <2>3. pc'[t] \in {"idle", "flush"}
    BY Zenon, <2>0 DEF PopGroupEffect, ReturnsTo
  <2>4. ASSUME NEW i \in 1..Len(writers')
        PROVE  /\ writers'[i] \in Threads /\ pc'[writers'[i]] = "wait"
               /\ ~writer'[writers'[i]].done
    <3>1. i + n \in 2..Len(writers) /\ i + n > n /\ writers'[i] = writers[i + n]
      BY Zenon, <2>0 DEF PopGroupEffect
    <3>2. writers'[i] # t /\ writers'[i] \notin Members(t)
      <4>1. i + n \in 1..Len(writers) /\ \A k \in 1..n : k \in 1..Len(writers) /\ k # i + n
        BY SMTT(30), <2>2, <3>1
      <4>2. \A k \in 1..n : writers[k] # writers[i + n]
        BY Zenon, <4>1 DEF MemberInv
      <4>3. 1 \in 1..n /\ \A k \in 2..n : k \in 1..n
        BY SMTT(30), <2>2
      <4>4. QED
        BY Zenon, <2>2, <3>1, <4>2, <4>3 DEF Members
    <3>3. /\ pc[writers'[i]] = "wait" /\ ~writer[writers'[i]].done
          /\ writers'[i] \in Threads
      BY SMTT(30), <1>0, <2>2, <3>1 DEF MemberInv
    <3>4. QED
      BY ZenonT(60), <2>0, <3>2, <3>3 DEF PopGroupEffect
  <2>5. \A i, j \in 1..Len(writers') : writers'[i] = writers'[j] => i = j
    <3>1. TAKE i, j \in 1..Len(writers')
    <3>2. HAVE writers'[i] = writers'[j]
    <3>3. /\ i + n \in 2..Len(writers) /\ writers'[i] = writers[i + n]
          /\ j + n \in 2..Len(writers) /\ writers'[j] = writers[j + n]
      BY Zenon, <2>0 DEF PopGroupEffect
    <3>4. i + n = j + n
      <4>1. \A k \in 2..Len(writers) : k \in 1..Len(writers)
        BY <2>2
      <4>2. QED
        BY Zenon, <3>2, <3>3, <4>1 DEF MemberInv
    <3>5. Len(writers') = Len(writers) - n
      BY Zenon, <2>0 DEF PopGroupEffect
    <3>6. QED
      BY SMTT(30), <2>2, <3>4, <3>5
  <2>6. \A u \in Members(t) : pc'[u] = "wait"
    <3>1. \A i \in 2..n : writers[i] \in Threads /\ writers[i] # t /\ pc[writers[i]] = "wait"
      BY Zenon, <2>0 DEF PopGroupEffect
    <3>2. \A u \in Threads \ {t} : pc'[u] = pc[u]
      BY Zenon, <2>0 DEF PopGroupEffect
    <3>3. QED
      BY Zenon, <3>1, <3>2 DEF Members
  <2>7. \A u \in Threads : pc'[u] \in {"finish", "flushwait"} =>
          pc[u] = pc'[u] /\ writer'[u] = writer[u]
    <3>1. TAKE u \in Threads
    <3>2. HAVE pc'[u] \in {"finish", "flushwait"}
    <3>3. u # t /\ u \notin Members(t)
      BY Zenon, <2>3, <2>6, <3>2
    <3>4. QED
      BY Zenon, <2>0, <3>3 DEF PopGroupEffect
  <2>8. \A u \in Threads : pc'[u] = "flush" => writer'[u].batch = NullBatch
    <3>1. TAKE u \in Threads
    <3>2. HAVE pc'[u] = "flush"
    <3>3. u \notin Members(t)
      BY Zenon, <2>6, <3>2
    <3>4. CASE u = t
      BY Zenon, <2>0, <3>2, <3>4 DEF PopGroupEffect
    <3>5. CASE u # t
      <4>1. pc[u] = "flush" /\ writer'[u] = writer[u]
        BY Zenon, <2>0, <3>2, <3>3, <3>5 DEF PopGroupEffect
      <4>2. QED
        BY Zenon, <4>1 DEF MemberInv
    <3>6. QED
      BY Zenon, <3>4, <3>5
  <2>9. QED
    BY SMTT(30), <2>4, <2>5, <2>7, <2>8 DEF MemberInv
<1>6. ASSUME NEW t \in Threads, FlushWait(t) PROVE MemberInv'
  BY <1>0, <1>6, FlushWaitChanges DEF FlushWaitEffect, MemberInv, Leading
<1>7. ASSUME NEW t \in Threads, RoomReady(t), writer[t].batch # NullBatch
      PROVE  MemberInv'
  <2>0. ReadyEffect(t)
    BY Zenon, <1>7, ReadyChanges
  <2>1. /\ writers' = writers
        /\ \A u \in Threads : u # t => pc'[u] = pc[u] /\ writer'[u] = writer[u]
        /\ pc[t] = "room" /\ pc'[t] = "log"
        /\ writer'[t].done = writer[t].done
    BY Zenon, <2>0 DEF ReadyEffect
  <2>2. pc[t] \in Leading /\ pc'[t] \in Leading /\ pc'[t] # "finish"
    BY Zenon, <2>1 DEF Leading
  <2>3. QED
    BY Zenon, <1>0, <2>1, <2>2, MemberKept
<1>8. ASSUME UNCHANGED <<writers, writer, pc, calls, last, logs, contents>>
      PROVE  MemberInv'
  BY Zenon, <1>8 DEF MemberInv
<1>9. QED
  BY Zenon, <1>1, <1>2, <1>3, <1>4, <1>5, <1>6, <1>7, <1>8, StepCases

----------------------------------------------------------------------------
(* The calls of the threads in Write.                                      *)

\* What t works for stays the same: its call, and what the call asked for.
SameWork(t) ==
  /\ pc[t] # "idle" /\ writer'[t].call = writer[t].call
  /\ writer'[t].batch = writer[t].batch /\ writer'[t].sync = writer[t].sync

\* A step in which nobody calls Write and no call returns keeps CallInv.
LEMMA CallKept ==
  ASSUME CallInv, UNCHANGED <<calls, last>>,
         \A u \in Threads : pc'[u] # "idle" => SameWork(u)
  PROVE  CallInv'
<1>1. calls' = calls /\ last' = last
  BY Zenon
<1>2. ASSUME NEW u \in Threads, pc'[u] # "idle"
      PROVE  /\ writer'[u].call \in 1..Len(calls')
             /\ calls'[writer'[u].call].status = "pending"
             /\ calls'[writer'[u].call].batch = writer'[u].batch
             /\ calls'[writer'[u].call].sync = writer'[u].sync
  BY ZenonT(60), <1>1, <1>2 DEF CallInv, SameWork
<1>3. ASSUME NEW u \in Threads, NEW v \in Threads, pc'[u] # "idle", pc'[v] # "idle",
             writer'[u].call = writer'[v].call
      PROVE  u = v
  BY ZenonT(60), <1>3 DEF CallInv, SameWork
<1>4. \A c \in 1..Len(calls') : calls'[c].after <= last'
  BY Zenon, <1>1 DEF CallInv
<1>5. QED
  BY Zenon, <1>2, <1>3, <1>4 DEF CallInv

\* So does a step in which the call of t alone gets its status.
LEMMA CallReturns ==
  ASSUME TypeOK, CallInv, NEW t \in Threads, NEW s \in Status \cup {"pending"},
         pc[t] # "idle", last \in Nat, last' \in Nat, last' >= last,
         calls' = [calls EXCEPT ![writer[t].call].status = s],
         pc'[t] # "idle" => s = "pending",
         \A u \in Threads : pc'[u] # "idle" => SameWork(u)
  PROVE  CallInv'
<1>0. DEFINE c == writer[t].call
<1>1. c \in 1..Len(calls)
  BY Zenon DEF CallInv
<1>2. /\ Len(calls') = Len(calls) /\ calls'[c].status = s
      /\ \A d \in 1..Len(calls) :
           /\ calls'[d].batch = calls[d].batch /\ calls'[d].sync = calls[d].sync
           /\ calls'[d].after = calls[d].after
           /\ d # c => calls'[d] = calls[d]
  BY Zenon, <1>1, StatusChanges
<1>3. ASSUME NEW u \in Threads, pc'[u] # "idle"
      PROVE  /\ writer'[u].call \in 1..Len(calls')
             /\ calls'[writer'[u].call].status = "pending"
             /\ calls'[writer'[u].call].batch = writer'[u].batch
             /\ calls'[writer'[u].call].sync = writer'[u].sync
  <2>1. SameWork(u)
    BY Zenon, <1>3
  <2>2. CASE u = t
    BY SMTT(30), <1>1, <1>2, <1>3, <2>1, <2>2 DEF SameWork, CallInv
  <2>3. CASE u # t
    <3>1. writer[u].call # c
      BY Zenon, <2>1, <2>3 DEF CallInv, SameWork
    <3>2. QED
      BY SMTT(30), <1>2, <2>1, <3>1 DEF SameWork, CallInv
  <2>4. QED
    BY Zenon, <2>2, <2>3
<1>4. \A u, v \in Threads :
        pc'[u] # "idle" /\ pc'[v] # "idle" /\ writer'[u].call = writer'[v].call => u = v
  BY DEF SameWork, CallInv
<1>5. \A d \in 1..Len(calls') : calls'[d].after <= last'
  <2>1. \A d \in 1..Len(calls) : calls[d] \in Call
    BY SMTT(30) DEF TypeOK
  <2>2. \A d \in 1..Len(calls) : calls[d].after \in Nat
    BY Zenon, <2>1 DEF Call
  <2>3. QED
    BY SMTT(30), <1>2, <2>2 DEF CallInv
<1>6. QED
  BY Zenon, <1>3, <1>4, <1>5 DEF CallInv

\* What PopGroup leaves to those that go on.
LEMMA PopGroupKeepsWork ==
  ASSUME MemberInv, NEW t \in Threads, pc[t] \in Grouped, PopGroupEffect(t),
         NEW u \in Threads, pc'[u] # "idle"
  PROVE  SameWork(u)
<1>1. CASE u = t
  <2>1. pc'[t] = "flush"
    BY Zenon, <1>1 DEF PopGroupEffect, ReturnsTo
  <2>2. writer'[t] = writer[t]
    BY Zenon, <2>1 DEF PopGroupEffect
  <2>3. QED
    BY Zenon, <1>1, <2>2 DEF SameWork, Grouped
<1>2. CASE u # t /\ u \in Members(t)
  <2>1. PICK i \in 2..writer[t].last_writer : u = writers[i]
    BY Zenon, <1>2 DEF Members
  <2>2. /\ pc[u] = "wait" /\ writer'[u].call = writer[u].call
        /\ writer'[u].batch = writer[u].batch /\ writer'[u].sync = writer[u].sync
    BY Zenon, <2>1 DEF PopGroupEffect
  <2>3. QED
    BY Zenon, <2>2 DEF SameWork
<1>3. CASE u # t /\ u \notin Members(t)
  <2>1. pc'[u] = pc[u] /\ writer'[u] = writer[u]
    BY Zenon, <1>3 DEF PopGroupEffect
  <2>2. QED
    BY Zenon, <2>1 DEF SameWork
<1>4. QED
  BY Zenon, <1>1, <1>2, <1>3

\* Every step keeps the invariant of the calls.
LEMMA CallStep ==
  ASSUME TypeOK, TypeOK', QueueInv, MemberInv, CallInv, [Next]_vars
  PROVE  CallInv'
<1>0. last \in Nat /\ last' \in Nat /\ \A t \in Threads : writer[t].status \in Status
  BY Zenon, WriterType DEF TypeOK, Work
<1>1. ASSUME NEW t \in Threads, Enqueue(t) PROVE CallInv'
  <2>0. EnqueueEffect(t)
    BY Zenon, <1>1, EnqueueChanges
  <2>1. Len(calls) \in Nat
    BY SMTT(30) DEF TypeOK
  <2>a. /\ Len(calls) + 1 \in 1..(Len(calls) + 1)
        /\ Len(calls) + 1 \notin 1..Len(calls)
        /\ \A c \in 1..Len(calls) : c \in 1..(Len(calls) + 1)
    BY <2>1
  <2>b. ASSUME NEW u \in Threads, u # t, pc'[u] # "idle"
        PROVE  /\ pc[u] # "idle" /\ writer'[u] = writer[u]
               /\ writer[u].call \in 1..Len(calls)
    BY ZenonT(60), <2>0, <2>b DEF EnqueueEffect, CallInv
  <2>2. ASSUME NEW u \in Threads, pc'[u] # "idle"
        PROVE  /\ writer'[u].call \in 1..Len(calls')
               /\ calls'[writer'[u].call].status = "pending"
               /\ calls'[writer'[u].call].batch = writer'[u].batch
               /\ calls'[writer'[u].call].sync = writer'[u].sync
    <3>1. CASE u = t
      BY Zenon, <2>0, <2>a, <3>1 DEF EnqueueEffect
    <3>2. CASE u # t
      <4>1. /\ pc[u] # "idle" /\ writer'[u] = writer[u]
            /\ writer[u].call \in 1..Len(calls)
        BY Zenon, <2>2, <2>b, <3>2
      <4>2. Len(calls') = Len(calls) + 1 /\ calls'[writer[u].call] = calls[writer[u].call]
        BY Zenon, <2>0, <4>1 DEF EnqueueEffect
      <4>3. writer[u].call \in 1..Len(calls')
        BY SMTT(30), <2>1, <4>1, <4>2
      <4>4. /\ calls[writer[u].call].status = "pending"
            /\ calls[writer[u].call].batch = writer[u].batch
            /\ calls[writer[u].call].sync = writer[u].sync
        BY Zenon, <4>1 DEF CallInv
      <4>5. QED
        BY Zenon, <4>1, <4>2, <4>3, <4>4
    <3>3. QED
      BY Zenon, <3>1, <3>2
  <2>3. ASSUME NEW u \in Threads, NEW v \in Threads, pc'[u] # "idle", pc'[v] # "idle",
               writer'[u].call = writer'[v].call
        PROVE  u = v
    <3>1. writer'[t].call \notin 1..Len(calls)
      BY Zenon, <2>0, <2>a DEF EnqueueEffect
    <3>2. u = t <=> v = t
      BY Zenon, <2>3, <2>b, <3>1
    <3>3. QED
      BY ZenonT(60), <2>3, <2>b, <3>2 DEF CallInv
  <2>4. \A c \in 1..Len(calls') : calls'[c].after <= last'
    <3>1. \A c \in 1..Len(calls) : calls'[c].after <= last'
      BY Zenon, <2>0 DEF EnqueueEffect, CallInv
    <3>2. calls'[Len(calls) + 1].after <= last'
      BY SMTT(30), <1>0, <2>0 DEF EnqueueEffect
    <3>3. Len(calls') = Len(calls) + 1
      BY Zenon, <2>0 DEF EnqueueEffect
    <3>4. QED
      BY SMTT(30), <2>1, <3>1, <3>2, <3>3
  <2>5. QED
    BY Zenon, <2>2, <2>3, <2>4 DEF CallInv
<1>2. ASSUME NEW t \in Threads, Wake(t) PROVE CallInv'
  <2>0. WakeEffect(t)
    BY Zenon, <1>2, WakeChanges
  <2>1. CASE writer[t].done
    <3>1. /\ calls' = [calls EXCEPT ![writer[t].call].status =
                         CallStatus(t, writer[t].status)]
          /\ pc[t] = "wait" /\ last' = last
          /\ pc'[t] = ReturnsTo(t, writer[t].status)
          /\ pc'[t] = "flush" => writer'[t] = writer[t]
          /\ \A u \in Threads \ {t} : pc'[u] = pc[u] /\ writer'[u] = writer[u]
      BY Zenon, <2>0, <2>1 DEF WakeEffect
    <3>2. pc'[t] # "idle" => CallStatus(t, writer[t].status) = "pending" /\ pc'[t] = "flush"
      BY Zenon, <3>1 DEF CallStatus, ReturnsTo
    <3>3. CallStatus(t, writer[t].status) \in Status \cup {"pending"}
      BY Zenon, <1>0 DEF CallStatus
    <3>4. \A u \in Threads : pc'[u] # "idle" => SameWork(u)
      BY Zenon, <3>1, <3>2 DEF SameWork
    <3>5. pc[t] # "idle" /\ last' >= last
      BY <1>0, <3>1
    <3>6. QED
      BY Zenon, <1>0, <3>1, <3>2, <3>3, <3>4, <3>5, CallReturns
  <2>2. CASE ~writer[t].done
    <3>1. \A u \in Threads : pc'[u] # "idle" => SameWork(u)
      BY Zenon, <2>0, <2>2 DEF WakeEffect, SameWork
    <3>2. QED
      BY Zenon, <2>0, <2>2, <3>1, CallKept DEF WakeEffect
  <2>3. QED
    BY Zenon, <2>1, <2>2
<1>3. ASSUME NEW t \in Threads, InRoom(t) PROVE CallInv'
  BY Zenon, <1>3, InRoomChanges, CallKept DEF InRoomEffect, SameWork
<1>4. ASSUME NEW t \in Threads, InLogging(t) PROVE CallInv'
  BY Zenon, <1>4, InLoggingChanges, CallKept DEF InLoggingEffect, SameWork
<1>5. ASSUME NEW t \in Threads, Commit(t) \/ Finish(t) PROVE CallInv'
  <2>0. PopGroupEffect(t) /\ pc[t] \in Grouped
    BY Zenon, <1>5, PopGroupChanges DEF Commit, Finish, Grouped
  <2>1. last' >= last
    <3>1. CASE Commit(t)
      BY Zenon, <3>1 DEF Commit, QueueInv, Logging
    <3>2. CASE Finish(t)
      <4>1. last' = last
        BY Zenon, <3>2 DEF Finish, memVars
      <4>2. QED
        BY <1>0, <4>1
    <3>3. QED
      BY Zenon, <1>5, <3>1, <3>2
  <2>2. /\ calls' = [calls EXCEPT ![writer[t].call].status =
                       CallStatus(t, writer[t].status)]
        /\ pc'[t] = ReturnsTo(t, writer[t].status)
    BY Zenon, <2>0 DEF PopGroupEffect
  <2>3. pc'[t] # "idle" => CallStatus(t, writer[t].status) = "pending"
    BY Zenon, <2>2 DEF CallStatus
  <2>4. CallStatus(t, writer[t].status) \in Status \cup {"pending"}
    BY Zenon, <1>0 DEF CallStatus
  <2>5. \A u \in Threads : pc'[u] # "idle" => SameWork(u)
    BY Zenon, <2>0, PopGroupKeepsWork
  <2>6. pc[t] # "idle"
    BY Zenon, <2>0 DEF Grouped
  <2>7. QED
    BY Zenon, <1>0, <2>1, <2>2, <2>3, <2>4, <2>5, <2>6, CallReturns
<1>6. ASSUME NEW t \in Threads, FlushWait(t) PROVE CallInv'
  <2>0. FlushWaitEffect(t)
    BY Zenon, <1>6, FlushWaitChanges
  <2>1. CASE pc'[t] = "flushwait" /\ UNCHANGED <<writer, calls>>
    BY Zenon, <2>0, <2>1, CallKept DEF FlushWaitEffect, SameWork
  <2>2. CASE pc'[t] = "idle" /\ \E s \in Status :
               calls' = [calls EXCEPT ![writer[t].call].status = s]
    <3>1. PICK s \in Status : calls' = [calls EXCEPT ![writer[t].call].status = s]
      BY Zenon, <2>2
    <3>2. \A u \in Threads : pc'[u] # "idle" => SameWork(u)
      BY Zenon, <2>0, <2>2 DEF FlushWaitEffect, SameWork
    <3>3. pc[t] # "idle" /\ last' >= last
      BY <1>0, <2>0 DEF FlushWaitEffect
    <3>4. QED
      BY Zenon, <1>0, <2>2, <3>1, <3>2, <3>3, CallReturns
  <2>3. QED
    BY Zenon, <2>0, <2>1, <2>2 DEF FlushWaitEffect
<1>7. ASSUME NEW t \in Threads, RoomReady(t), writer[t].batch # NullBatch
      PROVE  CallInv'
  BY Zenon, <1>7, ReadyChanges, CallKept DEF ReadyEffect, SameWork
<1>8. ASSUME UNCHANGED <<writers, writer, pc, calls, last, logs, contents>>
      PROVE  CallInv'
  BY Zenon, <1>8 DEF CallInv
<1>9. QED
  BY Zenon, <1>1, <1>2, <1>3, <1>4, <1>5, <1>6, <1>7, <1>8, StepCases

\* The writers of the queue have different calls.
LEMMA CallsDiffer ==
  ASSUME TypeOK, MemberInv, CallInv,
         NEW i \in 1..Len(writers), NEW j \in 1..Len(writers), CallOf(i) = CallOf(j)
  PROVE  i = j
<1>1. /\ writers[i] \in Threads /\ pc[writers[i]] # "idle"
      /\ writers[j] \in Threads /\ pc[writers[j]] # "idle"
  BY Zenon, QueueType DEF MemberInv, Leading
<1>2. writers[i] = writers[j]
  BY Zenon, <1>1 DEF CallInv, CallOf
<1>3. QED
  BY Zenon, <1>2 DEF MemberInv

===============================================================================
