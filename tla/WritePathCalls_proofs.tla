------------------------ MODULE WritePathCalls_proofs ------------------------
(***************************************************************************)
(* More about WritePath, from the invariant of WritePath_proofs: what a    *)
(* call of Write leaves behind when it returns OK (its entries are in a    *)
(* log record and can be read), the order of sequence numbers in real      *)
(* time, and what readers see.                                             *)
(***************************************************************************)
EXTENDS WritePath_proofs

----------------------------------------------------------------------------
(* The invariant.                                                          *)

\* The entries of a group are numbered behind LastSequence, up to what it is
\* going to be, and belong to its writers.
OrderInv ==
  /\ \A e \in Stored : e.call \in 1..Len(calls) /\ e.seq > calls[e.call].after
  /\ \A t \in Threads : pc[t] \in Logging =>
       \A e \in writer[t].group :
         /\ e.seq > last /\ e.seq <= writer[t].last_sequence
         /\ \E i \in 1..writer[t].last_writer : e.call = CallOf(i)

\* The memtables that readers are given, and the tables, are all there are.
CoverInv == \A i \in 1..Len(contents) : i = Len(contents) \/ i = imm \/ i \in flushed

\* A reader has memtables and tables that exist, and sees what it expects.
ReadInv ==
  \A r \in Readers : reader[r].active =>
    /\ reader[r].snapshot <= last
    /\ ({reader[r].mem, reader[r].imm} \ {0}) \cup reader[r].files \subseteq 1..Len(contents)
    /\ Seen(r) = reader[r].expect

\* Nothing is stored of a call before it is in a group.
NotStored ==
  \A i \in 1..Len(writers) :
    (\A t \in Threads : pc[t] \in Logging => i > writer[t].last_writer)
    => Of(Stored, CallOf(i)) = {}

\* All of it is, with what is still in the group, from then on.
GroupStored(t) ==
  /\ \A i \in 1..writer[t].last_writer :
       Cardinality(Of(Stored \cup writer[t].group, CallOf(i))) = Count(BatchOf(i))
  /\ \A i \in 1..writer[t].last_writer :
       \A e \in Of(Stored, CallOf(i)) : e.seq <= writer[t].last_sequence
  /\ pc[t] = "relock" /\ writer[t].status = "ok" => writer[t].group = {}

\* All of batch b, of call c, is stored and published.
AllStored(c, b) ==
  /\ Cardinality(Of(Stored, c)) = Count(b)
  /\ \A e \in Of(Stored, c) : e.seq <= last

\* A leader has done the work of t with success, and t has to wake up.
Served(t) == pc[t] = "wait" /\ writer[t].done /\ writer[t].status = "ok"

\* Write has returned OK for a batch.
Acked(c) == calls[c].status = "ok" /\ calls[c].batch # NullBatch

\* What is stored of every call, from the queue to its return.
StoreInv ==
  /\ NotStored
  /\ \A t \in Threads : pc[t] \in Logging => GroupStored(t)
  /\ \A t \in Threads : Served(t) => AllStored(writer[t].call, writer[t].batch)
  /\ \A c \in 1..Len(calls) : Acked(c) => AllStored(c, calls[c].batch)

\* A record holds the whole of call c.
Holds(r, c) ==
  /\ r.whole
  /\ Cardinality(Of(r.entries, c)) = Count(calls[c].batch)

Kept(c) == \E i \in DOMAIN logs : \E r \in logs[i] : Holds(r, c) /\ (calls[c].sync => r.synced)

\* What is logged of a group: a whole record, synced if any of its writers
\* asked for it.
GroupKept(t) ==
  /\ \A i \in 1..writer[t].last_writer : writer[writers[i]].sync => writer[t].sync
  /\ pc[t] = "log" => \A i \in 1..writer[t].last_writer :
       Cardinality(Of(writer[t].group, CallOf(i))) = Count(BatchOf(i))
  /\ pc[t] # "log" /\ writer[t].status = "ok" =>
       \E r \in logs[Len(logs)] :
         /\ pc[t] # "sync" /\ writer[t].sync => r.synced
         /\ \A i \in 1..writer[t].last_writer : Holds(r, CallOf(i))

\* What is logged of every call, from the group to its return.
KeptInv ==
  /\ \A t \in Threads : pc[t] \in Logging => GroupKept(t)
  /\ \A t \in Threads : Served(t) => Kept(writer[t].call)
  /\ \A c \in 1..Len(calls) : Acked(c) => Kept(c)

CInv == MemberInv /\ CallInv /\ OrderInv /\ CoverInv /\ ReadInv /\ StoreInv /\ KeptInv

----------------------------------------------------------------------------
(* The entries of a batch group (BuildBatchGroup, SetSequence).            *)

\* The entries of a group are numbered from LastSequence + 1 without going past
\* the new last sequence number, each belongs to a writer of the group, and a
\* batch has as many as its count says.  WritePath_theorems shows it of every
\* queue.
GroupsNumbered ==
  \A n \in 1..Len(writers) :
    /\ \A e \in GroupEntries(n) :
         /\ e.seq > last /\ e.seq <= last + Cardinality(Positions(n))
         /\ \E i \in 1..n : e.call = CallOf(i)
    /\ \A i \in 1..n : Cardinality(Of(GroupEntries(n), CallOf(i))) = Count(BatchOf(i))

----------------------------------------------------------------------------
(* What the steps leave alone.                                             *)

\* The history grows, and only the status of a call changes in it.
HistoryGrows ==
  /\ Len(calls) \in Nat /\ Len(calls') \in Nat /\ Len(calls) <= Len(calls')
  /\ \A c \in 1..Len(calls) :
       /\ calls'[c].batch = calls[c].batch /\ calls'[c].sync = calls[c].sync
       /\ calls'[c].after = calls[c].after

\* Calls are added to the history and given a status, no more.
LEMMA HistoryStep ==
  ASSUME TypeOK, TypeOK', QueueInv, MemberInv, CallInv, [Next]_vars
  PROVE  HistoryGrows
<1>0. Len(calls) \in Nat /\ Len(calls') \in Nat
  BY SMTT(30) DEF TypeOK
<1>1. ASSUME NEW t \in Threads, NEW s \in Status \cup {"pending"}, pc[t] # "idle",
             calls' = [calls EXCEPT ![writer[t].call].status = s]
      PROVE  HistoryGrows
  <2>1. writer[t].call \in 1..Len(calls)
    BY Zenon, <1>1 DEF CallInv
  <2>2. QED
    BY <1>0, <1>1, <2>1, StatusChanges DEF HistoryGrows
<1>2. ASSUME NEW t \in Threads
      PROVE  CallStatus(t, writer[t].status) \in Status \cup {"pending"}
  BY Zenon, WriterType DEF CallStatus, Work
<1>3. ASSUME UNCHANGED calls PROVE HistoryGrows
  BY <1>0, <1>3 DEF HistoryGrows
<1>4. ASSUME NEW t \in Threads, Enqueue(t) PROVE HistoryGrows
  BY <1>0, <1>4, EnqueueChanges DEF EnqueueEffect, HistoryGrows
<1>5. ASSUME NEW t \in Threads, Wake(t) PROVE HistoryGrows
  <2>0. WakeEffect(t)
    BY Zenon, <1>5, WakeChanges
  <2>1. CASE writer[t].done
    <3>1. /\ calls' = [calls EXCEPT ![writer[t].call].status =
                         CallStatus(t, writer[t].status)]
          /\ pc[t] = "wait"
      BY Zenon, <2>0, <2>1 DEF WakeEffect
    <3>2. QED
      BY Zenon, <1>1, <1>2, <3>1
  <2>2. CASE ~writer[t].done
    BY Zenon, <1>3, <2>0, <2>2 DEF WakeEffect
  <2>3. QED
    BY Zenon, <2>1, <2>2
<1>6. ASSUME NEW t \in Threads, Commit(t) \/ Finish(t) PROVE HistoryGrows
  <2>1. /\ calls' = [calls EXCEPT ![writer[t].call].status =
                       CallStatus(t, writer[t].status)]
        /\ pc[t] \in Grouped
    BY Zenon, <1>6 DEF Commit, Finish, Grouped, PopGroup
  <2>2. QED
    BY Zenon, <1>1, <1>2, <2>1 DEF Grouped
<1>7. ASSUME NEW t \in Threads, FlushWait(t) PROVE HistoryGrows
  <2>0. FlushWaitEffect(t)
    BY Zenon, <1>7, FlushWaitChanges
  <2>1. CASE UNCHANGED calls
    BY Zenon, <1>3, <2>1
  <2>2. CASE \E s \in Status : calls' = [calls EXCEPT ![writer[t].call].status = s]
    <3>1. pc[t] # "idle"
      BY Zenon, <2>0 DEF FlushWaitEffect
    <3>2. QED
      BY Zenon, <1>1, <2>2, <3>1
  <2>3. QED
    BY Zenon, <2>0, <2>1, <2>2 DEF FlushWaitEffect
<1>8. ASSUME NEW t \in Threads,
             InRoom(t) \/ InLogging(t) \/ (RoomReady(t) /\ writer[t].batch # NullBatch)
      PROVE  HistoryGrows
  BY Zenon, <1>3, <1>8, InRoomChanges, InLoggingChanges, ReadyChanges
  DEF InRoomEffect, InLoggingEffect, ReadyEffect
<1>9. QED
  BY Zenon, <1>3, <1>4, <1>5, <1>6, <1>7, <1>8, StepCases

\* There is one leader.
LEMMA OneLeader ==
  ASSUME QueueInv, NEW t \in Threads, NEW u \in Threads,
         pc[t] \in Leading, pc[u] \in Leading
  PROVE  t = u
BY DEF QueueInv

\* A step beside the queue: those that are in it keep their places and their
\* Writer structs, and nobody comes to a group.
Aside(t) ==
  /\ UNCHANGED <<last, logs, contents>>
  /\ Len(writers) \in Nat /\ Len(writers') \in Nat /\ Len(writers) <= Len(writers')
  /\ \A i \in 1..Len(writers) :
       /\ writers'[i] = writers[i] /\ writers[i] \in Threads
       /\ writer'[writers[i]] = writer[writers[i]]
  /\ \A u \in Threads \ {t} : pc'[u] = pc[u] /\ writer'[u] = writer[u]
  /\ pc'[t] \notin Logging /\ pc[t] \notin Logging

\* Joining the queue, waking up in it and TEST_CompactMemTable's wait are such.
LEMMA AsideSteps ==
  ASSUME TypeOK, QueueInv, MemberInv, NEW t \in Threads,
         Enqueue(t) \/ Wake(t) \/ FlushWait(t)
  PROVE  Aside(t)
<1>0. Len(writers) \in Nat /\ \A i \in 1..Len(writers) : writers[i] \in Threads
  BY Zenon, QueueType
<1>1. CASE Enqueue(t)
  <2>0. EnqueueEffect(t)
    BY Zenon, <1>1, EnqueueChanges
  <2>1. \A i \in 1..Len(writers) : writers[i] # t
    BY Zenon, <1>0, <2>0 DEF EnqueueEffect, MemberInv, Leading
  <2>2. Len(writers') \in Nat /\ Len(writers) <= Len(writers')
    BY <1>0, <2>0 DEF EnqueueEffect
  <2>3. pc'[t] \notin Logging /\ pc[t] \notin Logging
    BY Zenon, <2>0 DEF EnqueueEffect, Logging
  <2>4. QED
    BY Zenon, <1>0, <2>0, <2>1, <2>2, <2>3 DEF EnqueueEffect, Aside
<1>2. CASE Wake(t)
  <2>0. WakeEffect(t)
    BY Zenon, <1>2, WakeChanges
  <2>1. \A i \in 1..Len(writers) : writer'[writers[i]] = writer[writers[i]]
    <3>1. CASE writer[t].done
      <4>1. \A i \in 1..Len(writers) : writers[i] # t
        BY Zenon, <3>1 DEF MemberInv
      <4>2. QED
        BY Zenon, <1>0, <2>0, <4>1 DEF WakeEffect
    <3>2. CASE ~writer[t].done
      BY Zenon, <2>0, <3>2 DEF WakeEffect
    <3>3. QED
      BY Zenon, <3>1, <3>2
  <2>2. pc'[t] \notin Logging /\ pc[t] \notin Logging
    <3>1. pc'[t] \in {"idle", "flush", "room"}
      BY Zenon, <2>0 DEF WakeEffect, ReturnsTo
    <3>2. QED
      BY Zenon, <2>0, <3>1 DEF WakeEffect, Logging
  <2>3. QED
    BY <1>0, <2>0, <2>1, <2>2 DEF WakeEffect, Aside
<1>3. CASE FlushWait(t)
  <2>0. FlushWaitEffect(t)
    BY Zenon, <1>3, FlushWaitChanges
  <2>1. \A i \in 1..Len(writers) : writers[i] # t
    BY Zenon, <1>0, <2>0 DEF FlushWaitEffect, MemberInv, Leading
  <2>2. QED
    BY <1>0, <2>0, <2>1 DEF FlushWaitEffect, Aside, Logging
<1>4. QED
  BY Zenon, <1>1, <1>2, <1>3

\* MakeRoomForWrite adds an empty memtable and an empty log at most.
LEMMA InRoomStores ==
  ASSUME TypeOK, NEW t \in Threads, InRoom(t)
  PROVE  /\ Stored' = Stored
         /\ Len(contents') \in Nat /\ Len(contents) \in Nat
         /\ Len(contents) <= Len(contents') /\ Len(contents') <= Len(contents) + 1
         /\ \A i \in 1..Len(contents) : contents'[i] = contents[i] /\ logs'[i] = logs[i]
         /\ contents' = contents => UNCHANGED <<logs, imm>>
         /\ contents' # contents => imm' = Len(contents) /\ imm = 0
<1>1. /\ Len(contents) \in Nat /\ DOMAIN contents = 1..Len(contents)
      /\ Len(logs) = Len(contents)
  BY DEF TypeOK
<1>2. CASE RoomSwitch(t)
  <2>1. contents' = Append(contents, {}) /\ logs' = Append(logs, {})
    BY Zenon, <1>2 DEF RoomSwitch
  <2>2. /\ Len(contents') = Len(contents) + 1 /\ contents'[Len(contents) + 1] = {}
        /\ \A i \in 1..Len(contents) : contents'[i] = contents[i] /\ logs'[i] = logs[i]
        /\ DOMAIN contents' = 1..(Len(contents) + 1)
    BY <1>1, <2>1 DEF TypeOK
  <2>3. Stored' = Stored
    BY <1>1, <2>2 DEF Stored
  <2>4. imm' = Len(contents) /\ imm = 0
    BY Zenon, <1>2 DEF RoomSwitch, mem
  <2>5. contents' # contents
    BY <1>1, <2>2
  <2>6. QED
    BY <1>1, <2>2, <2>3, <2>4, <2>5
<1>3. CASE ~RoomSwitch(t)
  <2>1. UNCHANGED <<contents, logs, imm>>
    BY Zenon, <1>3 DEF InRoom, RoomError, RoomDelay, Slept, RoomWait, RoomWoken,
       RoomSwitchFails, RoomReady, memVars
  <2>2. QED
    BY <1>1, <2>1 DEF Stored
<1>4. QED
  BY Zenon, <1>2, <1>3

\* InsertInto moves an entry of the group to mem_; the other steps of a
\* logging leader leave the memtables and the group alone.
LEMMA InLoggingStores ==
  ASSUME TypeOK, NEW t \in Threads, InLogging(t)
  PROVE  /\ Len(contents') = Len(contents)
         /\ \A i \in 1..(Len(contents) - 1) : contents'[i] = contents[i]
         /\ \/ UNCHANGED contents /\ writer'[t].group = writer[t].group
            \/ /\ pc[t] = "insert" /\ UNCHANGED logs
               /\ writer'[t].status = writer[t].status
               /\ \E e \in writer[t].group :
                    /\ contents'[Len(contents)] = contents[Len(contents)] \cup {e}
                    /\ Stored' = Stored \cup {e}
                    /\ writer'[t].group = writer[t].group \ {e}
                    /\ pc'[t] = IF writer[t].group = {e} THEN "relock" ELSE "insert"
<1>0. writer[t] \in Work /\ pc \in [Threads -> ClientPc] /\ writer \in [Threads -> Work]
  BY Zenon, WriterType DEF TypeOK
<1>1. CASE Insert(t)
  <2>1. PICK e \in writer[t].group :
          /\ contents' = [contents EXCEPT ![mem] = @ \cup {e}]
          /\ writer' = [writer EXCEPT ![t] = [writer[t] EXCEPT !.group = @ \ {e}]]
          /\ pc' = [pc EXCEPT ![t] = IF writer[t].group = {e} THEN "relock" ELSE "insert"]
    BY Zenon, <1>1 DEF Insert, Goto
  <2>2. writer[t].group \in SUBSET Entry
    BY Zenon, <1>0 DEF Work
  <2>3. /\ Len(contents') = Len(contents)
        /\ \A i \in 1..(Len(contents) - 1) : contents'[i] = contents[i]
        /\ contents'[Len(contents)] = contents[Len(contents)] \cup {e}
        /\ DOMAIN contents' = 1..Len(contents)
    BY <2>1, <2>2, LogsType DEF mem
  <2>4. Stored' = Stored \cup {e}
    <3>1. DOMAIN contents = 1..Len(contents) /\ Len(contents) \in 1..Len(contents)
      BY Zenon, LogsType
    <3>2. Stored' = UNION {contents'[i] : i \in 1..Len(contents)}
      BY Zenon, <2>3 DEF Stored
    <3>3. Stored = UNION {contents[i] : i \in 1..Len(contents)}
      BY Zenon, <3>1 DEF Stored
    <3>4. \A i \in 1..Len(contents) :
            contents'[i] = IF i = Len(contents) THEN contents[i] \cup {e} ELSE contents[i]
      <4>1. Len(contents) \in Nat
        BY Zenon, LogsType
      <4>2. \A i \in 1..Len(contents) : i # Len(contents) => i \in 1..(Len(contents) - 1)
        BY <4>1
      <4>3. QED
        BY Zenon, <2>3, <4>2
    <3>5. \A x : (\E i \in 1..Len(contents) : x \in contents'[i])
                 <=> (\E i \in 1..Len(contents) : x \in contents[i]) \/ x = e
      BY Zenon, <3>1, <3>4
    <3>6. \A x : x \in Stored' <=> x \in Stored \cup {e}
      BY Zenon, <3>2, <3>3, <3>5
    <3>7. QED
      BY Zenon, <3>6
  <2>5. /\ writer'[t].group = writer[t].group \ {e}
        /\ writer'[t].status = writer[t].status
    BY Zenon, <1>0, <2>1 DEF Work
  <2>6. /\ pc[t] = "insert" /\ UNCHANGED logs
        /\ pc'[t] = IF writer[t].group = {e} THEN "relock" ELSE "insert"
    BY Zenon, <1>0, <1>1, <2>1 DEF Insert
  <2>7. QED
    BY Zenon, <2>3, <2>4, <2>5, <2>6
<1>2. CASE ~Insert(t)
  <2>1. UNCHANGED contents
    BY Zenon, <1>2 DEF InLogging, AddRecord, AddRecordFails, Sync, SyncFails, memVars
  <2>2. writer'[t].group = writer[t].group
    BY <1>0, <1>2 DEF InLogging, AddRecord, AddRecordFails, Sync, SyncFails, Work
  <2>3. QED
    BY Zenon, <2>1, <2>2
<1>3. QED
  BY Zenon, <1>1, <1>2

----------------------------------------------------------------------------
(* The order of sequence numbers.                                          *)

\* OrderInv is kept when nothing is stored and groups stay as they are.
LEMMA OrderKept ==
  ASSUME QueueInv, OrderInv, HistoryGrows, Stored' = Stored,
         \A u \in Threads : pc'[u] \in Logging =>
           /\ pc[u] \in Logging /\ writer'[u] = writer[u] /\ last' = last
           /\ \A i \in 1..writer[u].last_writer : writer'[writers'[i]].call = CallOf(i)
  PROVE  OrderInv'
<1>1. \A e \in Stored' : e.call \in 1..Len(calls') /\ e.seq > calls'[e.call].after
  BY SMTT(30) DEF OrderInv, HistoryGrows
<1>2. ASSUME NEW u \in Threads, pc'[u] \in Logging, NEW e \in writer'[u].group
      PROVE  /\ e.seq > last' /\ e.seq <= writer'[u].last_sequence
             /\ \E i \in 1..writer'[u].last_writer : e.call = CallOf(i)'
  <2>1. pc[u] \in Logging /\ writer'[u] = writer[u] /\ last' = last
    BY Zenon, <1>2
  <2>2. e.seq > last /\ e.seq <= writer[u].last_sequence
    BY Zenon, <1>2, <2>1 DEF OrderInv
  <2>3. PICK i \in 1..writer[u].last_writer : e.call = CallOf(i)
    BY Zenon, <1>2, <2>1 DEF OrderInv
  <2>4. CallOf(i)' = CallOf(i)
    BY Zenon, <1>2, <2>3 DEF CallOf
  <2>5. QED
    BY Zenon, <2>1, <2>2, <2>3, <2>4
<1>3. QED
  BY Zenon, <1>1, <1>2 DEF OrderInv

\* Every step keeps the order of sequence numbers.
LEMMA OrderStep ==
  ASSUME TypeOK, TypeOK', GroupsNumbered, QueueInv, MemberInv, CallInv, OrderInv, [Next]_vars
  PROVE  OrderInv'
<1>0. HistoryGrows
  BY Zenon, HistoryStep
<1>1. Logging \subseteq Leading /\ Logging \subseteq Grouped
  BY Zenon DEF Logging, Leading, Grouped
<1>2. ASSUME NEW t \in Threads, Enqueue(t) \/ Wake(t) \/ FlushWait(t) PROVE OrderInv'
  <2>0. Aside(t)
    BY Zenon, <1>2, AsideSteps
  <2>1. Stored' = Stored
    BY <2>0 DEF Aside, Stored
  <2>2. ASSUME NEW u \in Threads, pc'[u] \in Logging
        PROVE  /\ pc[u] \in Logging /\ writer'[u] = writer[u] /\ last' = last
               /\ \A i \in 1..writer[u].last_writer : writer'[writers'[i]].call = CallOf(i)
    <3>1. pc[u] \in Logging /\ writer'[u] = writer[u] /\ last' = last
      BY Zenon, <2>0, <2>2 DEF Aside
    <3>2. writer[u].last_writer \in 1..Len(writers) /\ Len(writers) \in Nat
      BY Zenon, <1>1, <2>0, <3>1 DEF QueueInv, Aside
    <3>3. \A i \in 1..writer[u].last_writer : i \in 1..Len(writers)
      BY <3>2
    <3>4. QED
      BY Zenon, <2>0, <3>1, <3>3 DEF Aside, CallOf
  <2>3. QED
    BY Zenon, <1>0, <2>1, <2>2, OrderKept
<1>3. ASSUME NEW t \in Threads, InRoom(t) PROVE OrderInv'
  <2>0. InRoomEffect(t)
    BY Zenon, <1>3, InRoomChanges
  <2>1. \A u \in Threads : pc'[u] \notin Logging
    <3>1. TAKE u \in Threads
    <3>2. pc[t] \in Leading /\ pc'[t] \notin Logging
      BY Zenon, <2>0 DEF InRoomEffect, Leading, Logging
    <3>3. QED
      BY Zenon, <1>1, <2>0, <3>2, OneLeader DEF InRoomEffect
  <2>2. Stored' = Stored
    BY Zenon, <1>3, InRoomStores
  <2>3. QED
    BY Zenon, <1>0, <2>1, <2>2, OrderKept
<1>4. ASSUME NEW t \in Threads, InLogging(t) PROVE OrderInv'
  <2>0. InLoggingEffect(t)
    BY Zenon, <1>4, InLoggingChanges
  <2>1. pc[t] \in Logging /\ \A u \in Threads \ {t} : pc'[u] \notin Logging
    <3>1. pc[t] \in Logging
      BY Zenon, <2>0 DEF InLoggingEffect, Logging
    <3>2. QED
      BY Zenon, <1>1, <2>0, <3>1, OneLeader DEF InLoggingEffect
  <2>2. \A u \in Threads : writer'[u].call = writer[u].call
    BY Zenon, <2>0 DEF InLoggingEffect
  <2>3. writer[t].last_writer \in 1..Len(writers) /\ Len(writers) \in Nat
    BY Zenon, <1>1, <2>1, QueueType DEF QueueInv
  <2>4. \A i \in 1..writer[t].last_writer :
          /\ i \in 1..Len(writers) /\ writers[i] \in Threads /\ CallOf(i)' = CallOf(i)
          /\ CallOf(i) \in 1..Len(calls)
    <3>1. TAKE i \in 1..writer[t].last_writer
    <3>2. i \in 1..Len(writers)
      BY <2>3
    <3>3. writers[i] \in Threads /\ pc[writers[i]] # "idle"
      BY Zenon, <3>2, QueueType DEF MemberInv, Leading
    <3>4. writers' = writers
      BY Zenon, <2>0 DEF InLoggingEffect
    <3>5. QED
      BY Zenon, <2>2, <3>2, <3>3, <3>4 DEF CallOf, CallInv
  <2>5. ASSUME NEW e \in writer'[t].group
        PROVE  /\ e.seq > last' /\ e.seq <= writer'[t].last_sequence
               /\ \E i \in 1..writer'[t].last_writer : e.call = CallOf(i)'
    <3>1. e \in writer[t].group
      BY Zenon, <2>0, <2>5 DEF InLoggingEffect
    <3>2. PICK i \in 1..writer[t].last_writer : e.call = CallOf(i)
      BY Zenon, <2>1, <3>1 DEF OrderInv
    <3>3. QED
      BY Zenon, <2>0, <2>1, <2>4, <3>1, <3>2 DEF InLoggingEffect, OrderInv
  <2>6. \A e \in Stored' : e.call \in 1..Len(calls') /\ e.seq > calls'[e.call].after
    <3>1. ASSUME NEW e \in writer[t].group
          PROVE  e.call \in 1..Len(calls) /\ e.seq > calls[e.call].after
      <4>1. e.seq > last /\ \E i \in 1..writer[t].last_writer : e.call = CallOf(i)
        BY Zenon, <2>1 DEF OrderInv
      <4>2. e.call \in 1..Len(calls)
        BY Zenon, <2>4, <4>1
      <4>3. calls[e.call].after <= last
        BY Zenon, <4>2 DEF CallInv
      <4>4. e.seq \in Nat /\ last \in Nat /\ calls[e.call].after \in Nat
        <5>1. e \in Entry
          BY Zenon, WriterType DEF Work
        <5>2. calls \in Seq(Call)
          BY Zenon DEF TypeOK
        <5>3. calls[e.call] \in Call
          BY <4>2, <5>2
        <5>4. QED
          BY Zenon, <5>1, <5>3 DEF Entry, Call, TypeOK
      <4>5. QED
        BY <4>1, <4>2, <4>3, <4>4
    <3>2. \A e \in Stored' : e \in Stored \/ e \in writer[t].group
      BY <1>4, InLoggingStores DEF Stored
    <3>3. calls' = calls
      BY Zenon, <2>0 DEF InLoggingEffect
    <3>4. QED
      BY Zenon, <3>1, <3>2, <3>3 DEF OrderInv
  <2>7. QED
    BY Zenon, <2>1, <2>5, <2>6 DEF OrderInv
<1>5. ASSUME NEW t \in Threads, Commit(t) \/ Finish(t) PROVE OrderInv'
  <2>0. PopGroupEffect(t) /\ pc[t] \in Leading
    BY Zenon, <1>5, PopGroupChanges DEF Commit, Finish, Grouped, Leading
  <2>1. \A u \in Threads : pc'[u] \notin Logging
    <3>1. pc'[t] \in {"idle", "flush"} /\ \A u \in Threads \ {t} : pc'[u] = pc[u]
      BY Zenon, <2>0 DEF PopGroupEffect, ReturnsTo
    <3>2. pc'[t] \notin Logging
      BY Zenon, <3>1 DEF Logging
    <3>3. QED
      BY Zenon, <1>1, <2>0, <3>1, <3>2, OneLeader
  <2>2. Stored' = Stored
    BY Zenon, <1>5 DEF Commit, Finish, Stored, memVars
  <2>3. QED
    BY Zenon, <1>0, <2>1, <2>2, OrderKept
<1>6. ASSUME NEW t \in Threads, RoomReady(t), writer[t].batch # NullBatch
      PROVE  OrderInv'
  <2>0. ReadyEffect(t)
    BY Zenon, <1>6, ReadyChanges
  <2>1. \A u \in Threads \ {t} : pc'[u] \notin Logging
    <3>1. pc[t] \in Leading
      BY Zenon, <2>0 DEF ReadyEffect, Leading
    <3>2. QED
      BY Zenon, <1>1, <2>0, <3>1, OneLeader DEF ReadyEffect
  <2>2. PICK n \in 1..Len(writers) :
          /\ writer'[t].last_writer = n /\ writer'[t].group = GroupEntries(n)
          /\ writer'[t].last_sequence = last + Cardinality(Positions(n))
    BY Zenon, <2>0 DEF ReadyEffect
  <2>3. \A i \in 1..n : CallOf(i)' = CallOf(i)
    <3>1. TAKE i \in 1..n
    <3>2. writers[i] \in Threads /\ writers' = writers
      BY <2>0, QueueType DEF ReadyEffect
    <3>3. QED
      BY Zenon, <2>0, <3>2 DEF ReadyEffect, CallOf
  <2>4. ASSUME NEW e \in writer'[t].group
        PROVE  /\ e.seq > last' /\ e.seq <= writer'[t].last_sequence
               /\ \E i \in 1..writer'[t].last_writer : e.call = CallOf(i)'
    <3>1. last' = last
      BY Zenon, <2>0 DEF ReadyEffect
    <3>2. QED
      BY SMTT(30), <2>2, <2>3, <2>4, <3>1 DEF GroupsNumbered
  <2>5. Stored' = Stored
    BY Zenon, <2>0 DEF ReadyEffect, Stored
  <2>6. \A e \in Stored' : e.call \in 1..Len(calls') /\ e.seq > calls'[e.call].after
    BY SMTT(30), <1>0, <2>5 DEF OrderInv, HistoryGrows
  <2>7. QED
    BY Zenon, <2>1, <2>4, <2>6 DEF OrderInv
<1>7. ASSUME UNCHANGED <<writers, writer, pc, calls, last, logs, contents>>
      PROVE  OrderInv'
  BY Zenon, <1>7 DEF OrderInv, Stored, CallOf
<1>8. QED
  BY Zenon, <1>2, <1>3, <1>4, <1>5, <1>6, <1>7, StepCases

----------------------------------------------------------------------------
(* What readers are given, and what they see in it.                        *)

\* What a step does to the memtables, and whether it is a reader's.
LEMMA MemtableCases ==
  ASSUME [Next]_vars
  PROVE  \/ \E t \in Threads : InRoom(t) \/ InLogging(t)
         \/ /\ UNCHANGED reader
            /\ \/ FlushInstalled
               \/ UNCHANGED <<contents, imm, flushed>>
         \/ \E r \in Readers : BeginGet(r) \/ EndGet(r)
<1>1. ASSUME NEW t \in Threads,
             \/ Enqueue(t) \/ Wake(t) \/ Commit(t) \/ Finish(t) \/ FlushWait(t)
             \/ RoomReady(t)
      PROVE  UNCHANGED <<contents, imm, flushed, reader>>
  BY Zenon, <1>1 DEF Enqueue, Wake, Commit, Finish, FlushWait, RoomReady, memVars, readVars
<1>2. ASSUME Background \/ BackgroundFault
      PROVE  UNCHANGED reader /\ (FlushInstalled \/ UNCHANGED <<contents, imm, flushed>>)
  BY Zenon, <1>2 DEF Background, BackgroundFault, BackgroundCall, NestedFlush, TableBuilt,
     FlushInstalled, FilesRemoved, CompactionWritten, CompactionInstalled,
     FlushFails, CompactionFails, memVars, readVars
<1>3. ASSUME UNCHANGED vars PROVE UNCHANGED <<contents, imm, flushed, reader>>
  BY Zenon, <1>3 DEF vars
<1>4. ASSUME NEW t \in Threads, Client(t) \/ ClientFault(t)
      PROVE  \/ InRoom(t) \/ InLogging(t) \/ Wake(t) \/ Commit(t) \/ Finish(t)
             \/ FlushWait(t) \/ RoomReady(t)
  BY Zenon, <1>4 DEF Client, ClientFault, InRoom, InLogging
<1>5. QED
  BY Zenon, <1>1, <1>2, <1>3, <1>4 DEF Next, Quiescent

\* Every memtable stays mem_, imm_ or a table.
LEMMA CoverStep ==
  ASSUME TypeOK, CoverInv, [Next]_vars
  PROVE  CoverInv'
<1>0. Len(contents) \in Nat
  BY DEF TypeOK
<1>1. ASSUME NEW t \in Threads, InRoom(t) PROVE CoverInv'
  <2>1. UNCHANGED flushed
    BY Zenon, <1>1, InRoomChanges DEF InRoomEffect
  <2>2. CASE contents' = contents
    BY Zenon, <1>1, <2>1, <2>2, InRoomStores DEF CoverInv
  <2>3. CASE contents' # contents
    <3>1. /\ imm' = Len(contents) /\ imm = 0 /\ Len(contents') \in Nat
          /\ Len(contents') <= Len(contents) + 1
      BY Zenon, <1>1, <2>3, InRoomStores
    <3>2. ASSUME NEW i \in 1..Len(contents')
          PROVE  i = Len(contents') \/ i = imm' \/ i \in flushed'
      <4>1. CASE i \in 1..Len(contents)
        BY <1>0, <2>1, <3>1, <4>1 DEF CoverInv
      <4>2. CASE i \notin 1..Len(contents)
        BY <1>0, <3>1, <4>2
      <4>3. QED
        BY Zenon, <4>1, <4>2
    <3>3. QED
      BY Zenon, <3>2 DEF CoverInv
  <2>4. QED
    BY Zenon, <2>2, <2>3
<1>2. ASSUME NEW t \in Threads, InLogging(t) PROVE CoverInv'
  BY Zenon, <1>2, InLoggingChanges, InLoggingStores DEF InLoggingEffect, CoverInv
<1>3. ASSUME FlushInstalled PROVE CoverInv'
  BY Zenon, <1>3 DEF FlushInstalled, CoverInv
<1>4. ASSUME UNCHANGED <<contents, imm, flushed>> PROVE CoverInv'
  BY Zenon, <1>4 DEF CoverInv
<1>5. ASSUME NEW r \in Readers, BeginGet(r) \/ EndGet(r) PROVE CoverInv'
  BY Zenon, <1>4, <1>5 DEF BeginGet, EndGet, memVars
<1>6. QED
  BY Zenon, <1>1, <1>2, <1>3, <1>4, <1>5, MemtableCases

\* The memtables and tables a reader has
TablesOf(r) == ({reader[r].mem, reader[r].imm} \ {0}) \cup reader[r].files

\* ReadInv is kept when nothing at or below LastSequence comes to a memtable
\* or leaves it.
LEMMA ReadKept ==
  ASSUME TypeOK, TypeOK', ReadInv, UNCHANGED reader, last' >= last,
         Len(contents') >= Len(contents),
         \A i \in 1..Len(contents) : \A e \in contents[i] \cup contents'[i] :
           e.seq <= last => (e \in contents'[i] <=> e \in contents[i])
  PROVE  ReadInv'
<1>1. last \in Nat /\ last' \in Nat /\ Len(contents) \in Nat /\ Len(contents') \in Nat
  <2>1. contents \in Seq(SUBSET Entry) /\ contents' \in Seq(SUBSET Entry)
    BY Zenon DEF TypeOK
  <2>2. last \in Nat /\ last' \in Nat
    BY Zenon DEF TypeOK
  <2>3. QED
    BY <2>1, <2>2
<1>2. \A r \in Readers : reader[r].snapshot \in Nat
  BY Zenon DEF TypeOK, Read
<1>3. ASSUME NEW i \in 1..Len(contents), NEW e \in contents[i] \cup contents'[i]
      PROVE  e.seq \in Nat
  <2>1. i \in 1..Len(contents')
    BY <1>1
  <2>2. contents \in Seq(SUBSET Entry) /\ contents' \in Seq(SUBSET Entry)
    BY Zenon DEF TypeOK
  <2>3. contents[i] \subseteq Entry /\ contents'[i] \subseteq Entry
    BY <2>1, <2>2
  <2>4. QED
    BY Zenon, <2>3 DEF Entry
<1>4. ASSUME NEW r \in Readers, reader[r].active PROVE Seen(r)' = Seen(r)
  <2>1. TablesOf(r) \subseteq 1..Len(contents) /\ reader[r].snapshot <= last
    BY Zenon, <1>4 DEF ReadInv, TablesOf
  <2>2. \A i \in TablesOf(r) : \A e \in contents[i] \cup contents'[i] :
          e.seq <= reader[r].snapshot => (e \in contents'[i] <=> e \in contents[i])
    BY <1>1, <1>2, <1>3, <2>1
  <2>3. Seen(r) = {e \in UNION {contents[i] : i \in TablesOf(r)} :
                     e.seq <= reader[r].snapshot}
    BY Zenon DEF Seen, TablesOf
  <2>4. Seen(r)' = {e \in UNION {contents'[i] : i \in TablesOf(r)} :
                      e.seq <= reader[r].snapshot}
    BY Zenon DEF Seen, TablesOf
  <2>5. \A e : e \in Seen(r) <=> e \in Seen(r)'
    BY Zenon, <2>2, <2>3, <2>4
  <2>6. QED
    BY Zenon, <2>5
<1>5. ASSUME NEW r \in Readers, reader'[r].active
      PROVE  /\ reader'[r].snapshot <= last'
             /\ ({reader'[r].mem, reader'[r].imm} \ {0}) \cup reader'[r].files
                  \subseteq 1..Len(contents')
             /\ Seen(r)' = reader'[r].expect
  <2>1. reader[r].active
    BY Zenon, <1>5
  <2>2. /\ reader[r].snapshot <= last /\ Seen(r) = reader[r].expect
        /\ ({reader[r].mem, reader[r].imm} \ {0}) \cup reader[r].files
             \subseteq 1..Len(contents)
    BY Zenon, <2>1 DEF ReadInv
  <2>3. reader'[r].snapshot <= last'
    BY SMTT(30), <1>1, <1>2, <2>2
  <2>4. 1..Len(contents) \subseteq 1..Len(contents')
    BY SMTT(30), <1>1
  <2>5. QED
    BY Zenon, <1>4, <2>1, <2>2, <2>3, <2>4
<1>6. QED
  BY Zenon, <1>5 DEF ReadInv

\* Every step keeps what readers see.
LEMMA ReadStep ==
  ASSUME TypeOK, TypeOK', QueueInv, MemberInv, CallInv, OrderInv, CoverInv, ReadInv,
         [Next]_vars, last' >= last
  PROVE  ReadInv'
<1>0. /\ Len(contents) \in Nat /\ last \in Nat /\ DOMAIN contents = 1..Len(contents)
      /\ Len(contents) > 0
  BY DEF TypeOK
<1>1. ASSUME NEW t \in Threads, InRoom(t) PROVE ReadInv'
  <2>1. UNCHANGED reader
    BY Zenon, <1>1, InRoomChanges DEF InRoomEffect
  <2>2. /\ Len(contents') >= Len(contents)
        /\ \A i \in 1..Len(contents) : contents'[i] = contents[i]
    BY Zenon, <1>1, InRoomStores
  <2>3. QED
    BY Zenon, <2>1, <2>2, ReadKept
<1>2. ASSUME NEW t \in Threads, InLogging(t) PROVE ReadInv'
  <2>1. UNCHANGED reader /\ pc[t] \in Logging
    BY Zenon, <1>2, InLoggingChanges DEF InLoggingEffect, Logging
  <2>2. \A e \in writer[t].group : e.seq > last /\ e.seq \in Nat
    <3>1. writer[t].group \subseteq Entry
      BY Zenon, WriterType DEF Work
    <3>2. QED
      BY Zenon, <2>1, <3>1 DEF OrderInv, Entry
  <2>3. Len(contents') >= Len(contents)
    BY <1>0, <1>2, InLoggingStores
  <2>4. ASSUME NEW i \in 1..Len(contents), NEW e \in contents[i] \cup contents'[i],
               e.seq <= last
        PROVE  e \in contents'[i] <=> e \in contents[i]
    <3>1. CASE i = Len(contents)
      <4>1. \/ contents' = contents
            \/ \E f \in writer[t].group :
                 contents'[Len(contents)] = contents[Len(contents)] \cup {f}
        BY Zenon, <1>2, InLoggingStores
      <4>2. e \notin writer[t].group
        BY <1>0, <2>2, <2>4
      <4>3. QED
        BY Zenon, <3>1, <4>1, <4>2
    <3>2. CASE i # Len(contents)
      <4>1. i \in 1..(Len(contents) - 1)
        <5>1. Len(contents) \in Nat
          BY Zenon, <1>0
        <5>2. QED
          BY <3>2, <5>1
      <4>2. QED
        BY Zenon, <1>2, <4>1, InLoggingStores
    <3>3. QED
      BY Zenon, <3>1, <3>2
  <2>5. QED
    BY Zenon, <2>1, <2>3, <2>4, ReadKept
<1>3. ASSUME UNCHANGED reader, FlushInstalled \/ UNCHANGED <<contents, imm, flushed>>
      PROVE  ReadInv'
  <2>1. UNCHANGED contents
    BY Zenon, <1>3 DEF FlushInstalled
  <2>2. QED
    BY <1>0, <1>3, <2>1, ReadKept
<1>4. ASSUME NEW r \in Readers, BeginGet(r) PROVE ReadInv'
  <2>1. /\ UNCHANGED <<last, contents>>
        /\ \A q \in Readers \ {r} : reader'[q] = reader[q]
        /\ reader'[r] = [active |-> TRUE, snapshot |-> last, mem |-> mem, imm |-> imm,
                         files |-> flushed, expect |-> Visible(last)]
    BY Zenon, <1>4 DEF BeginGet, memVars, TypeOK
  <2>2. ({mem, imm} \ {0}) \cup flushed = 1..Len(contents)
    <3>1. imm \in 0..(Len(contents) - 1) /\ flushed \subseteq 1..(Len(contents) - 1)
      BY Zenon DEF TypeOK
    <3>2. Len(contents) \in Nat /\ Len(contents) > 0 /\ mem = Len(contents)
      BY Zenon, <1>0 DEF mem
    <3>3. ASSUME NEW i \in 1..Len(contents)
          PROVE  i \in ({mem, imm} \ {0}) \cup flushed
      <4>1. i # 0 /\ (i = mem \/ i = imm \/ i \in flushed)
        BY <3>2 DEF CoverInv
      <4>2. QED
        BY Zenon, <4>1
    <3>4. ASSUME NEW i \in ({mem, imm} \ {0}) \cup flushed
          PROVE  i \in 1..Len(contents)
      <4>1. i = mem \/ (i = imm /\ i # 0) \/ i \in flushed
        BY Zenon, <3>4
      <4>2. mem \in 1..Len(contents) /\ (imm # 0 => imm \in 1..Len(contents))
        BY <3>1, <3>2
      <4>3. \A j \in flushed : j \in 1..Len(contents)
        BY <3>1, <3>2
      <4>4. QED
        BY Zenon, <4>1, <4>2, <4>3
    <3>5. QED
      BY Zenon, <3>3, <3>4
  <2>3. Seen(r)' = reader'[r].expect
    <3>1. Seen(r)' = {e \in UNION {contents[i] : i \in ({mem, imm} \ {0}) \cup flushed} :
                        e.seq <= last}
      <4>1. /\ reader'[r].mem = mem /\ reader'[r].imm = imm /\ reader'[r].files = flushed
            /\ reader'[r].snapshot = last /\ contents' = contents
        BY SMTT(30), <2>1
      <4>2. QED
        BY Zenon, <4>1 DEF Seen
    <3>2. DOMAIN contents = 1..Len(contents) /\ reader'[r].expect = Visible(last)
      BY SMTT(30), <2>1 DEF TypeOK
    <3>3. QED
      BY Zenon, <2>2, <3>1, <3>2 DEF Visible
  <2>4. \A q \in Readers \ {r} : Seen(q)' = Seen(q)
    BY ZenonT(60), <2>1 DEF Seen
  <2>5. ASSUME NEW q \in Readers, reader'[q].active
        PROVE  /\ reader'[q].snapshot <= last'
               /\ ({reader'[q].mem, reader'[q].imm} \ {0}) \cup reader'[q].files
                    \subseteq 1..Len(contents')
               /\ Seen(q)' = reader'[q].expect
    <3>1. CASE q = r
      BY SMTT(30), <1>0, <2>1, <2>2, <2>3, <3>1
    <3>2. CASE q # r
      BY Zenon, <2>1, <2>4, <2>5, <3>2 DEF ReadInv
    <3>3. QED
      BY Zenon, <3>1, <3>2
  <2>6. QED
    BY Zenon, <2>5 DEF ReadInv
<1>5. ASSUME NEW r \in Readers, EndGet(r) PROVE ReadInv'
  <2>1. /\ UNCHANGED <<last, contents>> /\ ~reader'[r].active
        /\ \A q \in Readers \ {r} : reader'[q] = reader[q]
    BY Zenon, <1>5 DEF EndGet, NoRead, memVars, TypeOK
  <2>2. \A q \in Readers \ {r} : Seen(q)' = Seen(q)
    BY Zenon, <2>1 DEF Seen
  <2>3. QED
    BY Zenon, <2>1, <2>2 DEF ReadInv
<1>6. QED
  BY Zenon, <1>1, <1>2, <1>3, <1>4, <1>5, MemtableCases

----------------------------------------------------------------------------
(* What is stored of a call.                                               *)

\* Memtables hold entries.
LEMMA StoredType ==
  ASSUME TypeOK
  PROVE  Stored \subseteq Entry /\ \A e \in Stored : e.seq \in Nat
<1>1. \A i \in DOMAIN contents : contents[i] \subseteq Entry
  <2>1. contents \in Seq(SUBSET Entry)
    BY Zenon DEF TypeOK
  <2>2. QED
    BY <2>1
<1>2. QED
  BY <1>1 DEF Stored, Entry

\* A writer in the queue works for a call that has not returned.
LEMMA QueuedCall ==
  ASSUME TypeOK, MemberInv, CallInv, NEW i \in 1..Len(writers)
  PROVE  /\ writers[i] \in Threads /\ pc[writers[i]] # "idle" /\ ~writer[writers[i]].done
         /\ CallOf(i) \in 1..Len(calls) /\ calls[CallOf(i)].status = "pending"
         /\ calls[CallOf(i)].batch = BatchOf(i)
         /\ calls[CallOf(i)].sync = writer[writers[i]].sync
<1>1. /\ writers[i] \in Threads /\ pc[writers[i]] # "idle" /\ ~writer[writers[i]].done
  BY Zenon, QueueType DEF MemberInv, Leading
<1>2. QED
  BY Zenon, <1>1 DEF CallInv, CallOf, BatchOf

\* The places of a group are places of the queue.
LEMMA GroupInQueue ==
  ASSUME TypeOK, QueueInv, NEW t \in Threads, pc[t] \in Grouped
  PROVE  /\ writer[t].last_writer \in 1..Len(writers) /\ Len(writers) \in Nat
         /\ writers[1] = t /\ 1 \in 1..writer[t].last_writer
         /\ \A i \in 1..writer[t].last_writer : i \in 1..Len(writers)
         /\ \A i \in 2..writer[t].last_writer : i \in 1..writer[t].last_writer
<1>1. writer[t].last_writer \in 1..Len(writers) /\ Len(writers) \in Nat /\ writers[1] = t
  BY Zenon, QueueType DEF QueueInv, Grouped, Leading
<1>2. 1 \in 1..writer[t].last_writer
  BY <1>1
<1>3. ASSUME NEW i \in 1..writer[t].last_writer PROVE i \in 1..Len(writers)
  BY <1>1
<1>4. ASSUME NEW i \in 2..writer[t].last_writer PROVE i \in 1..writer[t].last_writer
  BY <1>1
<1>5. QED
  BY Zenon, <1>1, <1>2, <1>3, <1>4

\* AllStored stays true of a call that gets no more entries.
LEMMA AllStoredKept ==
  ASSUME TypeOK, TypeOK', last' >= last, NEW c, NEW b, AllStored(c, b),
         Of(Stored', c) = Of(Stored, c)
  PROVE  AllStored(c, b)'
<1>1. \A e \in Of(Stored, c) : e.seq <= last /\ e.seq \in Nat
  BY Zenon, StoredType DEF AllStored, Of
<1>2. last \in Nat /\ last' \in Nat
  BY Zenon DEF TypeOK
<1>3. \A e \in Of(Stored, c) : e.seq <= last'
  BY SMTT(30), <1>1, <1>2
<1>4. QED
  BY Zenon, <1>3 DEF AllStored

\* A status that a call gets from t.
LEMMA AckedAgain ==
  ASSUME TypeOK, CallInv, NEW t \in Threads, NEW s \in Status \cup {"pending"},
         pc[t] # "idle", calls' = [calls EXCEPT ![writer[t].call].status = s],
         NEW c \in 1..Len(calls'), Acked(c)'
  PROVE  /\ c \in 1..Len(calls) /\ calls'[c].batch = calls[c].batch
         /\ calls'[c].sync = calls[c].sync
         /\ Acked(c) \/ (c = writer[t].call /\ s = "ok" /\ writer[t].batch # NullBatch
                         /\ calls[c].batch = writer[t].batch)
<1>1. writer[t].call \in 1..Len(calls) /\ calls[writer[t].call].batch = writer[t].batch
  BY Zenon DEF CallInv
<1>2. QED
  BY SMTT(30), <1>1, StatusChanges DEF Acked

\* Where a call is acknowledged, the step is a return of Write or of
\* TEST_CompactMemTable.
LEMMA NewlyAcked ==
  ASSUME TypeOK, QueueInv, MemberInv, CallInv, NEW t \in Threads,
         Enqueue(t) \/ Wake(t) \/ FlushWait(t), NEW c \in 1..Len(calls'), Acked(c)'
  PROVE  /\ c \in 1..Len(calls) /\ calls'[c].batch = calls[c].batch
         /\ calls'[c].sync = calls[c].sync
         /\ Acked(c) \/ (c = writer[t].call /\ Served(t) /\ calls[c].batch = writer[t].batch)
<1>1. CASE Enqueue(t)
  <2>1. EnqueueEffect(t) /\ Len(calls) \in Nat
    BY SMTT(30), <1>1, EnqueueChanges DEF TypeOK
  <2>2. c \in 1..Len(calls)
    BY SMTT(30), <2>1 DEF EnqueueEffect, Acked
  <2>3. QED
    BY Zenon, <2>1, <2>2 DEF EnqueueEffect, Acked
<1>2. CASE Wake(t)
  <2>0. WakeEffect(t)
    BY Zenon, <1>2, WakeChanges
  <2>1. CASE writer[t].done
    <3>1. /\ calls' = [calls EXCEPT ![writer[t].call].status =
                         CallStatus(t, writer[t].status)]
          /\ pc[t] = "wait"
      BY Zenon, <2>0, <2>1 DEF WakeEffect
    <3>2. CallStatus(t, writer[t].status) \in Status \cup {"pending"}
      BY Zenon, WriterType DEF CallStatus, Work
    <3>3. CallStatus(t, writer[t].status) = "ok" => writer[t].status = "ok"
      BY Zenon DEF CallStatus
    <3>4. /\ c \in 1..Len(calls) /\ calls'[c].batch = calls[c].batch
          /\ calls'[c].sync = calls[c].sync
          /\ Acked(c) \/ (c = writer[t].call /\ CallStatus(t, writer[t].status) = "ok"
                          /\ calls[c].batch = writer[t].batch)
      BY ZenonT(60), <3>1, <3>2, AckedAgain
    <3>5. QED
      BY Zenon, <2>1, <3>1, <3>3, <3>4 DEF Served
  <2>2. CASE ~writer[t].done
    BY Zenon, <2>0, <2>2 DEF WakeEffect, Acked
  <2>3. QED
    BY Zenon, <2>1, <2>2
<1>3. CASE FlushWait(t)
  <2>0. FlushWaitEffect(t)
    BY Zenon, <1>3, FlushWaitChanges
  <2>1. CASE UNCHANGED calls
    BY Zenon, <2>1 DEF Acked
  <2>2. CASE \E s \in Status : calls' = [calls EXCEPT ![writer[t].call].status = s]
    <3>1. PICK s \in Status : calls' = [calls EXCEPT ![writer[t].call].status = s]
      BY Zenon, <2>2
    <3>2. pc[t] # "idle" /\ writer[t].batch = NullBatch
      BY Zenon, <2>0 DEF FlushWaitEffect, MemberInv
    <3>3. QED
      BY ZenonT(60), <3>1, <3>2, AckedAgain
  <2>3. QED
    BY Zenon, <2>0, <2>1, <2>2 DEF FlushWaitEffect
<1>4. QED
  BY Zenon, <1>1, <1>2, <1>3

\* Nobody is served by a step beside the queue.
LEMMA NewlyServed ==
  ASSUME TypeOK, QueueInv, NEW t \in Threads,
         Enqueue(t) \/ Wake(t) \/ FlushWait(t), NEW u \in Threads, Served(u)'
  PROVE  Served(u) /\ writer'[u] = writer[u] /\ pc[u] # "idle"
<1>1. CASE Enqueue(t)
  BY SMTT(30), <1>1, EnqueueChanges DEF EnqueueEffect, Served
<1>2. CASE Wake(t)
  <2>0. WakeEffect(t)
    BY Zenon, <1>2, WakeChanges
  <2>1. pc'[t] # "wait"
    BY Zenon, <2>0 DEF WakeEffect, ReturnsTo
  <2>2. QED
    BY Zenon, <2>0, <2>1 DEF WakeEffect, Served
<1>3. CASE FlushWait(t)
  BY Zenon, <1>3, FlushWaitChanges DEF FlushWaitEffect, Served
<1>4. QED
  BY Zenon, <1>1, <1>2, <1>3

\* The steps beside the queue keep what is stored.
LEMMA AsideStore ==
  ASSUME TypeOK, TypeOK', QueueInv, MemberInv, CallInv, OrderInv, StoreInv,
         NEW t \in Threads, Enqueue(t) \/ Wake(t) \/ FlushWait(t)
  PROVE  StoreInv'
<1>0. Aside(t) /\ Stored' = Stored /\ last' >= last
  <2>1. Aside(t)
    BY Zenon, AsideSteps
  <2>2. contents' = contents /\ last' = last /\ last \in Nat
    BY Zenon, <2>1 DEF Aside, TypeOK
  <2>3. QED
    BY <2>1, <2>2 DEF Stored
<1>1. \A u \in Threads : pc'[u] \in Logging <=> pc[u] \in Logging
  BY Zenon, <1>0 DEF Aside
<1>2. \A u \in Threads : pc'[u] \in Logging => writer'[u] = writer[u] /\ pc'[u] = pc[u]
  BY Zenon, <1>0 DEF Aside
<1>3. \A i \in 1..Len(writers) : CallOf(i)' = CallOf(i) /\ BatchOf(i)' = BatchOf(i)
  BY Zenon, <1>0 DEF Aside, CallOf, BatchOf
<1>4. NotStored'
  <2>1. SUFFICES ASSUME NEW i \in 1..Len(writers'),
                        \A u \in Threads : pc'[u] \in Logging => i > writer'[u].last_writer
                 PROVE  Of(Stored', CallOf(i)') = {}
    BY Zenon DEF NotStored
  <2>2. CASE i \in 1..Len(writers)
    <3>1. \A u \in Threads : pc[u] \in Logging => i > writer[u].last_writer
      BY Zenon, <1>1, <1>2, <2>1
    <3>2. QED
      BY Zenon, <1>0, <1>3, <2>2, <3>1 DEF StoreInv, NotStored
  <2>3. CASE i \notin 1..Len(writers)
    <3>1. Enqueue(t)
      BY Zenon, <2>3, WakeChanges, FlushWaitChanges DEF WakeEffect, FlushWaitEffect
    <3>2. EnqueueEffect(t)
      BY Zenon, <3>1, EnqueueChanges
    <3>3. i = Len(writers) + 1 /\ Len(calls) \in Nat
      <4>1. /\ Len(writers') = Len(writers) + 1 /\ Len(writers) \in Nat
            /\ calls \in Seq(Call)
        BY Zenon, <1>0, <3>2 DEF EnqueueEffect, Aside, TypeOK
      <4>2. QED
        BY <2>3, <4>1
    <3>4. CallOf(i)' = Len(calls) + 1
      BY Zenon, <3>2, <3>3 DEF EnqueueEffect, CallOf
    <3>5. \A e \in Stored : e.call # Len(calls) + 1
      BY SMTT(30), <3>3 DEF OrderInv
    <3>6. QED
      BY Zenon, <1>0, <3>4, <3>5 DEF Of
  <2>4. QED
    BY Zenon, <2>2, <2>3
<1>5. ASSUME NEW u \in Threads, pc'[u] \in Logging PROVE GroupStored(u)'
  <2>1. pc[u] \in Logging /\ pc[u] \in Grouped
    BY Zenon, <1>1, <1>5 DEF Logging, Grouped
  <2>2. GroupStored(u) /\ writer'[u] = writer[u] /\ pc'[u] = pc[u]
    BY Zenon, <1>2, <1>5, <2>1 DEF StoreInv
  <2>3. \A i \in 1..writer[u].last_writer : CallOf(i)' = CallOf(i) /\ BatchOf(i)' = BatchOf(i)
    BY Zenon, <1>3, <2>1, GroupInQueue
  <2>4. QED
    BY Zenon, <1>0, <2>2, <2>3 DEF GroupStored
<1>6. ASSUME NEW u \in Threads, Served(u)'
      PROVE  AllStored(writer[u].call, writer[u].batch)'
  <2>1. Served(u) /\ writer'[u] = writer[u]
    BY Zenon, <1>6, NewlyServed
  <2>2. AllStored(writer[u].call, writer[u].batch)
    BY Zenon, <2>1 DEF StoreInv
  <2>3. QED
    BY Zenon, <1>0, <2>1, <2>2 DEF AllStored, Aside
<1>7. ASSUME NEW c \in 1..Len(calls'), Acked(c)' PROVE AllStored(c, calls[c].batch)'
  <2>1. /\ c \in 1..Len(calls) /\ calls'[c].batch = calls[c].batch
        /\ Acked(c) \/ (c = writer[t].call /\ Served(t) /\ calls[c].batch = writer[t].batch)
    BY Zenon, <1>7, NewlyAcked
  <2>2. AllStored(c, calls[c].batch)
    BY Zenon, <2>1 DEF StoreInv
  <2>3. QED
    BY Zenon, <1>0, <2>1, <2>2 DEF AllStored, Aside
<1>8. QED
  BY Zenon, <1>4, <1>5, <1>6, <1>7 DEF StoreInv

\* So do the steps of MakeRoomForWrite.
LEMMA InRoomStore ==
  ASSUME TypeOK, TypeOK', QueueInv, MemberInv, StoreInv, NEW t \in Threads, InRoom(t)
  PROVE  StoreInv'
<1>0. InRoomEffect(t) /\ Stored' = Stored
  BY Zenon, InRoomChanges, InRoomStores
<1>1. \A u \in Threads : pc[u] \notin Logging /\ pc'[u] \notin Logging
  <2>1. TAKE u \in Threads
  <2>2. pc[t] \in Leading /\ pc'[t] \notin Logging /\ pc[t] \notin Logging
    BY Zenon, <1>0 DEF InRoomEffect, Leading, Logging
  <2>3. Logging \subseteq Leading
    BY Zenon DEF Logging, Leading
  <2>4. QED
    BY Zenon, <1>0, <2>2, <2>3, OneLeader DEF InRoomEffect
<1>2. UNCHANGED <<writers, calls, last>> /\ \A u \in Threads : writer'[u].call = writer[u].call
  BY Zenon, <1>0 DEF InRoomEffect
<1>3. NotStored'
  <2>1. \A i \in 1..Len(writers) : CallOf(i)' = CallOf(i)
    BY Zenon, <1>2, QueueType DEF CallOf
  <2>2. QED
    BY Zenon, <1>0, <1>1, <1>2, <2>1 DEF StoreInv, NotStored
<1>4. ASSUME NEW u \in Threads, Served(u)'
      PROVE  AllStored(writer[u].call, writer[u].batch)'
  <2>1. u # t
    BY Zenon, <1>0, <1>4 DEF InRoomEffect, Served
  <2>2. Served(u) /\ writer'[u] = writer[u]
    BY Zenon, <1>0, <1>4, <2>1 DEF InRoomEffect, Served
  <2>3. QED
    BY Zenon, <1>0, <1>2, <2>2 DEF StoreInv, AllStored
<1>5. \A c \in 1..Len(calls') : Acked(c)' => AllStored(c, calls[c].batch)'
  BY Zenon, <1>0, <1>2 DEF StoreInv, AllStored, Acked
<1>6. QED
  BY Zenon, <1>1, <1>3, <1>4, <1>5 DEF StoreInv

\* A leader that comes to the end of logging without an error has inserted
\* the whole group.
LEMMA GroupInserted ==
  ASSUME TypeOK, NEW t \in Threads, InLogging(t), pc'[t] = "relock", writer'[t].status = "ok"
  PROVE  writer'[t].group = {}
<1>0. writer[t] \in Work /\ pc \in [Threads -> ClientPc] /\ writer \in [Threads -> Work]
  BY Zenon, WriterType DEF TypeOK
<1>1. CASE AddRecord(t)
  BY Zenon, <1>0, <1>1 DEF AddRecord, Goto
<1>2. CASE Sync(t)
  BY Zenon, <1>0, <1>2 DEF Sync, Goto
<1>3. CASE AddRecordFails(t)
  BY Zenon, <1>0, <1>3 DEF AddRecordFails, Work
<1>4. CASE SyncFails(t)
  BY Zenon, <1>0, <1>4 DEF SyncFails, Work
<1>5. CASE Insert(t)
  <2>1. PICK e \in writer[t].group :
          /\ writer' = [writer EXCEPT ![t] = [writer[t] EXCEPT !.group = @ \ {e}]]
          /\ pc' = [pc EXCEPT ![t] = IF writer[t].group = {e} THEN "relock" ELSE "insert"]
    BY Zenon, <1>5 DEF Insert, Goto
  <2>2. writer[t].group = {e}
    BY Zenon, <1>0, <2>1
  <2>3. writer'[t].group = writer[t].group \ {e}
    BY Zenon, <1>0, <2>1 DEF Work
  <2>4. QED
    BY Zenon, <2>2, <2>3
<1>6. QED
  BY Zenon, <1>1, <1>2, <1>3, <1>4, <1>5 DEF InLogging

\* The steps of a logging leader store its group alone.
LEMMA InLoggingStore ==
  ASSUME TypeOK, TypeOK', QueueInv, MemberInv, CallInv, OrderInv, StoreInv,
         NEW t \in Threads, InLogging(t)
  PROVE  StoreInv'
<1>0. InLoggingEffect(t)
  BY Zenon, InLoggingChanges
<1>1. /\ pc[t] \in Logging /\ pc[t] \in Grouped /\ pc'[t] \in Logging
      /\ \A u \in Threads \ {t} : pc'[u] \notin Logging /\ pc[u] \notin Logging
  <2>1. pc[t] \in Logging /\ pc[t] \in Grouped /\ pc'[t] \in Logging
    BY Zenon, <1>0 DEF InLoggingEffect, Logging, Grouped
  <2>2. Logging \subseteq Leading
    BY Zenon DEF Logging, Leading
  <2>3. QED
    BY Zenon, <1>0, <2>1, <2>2, OneLeader DEF InLoggingEffect
<1>2. UNCHANGED <<writers, calls, last>> /\ writer'[t].last_writer = writer[t].last_writer
      /\ writer'[t].last_sequence = writer[t].last_sequence
      /\ \A u \in Threads : writer'[u].call = writer[u].call /\ writer'[u].batch = writer[u].batch
  BY Zenon, <1>0 DEF InLoggingEffect
<1>3. \A i \in 1..Len(writers) : CallOf(i)' = CallOf(i) /\ BatchOf(i)' = BatchOf(i)
  BY Zenon, <1>2, QueueType DEF CallOf, BatchOf
<1>4. /\ Stored' \cup writer'[t].group = Stored \cup writer[t].group
      /\ \A e \in Stored' : e \in Stored \/ e \in writer[t].group
      /\ \A e \in Stored : e \in Stored'
  <2>1. CASE UNCHANGED contents /\ writer'[t].group = writer[t].group
    BY Zenon, <2>1 DEF Stored
  <2>2. CASE \E e \in writer[t].group : /\ Stored' = Stored \cup {e}
                                        /\ writer'[t].group = writer[t].group \ {e}
    BY Zenon, <2>2
  <2>3. QED
    BY Zenon, <2>1, <2>2, InLoggingStores
<1>5. GroupStored(t) /\ \A i \in 1..writer[t].last_writer : i \in 1..Len(writers)
  BY Zenon, <1>1, GroupInQueue DEF StoreInv
<1>6. ASSUME NEW c, \A i \in 1..writer[t].last_writer : c # CallOf(i)
      PROVE  Of(Stored', c) = Of(Stored, c)
  <2>1. \A e \in writer[t].group : e.call # c
    BY Zenon, <1>1, <1>6 DEF OrderInv
  <2>2. QED
    BY Zenon, <1>4, <2>1 DEF Of
<1>7. NotStored'
  <2>1. SUFFICES ASSUME NEW i \in 1..Len(writers'),
                        \A u \in Threads : pc'[u] \in Logging => i > writer'[u].last_writer
                 PROVE  Of(Stored', CallOf(i)') = {}
    BY Zenon DEF NotStored
  <2>2. i \in 1..Len(writers) /\ i > writer[t].last_writer
    BY Zenon, <1>1, <1>2, <2>1
  <2>3. \A u \in Threads : pc[u] \in Logging => i > writer[u].last_writer
    BY Zenon, <1>1, <2>2
  <2>4. Of(Stored, CallOf(i)) = {}
    BY Zenon, <2>2, <2>3 DEF StoreInv, NotStored
  <2>5. ASSUME NEW j \in 1..writer[t].last_writer PROVE CallOf(i) # CallOf(j)
    <3>1. j \in 1..Len(writers) /\ i # j
      BY SMTT(30), <1>1, <1>5, <2>2, GroupInQueue
    <3>2. QED
      BY Zenon, <2>2, <3>1, CallsDiffer
  <2>6. QED
    BY Zenon, <1>3, <1>6, <2>2, <2>4, <2>5
<1>8. GroupStored(t)'
  <2>1. \A i \in 1..writer'[t].last_writer :
          Cardinality(Of(Stored \cup writer[t].group, CallOf(i))') = Count(BatchOf(i)')
    <3>1. TAKE i \in 1..writer'[t].last_writer
    <3>2. i \in 1..writer[t].last_writer /\ CallOf(i)' = CallOf(i) /\ BatchOf(i)' = BatchOf(i)
      BY Zenon, <1>2, <1>3, <1>5
    <3>3. Of(Stored \cup writer[t].group, CallOf(i))' = Of(Stored \cup writer[t].group, CallOf(i))
      BY Zenon, <1>4, <3>2 DEF Of
    <3>4. QED
      BY Zenon, <1>5, <3>2, <3>3 DEF GroupStored
  <2>2. ASSUME NEW i \in 1..writer'[t].last_writer, NEW e \in Of(Stored, CallOf(i))'
        PROVE  e.seq <= writer'[t].last_sequence
    <3>1. i \in 1..writer[t].last_writer /\ CallOf(i)' = CallOf(i)
      BY Zenon, <1>2, <1>3, <1>5
    <3>2. e \in Of(Stored, CallOf(i)) \/ e \in writer[t].group
      BY Zenon, <1>4, <3>1 DEF Of
    <3>3. QED
      BY Zenon, <1>1, <1>2, <1>5, <3>1, <3>2 DEF GroupStored, OrderInv
  <2>3. pc'[t] = "relock" /\ writer'[t].status = "ok" => writer'[t].group = {}
    BY Zenon, GroupInserted
  <2>4. QED
    BY Zenon, <2>1, <2>2, <2>3 DEF GroupStored
<1>9. ASSUME NEW u \in Threads, Served(u)'
      PROVE  AllStored(writer[u].call, writer[u].batch)'
  <2>1. u # t
    BY Zenon, <1>1, <1>9 DEF Served, Logging
  <2>2. Served(u) /\ writer'[u] = writer[u]
    BY Zenon, <1>0, <1>9, <2>1 DEF InLoggingEffect, Served
  <2>3. ASSUME NEW i \in 1..writer[t].last_writer PROVE writer[u].call # CallOf(i)
    <3>1. /\ writers[i] \in Threads /\ pc[writers[i]] # "idle" /\ writers[i] # u
      BY Zenon, <1>5, <2>2, QueuedCall DEF Served
    <3>2. QED
      BY Zenon, <2>2, <3>1 DEF CallInv, CallOf, Served
  <2>4. Of(Stored', writer[u].call) = Of(Stored, writer[u].call)
    BY Zenon, <1>6, <2>3
  <2>5. QED
    BY Zenon, <1>2, <2>2, <2>4 DEF StoreInv, AllStored
<1>10. ASSUME NEW c \in 1..Len(calls'), Acked(c)' PROVE AllStored(c, calls[c].batch)'
  <2>1. c \in 1..Len(calls) /\ Acked(c)
    BY Zenon, <1>2, <1>10 DEF Acked
  <2>2. \A i \in 1..writer[t].last_writer : c # CallOf(i)
    BY Zenon, <1>5, <2>1, QueuedCall DEF Acked
  <2>3. Of(Stored', c) = Of(Stored, c)
    BY Zenon, <1>6, <2>2
  <2>4. QED
    BY Zenon, <1>2, <2>1, <2>3 DEF StoreInv, AllStored
<1>11. QED
  BY Zenon, <1>1, <1>7, <1>8, <1>9, <1>10 DEF StoreInv

\* Whom the end of Write serves: the other members of a group that was logged.
LEMMA PopServed ==
  ASSUME TypeOK, QueueInv, MemberInv, NEW t \in Threads, Commit(t) \/ Finish(t),
         NEW u \in Threads, Served(u)'
  PROVE  \/ Served(u) /\ writer'[u] = writer[u]
         \/ /\ pc[t] = "relock" /\ writer[t].status = "ok"
            /\ \E i \in 2..writer[t].last_writer :
                 /\ u = writers[i] /\ writer'[u].call = CallOf(i)
                 /\ writer'[u].batch = BatchOf(i)
<1>0. PopGroupEffect(t) /\ pc[t] \in {"relock", "finish"}
  BY Zenon, PopGroupChanges DEF Commit, Finish, Grouped
<1>1. u # t
  <2>1. pc'[t] # "wait"
    BY Zenon, <1>0 DEF PopGroupEffect, ReturnsTo
  <2>2. QED
    BY Zenon, <2>1 DEF Served
<1>2. CASE u \in Members(t)
  <2>1. PICK i \in 2..writer[t].last_writer : u = writers[i]
    BY Zenon, <1>2 DEF Members
  <2>2. /\ writer'[u].status = writer[t].status /\ writer'[u].call = CallOf(i)
        /\ writer'[u].batch = BatchOf(i)
    BY Zenon, <1>0, <2>1 DEF PopGroupEffect, CallOf, BatchOf
  <2>3. writer[t].status = "ok"
    BY Zenon, <2>2 DEF Served
  <2>4. pc[t] # "finish"
    <3>1. pc[t] = "finish" => writer[t].last_writer = 1
      BY Zenon DEF MemberInv
    <3>2. QED
      BY <2>1, <3>1
  <2>5. QED
    BY Zenon, <1>0, <2>1, <2>2, <2>3, <2>4
<1>3. CASE u \notin Members(t)
  <2>1. pc'[u] = pc[u] /\ writer'[u] = writer[u]
    BY Zenon, <1>0, <1>1, <1>3 DEF PopGroupEffect
  <2>2. QED
    BY Zenon, <2>1 DEF Served
<1>4. QED
  BY Zenon, <1>2, <1>3

\* What the end of Write acknowledges: the leader's own call, if it was logged.
LEMMA PopAcked ==
  ASSUME TypeOK, QueueInv, MemberInv, CallInv, NEW t \in Threads, Commit(t) \/ Finish(t),
         NEW c \in 1..Len(calls'), Acked(c)'
  PROVE  /\ c \in 1..Len(calls) /\ calls'[c].batch = calls[c].batch
         /\ calls'[c].sync = calls[c].sync
         /\ \/ Acked(c)
            \/ /\ pc[t] = "relock" /\ writer[t].status = "ok"
               /\ c = CallOf(1) /\ calls[c].batch = BatchOf(1)
<1>0. PopGroupEffect(t) /\ pc[t] \in {"relock", "finish"}
  BY Zenon, PopGroupChanges DEF Commit, Finish, Grouped
<1>1. /\ calls' = [calls EXCEPT ![writer[t].call].status =
                     CallStatus(t, writer[t].status)]
      /\ writers[1] = t
  BY Zenon, <1>0 DEF PopGroupEffect
<1>2. CallStatus(t, writer[t].status) \in Status \cup {"pending"}
  BY Zenon, WriterType DEF CallStatus, Work
<1>3. /\ c \in 1..Len(calls) /\ calls'[c].batch = calls[c].batch
      /\ calls'[c].sync = calls[c].sync
      /\ Acked(c) \/ (c = writer[t].call /\ CallStatus(t, writer[t].status) = "ok"
                      /\ writer[t].batch # NullBatch /\ calls[c].batch = writer[t].batch)
  <2>1. pc[t] # "idle"
    BY Zenon, <1>0
  <2>2. QED
    BY Zenon, <1>1, <1>2, <2>1, AckedAgain
<1>4. CallStatus(t, writer[t].status) = "ok" => writer[t].status = "ok"
  BY Zenon DEF CallStatus
<1>5. pc[t] = "finish" => writer[t].status = "error" \/ writer[t].batch = NullBatch
  BY Zenon DEF MemberInv
<1>6. QED
  BY Zenon, <1>0, <1>1, <1>3, <1>4, <1>5 DEF CallOf, BatchOf

\* The end of Write keeps what is stored.
LEMMA PopGroupStore ==
  ASSUME TypeOK, TypeOK', QueueInv, MemberInv, CallInv, StoreInv,
         NEW t \in Threads, Commit(t) \/ Finish(t)
  PROVE  StoreInv'
<1>0. PopGroupEffect(t) /\ pc[t] \in Grouped /\ pc[t] \in Leading
  BY Zenon, PopGroupChanges DEF Commit, Finish, Grouped, Leading
<1>1. Stored' = Stored
  BY Zenon DEF Commit, Finish, Stored, memVars
<1>2. last' >= last /\ (pc[t] = "relock" => last' = writer[t].last_sequence)
  <2>1. CASE Commit(t)
    BY Zenon, <2>1 DEF Commit, QueueInv, Logging
  <2>2. CASE Finish(t)
    BY SMTT(30), <2>2 DEF Finish, memVars, TypeOK
  <2>3. QED
    BY Zenon, <2>1, <2>2
<1>3. \A u \in Threads : pc'[u] \notin Logging /\ (pc[u] \in Logging => u = t)
  <2>1. pc'[t] \in {"idle", "flush"} /\ \A u \in Threads \ {t} : pc'[u] = pc[u]
    BY Zenon, <1>0 DEF PopGroupEffect, ReturnsTo
  <2>2. Logging \subseteq Leading /\ pc'[t] \notin Logging
    BY Zenon, <2>1 DEF Logging, Leading
  <2>3. QED
    BY Zenon, <1>0, <2>1, <2>2, OneLeader
<1>4. NotStored'
  <2>1. SUFFICES ASSUME NEW i \in 1..Len(writers')
                 PROVE  Of(Stored', CallOf(i)') = {}
    BY Zenon DEF NotStored
  <2>2. /\ writer[t].last_writer \in 1..Len(writers) /\ Len(writers) \in Nat
        /\ \A m \in 1..Len(writers) : writers[m] \in Threads
    BY Zenon, <1>0, GroupInQueue, QueueType
  <2>3. PICK j \in 2..Len(writers) : j > writer[t].last_writer /\ writers'[i] = writers[j]
    <3>1. /\ i + writer[t].last_writer \in 2..Len(writers)
          /\ i + writer[t].last_writer > writer[t].last_writer
          /\ writers'[i] = writers[i + writer[t].last_writer]
      BY Zenon, <1>0 DEF PopGroupEffect
    <3>2. QED
      BY Zenon, <3>1
  <2>4. j \in 1..Len(writers) /\ writers[j] \in Threads
    <3>1. j \in 1..Len(writers)
      BY <2>2
    <3>2. QED
      BY Zenon, <2>2, <3>1
  <2>5. writers[j] # t /\ writers[j] \notin Members(t)
    <3>1. writers[j] \notin Members(t)
      <4>1. ASSUME NEW k \in 2..writer[t].last_writer PROVE writers[k] # writers[j]
        <5>1. k \in 1..Len(writers) /\ k # j
          BY <2>2, <2>3
        <5>2. QED
          BY Zenon, <2>4, <5>1 DEF MemberInv
      <4>2. QED
        BY Zenon, <4>1 DEF Members
    <3>2. writers[j] # t
      <4>1. 1 \in 1..Len(writers) /\ j # 1
        BY <2>2
      <4>2. QED
        BY Zenon, <1>0, <2>4, <4>1, GroupInQueue DEF MemberInv
    <3>3. QED
      BY Zenon, <3>1, <3>2
  <2>6. CallOf(i)' = CallOf(j)
    <3>1. writer'[writers[j]] = writer[writers[j]]
      BY Zenon, <1>0, <2>4, <2>5 DEF PopGroupEffect
    <3>2. QED
      BY Zenon, <2>3, <3>1 DEF CallOf
  <2>7. \A u \in Threads : pc[u] \in Logging => j > writer[u].last_writer
    BY Zenon, <1>3, <2>3
  <2>8. QED
    BY Zenon, <1>1, <2>4, <2>6, <2>7 DEF StoreInv, NotStored
<1>5. ASSUME pc[t] = "relock", writer[t].status = "ok", NEW i \in 1..writer[t].last_writer
      PROVE  /\ Cardinality(Of(Stored', CallOf(i))) = Count(BatchOf(i))
             /\ \A e \in Of(Stored', CallOf(i)) : e.seq <= last'
  <2>1. GroupStored(t)
    BY Zenon, <1>5 DEF StoreInv, Logging
  <2>2. writer[t].group = {}
    BY Zenon, <1>5, <2>1 DEF GroupStored
  <2>3. Stored \cup writer[t].group = Stored'
    BY Zenon, <1>1, <2>2
  <2>4. QED
    BY Zenon, <1>1, <1>2, <1>5, <2>1, <2>3 DEF GroupStored
<1>6. ASSUME NEW u \in Threads, Served(u)'
      PROVE  AllStored(writer[u].call, writer[u].batch)'
  <2>1. CASE Served(u) /\ writer'[u] = writer[u]
    <3>1. AllStored(writer[u].call, writer[u].batch)
      BY Zenon, <2>1 DEF StoreInv
    <3>2. QED
      BY Zenon, <1>1, <1>2, <2>1, <3>1, AllStoredKept DEF AllStored
  <2>2. CASE /\ pc[t] = "relock" /\ writer[t].status = "ok"
             /\ \E i \in 2..writer[t].last_writer :
                  /\ u = writers[i] /\ writer'[u].call = CallOf(i)
                  /\ writer'[u].batch = BatchOf(i)
    <3>1. PICK i \in 2..writer[t].last_writer :
            writer'[u].call = CallOf(i) /\ writer'[u].batch = BatchOf(i)
      BY Zenon, <2>2
    <3>2. i \in 1..writer[t].last_writer
      BY Zenon, <1>0, GroupInQueue
    <3>3. QED
      BY Zenon, <1>5, <2>2, <3>1, <3>2 DEF AllStored
  <2>3. QED
    BY Zenon, <1>6, <2>1, <2>2, PopServed
<1>7. ASSUME NEW c \in 1..Len(calls'), Acked(c)' PROVE AllStored(c, calls[c].batch)'
  <2>0. c \in 1..Len(calls) /\ calls'[c].batch = calls[c].batch
    BY Zenon, <1>7, PopAcked
  <2>1. CASE Acked(c)
    <3>1. AllStored(c, calls[c].batch)
      BY Zenon, <2>0, <2>1 DEF StoreInv
    <3>2. QED
      BY Zenon, <1>1, <1>2, <2>0, <3>1, AllStoredKept DEF AllStored
  <2>2. CASE /\ pc[t] = "relock" /\ writer[t].status = "ok"
             /\ c = CallOf(1) /\ calls[c].batch = BatchOf(1)
    <3>1. 1 \in 1..writer[t].last_writer
      BY Zenon, <1>0, GroupInQueue
    <3>2. QED
      BY Zenon, <1>5, <2>0, <2>2, <3>1 DEF AllStored
  <2>3. QED
    BY Zenon, <1>7, <2>1, <2>2, PopAcked
<1>8. QED
  BY Zenon, <1>3, <1>4, <1>6, <1>7 DEF StoreInv

\* Forming a group keeps what is stored: its entries have yet to be.
LEMMA ReadyStore ==
  ASSUME TypeOK, TypeOK', GroupsNumbered, QueueInv, MemberInv, CallInv, StoreInv,
         NEW t \in Threads, RoomReady(t), writer[t].batch # NullBatch
  PROVE  StoreInv'
<1>0. ReadyEffect(t) /\ Stored' = Stored
  <2>1. ReadyEffect(t)
    BY Zenon, ReadyChanges
  <2>2. QED
    BY ZenonT(60), <2>1 DEF ReadyEffect, Stored
<1>1. /\ pc'[t] \in Logging
      /\ \A u \in Threads : pc[u] \notin Logging /\ (pc'[u] \in Logging => u = t)
  <2>1. pc[t] \in Leading /\ pc[t] \notin Logging /\ pc'[t] \in Logging
    BY Zenon, <1>0 DEF ReadyEffect, Leading, Logging
  <2>2. Logging \subseteq Leading
    BY Zenon DEF Logging, Leading
  <2>3. QED
    BY Zenon, <1>0, <2>1, <2>2, OneLeader DEF ReadyEffect
<1>2. UNCHANGED <<writers, calls, last>>
      /\ \A u \in Threads : writer'[u].call = writer[u].call /\ writer'[u].batch = writer[u].batch
  BY Zenon, <1>0 DEF ReadyEffect
<1>3. \A i \in 1..Len(writers) : CallOf(i)' = CallOf(i) /\ BatchOf(i)' = BatchOf(i)
  BY Zenon, <1>2, QueueType DEF CallOf, BatchOf
<1>4. \A i \in 1..Len(writers) : Of(Stored, CallOf(i)) = {}
  BY Zenon, <1>1 DEF StoreInv, NotStored
<1>5. NotStored'
  BY Zenon, <1>0, <1>2, <1>3, <1>4 DEF NotStored
<1>6. GroupStored(t)'
  <2>1. PICK n \in 1..Len(writers) :
          writer'[t].last_writer = n /\ writer'[t].group = GroupEntries(n)
    BY Zenon, <1>0 DEF ReadyEffect
  <2>2. ASSUME NEW i \in 1..n
        PROVE  /\ Of(Stored, CallOf(i))' = {}
               /\ Cardinality(Of(Stored \cup writer[t].group, CallOf(i))') = Count(BatchOf(i)')
    <3>1. i \in 1..Len(writers)
      BY SMTT(30), QueueType
    <3>2. Of(Stored, CallOf(i))' = {}
      BY Zenon, <1>0, <1>3, <1>4, <3>1
    <3>3. Of(Stored \cup writer[t].group, CallOf(i))' = Of(GroupEntries(n), CallOf(i))
      BY Zenon, <1>3, <2>1, <3>1, <3>2 DEF Of
    <3>4. QED
      BY Zenon, <1>3, <3>1, <3>2, <3>3 DEF GroupsNumbered
  <2>3. pc'[t] = "log"
    BY Zenon, <1>0 DEF ReadyEffect
  <2>4. QED
    BY Zenon, <2>1, <2>2, <2>3 DEF GroupStored
<1>7. ASSUME NEW u \in Threads, Served(u)'
      PROVE  AllStored(writer[u].call, writer[u].batch)'
  <2>1. u # t
    BY Zenon, <1>0, <1>7 DEF ReadyEffect, Served
  <2>2. Served(u) /\ writer'[u] = writer[u]
    BY Zenon, <1>0, <1>7, <2>1 DEF ReadyEffect, Served
  <2>3. QED
    BY Zenon, <1>0, <1>2, <2>2 DEF StoreInv, AllStored
<1>8. \A c \in 1..Len(calls') : Acked(c)' => AllStored(c, calls[c].batch)'
  BY Zenon, <1>0, <1>2 DEF StoreInv, AllStored, Acked
<1>9. QED
  BY Zenon, <1>1, <1>5, <1>6, <1>7, <1>8 DEF StoreInv

\* Every step keeps what is stored of the calls.
LEMMA StoreStep ==
  ASSUME TypeOK, TypeOK', GroupsNumbered, QueueInv, MemberInv, CallInv, OrderInv, StoreInv, [Next]_vars
  PROVE  StoreInv'
<1>1. ASSUME UNCHANGED <<writers, writer, pc, calls, last, logs, contents>>
      PROVE  StoreInv'
  <2>1. Stored' = Stored
    BY Zenon, <1>1 DEF Stored
  <2>2. NotStored'
    BY Zenon, <1>1, <2>1 DEF StoreInv, NotStored, CallOf
  <2>3. \A t \in Threads : pc'[t] \in Logging => GroupStored(t)'
    BY Zenon, <1>1, <2>1 DEF StoreInv, GroupStored, CallOf, BatchOf
  <2>4. \A t \in Threads : Served(t)' => AllStored(writer[t].call, writer[t].batch)'
    BY Zenon, <1>1, <2>1 DEF StoreInv, AllStored, Served
  <2>5. \A c \in 1..Len(calls') : Acked(c)' => AllStored(c, calls[c].batch)'
    BY Zenon, <1>1, <2>1 DEF StoreInv, AllStored, Acked
  <2>6. QED
    BY Zenon, <2>2, <2>3, <2>4, <2>5 DEF StoreInv
<1>2. QED
  BY Zenon, <1>1, AsideStore, InRoomStore, InLoggingStore, PopGroupStore, ReadyStore, StepCases

----------------------------------------------------------------------------
(* What is logged of a call.                                               *)

\* Logs get records, and records get synced; no record leaves a log.
LogsGrow ==
  \A i \in DOMAIN logs :
    /\ i \in DOMAIN logs'
    /\ \A r \in logs[i] : \E q \in logs'[i] :
         q.entries = r.entries /\ q.whole = r.whole /\ (r.synced => q.synced)

\* The step of a logging leader, as far as the log goes.
LEMMA InLoggingLogs ==
  ASSUME TypeOK, NEW t \in Threads, InLogging(t)
  PROVE  /\ LogsGrow /\ DOMAIN logs' = DOMAIN logs /\ Len(logs') = Len(logs)
         /\ pc[t] = "log" /\ writer'[t].status = "ok" =>
              /\ pc'[t] = "sync" <=> writer[t].sync
              /\ \E r \in logs'[Len(logs)] :
                   r.entries = writer[t].group /\ r.whole
         /\ pc[t] = "sync" /\ writer'[t].status = "ok" =>
              /\ pc'[t] # "sync" /\ writer[t].status = "ok"
              /\ \A r \in logs[Len(logs)] : \E q \in logs'[Len(logs)] :
                   q.entries = r.entries /\ q.whole = r.whole /\ q.synced
         /\ pc[t] = "insert" =>
              UNCHANGED logs /\ pc'[t] # "sync" /\ writer'[t].status = writer[t].status
<1>0. /\ writer[t] \in Work /\ pc \in [Threads -> ClientPc] /\ writer \in [Threads -> Work]
      /\ writer[t].sync \in BOOLEAN
  BY Zenon, WriterType DEF TypeOK, Work
<1>1. /\ logs \in Seq(SUBSET Record) /\ Len(logs) \in 1..Len(logs)
      /\ DOMAIN logs = 1..Len(logs) /\ logs[Len(logs)] \in SUBSET Record
  BY Zenon, LogsType
<1>2. ASSUME NEW S \in SUBSET Record, logs' = [logs EXCEPT ![Len(logs)] = S],
             \A r \in logs[Len(logs)] : \E q \in S :
               q.entries = r.entries /\ q.whole = r.whole /\ (r.synced => q.synced)
      PROVE  /\ LogsGrow /\ DOMAIN logs' = DOMAIN logs /\ Len(logs') = Len(logs)
             /\ logs'[Len(logs)] = S
  <2>1. /\ Len(logs') = Len(logs) /\ DOMAIN logs' = DOMAIN logs /\ logs'[Len(logs)] = S
        /\ \A i \in DOMAIN logs : i # Len(logs) => logs'[i] = logs[i]
    BY SMTT(30), <1>1, <1>2
  <2>2. QED
    BY Zenon, <1>2, <2>1 DEF LogsGrow
<1>3. CASE AddRecord(t)
  <2>1. DEFINE r == [entries |-> writer[t].group, whole |-> TRUE, synced |-> FALSE]
  <2>2. r \in Record
    BY Zenon, <1>0 DEF Work, Record
  <2>3. /\ logs' = [logs EXCEPT ![Len(logs)] = logs[Len(logs)] \cup {r}]
        /\ pc[t] = "log"
    BY Zenon, <1>3 DEF AddRecord, lastLog
  <2>4. logs[Len(logs)] \cup {r} \in SUBSET Record
    BY Zenon, <1>1, <2>2
  <2>5. /\ LogsGrow /\ DOMAIN logs' = DOMAIN logs /\ Len(logs') = Len(logs)
        /\ logs'[Len(logs)] = logs[Len(logs)] \cup {r}
    BY Zenon, <1>2, <2>3, <2>4
  <2>6. pc'[t] = "sync" <=> writer[t].sync
    BY Zenon, <1>0, <1>3 DEF AddRecord, Goto
  <2>7. r \in logs'[Len(logs)] /\ r.entries = writer[t].group /\ r.whole
    BY Zenon, <2>5
  <2>8. QED
    BY Zenon, <2>3, <2>5, <2>6, <2>7
<1>4. CASE AddRecordFails(t)
  <2>1. \A b \in BOOLEAN :
          [entries |-> writer[t].group, whole |-> b, synced |-> FALSE] \in Record
    BY Zenon, <1>0 DEF Work, Record
  <2>2. PICK left \in SUBSET Record :
          logs' = [logs EXCEPT ![Len(logs)] = logs[Len(logs)] \cup left]
    BY ZenonT(60), <1>4, <2>1 DEF AddRecordFails, lastLog
  <2>3. logs[Len(logs)] \cup left \in SUBSET Record
    BY Zenon, <1>1
  <2>4. LogsGrow /\ DOMAIN logs' = DOMAIN logs /\ Len(logs') = Len(logs)
    BY Zenon, <1>2, <2>2, <2>3
  <2>5. pc[t] = "log" /\ writer'[t].status = "error"
    BY Zenon, <1>0, <1>4 DEF AddRecordFails, Work
  <2>6. QED
    BY Zenon, <2>4, <2>5
<1>5. CASE Sync(t)
  <2>1. DEFINE S == {[r EXCEPT !.synced = TRUE] : r \in logs[Len(logs)]}
  <2>2. \A r \in logs[Len(logs)] : LET q == [r EXCEPT !.synced = TRUE] IN
          /\ q \in Record /\ q.entries = r.entries /\ q.whole = r.whole /\ q.synced
    BY Zenon, <1>1 DEF Record
  <2>3. /\ S \in SUBSET Record
        /\ \A r \in logs[Len(logs)] : \E q \in S :
             q.entries = r.entries /\ q.whole = r.whole /\ q.synced
    BY ZenonT(60), <2>2
  <2>4. logs' = [logs EXCEPT ![Len(logs)] = S]
    BY Zenon, <1>5 DEF Sync, lastLog
  <2>5. /\ LogsGrow /\ DOMAIN logs' = DOMAIN logs /\ Len(logs') = Len(logs)
        /\ logs'[Len(logs)] = S
    <3>1. \A r \in logs[Len(logs)] : \E q \in S :
            q.entries = r.entries /\ q.whole = r.whole /\ (r.synced => q.synced)
      BY Zenon, <2>3
    <3>2. QED
      BY Zenon, <1>2, <2>3, <2>4, <3>1
  <2>6. pc[t] = "sync" /\ pc'[t] # "sync" /\ UNCHANGED writer
    BY Zenon, <1>0, <1>5 DEF Sync, Goto
  <2>7. QED
    BY Zenon, <2>3, <2>5, <2>6
<1>6. CASE SyncFails(t)
  <2>1. pc[t] = "sync" /\ writer'[t].status = "error" /\ UNCHANGED logs
    BY Zenon, <1>0, <1>6 DEF SyncFails, Work, memVars
  <2>2. QED
    BY Zenon, <2>1 DEF LogsGrow
<1>7. CASE Insert(t)
  <2>1. pc[t] = "insert" /\ UNCHANGED logs /\ pc'[t] # "sync"
        /\ writer'[t].status = writer[t].status
    BY <1>0, <1>7 DEF Insert, Goto, Work
  <2>2. QED
    BY Zenon, <2>1 DEF LogsGrow
<1>8. QED
  BY Zenon, <1>3, <1>4, <1>5, <1>6, <1>7 DEF InLogging

\* Every step lets the logs grow.
LEMMA LogsStep ==
  ASSUME TypeOK, TypeOK', QueueInv, MemberInv, [Next]_vars
  PROVE  LogsGrow
<1>1. ASSUME UNCHANGED logs PROVE LogsGrow
  BY Zenon, <1>1 DEF LogsGrow
<1>2. ASSUME NEW t \in Threads, Enqueue(t) \/ Wake(t) \/ FlushWait(t) PROVE LogsGrow
  BY Zenon, <1>1, <1>2, AsideSteps DEF Aside
<1>3. ASSUME NEW t \in Threads, InRoom(t) PROVE LogsGrow
  <2>1. /\ DOMAIN logs = 1..Len(contents) /\ DOMAIN logs' = 1..Len(contents')
        /\ Len(contents) \in Nat /\ Len(contents') \in Nat
    BY SMTT(30) DEF TypeOK
  <2>2. /\ Len(contents) <= Len(contents')
        /\ \A i \in 1..Len(contents) : logs'[i] = logs[i]
    BY Zenon, <1>3, InRoomStores
  <2>3. \A i \in DOMAIN logs : i \in DOMAIN logs'
    BY SMTT(30), <2>1, <2>2
  <2>4. QED
    BY Zenon, <2>1, <2>2, <2>3 DEF LogsGrow
<1>4. ASSUME NEW t \in Threads, Commit(t) \/ Finish(t) PROVE LogsGrow
  BY Zenon, <1>1, <1>4 DEF Commit, Finish, memVars
<1>5. ASSUME NEW t \in Threads, RoomReady(t), writer[t].batch # NullBatch PROVE LogsGrow
  BY Zenon, <1>1, <1>5, ReadyChanges DEF ReadyEffect
<1>6. QED
  BY Zenon, <1>1, <1>2, <1>3, <1>4, <1>5, InLoggingLogs, StepCases

\* A call that is logged stays logged.
LEMMA KeptKept ==
  ASSUME HistoryGrows, LogsGrow, NEW c \in 1..Len(calls), Kept(c)
  PROVE  Kept(c)'
<1>0. PICK i \in DOMAIN logs :
        \E r \in logs[i] : Holds(r, c) /\ (calls[c].sync => r.synced)
  BY Zenon DEF Kept
<1>1. PICK r \in logs[i] : Holds(r, c) /\ (calls[c].sync => r.synced)
  BY Zenon, <1>0
<1>2. PICK q \in logs'[i] :
        q.entries = r.entries /\ q.whole = r.whole /\ (r.synced => q.synced)
  BY Zenon DEF LogsGrow
<1>3. Holds(q, c)' /\ (calls'[c].sync => q.synced) /\ i \in DOMAIN logs'
  BY Zenon, <1>1, <1>2 DEF Holds, HistoryGrows, LogsGrow
<1>4. QED
  BY Zenon, <1>3 DEF Kept


\* The steps beside the queue keep what is logged.
LEMMA AsideKept ==
  ASSUME TypeOK, TypeOK', QueueInv, MemberInv, CallInv, KeptInv, HistoryGrows, LogsGrow,
         NEW t \in Threads, Enqueue(t) \/ Wake(t) \/ FlushWait(t)
  PROVE  KeptInv'
<1>0. Aside(t) /\ UNCHANGED logs
  <2>1. Aside(t)
    BY Zenon, AsideSteps
  <2>2. QED
    BY Zenon, <2>1 DEF Aside
<1>1. ASSUME NEW u \in Threads, pc'[u] \in Logging PROVE GroupKept(u)'
  <2>1. pc[u] \in Logging /\ pc[u] \in Grouped /\ writer'[u] = writer[u] /\ pc'[u] = pc[u]
    BY Zenon, <1>0, <1>1 DEF Aside, Logging, Grouped
  <2>2. GroupKept(u)
    BY Zenon, <2>1 DEF KeptInv
  <2>3. ASSUME NEW i \in 1..writer[u].last_writer
        PROVE  /\ CallOf(i)' = CallOf(i) /\ BatchOf(i)' = BatchOf(i)
               /\ writer'[writers'[i]].sync = writer[writers[i]].sync
               /\ calls'[CallOf(i)].batch = calls[CallOf(i)].batch
    <3>1. i \in 1..Len(writers)
      BY Zenon, <2>1, GroupInQueue
    <3>2. CallOf(i) \in 1..Len(calls)
      BY Zenon, <3>1, QueuedCall
    <3>3. QED
      BY ZenonT(60), <1>0, <3>1, <3>2 DEF Aside, CallOf, BatchOf, HistoryGrows
  <2>4. QED
    BY ZenonT(60), <1>0, <2>1, <2>2, <2>3 DEF GroupKept, Holds
<1>2. ASSUME NEW u \in Threads, Served(u)' PROVE Kept(writer[u].call)'
  <2>1. Served(u) /\ writer'[u] = writer[u] /\ pc[u] # "idle"
    BY Zenon, <1>2, NewlyServed
  <2>2. Kept(writer[u].call) /\ writer[u].call \in 1..Len(calls)
    BY Zenon, <2>1 DEF KeptInv, CallInv
  <2>3. QED
    BY Zenon, <2>1, <2>2, KeptKept DEF Kept, Holds
<1>3. ASSUME NEW c \in 1..Len(calls'), Acked(c)' PROVE Kept(c)'
  <2>1. /\ c \in 1..Len(calls)
        /\ Acked(c) \/ (c = writer[t].call /\ Served(t))
    BY Zenon, <1>3, NewlyAcked
  <2>2. Kept(c)
    BY Zenon, <2>1 DEF KeptInv
  <2>3. QED
    BY Zenon, <2>1, <2>2, KeptKept
<1>4. QED
  BY Zenon, <1>1, <1>2, <1>3 DEF KeptInv


\* So do the steps of MakeRoomForWrite.
LEMMA InRoomKept ==
  ASSUME TypeOK, QueueInv, MemberInv, CallInv, KeptInv, HistoryGrows, LogsGrow,
         NEW t \in Threads, InRoom(t)
  PROVE  KeptInv'
<1>0. InRoomEffect(t)
  BY Zenon, InRoomChanges
<1>1. \A u \in Threads : pc'[u] \notin Logging
  <2>1. TAKE u \in Threads
  <2>2. pc[t] \in Leading /\ pc'[t] \notin Logging /\ pc[t] \notin Logging
    BY Zenon, <1>0 DEF InRoomEffect, Leading, Logging
  <2>3. Logging \subseteq Leading
    BY Zenon DEF Logging, Leading
  <2>4. QED
    BY Zenon, <1>0, <2>2, <2>3, OneLeader DEF InRoomEffect
<1>2. ASSUME NEW u \in Threads, Served(u)' PROVE Kept(writer[u].call)'
  <2>1. u # t
    BY Zenon, <1>0, <1>2 DEF InRoomEffect, Served
  <2>2. Served(u) /\ writer'[u] = writer[u] /\ pc[u] # "idle"
    BY Zenon, <1>0, <1>2, <2>1 DEF InRoomEffect, Served
  <2>3. Kept(writer[u].call) /\ writer[u].call \in 1..Len(calls)
    BY Zenon, <2>2 DEF KeptInv, CallInv
  <2>4. QED
    BY Zenon, <2>2, <2>3, KeptKept DEF Kept, Holds
<1>3. ASSUME NEW c \in 1..Len(calls'), Acked(c)' PROVE Kept(c)'
  <2>1. c \in 1..Len(calls) /\ Acked(c)
    BY Zenon, <1>0, <1>3 DEF InRoomEffect, Acked
  <2>2. Kept(c)
    BY Zenon, <2>1 DEF KeptInv
  <2>3. QED
    BY Zenon, <2>1, <2>2, KeptKept
<1>4. QED
  BY Zenon, <1>1, <1>2, <1>3 DEF KeptInv

\* A logging leader logs the whole of each call of its group, and syncs the
\* log if one of them asked for it.
LEMMA InLoggingKept ==
  ASSUME TypeOK, TypeOK', QueueInv, MemberInv, CallInv, KeptInv, HistoryGrows, LogsGrow,
         NEW t \in Threads, InLogging(t)
  PROVE  KeptInv'
<1>0. InLoggingEffect(t)
  BY Zenon, InLoggingChanges
<1>1. /\ pc[t] \in Logging /\ pc[t] \in Grouped /\ pc'[t] \in Logging
      /\ \A u \in Threads \ {t} : pc'[u] \notin Logging
  <2>1. pc[t] \in Logging /\ pc[t] \in Grouped /\ pc'[t] \in Logging
    BY Zenon, <1>0 DEF InLoggingEffect, Logging, Grouped
  <2>2. Logging \subseteq Leading
    BY Zenon DEF Logging, Leading
  <2>3. QED
    BY Zenon, <1>0, <2>1, <2>2, OneLeader DEF InLoggingEffect
<1>2. /\ UNCHANGED <<writers, calls>> /\ writer'[t].last_writer = writer[t].last_writer
      /\ pc'[t] # "log" /\ writer'[t].sync = writer[t].sync
      /\ \A u \in Threads : writer'[u].call = writer[u].call /\ writer'[u].sync = writer[u].sync
  BY Zenon, <1>0 DEF InLoggingEffect
<1>3. GroupKept(t) /\ \A i \in 1..writer[t].last_writer : i \in 1..Len(writers)
  BY Zenon, <1>1, GroupInQueue DEF KeptInv
<1>4. ASSUME NEW i \in 1..writer[t].last_writer
      PROVE  /\ CallOf(i)' = CallOf(i) /\ calls[CallOf(i)].batch = BatchOf(i)
             /\ writer'[writers'[i]].sync = writer[writers[i]].sync
  <2>1. i \in 1..Len(writers) /\ writers[i] \in Threads
    BY Zenon, <1>3, QueueType
  <2>2. calls[CallOf(i)].batch = BatchOf(i)
    BY Zenon, <2>1, QueuedCall
  <2>3. QED
    BY Zenon, <1>2, <2>1, <2>2 DEF CallOf
<1>5. GroupKept(t)'
  <2>1. \A i \in 1..writer'[t].last_writer : writer'[writers'[i]].sync => writer'[t].sync
    BY Zenon, <1>2, <1>3, <1>4 DEF GroupKept
  <2>2. ASSUME writer'[t].status = "ok"
        PROVE  \E r \in logs'[Len(logs')] :
                 /\ pc'[t] # "sync" /\ writer'[t].sync => r.synced
                 /\ \A i \in 1..writer'[t].last_writer : Holds(r, CallOf(i))'
    <3>1. Len(logs') = Len(logs)
      BY Zenon, InLoggingLogs
    <3>2. ASSUME NEW r, r.whole, NEW S, r.entries = S,
                 \A i \in 1..writer[t].last_writer :
                   Cardinality(Of(S, CallOf(i))) = Count(calls[CallOf(i)].batch)
          PROVE  \A i \in 1..writer'[t].last_writer : Holds(r, CallOf(i))'
      BY Zenon, <1>2, <1>4, <3>2 DEF Holds
    <3>3. CASE pc[t] = "log"
      <4>1. PICK r \in logs'[Len(logs)] : r.entries = writer[t].group /\ r.whole
        BY Zenon, <2>2, <3>3, InLoggingLogs
      <4>2. pc'[t] = "sync" <=> writer[t].sync
        BY ZenonT(30), <2>2, <3>3, InLoggingLogs
      <4>3. \A i \in 1..writer[t].last_writer :
              Cardinality(Of(writer[t].group, CallOf(i))) = Count(calls[CallOf(i)].batch)
        BY Zenon, <1>3, <1>4, <3>3 DEF GroupKept
      <4>4. \A i \in 1..writer'[t].last_writer : Holds(r, CallOf(i))'
        BY Zenon, <3>2, <4>1, <4>3
      <4>5. QED
        BY Zenon, <1>2, <3>1, <4>1, <4>2, <4>4
    <3>4. CASE pc[t] = "sync"
      <4>1. /\ pc'[t] # "sync" /\ writer[t].status = "ok"
            /\ \A r \in logs[Len(logs)] : \E q \in logs'[Len(logs)] :
                 q.entries = r.entries /\ q.whole = r.whole /\ q.synced
        BY Zenon, <2>2, <3>4, InLoggingLogs
      <4>2. PICK r \in logs[Len(logs)] :
              \A i \in 1..writer[t].last_writer : Holds(r, CallOf(i))
        BY Zenon, <1>3, <3>4, <4>1 DEF GroupKept
      <4>3. PICK q \in logs'[Len(logs)] :
              q.entries = r.entries /\ q.whole = r.whole /\ q.synced
        BY Zenon, <4>1
      <4>4. \A i \in 1..writer'[t].last_writer : Holds(q, CallOf(i))'
        BY ZenonT(60), <1>2, <1>4, <4>2, <4>3 DEF Holds
      <4>5. QED
        BY Zenon, <3>1, <4>3, <4>4
    <3>5. CASE pc[t] = "insert"
      <4>1. UNCHANGED logs /\ pc'[t] # "sync" /\ writer'[t].status = writer[t].status
        BY Zenon, <3>5, InLoggingLogs
      <4>2. PICK r \in logs[Len(logs)] :
              /\ writer[t].sync => r.synced
              /\ \A i \in 1..writer[t].last_writer : Holds(r, CallOf(i))
        BY Zenon, <1>3, <2>2, <3>5, <4>1 DEF GroupKept
      <4>3. \A i \in 1..writer'[t].last_writer : Holds(r, CallOf(i))'
        BY Zenon, <1>2, <1>4, <4>2 DEF Holds
      <4>4. QED
        BY Zenon, <1>2, <4>1, <4>2, <4>3
    <3>6. QED
      BY Zenon, <1>0, <3>3, <3>4, <3>5 DEF InLoggingEffect
  <2>3. QED
    BY Zenon, <1>2, <2>1, <2>2 DEF GroupKept
<1>6. ASSUME NEW u \in Threads, Served(u)' PROVE Kept(writer[u].call)'
  <2>1. u # t
    BY Zenon, <1>1, <1>6 DEF Served, Logging
  <2>2. Served(u) /\ writer'[u] = writer[u] /\ pc[u] # "idle"
    BY Zenon, <1>0, <1>6, <2>1 DEF InLoggingEffect, Served
  <2>3. Kept(writer[u].call) /\ writer[u].call \in 1..Len(calls)
    BY Zenon, <2>2 DEF KeptInv, CallInv
  <2>4. QED
    BY Zenon, <2>2, <2>3, KeptKept DEF Kept, Holds
<1>7. ASSUME NEW c \in 1..Len(calls'), Acked(c)' PROVE Kept(c)'
  <2>1. c \in 1..Len(calls) /\ Acked(c)
    BY Zenon, <1>2, <1>7 DEF Acked
  <2>2. Kept(c)
    BY Zenon, <2>1 DEF KeptInv
  <2>3. QED
    BY Zenon, <2>1, <2>2, KeptKept
<1>8. QED
  BY Zenon, <1>1, <1>5, <1>6, <1>7 DEF KeptInv


\* The end of Write serves and acknowledges calls that its record holds.
LEMMA PopGroupKept ==
  ASSUME TypeOK, QueueInv, MemberInv, CallInv, KeptInv, HistoryGrows, LogsGrow,
         NEW t \in Threads, Commit(t) \/ Finish(t)
  PROVE  KeptInv'
<1>0. PopGroupEffect(t) /\ pc[t] \in Grouped /\ pc[t] \in Leading
  BY Zenon, PopGroupChanges DEF Commit, Finish, Grouped, Leading
<1>1. \A u \in Threads : pc'[u] \notin Logging
  <2>1. pc'[t] \in {"idle", "flush"} /\ \A u \in Threads \ {t} : pc'[u] = pc[u]
    BY Zenon, <1>0 DEF PopGroupEffect, ReturnsTo
  <2>2. Logging \subseteq Leading /\ pc'[t] \notin Logging
    BY Zenon, <2>1 DEF Logging, Leading
  <2>3. QED
    BY Zenon, <1>0, <2>1, <2>2, OneLeader
<1>2. ASSUME pc[t] = "relock", writer[t].status = "ok", NEW i \in 1..writer[t].last_writer
      PROVE  Kept(CallOf(i)) /\ CallOf(i) \in 1..Len(calls)
  <2>1. GroupKept(t)
    BY Zenon, <1>2 DEF KeptInv, Logging
  <2>2. PICK r \in logs[Len(logs)] :
          (writer[t].sync => r.synced) /\ Holds(r, CallOf(i))
    BY Zenon, <1>2, <2>1 DEF GroupKept
  <2>3. i \in 1..Len(writers)
    BY Zenon, <1>0, GroupInQueue
  <2>4. calls[CallOf(i)].sync = writer[writers[i]].sync /\ CallOf(i) \in 1..Len(calls)
    BY Zenon, <2>3, QueuedCall
  <2>5. calls[CallOf(i)].sync => r.synced
    BY Zenon, <2>1, <2>2, <2>4 DEF GroupKept
  <2>6. Len(logs) \in DOMAIN logs
    BY Zenon, LogsType
  <2>7. QED
    BY Zenon, <2>2, <2>4, <2>5, <2>6 DEF Kept
<1>3. ASSUME NEW u \in Threads, Served(u)' PROVE Kept(writer[u].call)'
  <2>1. CASE Served(u) /\ writer'[u] = writer[u]
    <3>1. Kept(writer[u].call) /\ writer[u].call \in 1..Len(calls)
      BY Zenon, <2>1 DEF KeptInv, CallInv, Served
    <3>2. QED
      BY Zenon, <2>1, <3>1, KeptKept DEF Kept, Holds
  <2>2. CASE /\ pc[t] = "relock" /\ writer[t].status = "ok"
             /\ \E i \in 2..writer[t].last_writer :
                  /\ u = writers[i] /\ writer'[u].call = CallOf(i)
                  /\ writer'[u].batch = BatchOf(i)
    <3>1. PICK i \in 2..writer[t].last_writer : writer'[u].call = CallOf(i)
      BY Zenon, <2>2
    <3>2. i \in 1..writer[t].last_writer
      BY Zenon, <1>0, GroupInQueue
    <3>3. Kept(CallOf(i)) /\ CallOf(i) \in 1..Len(calls)
      BY Zenon, <1>2, <2>2, <3>2
    <3>4. QED
      BY Zenon, <3>1, <3>3, KeptKept DEF Kept, Holds
  <2>3. QED
    BY Zenon, <1>3, <2>1, <2>2, PopServed
<1>4. ASSUME NEW c \in 1..Len(calls'), Acked(c)' PROVE Kept(c)'
  <2>1. c \in 1..Len(calls)
    BY Zenon, <1>4, PopAcked
  <2>2. CASE Acked(c)
    <3>1. Kept(c)
      BY Zenon, <2>1, <2>2 DEF KeptInv
    <3>2. QED
      BY Zenon, <2>1, <3>1, KeptKept
  <2>3. CASE pc[t] = "relock" /\ writer[t].status = "ok" /\ c = CallOf(1)
    <3>1. 1 \in 1..writer[t].last_writer
      BY Zenon, <1>0, GroupInQueue
    <3>2. Kept(c)
      BY Zenon, <1>2, <2>3, <3>1
    <3>3. QED
      BY Zenon, <2>1, <3>2, KeptKept
  <2>4. QED
    BY Zenon, <1>4, <2>2, <2>3, PopAcked
<1>5. QED
  BY Zenon, <1>1, <1>3, <1>4 DEF KeptInv

\* A new group: BuildBatchGroup lets no sync write follow a leader that does
\* not sync, and takes the whole of each batch.
LEMMA ReadyKept ==
  ASSUME TypeOK, TypeOK', GroupsNumbered, QueueInv, MemberInv, CallInv, KeptInv,
         NEW t \in Threads, RoomReady(t), writer[t].batch # NullBatch
  PROVE  KeptInv'
<1>0. ReadyEffect(t)
  BY Zenon, ReadyChanges
<1>1. \A u \in Threads : pc'[u] \in Logging => u = t
  <2>1. pc[t] \in Leading /\ pc[t] \notin Logging
    BY Zenon, <1>0 DEF ReadyEffect, Leading, Logging
  <2>2. Logging \subseteq Leading
    BY Zenon DEF Logging, Leading
  <2>3. QED
    BY Zenon, <1>0, <2>1, <2>2, OneLeader DEF ReadyEffect
<1>2. /\ UNCHANGED <<writers, calls, logs>> /\ pc'[t] = "log"
      /\ \A u \in Threads : /\ writer'[u].call = writer[u].call
                            /\ writer'[u].batch = writer[u].batch
                            /\ writer'[u].sync = writer[u].sync
  BY ZenonT(30), <1>0 DEF ReadyEffect
<1>3. \A i \in 1..Len(writers) :
        /\ CallOf(i)' = CallOf(i) /\ BatchOf(i)' = BatchOf(i) /\ writers[i] \in Threads
        /\ writer'[writers'[i]].sync = writer[writers[i]].sync
  BY Zenon, <1>2, QueueType DEF CallOf, BatchOf
<1>4. PICK n \in 1..Len(writers) :
        IsGroup(n) /\ writer'[t].last_writer = n /\ writer'[t].group = GroupEntries(n)
  BY Zenon, <1>0 DEF ReadyEffect
<1>5. writers[1] = t
  BY Zenon, <1>0 DEF ReadyEffect, QueueInv, Leading
<1>6. ASSUME NEW i \in 1..n
      PROVE  /\ i \in 1..Len(writers)
             /\ writer[writers[i]].sync => writer[t].sync
             /\ Cardinality(Of(GroupEntries(n), CallOf(i))) = Count(BatchOf(i))
  <2>1. i \in 1..Len(writers) /\ (i = 1 \/ i \in 2..n)
    BY SMTT(30), QueueType
  <2>2. writer[writers[i]].sync => writer[t].sync
    BY Zenon, <1>4, <1>5, <2>1 DEF IsGroup, Accepts
  <2>3. QED
    BY Zenon, <2>1, <2>2 DEF GroupsNumbered
<1>7. GroupKept(t)'
  <2>1. \A i \in 1..n : writer'[writers'[i]].sync => writer'[t].sync
    <3>1. ASSUME NEW i \in 1..n, writer'[writers'[i]].sync PROVE writer'[t].sync
      <4>1. writer[writers[i]].sync => writer[t].sync
        BY Zenon, <1>6
      <4>2. QED
        BY Zenon, <1>2, <1>3, <1>6, <3>1, <4>1
    <3>2. QED
      BY Zenon, <3>1
  <2>2. \A i \in 1..n : Cardinality(Of(writer[t].group, CallOf(i))') = Count(BatchOf(i)')
    <3>1. ASSUME NEW i \in 1..n
          PROVE  Of(writer[t].group, CallOf(i))' = Of(GroupEntries(n), CallOf(i))
      BY Zenon, <1>3, <1>4, <1>6 DEF Of
    <3>2. QED
      BY Zenon, <1>3, <1>6, <3>1
  <2>3. QED
    BY Zenon, <1>2, <1>4, <2>1, <2>2 DEF GroupKept
<1>8. ASSUME NEW u \in Threads, Served(u)' PROVE Kept(writer[u].call)'
  <2>1. u # t
    BY Zenon, <1>2, <1>8 DEF Served
  <2>2. Served(u) /\ writer'[u] = writer[u]
    BY Zenon, <1>0, <1>8, <2>1 DEF ReadyEffect, Served
  <2>3. QED
    BY ZenonT(60), <1>2, <2>2 DEF KeptInv, Kept, Holds
<1>9. \A c \in 1..Len(calls') : Acked(c)' => Kept(c)'
  BY ZenonT(60), <1>2 DEF KeptInv, Kept, Acked, Holds
<1>10. QED
  BY Zenon, <1>1, <1>7, <1>8, <1>9 DEF KeptInv

\* Every step keeps what is logged of the calls.
LEMMA KeptStep ==
  ASSUME TypeOK, TypeOK', GroupsNumbered, QueueInv, MemberInv, CallInv, KeptInv, [Next]_vars
  PROVE  KeptInv'
<1>0. HistoryGrows /\ LogsGrow
  BY Zenon, HistoryStep, LogsStep
<1>1. ASSUME UNCHANGED <<writers, writer, pc, calls, last, logs, contents>>
      PROVE  KeptInv'
  <2>1. \A t \in Threads : pc'[t] \in Logging => GroupKept(t)'
    BY ZenonT(60), <1>1 DEF KeptInv, GroupKept, CallOf, BatchOf, Holds
  <2>2. \A t \in Threads : Served(t)' => Kept(writer[t].call)'
    BY Zenon, <1>1 DEF KeptInv, Kept, Served, Holds
  <2>3. \A c \in 1..Len(calls') : Acked(c)' => Kept(c)'
    BY Zenon, <1>1 DEF KeptInv, Kept, Acked, Holds
  <2>4. QED
    BY Zenon, <2>1, <2>2, <2>3 DEF KeptInv
<1>2. QED
  BY Zenon, <1>0, <1>1, AsideKept, InRoomKept, InLoggingKept, PopGroupKept, ReadyKept,
     StepCases


----------------------------------------------------------------------------
(* The theorems.                                                           *)

\* An open database with no call on it satisfies the invariant.
LEMMA InitCalls == Init => CInv
<1>1. SUFFICES ASSUME Init PROVE CInv
  BY Zenon
<1>2. /\ Len(writers) = 0 /\ Len(calls) = 0 /\ Len(contents) = 1 /\ contents[1] = {}
      /\ DOMAIN contents = {1}
  BY SMTT(30), <1>1 DEF Init
<1>3. \A t \in Threads : pc[t] = "idle"
  BY Zenon, <1>1 DEF Init
<1>4. MemberInv /\ CallInv
  <2>1. 1..Len(writers) = {} /\ 1..Len(calls) = {}
    BY SMTT(30), <1>2
  <2>2. \A t \in Threads : pc[t] \notin {"finish", "flush", "flushwait"}
    BY Zenon, <1>3
  <2>3. MemberInv
    BY Zenon, <2>1, <2>2 DEF MemberInv
  <2>4. CallInv
    BY Zenon, <1>3, <2>1 DEF CallInv
  <2>5. QED
    BY Zenon, <2>3, <2>4
<1>5. Stored = {}
  BY Zenon, <1>2 DEF Stored
<1>6. OrderInv /\ CoverInv
  BY SMTT(30), <1>2, <1>3, <1>5 DEF OrderInv, CoverInv, Logging
<1>7. ReadInv
  BY Zenon, <1>1 DEF Init, ReadInv, NoRead
<1>8. StoreInv /\ KeptInv
  <2>1. /\ \A i \in 1..Len(writers) : FALSE
        /\ \A c \in 1..Len(calls) : FALSE
    BY <1>2
  <2>2. \A t \in Threads : pc[t] \notin Logging /\ ~Served(t)
    BY Zenon, <1>3 DEF Served, Logging
  <2>3. QED
    BY Zenon, <2>1, <2>2 DEF StoreInv, KeptInv, NotStored
<1>9. QED
  BY Zenon, <1>4, <1>6, <1>7, <1>8 DEF CInv

\* Every step keeps it.
LEMMA CallsStep ==
  ASSUME IInv, IInv', CInv, GroupsNumbered, [Next]_vars
  PROVE  CInv'
<1>1. TypeOK /\ TypeOK' /\ QueueInv /\ last' >= last
  BY Zenon, LastStep DEF IInv
<1>2. MemberInv /\ CallInv /\ OrderInv /\ CoverInv /\ ReadInv /\ StoreInv /\ KeptInv
  BY Zenon DEF CInv
<1>3. MemberInv' /\ CallInv' /\ OrderInv'
  BY Zenon, <1>1, <1>2, MemberStep, CallStep, OrderStep
<1>4. CoverInv' /\ ReadInv'
  BY Zenon, <1>1, <1>2, CoverStep, ReadStep
<1>5. StoreInv' /\ KeptInv'
  BY Zenon, <1>1, <1>2, StoreStep, KeptStep
<1>6. QED
  BY Zenon, <1>3, <1>4, <1>5 DEF CInv

\* What the invariant says of a served call is that its record is in a log.
LEMMA LoggedFromInv == IInv /\ CInv => AckedIsLogged
<1>1. SUFFICES ASSUME IInv, CInv, NEW c \in DOMAIN calls, calls[c].status = "ok",
                      calls[c].batch # NullBatch
               PROVE  \E i \in DOMAIN logs : \E r \in logs[i] :
                        /\ Cardinality({e \in r.entries : e.call = c}) = calls[c].batch.count
                        /\ r.whole
                        /\ calls[c].sync => r.synced
  BY Zenon DEF AckedIsLogged
<1>2. c \in 1..Len(calls)
  BY SMTT(30), <1>1 DEF IInv, TypeOK
<1>3. Kept(c)
  BY Zenon, <1>1, <1>2 DEF CInv, KeptInv, Acked
<1>4. QED
  BY Zenon, <1>1, <1>3 DEF Kept, Holds, Of, Count

\* Nothing falls between the memtables and the tables that Get reads.
LEMMA VisibleFromInv == IInv /\ CInv => AckedIsVisible
<1>1. SUFFICES ASSUME IInv, CInv, NEW c \in DOMAIN calls, calls[c].status = "ok",
                      calls[c].batch # NullBatch
               PROVE  Cardinality({e \in UNION {contents[i] :
                                            i \in ({mem, imm} \ {0}) \cup flushed} :
                                     e.call = c /\ e.seq <= last}) = calls[c].batch.count
  BY Zenon DEF AckedIsVisible
<1>2. /\ c \in 1..Len(calls) /\ DOMAIN contents = 1..Len(contents)
      /\ Len(contents) \in Nat /\ Len(contents) > 0
  BY SMTT(30), <1>1 DEF IInv, TypeOK
<1>3. AllStored(c, calls[c].batch)
  BY Zenon, <1>1, <1>2 DEF CInv, StoreInv, Acked
<1>4. ({mem, imm} \ {0}) \cup flushed = DOMAIN contents
  <2>0. imm \in 0..(Len(contents) - 1) /\ flushed \subseteq 1..(Len(contents) - 1)
    BY Zenon, <1>1 DEF IInv, TypeOK
  <2>1. imm \in 0..Len(contents) /\ flushed \subseteq 1..Len(contents)
    BY <1>2, <2>0
  <2>2. \A i \in 1..Len(contents) : i \in ({mem, imm} \ {0}) \cup flushed
    <3>1. TAKE i \in 1..Len(contents)
    <3>2. i = mem \/ i = imm \/ i \in flushed
      BY Zenon, <1>1 DEF CInv, CoverInv, mem
    <3>3. i # 0
      BY <1>2
    <3>4. QED
      BY Zenon, <3>2, <3>3
  <2>3. ({mem, imm} \ {0}) \cup flushed \subseteq 1..Len(contents)
    <3>1. mem \in 1..Len(contents) /\ (imm # 0 => imm \in 1..Len(contents))
      BY <1>2, <2>1 DEF mem
    <3>2. QED
      BY Zenon, <2>1, <3>1
  <2>4. QED
    BY Zenon, <1>2, <2>2, <2>3
<1>5. {e \in UNION {contents[i] : i \in ({mem, imm} \ {0}) \cup flushed} :
          e.call = c /\ e.seq <= last} = Of(Stored, c)
  <2>1. \A e \in Of(Stored, c) : e.seq <= last
    BY Zenon, <1>3 DEF AllStored
  <2>2. QED
    BY Zenon, <1>4, <2>1 DEF Of, Stored
<1>6. QED
  BY Zenon, <1>1, <1>3, <1>5 DEF AllStored, Count

============================================================================
