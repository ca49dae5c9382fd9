------------------------------ MODULE WritePath ------------------------------
(***************************************************************************)
(* The write path of DBImpl: the queue of writers and group commit         *)
(* (DBImpl::Write, BuildBatchGroup), the wait for memtable space           *)
(* (MakeRoomForWrite), the background call that flushes the immutable      *)
(* memtable and compacts level 0 (BackgroundCall, CompactMemTable,         *)
(* DoCompactionWork), TEST_CompactMemTable, and readers that pick a        *)
(* sequence number and a set of memtables and tables under mutex_ and use  *)
(* them after releasing it (Get, NewInternalIterator).                     *)
(*                                                                         *)
(* One action is one critical section of mutex_, or one piece of work done *)
(* outside it.  mutex names the thread that keeps the lock from one action *)
(* to the next (the loop of MakeRoomForWrite); NoThread means that the     *)
(* lock is free, and every action that acquires it requires that.          *)
(*                                                                         *)
(* Memtable number i and log number i belong together: MakeRoomForWrite    *)
(* replaces both at once.  mem_ is always the newest memtable.             *)
(***************************************************************************)
EXTENDS Integers, Sequences, FiniteSets

CONSTANTS
  Threads,                     \* client threads that call Write
  Readers,                     \* client threads that call Get
  NoThread,                    \* mutex_ is free
  NullBatch,                   \* the nullptr batch of TEST_CompactMemTable
  Batches,                     \* batches to write: [count: Nat, size: Nat]
  MaxCount,                    \* bound on a batch's count
  Syncs,                       \* values of WriteOptions::sync in use
  WriteBufferSize,             \* options_.write_buffer_size, in entries
  SmallGroup,                  \* 128 << 10 of BuildBatchGroup
  LargeGroup,                  \* 1 << 20 of BuildBatchGroup
  kL0_CompactionTrigger,
  kL0_SlowdownWritesTrigger,
  kL0_StopWritesTrigger,
  MaxCalls,                    \* bound: calls to Write
  MaxReads,                    \* bound: calls to Get
  MaxFaults                    \* bound: failing file operations

ASSUME ThreadsAssumption == NoThread \notin Threads
ASSUME BatchesAssumption ==
  /\ MaxCount \in Nat
  /\ Syncs \subseteq BOOLEAN
  /\ NullBatch \notin Batches
  /\ Batches \subseteq [count : 0..MaxCount, size : Nat]
ASSUME TriggersAssumption ==
  /\ kL0_CompactionTrigger \in Nat \ {0}
  /\ kL0_SlowdownWritesTrigger \in Nat
  /\ kL0_StopWritesTrigger \in Nat
  /\ kL0_CompactionTrigger <= kL0_StopWritesTrigger
ASSUME BoundsAssumption ==
  /\ WriteBufferSize \in Nat
  /\ SmallGroup \in Nat
  /\ LargeGroup \in Nat
  /\ MaxCalls \in Nat
  /\ MaxReads \in Nat
  /\ MaxFaults \in Nat

VARIABLES
  mutex,       \* the thread that holds mutex_ between two actions
  writers,     \* writers_, the deque of waiting writers
  writer,      \* the Writer struct of each thread, and its locals in Write
  pc,          \* where each client thread is
  signaled,    \* threads whose condition variable was signaled
  last,        \* versions_->LastSequence()
  logs,        \* logs[i]: set of records in log number i; the last is log_
  contents,    \* contents[i]: entries of memtable number i; the last is mem_
  imm,         \* number of the memtable imm_ points to; 0 is nullptr
  flushed,     \* memtables whose table is in the current version
  l0,          \* versions_->NumLevelFiles(0)
  bg_error,    \* bg_error_
  scheduled,   \* background_compaction_scheduled_
  bg,          \* the background thread: [pc, inputs, nested]
  reader,      \* Get's locals
  calls,       \* history: what was called and what it returned
  reads,       \* calls of Get so far
  faults       \* faults so far

queueVars == <<writers, writer, pc, signaled, calls>>
memVars == <<last, logs, contents, imm, flushed>>
bgVars == <<l0, bg_error, scheduled, bg>>
readVars == <<reader, reads>>
vars == <<mutex, writers, writer, pc, signaled, last, logs, contents, imm,
          flushed, l0, bg_error, scheduled, bg, reader, calls, reads, faults>>

Status == {"ok", "error"}
Entry == [seq : Nat, call : Nat]
Record == [entries : SUBSET Entry, whole : BOOLEAN, synced : BOOLEAN]
Call == [batch : Batches \cup {NullBatch}, sync : BOOLEAN,
         status : Status \cup {"pending"}, after : Nat]

ClientPc == {"idle", "wait", "room", "sleep", "bgwait", "log", "sync",
             "insert", "relock", "finish", "flush", "flushwait"}
BgPc == {"idle", "build", "manifest", "gc", "compact", "install"}

mem == Len(contents)
lastLog == Len(logs)

NoWork == [batch |-> NullBatch, sync |-> FALSE, done |-> FALSE,
           status |-> "ok", call |-> 0, force |-> FALSE,
           allow_delay |-> FALSE, last_writer |-> 0, group |-> {},
           last_sequence |-> 0, sync_error |-> FALSE]
NoRead == [active |-> FALSE, snapshot |-> 0, mem |-> 0, imm |-> 0,
           files |-> {}, expect |-> {}]
NoCompaction == [pc |-> "idle", inputs |-> 0, nested |-> FALSE]

Init ==
  /\ mutex = NoThread
  /\ writers = <<>>
  /\ writer = [t \in Threads |-> NoWork]
  /\ pc = [t \in Threads |-> "idle"]
  /\ signaled = {}
  /\ last = 0
  /\ logs = <<{}>>
  /\ contents = <<{}>>
  /\ imm = 0
  /\ flushed = {}
  /\ l0 = 0
  /\ bg_error = "ok"
  /\ scheduled = FALSE
  /\ bg = NoCompaction
  /\ reader = [r \in Readers |-> NoRead]
  /\ calls = <<>>
  /\ reads = 0
  /\ faults = 0

----------------------------------------------------------------------------
(* Condition variables and the scheduling of background work.              *)

\* background_work_finished_signal_.SignalAll()
Woken == {t \in Threads : pc[t] \in {"bgwait", "flushwait"}}

\* MaybeScheduleCompaction, on the values its caller leaves behind
MaybeSchedule(already, err, immutable, level0) ==
  already \/ (err = "ok" /\ (immutable # 0 \/ level0 >= kL0_CompactionTrigger))

\* RecordBackgroundError wakes the waiters when the error is the first one
ErrorWakes == IF bg_error = "ok" THEN Woken ELSE {}

\* One more file operation fails
Fault == faults < MaxFaults /\ faults' = faults + 1

Goto(t, label) == pc' = [pc EXCEPT ![t] = label]

----------------------------------------------------------------------------
(* DBImpl::Write, up to the front of the queue.                            *)

\* Mutant: a writer does not wait to be at the front
EnqueueNoWait(t) ==
  /\ pc[t] = "idle" /\ mutex = NoThread /\ Len(calls) < MaxCalls
  /\ \E b \in Batches, s \in Syncs :
       /\ calls' = Append(calls, [batch |-> b, sync |-> s,
                                  status |-> "pending", after |-> last])
       /\ writer' = [writer EXCEPT ![t] =
            [NoWork EXCEPT !.batch = b, !.sync = s, !.call = Len(calls) + 1]]
  /\ writers' = Append(writers, t)
  /\ Goto(t, "room") /\ mutex' = t
  /\ UNCHANGED <<signaled, memVars, bgVars, readVars, faults>>

\* t calls Write(options, updates), or TEST_CompactMemTable when the batch
\* is the null one: the writer joins the queue and, at its front, goes on
\* with the lock held
Enqueue(t) ==
  /\ pc[t] = "idle" /\ mutex = NoThread /\ Len(calls) < MaxCalls
  /\ \E b \in Batches \cup {NullBatch}, s \in Syncs :
       /\ b = NullBatch => ~s  \* WriteOptions()
       /\ calls' = Append(calls, [batch |-> b, sync |-> s,
                                  status |-> "pending", after |-> last])
       /\ writer' = [writer EXCEPT ![t] =
            [NoWork EXCEPT !.batch = b, !.sync = s, !.call = Len(calls) + 1,
                           !.force = (b = NullBatch),
                           !.allow_delay = (b # NullBatch)]]
  /\ writers' = Append(writers, t)
  /\ IF writers = <<>>
     THEN Goto(t, "room") /\ mutex' = t
     ELSE Goto(t, "wait") /\ mutex' = mutex
  /\ UNCHANGED <<signaled, memVars, bgVars, readVars, faults>>

\* What Write returns; TEST_CompactMemTable goes on to wait for imm_
ReturnsTo(t, status) ==
  IF writer[t].batch = NullBatch /\ status = "ok" THEN "flush" ELSE "idle"
CallStatus(t, status) ==
  IF ReturnsTo(t, status) = "idle" THEN status ELSE "pending"

\* w.cv.Wait() returns: another writer did the work, or t is now the front.
\* (A spurious wakeup finds neither and waits again: a stuttering step.)
Wake(t) ==
  /\ pc[t] = "wait" /\ t \in signaled /\ mutex = NoThread
  /\ signaled' = signaled \ {t}
  /\ \/ /\ writer[t].done
        /\ Goto(t, ReturnsTo(t, writer[t].status))
        /\ calls' = [calls EXCEPT ![writer[t].call].status =
                       CallStatus(t, writer[t].status)]
        /\ writer' = [writer EXCEPT ![t] =
                        IF ReturnsTo(t, writer[t].status) = "idle"
                        THEN NoWork ELSE @]
        /\ mutex' = mutex
     \/ /\ ~writer[t].done /\ Head(writers) = t
        /\ Goto(t, "room")
        /\ mutex' = t
        /\ UNCHANGED <<calls, writer>>
  /\ UNCHANGED <<writers, memVars, bgVars, readVars, faults>>

----------------------------------------------------------------------------
(* MakeRoomForWrite: one action per branch of its loop, in the order the   *)
(* branches are tried, with mutex_ held from one to the next.              *)

Delayed(t) ==
  writer[t].allow_delay /\ l0 >= kL0_SlowdownWritesTrigger
HasRoom(t) ==
  ~writer[t].force /\ Cardinality(contents[mem]) <= WriteBufferSize

\* bg_error_ is set: give up with it
RoomError(t) ==
  /\ pc[t] = "room" /\ mutex = t /\ bg_error # "ok"
  /\ writer' = [writer EXCEPT ![t].status = bg_error, ![t].last_writer = 1]
  /\ Goto(t, "finish")
  /\ UNCHANGED <<mutex, writers, signaled, calls, memVars, bgVars, readVars,
                 faults>>

\* Mutant: allow_delay stays set
RoomDelayAgain(t) ==
  /\ pc[t] = "room" /\ mutex = t /\ bg_error = "ok" /\ Delayed(t)
  /\ Goto(t, "sleep")
  /\ mutex' = NoThread
  /\ UNCHANGED <<writers, writer, signaled, calls, memVars, bgVars, readVars,
                 faults>>

\* Close to the limit of level-0 files: sleep 1ms without the lock, once
RoomDelay(t) ==
  /\ pc[t] = "room" /\ mutex = t /\ bg_error = "ok" /\ Delayed(t)
  /\ writer' = [writer EXCEPT ![t].allow_delay = FALSE]
  /\ Goto(t, "sleep")
  /\ mutex' = NoThread
  /\ UNCHANGED <<writers, signaled, calls, memVars, bgVars, readVars, faults>>

Slept(t) ==
  /\ pc[t] = "sleep" /\ mutex = NoThread
  /\ Goto(t, "room")
  /\ mutex' = t
  /\ UNCHANGED <<writers, writer, signaled, calls, memVars, bgVars, readVars,
                 faults>>

\* imm_ is still being flushed, or there are too many level-0 files: wait on
\* background_work_finished_signal_
RoomWait(t) ==
  /\ pc[t] = "room" /\ mutex = t /\ bg_error = "ok"
  /\ ~Delayed(t) /\ ~HasRoom(t)
  /\ imm # 0 \/ l0 >= kL0_StopWritesTrigger
  /\ Goto(t, "bgwait")
  /\ mutex' = NoThread
  /\ UNCHANGED <<writers, writer, signaled, calls, memVars, bgVars, readVars,
                 faults>>

RoomWoken(t) ==
  /\ pc[t] = "bgwait" /\ t \in signaled /\ mutex = NoThread
  /\ signaled' = signaled \ {t}
  /\ Goto(t, "room")
  /\ mutex' = t
  /\ UNCHANGED <<writers, writer, calls, memVars, bgVars, readVars, faults>>

\* Mutants: a switch while imm_ is being flushed, or past the stop trigger
RoomSwitchOverImm(t) ==
  /\ pc[t] = "room" /\ mutex = t /\ bg_error = "ok"
  /\ ~Delayed(t) /\ ~HasRoom(t) /\ l0 < kL0_StopWritesTrigger
  /\ logs' = Append(logs, {})
  /\ contents' = Append(contents, {})
  /\ imm' = mem
  /\ writer' = [writer EXCEPT ![t].force = FALSE]
  /\ scheduled' = MaybeSchedule(scheduled, bg_error, imm', l0)
  /\ UNCHANGED <<mutex, writers, pc, signaled, calls, last, flushed, l0,
                 bg_error, bg, readVars, faults>>
RoomSwitchNoStop(t) ==
  /\ pc[t] = "room" /\ mutex = t /\ bg_error = "ok"
  /\ ~Delayed(t) /\ ~HasRoom(t) /\ imm = 0
  /\ logs' = Append(logs, {})
  /\ contents' = Append(contents, {})
  /\ imm' = mem
  /\ writer' = [writer EXCEPT ![t].force = FALSE]
  /\ scheduled' = MaybeSchedule(scheduled, bg_error, imm', l0)
  /\ UNCHANGED <<mutex, writers, pc, signaled, calls, last, flushed, l0,
                 bg_error, bg, readVars, faults>>

\* A new log file and memtable; the old memtable becomes imm_
RoomSwitch(t) ==
  /\ pc[t] = "room" /\ mutex = t /\ bg_error = "ok"
  /\ ~Delayed(t) /\ ~HasRoom(t)
  /\ imm = 0 /\ l0 < kL0_StopWritesTrigger
  /\ logs' = Append(logs, {})
  /\ contents' = Append(contents, {})
  /\ imm' = mem
  /\ writer' = [writer EXCEPT ![t].force = FALSE]
  /\ scheduled' = MaybeSchedule(scheduled, bg_error, imm', l0)
  /\ UNCHANGED <<mutex, writers, pc, signaled, calls, last, flushed, l0,
                 bg_error, bg, readVars, faults>>

\* NewWritableFile fails: the write fails and nothing is switched
RoomSwitchFails(t) ==
  /\ pc[t] = "room" /\ mutex = t /\ bg_error = "ok"
  /\ ~Delayed(t) /\ ~HasRoom(t)
  /\ imm = 0 /\ l0 < kL0_StopWritesTrigger
  /\ Fault
  /\ writer' = [writer EXCEPT ![t].status = "error", ![t].last_writer = 1]
  /\ Goto(t, "finish")
  /\ UNCHANGED <<mutex, writers, signaled, calls, memVars, bgVars, readVars>>

----------------------------------------------------------------------------
(* BuildBatchGroup.  A group is the first n writers of the queue.          *)

BatchOf(i) == writer[writers[i]].batch
Bytes(n) ==
  LET sum[i \in 0..n] ==
        IF i = 0 THEN 0
        ELSE sum[i - 1] + (IF BatchOf(i) = NullBatch THEN 0 ELSE BatchOf(i).size)
  IN  sum[n]
MaxBytes ==
  IF BatchOf(1).size <= SmallGroup THEN BatchOf(1).size + SmallGroup
                                   ELSE LargeGroup

\* Mutant: a sync write may follow a non-sync leader
AcceptsSync(i) == BatchOf(i) # NullBatch => Bytes(i) <= MaxBytes

\* The loop accepts the i-th writer
Accepts(i) ==
  /\ writer[writers[i]].sync => writer[writers[1]].sync
  /\ BatchOf(i) # NullBatch => Bytes(i) <= MaxBytes

\* The loop stops after n writers
IsGroup(n) ==
  /\ \A i \in 2..n : Accepts(i)
  /\ n < Len(writers) => ~Accepts(n + 1)

\* The merged batch: <<i, j>> is the j-th entry of the i-th writer's batch
Positions(n) ==
  {e \in (1..n) \X (1..MaxCount) :
     BatchOf(e[1]) # NullBatch /\ e[2] <= BatchOf(e[1]).count}
Before(n, e) ==
  {f \in Positions(n) : f[1] < e[1] \/ (f[1] = e[1] /\ f[2] < e[2])}

\* Mutant: off by one, SetSequence(write_batch, last_sequence)
GroupEntriesFromLast(n) ==
  {[seq  |-> last + Cardinality(Before(n, e)),
    call |-> writer[writers[e[1]]].call] : e \in Positions(n)}

\* SetSequence(write_batch, last_sequence + 1): entries are numbered in order
GroupEntries(n) ==
  {[seq  |-> last + 1 + Cardinality(Before(n, e)),
    call |-> writer[writers[e[1]]].call] : e \in Positions(n)}

\* There is room.  A null batch has nothing to write; otherwise form the
\* group and release the lock to log it
RoomReady(t) ==
  /\ pc[t] = "room" /\ mutex = t /\ bg_error = "ok"
  /\ ~Delayed(t) /\ HasRoom(t)
  /\ \/ /\ writer[t].batch = NullBatch
        /\ writer' = [writer EXCEPT ![t].last_writer = 1]
        /\ Goto(t, "finish")
        /\ mutex' = mutex
     \/ /\ writer[t].batch # NullBatch
        /\ \E n \in 1..Len(writers) :
             /\ IsGroup(n)
             /\ writer' = [writer EXCEPT ![t].last_writer = n,
                                         ![t].group = GroupEntries(n),
                                         ![t].last_sequence =
                                           last + Cardinality(Positions(n))]
        /\ Goto(t, "log")
        /\ mutex' = NoThread
  /\ UNCHANGED <<writers, signaled, calls, memVars, bgVars, readVars, faults>>

----------------------------------------------------------------------------
(* Logging a group and inserting it into mem_, without mutex_: the front   *)
(* of the queue is responsible for both.                                   *)

\* log_->AddRecord succeeds; only the leader's own options decide on a Sync
AddRecord(t) ==
  /\ pc[t] = "log"
  /\ logs' = [logs EXCEPT ![lastLog] = @ \cup
       {[entries |-> writer[t].group, whole |-> TRUE, synced |-> FALSE]}]
  /\ Goto(t, IF writer[t].sync THEN "sync"
             ELSE IF writer[t].group = {} THEN "relock" ELSE "insert")
  /\ UNCHANGED <<mutex, writers, writer, signaled, calls, last, contents, imm,
                 flushed, bgVars, readVars, faults>>

\* Mutant: the status of AddRecord is not looked at
AddRecordFailsIgnored(t) ==
  /\ pc[t] = "log" /\ Fault
  /\ Goto(t, "insert")
  /\ UNCHANGED <<mutex, writers, writer, signaled, calls, memVars, bgVars,
                 readVars>>

\* AddRecord fails: nothing, a part or all of the record is in the file
AddRecordFails(t) ==
  /\ pc[t] = "log" /\ Fault
  /\ \E left \in SUBSET {[entries |-> writer[t].group, whole |-> b,
                          synced |-> FALSE] : b \in BOOLEAN} :
       /\ Cardinality(left) <= 1
       /\ logs' = [logs EXCEPT ![lastLog] = @ \cup left]
  /\ writer' = [writer EXCEPT ![t].status = "error"]
  /\ Goto(t, "relock")
  /\ UNCHANGED <<mutex, writers, signaled, calls, last, contents, imm,
                 flushed, bgVars, readVars>>

\* logfile_->Sync() makes everything in the file durable
Sync(t) ==
  /\ pc[t] = "sync"
  /\ logs' = [logs EXCEPT ![lastLog] =
                {[r EXCEPT !.synced = TRUE] : r \in @}]
  /\ Goto(t, IF writer[t].group = {} THEN "relock" ELSE "insert")
  /\ UNCHANGED <<mutex, writers, writer, signaled, calls, last, contents, imm,
                 flushed, bgVars, readVars, faults>>

SyncFails(t) ==
  /\ pc[t] = "sync" /\ Fault
  /\ writer' = [writer EXCEPT ![t].status = "error", ![t].sync_error = TRUE]
  /\ Goto(t, "relock")
  /\ UNCHANGED <<mutex, writers, signaled, calls, memVars, bgVars, readVars>>

\* InsertInto adds one entry after the other to mem_.  (Its status is not OK only
\* for a batch that WriteBatch did not build, as leveldb_write_direct could pass;
\* such batches are not modelled.)
Insert(t) ==
  /\ pc[t] = "insert"
  /\ \E e \in writer[t].group :
       /\ \A f \in writer[t].group : e.seq <= f.seq
       /\ contents' = [contents EXCEPT ![mem] = @ \cup {e}]
       /\ writer' = [writer EXCEPT ![t].group = @ \ {e}]
       /\ Goto(t, IF writer[t].group = {e} THEN "relock" ELSE "insert")
  /\ UNCHANGED <<mutex, writers, signaled, calls, last, logs, imm, flushed,
                 bgVars, readVars, faults>>

----------------------------------------------------------------------------
(* The end of Write: publish the sequence number, then pop the group,      *)
(* hand its members their status and wake the next leader.                 *)

Members(t) == {writers[i] : i \in 2..writer[t].last_writer}
NextLeader(t) ==
  IF Len(writers) > writer[t].last_writer
  THEN {writers[writer[t].last_writer + 1]} ELSE {}

PopGroup(t) ==
  LET status == writer[t].status IN
  /\ writers' = SubSeq(writers, writer[t].last_writer + 1, Len(writers))
  /\ writer' = [u \in Threads |->
       IF u \in Members(t) \ {t}
       THEN [writer[u] EXCEPT !.done = TRUE, !.status = status]
       ELSE IF u = t /\ ReturnsTo(t, status) = "idle" THEN NoWork
       ELSE writer[u]]
  /\ calls' = [calls EXCEPT ![writer[t].call].status = CallStatus(t, status)]
  /\ Goto(t, ReturnsTo(t, status))
  /\ mutex' = NoThread

\* Mutant: the new last sequence number is counted from the group alone
CommitForgetsLast(t) ==
  /\ pc[t] = "relock" /\ mutex = NoThread
  /\ last' = writer[t].last_sequence - last
  /\ PopGroup(t)
  /\ bg_error' = IF writer[t].sync_error THEN "error" ELSE bg_error
  /\ signaled' = signaled \cup Members(t) \cup NextLeader(t) \cup ErrorWakes
  /\ UNCHANGED <<logs, contents, imm, flushed, l0, scheduled, bg, readVars,
                 faults>>

\* After logging: mutex_.Lock(), and everything up to the return.  The
\* sequence numbers of a failed group are spent as well
Commit(t) ==
  /\ pc[t] = "relock" /\ mutex = NoThread
  /\ last' = writer[t].last_sequence
  /\ PopGroup(t)
  /\ IF writer[t].sync_error
     THEN /\ bg_error' = "error"
          /\ signaled' = signaled \cup Members(t) \cup NextLeader(t)
                           \cup ErrorWakes
     ELSE /\ bg_error' = bg_error
          /\ signaled' = signaled \cup Members(t) \cup NextLeader(t)
  /\ UNCHANGED <<logs, contents, imm, flushed, l0, scheduled, bg, readVars,
                 faults>>

\* Nothing was logged: the error of MakeRoomForWrite, or a null batch
Finish(t) ==
  /\ pc[t] = "finish" /\ mutex = t
  /\ PopGroup(t)
  /\ signaled' = signaled \cup Members(t) \cup NextLeader(t)
  /\ UNCHANGED <<memVars, bgVars, readVars, faults>>

\* TEST_CompactMemTable, after its Write: wait until imm_ is gone
FlushWait(t) ==
  /\ pc[t] = "flush" \/ (pc[t] = "flushwait" /\ t \in signaled)
  /\ mutex = NoThread
  /\ signaled' = signaled \ {t}
  /\ \/ /\ imm # 0 /\ bg_error = "ok"
        /\ Goto(t, "flushwait")
        /\ UNCHANGED <<calls, writer>>
     \/ /\ imm = 0 \/ bg_error # "ok"
        /\ Goto(t, "idle")
        /\ writer' = [writer EXCEPT ![t] = NoWork]
        /\ calls' = [calls EXCEPT ![writer[t].call].status =
                       IF imm = 0 THEN "ok" ELSE "error"]
  /\ UNCHANGED <<mutex, writers, memVars, bgVars, readVars, faults>>

----------------------------------------------------------------------------
(* The background thread: BackgroundCall, from the flush of imm_ or the    *)
(* compaction of level 0 to the end, where it reschedules itself and wakes *)
(* everyone.  A compaction flushes imm_ on its way (bg.nested).            *)

\* Mutant: no SignalAll at the end
EndCallNoSignal(err, immutable, level0) ==
  /\ bg' = NoCompaction
  /\ scheduled' = MaybeSchedule(FALSE, err, immutable, level0)
  /\ signaled' = signaled

\* The end of BackgroundCall
EndCall(err, immutable, level0) ==
  /\ bg' = NoCompaction
  /\ scheduled' = MaybeSchedule(FALSE, err, immutable, level0)
  /\ signaled' = signaled \cup Woken

\* The end of CompactMemTable: return to BackgroundCall, or to
\* DoCompactionWork, which wakes the waiters and goes on
AfterFlush(err, immutable, level0) ==
  IF bg.nested
  THEN /\ bg' = [bg EXCEPT !.pc = "compact", !.nested = FALSE]
       /\ scheduled' = scheduled
       /\ signaled' = signaled \cup Woken
  ELSE EndCall(err, immutable, level0)

\* BackgroundCall and the choice BackgroundCompaction makes
BackgroundCall ==
  /\ bg.pc = "idle" /\ scheduled /\ mutex = NoThread
  /\ \/ /\ bg_error # "ok"
        /\ EndCall(bg_error, imm, l0)
     \/ /\ bg_error = "ok" /\ imm # 0
        /\ bg' = [bg EXCEPT !.pc = "build"]
        /\ UNCHANGED <<scheduled, signaled>>
     \/ /\ bg_error = "ok" /\ imm = 0 /\ l0 >= kL0_CompactionTrigger
        /\ \E n \in 1..l0 : bg' = [bg EXCEPT !.pc = "compact", !.inputs = n]
        /\ UNCHANGED <<scheduled, signaled>>
  /\ UNCHANGED <<mutex, writers, writer, pc, calls, memVars, l0, bg_error,
                 readVars, faults>>

\* DoCompactionWork finds has_imm_ set: it prioritizes the flush
NestedFlush ==
  /\ bg.pc = "compact" /\ imm # 0 /\ mutex = NoThread
  /\ bg' = [bg EXCEPT !.pc = "build", !.nested = TRUE]
  /\ UNCHANGED <<mutex, queueVars, memVars, l0, bg_error, scheduled, readVars,
                 faults>>

\* WriteLevel0Table has built the table: go on to LogAndApply, which
\* releases the lock while it writes the MANIFEST
TableBuilt ==
  /\ bg.pc = "build" /\ mutex = NoThread
  /\ bg' = [bg EXCEPT !.pc = "manifest"]
  /\ UNCHANGED <<mutex, queueVars, memVars, l0, bg_error, scheduled, readVars,
                 faults>>

\* BuildTable or LogAndApply fails: imm_ stays, the error is recorded
FlushFails ==
  /\ bg.pc \in {"build", "manifest"} /\ mutex = NoThread /\ Fault
  /\ bg_error' = "error"
  /\ AfterFlush("error", imm, l0)
  /\ UNCHANGED <<mutex, writers, writer, pc, calls, memVars, l0, readVars>>

\* Mutant: the wrong memtable is taken for flushed
FlushInstalledMem ==
  /\ bg.pc = "manifest" /\ mutex = NoThread
  /\ imm' = 0
  /\ flushed' = flushed \cup {mem}
  /\ bg' = [bg EXCEPT !.pc = "gc"]
  /\ UNCHANGED <<mutex, writers, writer, pc, signaled, calls, last, logs,
                 contents, l0, bg_error, scheduled, readVars, faults>>

\* LogAndApply has installed the new version, with the table in level 0 or
\* in a deeper level; imm_ is dropped.  RemoveObsoleteFiles does nothing
\* after an error, and else releases the lock to delete files
FlushInstalled ==
  /\ bg.pc = "manifest" /\ mutex = NoThread
  /\ imm' = 0
  /\ flushed' = flushed \cup {imm}
  /\ \E inLevel0 \in {0, 1} : l0' = l0 + inLevel0
  /\ IF bg_error = "ok"
     THEN /\ bg' = [bg EXCEPT !.pc = "gc"]
          /\ UNCHANGED <<scheduled, signaled>>
     ELSE AfterFlush(bg_error, 0, l0')
  /\ UNCHANGED <<mutex, writers, writer, pc, calls, last, logs, contents,
                 bg_error, readVars, faults>>

\* RemoveObsoleteFiles is done and has the lock again
FilesRemoved ==
  /\ bg.pc = "gc" /\ mutex = NoThread
  /\ AfterFlush(bg_error, imm, l0)
  /\ UNCHANGED <<mutex, writers, writer, pc, calls, memVars, l0, bg_error,
                 readVars, faults>>

\* DoCompactionWork has written its outputs: InstallCompactionResults
CompactionWritten ==
  /\ bg.pc = "compact" /\ mutex = NoThread
  /\ bg' = [bg EXCEPT !.pc = "install"]
  /\ UNCHANGED <<mutex, queueVars, memVars, l0, bg_error, scheduled, readVars,
                 faults>>

CompactionFails ==
  /\ bg.pc \in {"compact", "install"} /\ mutex = NoThread /\ Fault
  /\ bg_error' = "error"
  /\ EndCall("error", imm, l0)
  /\ UNCHANGED <<mutex, writers, writer, pc, calls, memVars, l0, readVars>>

CompactionInstalled ==
  /\ bg.pc = "install" /\ mutex = NoThread
  /\ l0' = l0 - bg.inputs
  /\ IF bg_error = "ok"
     THEN /\ bg' = [bg EXCEPT !.pc = "gc"]
          /\ UNCHANGED <<scheduled, signaled>>
     ELSE EndCall(bg_error, imm, l0')
  /\ UNCHANGED <<mutex, writers, writer, pc, calls, memVars, bg_error,
                 readVars, faults>>

----------------------------------------------------------------------------
(* DBImpl::Get and NewInternalIterator: the sequence number, memtables and *)
(* version are taken under the lock and read after it is released.         *)

Visible(seq) == {e \in UNION {contents[i] : i \in DOMAIN contents} : e.seq <= seq}

BeginGet(r) ==
  /\ ~reader[r].active /\ mutex = NoThread /\ reads < MaxReads
  /\ reader' = [reader EXCEPT ![r] =
       [active |-> TRUE, snapshot |-> last, mem |-> mem, imm |-> imm,
        files |-> flushed, expect |-> Visible(last)]]
  /\ reads' = reads + 1
  /\ UNCHANGED <<mutex, queueVars, memVars, bgVars, faults>>

\* Mutant: the lookup does not stop at the snapshot's sequence number
SeenUnfiltered(r) ==
  UNION {contents[i] : i \in ({reader[r].mem, reader[r].imm} \ {0})
                               \cup reader[r].files}

\* What r sees in mem, imm and current, now
Seen(r) ==
  LET tables == ({reader[r].mem, reader[r].imm} \ {0}) \cup reader[r].files
  IN  {e \in UNION {contents[i] : i \in tables} : e.seq <= reader[r].snapshot}

\* (That enough seeks can ask for a compaction of another table, UpdateStats and
\* MaybeScheduleCompaction, is the subject of LevelCompaction.)
EndGet(r) ==
  /\ reader[r].active /\ mutex = NoThread
  /\ reader' = [reader EXCEPT ![r] = NoRead]
  /\ UNCHANGED <<mutex, queueVars, memVars, bgVars, reads, faults>>

----------------------------------------------------------------------------
Client(t) ==
  \/ Wake(t) \/ RoomError(t) \/ RoomDelay(t) \/ Slept(t) \/ RoomWait(t)
  \/ RoomWoken(t) \/ RoomSwitch(t) \/ RoomReady(t) \/ AddRecord(t) \/ Sync(t)
  \/ Insert(t) \/ Commit(t) \/ Finish(t) \/ FlushWait(t)
ClientFault(t) == RoomSwitchFails(t) \/ AddRecordFails(t) \/ SyncFails(t)
Background ==
  \/ BackgroundCall \/ NestedFlush \/ TableBuilt \/ FlushInstalled
  \/ FilesRemoved \/ CompactionWritten \/ CompactionInstalled
BackgroundFault == FlushFails \/ CompactionFails

\* Every call has returned and there is no background work left
Quiescent ==
  /\ \A t \in Threads : pc[t] = "idle"
  /\ Len(calls) = MaxCalls /\ reads = MaxReads
  /\ \A r \in Readers : ~reader[r].active
  /\ ~scheduled
  /\ UNCHANGED vars

Next ==
  \/ \E t \in Threads : Enqueue(t) \/ Client(t) \/ ClientFault(t)
  \/ Background \/ BackgroundFault
  \/ \E r \in Readers : BeginGet(r) \/ EndGet(r)
  \/ Quiescent

Spec == Init /\ [][Next]_vars

\* Threads that can run do run; operating-system faults need not happen
Fairness ==
  /\ \A t \in Threads : WF_vars(Client(t))
  /\ WF_vars(Background)
FairSpec == Spec /\ Fairness

----------------------------------------------------------------------------
(* Properties.                                                             *)

Work == [batch : Batches \cup {NullBatch}, sync : BOOLEAN, done : BOOLEAN,
         status : Status, call : Nat, force : BOOLEAN,
         allow_delay : BOOLEAN, last_writer : Nat, group : SUBSET Entry,
         last_sequence : Nat, sync_error : BOOLEAN]
Read == [active : BOOLEAN, snapshot : Nat, mem : Nat, imm : Nat,
         files : SUBSET Nat, expect : SUBSET Entry]

\* The variables keep the shapes DBImpl gives them: mem_ exists at all times,
\* and imm_ is an older memtable than mem_ (DBImpl's members).
TypeOK ==
  /\ mutex \in Threads \cup {NoThread}
  /\ writers \in Seq(Threads)
  /\ writer \in [Threads -> Work]
  /\ pc \in [Threads -> ClientPc]
  /\ signaled \subseteq Threads
  /\ last \in Nat
  /\ logs \in Seq(SUBSET Record)
  /\ contents \in Seq(SUBSET Entry)
  /\ Len(logs) = Len(contents) /\ Len(contents) > 0
  /\ imm \in 0..(Len(contents) - 1)
  /\ flushed \subseteq 1..(Len(contents) - 1)
  /\ l0 \in Nat
  /\ bg_error \in Status
  /\ scheduled \in BOOLEAN
  /\ bg \in [pc : BgPc, inputs : Nat, nested : BOOLEAN]
  /\ reader \in [Readers -> Read]
  /\ calls \in Seq(Call)
  /\ reads \in Nat
  /\ faults \in Nat

\* The places of Write in which a thread is responsible for logging
Leading == {"room", "sleep", "bgwait", "log", "sync", "insert", "relock",
            "finish"}

\* "this thread is currently at the front of the writer queue"
\* (MakeRoomForWrite) from there to the end of Write: hence at most one thread
\* touches log_, mem_ and tmp_batch_ while mutex_ is released.
LeaderIsFront ==
  \A t \in Threads : pc[t] \in Leading => writers # <<>> /\ Head(writers) = t

\* A write that returned OK is in a log record that is whole, and when it
\* asked for sync that record was synced - by whichever thread logged it for
\* the group (BuildBatchGroup must not put a sync write behind a non-sync one).
AckedIsLogged ==
  \A c \in DOMAIN calls :
    calls[c].status = "ok" /\ calls[c].batch # NullBatch /\ calls[c].batch.count > 0
    => \E i \in DOMAIN logs : \E r \in logs[i] :
         /\ Cardinality({e \in r.entries : e.call = c}) = calls[c].batch.count
         /\ r.whole
         /\ calls[c].sync => r.synced

\* Every entry of a write that returned OK is in a memtable that readers are
\* given (mem_, imm_) or in a table, at or below the published sequence number.
AckedIsVisible ==
  \A c \in DOMAIN calls :
    calls[c].status = "ok" /\ calls[c].batch # NullBatch
    => Cardinality({e \in UNION {contents[i] : i \in ({mem, imm} \ {0}) \cup flushed} :
                       e.call = c /\ e.seq <= last}) = calls[c].batch.count

\* Write-ahead logging: whatever is in a memtable is in the log file that was
\* created with it, so that log is enough to rebuild the memtable.
MemtableIsLogged ==
  \A i \in DOMAIN contents : \A e \in contents[i] :
    \E r \in logs[i] : r.whole /\ e \in r.entries

\* Sequence numbers respect real time: the entries of a write come after
\* everything that was published when Write was called.
RealTimeOrder ==
  \A i \in DOMAIN contents : \A e \in contents[i] : e.seq > calls[e.call].after

\* What a reader sees at its sequence number is what was published when it
\* took mem, imm and current, no matter how far a concurrent group insertion,
\* memtable switch or flush has come: no batch is seen in part.
SnapshotIsStable ==
  \A r \in Readers : reader[r].active => Seen(r) = reader[r].expect

\* Background work that exists is scheduled: nothing but an error stops it.
WorkIsScheduled ==
  bg_error = "ok" /\ (imm # 0 \/ l0 >= kL0_CompactionTrigger) => scheduled

\* A thread that waits for background_work_finished_signal_ and has not been
\* signaled waits for a background call that is scheduled and that will signal.
NoStrandedWaiter ==
  \A t \in Threads :
    pc[t] \in {"bgwait", "flushwait"} /\ t \notin signaled => scheduled

\* The write stall bounds level 0: flushes never take it past the stop trigger.
Level0Bounded == l0 <= kL0_StopWritesTrigger

\* The published sequence number never goes back.
LastSequenceGrows == [][last' >= last]_vars

\* Every Write and TEST_CompactMemTable returns, whatever fails on the way.
WritesReturn == \A t \in Threads : pc[t] # "idle" ~> pc[t] = "idle"

=============================================================================
