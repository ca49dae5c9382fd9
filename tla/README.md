# A verification of LevelDB in TLA+

LevelDB is an embedded, ordered key-value store. This project models the parts
of it in which threads, the file system and crashes meet, and the algorithms on
which reads rest (levels, log records, iterators, repair), checks them with TLC
on small instances, and proves with TLAPS, for every number of threads, files and
option values, what matters most about the write path, the background work and
repair.

## The system

A write goes through `DBImpl::Write`: it joins the queue `writers_`; the front
of the queue makes room in the memtable, merges the batches behind it into one
group, appends the group to the log, inserts it into the memtable `mem_` and
wakes the others. A full memtable becomes `imm_`, with a new log beside it, and
the background thread writes it to a table (`CompactMemTable`), and merges
tables into deeper levels (`DoCompactionWork`). Which tables are live is a
`Version`; changes go to the MANIFEST file through `VersionSet::LogAndApply`,
and the file CURRENT names the MANIFEST. `RemoveObsoleteFiles` deletes what no
version, no running job and no recovery needs. After a crash, `DB::Open` reads
CURRENT, the MANIFEST and the logs. Reads take a sequence number, `mem_`,
`imm_` and the current version under `mutex_` and use them without it.

Inventory of the parts (the same list, with sources, is in `PROJECT.json`):

| Part | State | Concurrency and failures | Module |
|---|---|---|---|
| Writer queue, group commit, memtable switch | `writers_`, `mem_`, `imm_`, `log_`, last sequence | client threads, lock released while logging, failing appends and syncs | `WritePath` |
| Background flush and level-0 schedule | `background_compaction_scheduled_`, `bg_error_` | background thread, condition variables | `WritePath` |
| Get and iterators | pinned memtables and version | readers without the lock | `WritePath`, `CrashRecovery`, `LevelCompaction`, `DBIter` |
| Logs, tables, MANIFEST, CURRENT | files and what is synced of them | process and machine crashes between any two steps | `CrashRecovery` |
| Obsolete files | `pending_outputs_`, live versions | deletion after the lock is released | `CrashRecovery` |
| Levels, picking, drop rule | files per level, snapshots | flush inside a compaction, snapshots taken during one | `LevelCompaction` |
| Manual compaction, shutdown, backup lock, work queue of the environment | `manual_compaction_`, `shutting_down_`, `background_work_queue_` | several callers, databases and destructors | `BackgroundWork` |
| Log record format | blocks, fragments, reader state | cut, torn and damaged files, failing reads | `LogFormat` |
| Skip list | links of each node, `max_height_` | one writer, lock-free readers, release and acquire | `SkipList` |
| LRU cache, table cache, file limits | reference counts, lists, counters | threads that find, use, erase and prune; failing opens | `TableCache` |
| DBIter, merging, two-level and block iterators | position and direction | a writer filling the memtable, unreadable blocks | `DBIter`, `BlockIter` |
| Repair | the directory and `lost/` | failing file operations, a kill between any two | `Repair` |
| Bytes of tables and blocks, wrappers, vendored code | | | not modelled (see below) |

## Modules

* `WritePath` - the writer queue, group commit, the memtable wait, the
  background call, and readers. One action is one critical section of `mutex_`
  or one piece of work outside it; `mutex` names a thread that keeps the lock
  from one action to the next.
* `CrashRecovery` - the files of a database, everything that changes them, the
  two kinds of crash and recovery.
* `BackgroundWork` - the work queue that all databases of a process share, the
  branches of a background call, manual compactions, the destructor and the lock
  of the backup.
* `LevelCompaction` - levels of tables, where a memtable goes, what a compaction
  takes and drops, and what `Get` finds; refines `AbstractStore`, a map with
  snapshots.
* `LogFormat` - `log::Writer` and `log::Reader` over the bytes of a file.
* `SkipList` - the list under a memtable, with the memory order of its atomics.
* `TableCache` - one shard of the LRU cache, the table cache above it and the
  limiters of `env_posix.cc` below it.
* `BlockIter` - a block with its restart points and the iterator over it.
* `DBIter` - the iterators of a database read above it; refines
  `AbstractIterator`, a walk over a fixed set of pairs.
* `Repair` - `RepairDB`.
* `MC...` - the instances TLC checks.
* `WritePath_proofs`, `WritePathCalls_proofs` - inductive invariants of
  `WritePath` and the lemmas that each action keeps them; `WritePath_theorems`
  draws the theorems from them. `BackgroundWork_proofs` and
  `BackgroundWork_theorems` are divided in the same way; `Repair_proofs` has both.

### WritePath and the code

`pc[t]` is where client thread `t` is in `DBImpl::Write`:

| `pc` | in the code | actions |
|---|---|---|
| `idle` | outside | `Enqueue` |
| `wait` | `w.cv.Wait()` | `Wake` |
| `room` | the loop of `MakeRoomForWrite`, lock held | one action per branch: `RoomError`, `RoomDelay`, `RoomReady`, `RoomWait`, `RoomSwitch`, `RoomSwitchFails` |
| `sleep`, `bgwait` | the 1 ms sleep; `background_work_finished_signal_.Wait()` | `Slept`, `RoomWoken` |
| `log`, `sync`, `insert` | between `mutex_.Unlock()` and `mutex_.Lock()` | `AddRecord(Fails)`, `Sync(Fails)`, `Insert` |
| `relock`, `finish` | the rest of `Write` | `Commit`, `Finish` |
| `flush`, `flushwait` | the second half of `TEST_CompactMemTable` | `FlushWait` |

`bg.pc` is where the background call is: `BackgroundCall` chooses between the
flush of `imm_` and a compaction of level 0, a compaction flushes `imm_` on its
way (`NestedFlush`), and `EndCall` is the end of `BackgroundCall`, which
schedules the next call and wakes everyone. Abstractions: a batch is a number
of entries and a size; memtable `i` and log `i` are created together; the level
a flush writes to is chosen freely (level 0 or deeper); the need for a
compaction is the number of level-0 files, so that the seeks of `Get` ask for none;
batches are those `WriteBatch` builds, which `InsertInto` accepts; a spurious wakeup
finds nothing to do and waits again, a stuttering step.

### CrashRecovery and the code

Log and MANIFEST files are sequences of items, each whole or torn, with the
length that was synced. `ProcessCrash` keeps what the process wrote;
`MachineCrash` keeps any prefix that includes what was synced, and may tear the
next item. `db` is the memory of the process. `LogAndApply` is five steps
(`LaAppend`, `LaComplete`, `LaSync`, `LaCurrent`, `LaInstall`) with its failure
`LaFails`. `Readable` and `Resumed` say what `log::Reader` makes of a torn
record: at the end of a file it is the end of the log; in the middle the rest of
its block is dropped, so a part of what follows may be lost.

Assumptions about what is outside the repository's control: syncing a log makes
its directory entry durable; renames and deletions become durable in order. A
MANIFEST's snapshot and the first edit are one record; the tables made from one
replayed log are one table; `paranoid_checks` is off. A compaction keeps all the
entries of its inputs: what it may drop is a matter of keys and snapshots.

### BackgroundWork and the code

`worker.pc` is where the environment's thread is: looking at its queue (`idle`),
in `background_work_cv_.Wait()` (`wait`), before and after `g_mutex_bgwork`
(`got`, `unlock`), at the start of `BackgroundCall` (`call`), in a flush
(`flush`), in `DoCompactionWork` (`work`) or in the flush inside it (`nested`).
`call[c]` is a call of `CompactRange` with its `ManualCompaction`: `mem` and
`memwait` are `TEST_CompactMemTable`, `range` and `wait` are
`TEST_CompactRange`. `crashed` is the use of a null `manual_compaction_`.
Tables are counted per level and part of the key space. `todo` is a history
variable: the tables of the level that a call still has to see compacted.
Abstractions: calls are for the whole key space; a memtable covers one part; the
size of level 0 alone asks for automatic compactions; a database is deleted only
when no call on it is running, as the interface demands; the databases are open
from the start, since `DB::Open`, which writes and deletes files without
`g_mutex_bgwork`, is in `CrashRecovery`; the forced memtable switch of
`TEST_CompactMemTable` is in `WritePath`.

### LevelCompaction and the code

`Write` adds one entry to `mem`; a flush places the table of `imm` where
`PickLevelForMemTableOutput` says. A compaction is picked by size, by seeks or by
hand, takes its inputs as `SetupOtherInputs` and `AddBoundaryInputs` do, and is
either a trivial move or a job. The job remembers what `DoCompactionWork` decided
under the lock (inputs, `input_version_`, `smallest_snapshot`); writes, snapshots
and flushes then happen before it installs its outputs. `Get` is the search
through `mem_`, `imm_`, level 0 by age and one table per deeper level (`FindFile`
as a binary search would find it). Abstractions: sizes, scores and
`compact_pointer_` are free choices, and so is where an output is cut. `Admits`
bounds the writes, and the snapshots they are combined with.

### LogFormat and the code

The file is a sequence of bytes that know which header or record they are part
of; `AddRecord` writes one fragment per step (`EmitPhysicalRecord`), so that a
crash or a failing write may fall anywhere in it. The reader has one action per
round of `ReadRecord` and follows `ReadPhysicalRecord`, the initial offset, the
resynchronisation and `scratch`. A checksum detects everything the writer did not
write.

### SkipList and the code

All stores are in `log`, in order (writers are serialised). A reader has a `view`,
the prefix it must have seen; a load returns the last store of a location in the
view or any later one, and an acquire of a release extends the view. A field that
was never stored in the view may hold `Garbage`. `Insert` stores link by link;
`SearchStep` is one load of a search, so that both interleave at every access.

### TableCache and the code

One action is one critical section of the shard's mutex or one atomic operation of
a `Limiter`; opening a table, its failures and the destructor of an evicted file
are included. `Prune` and `Erase` may come at any time. The hash table is a
function, and the sixteen shards, which share nothing, are one.

### DBIter and the code

`two`, `merge` and `it` are the members of `TwoLevelIterator`, `MergingIterator`
and `DBIter`. One action is one round of a loop of `DBIter`; the writer may add an
entry between rounds, and between the two looks at the memtable when `Prev`
changes direction. Some blocks may be unreadable. The initial states are all ways
to spread the entries over memtable and blocks, with every separator an index key
may be, and a restart point at every second entry. `BlockIter` follows
`Block::Iter`, whose `Seek` starts from where the iterator was left. Read sampling, which only schedules compactions, is left out.

### Repair and the code

`rp.pc` follows `Repairer::Run`: `FindFiles`, `ConvertLogFilesToTables`,
`ExtractMetaData` with `RepairTable`, `WriteDescriptor`. A file is what can be read
from it; tables are good, damaged or unfinished at first. `Crash` kills the
process; what was written stays (a machine crash is not modelled here: repair
syncs neither its copies nor the descriptor). Two faults in one step (`GetFileSize`
and then `ArchiveFile`) are not modelled.

## What TLC checks

Passing runs:

| Run | Bounds | Distinct states | Shows |
|---|---|---|---|
| `write_path` | 3 threads, 3 calls, 1 reader, batches of 2 entries, with and without sync, 1 fault, triggers 1/1/2 | 1,164,106 | a single leader; acknowledged writes are logged (and synced if asked), inserted and visible; write-ahead logging; sequence numbers in real-time order; waiters are woken; level 0 is bounded; a reader sees exactly what was published when it began |
| `write_path_live` | 3 threads, 3 calls, 1 fault, every write sleeps and stalls | 114,892 | every call returns; the last sequence never goes back |
| `crash` | 2 writes, 1 switch, 1 compaction, 1 iterator, `reuse_logs` on and off, 2 accidents: at most 1 process crash, 1 machine crash, 1 failing operation (of a write, a flush, a compaction, the MANIFEST or `Open`) | 2,279,492 | `Open` succeeds and acknowledged writes survive as `WriteOptions` promises, outside the damage described under "Disagreements"; live tables exist; disk covers memory; sequence and file numbers are fresh |
| `background` | 2 databases, 2 callers, 2 parts, 3 levels, 1 memtable, 1 fault of any kind, 1 backup | 1,101,334 | no work for a destroyed database, queued work is not slept over, files stand still during a backup, a finished manual compaction has moved every table of its level |
| `background_live` | the same with 1 caller and 1 call | 95,012 | `CompactRange` and the destructors return |
| `levels` | 3 levels; 2 keys, 3 writes or deletions and 1 snapshot, or 3 keys and 5 values, 2 of them for each outer key | 226,160 | levels stay disjoint, newer entries stay above older ones, and only writes change what a read at any snapshot returns (`ImplementsStore`, a refinement of `AbstractStore`) |
| `skiplist` | 3 keys, height 2, 2 operations of a reader | 87,069 | no uninitialised field is followed, no key a reader must see is skipped, searches end |
| `cache` | 2 threads, 4 tables, capacity 0 to 3, 1 map, 1 descriptor | 575,485 | references, lists and usage agree, handles stay valid, the cache is bounded, limits neither leak nor overrun |
| `iter` | 2 keys, 3 entries at first and 1 added, 2 targets, 1 unreadable block | 904,332 | the iterators walk over the snapshot in both directions or report an error (`WalksSnapshot`, a refinement of `AbstractIterator`) |
| `log` | blocks of 7 bytes, headers of 3, 3 records of 5 lengths, 1 fault, any initial offset | 309,705 | only whole records are returned, once and in order; damage costs one block; a cut log is read without a report |
| `repair` | 2 logs, 2 tables in every state, 1 descriptor, 1 fault, 2 kills | 3,426,610 | nothing readable is destroyed; a finished repair opens, reuses no number, and holds everything that could be read |

Why these bounds are enough to meet the interesting cases: three threads are
the fewest that have a leader, a member of its group and a next leader at once;
three calls fill the memtable twice, so that a switch meets an unfinished
flush; a stop trigger of 2 with a compaction trigger of 1 lets a writer wait
while a compaction runs with a flush inside it. One switch and one compaction
give every kind of file a predecessor; two crashes let the second hit a
recovery. Two parts and three levels let a manual compaction go piecewise and
over two levels; two databases let one wait behind the work of the other. Two
keys and three writes give a key an old and a new entry, one of them deleted, in
two levels, and a neighbour that shares their table. Five values of three keys are
the fewest with which an automatic compaction takes two tables of a level and a
memtable falls between them: one table below with both outer keys, one table for
each of them above it, and the memtable. Records of 0, 1, 2, 4 and 9
bytes end at, just before and just behind a block of 7, or span three. More tables
than threads make the cache evict; one map and one descriptor make every limiter
fail. The two repairs that are killed let the third find what both left behind.

In `crash`, a choice of `reuse_logs` is made only while another accident may
follow: what matters about a file that is appended to is what the next recovery
makes of it.

Larger instances pass too and are not part of the set because of the time they
take: `write_path` with batches of 1 and 2 entries (3,269,466 states), `levels`
with any 5 values of 3 keys (938,402 states), `iter` with restart intervals 1 and
2 (1,808,944 states). Before their modules got their last additions (failing
reads in `log`, failing openings and the bound on `reuse_logs` in `crash`, a second
file name in `cache`), so did `log` with 2 faults (11.8 million states), `crash`
without the limit of 2 accidents (31.4 million) and `cache` with 3 threads (967,807).

Fairness (`write_path_live`): weak fairness of each client thread and of the
background thread, which stands for the operating system running threads that
can run. Every action of a thread needs the lock at most for a moment, the lock
is never held across a wait, and faults are never forced. A waiting thread is
enabled only when it was signalled, so that a lost wakeup is a violation. The
same holds in `background_live`, where a backup is also assumed to end. With
ever more callers and writers one caller could be overtaken for ever; the bounds
on calls and memtables exclude that, so `CallsReturn` is about lost wakeups and
not about starvation. Deadlock is not checked in the runs of `BackgroundWork`,
since every thread may have returned while the background thread waits. In
`skiplist` the steps of a search are weakly fair: nothing can block a reader.
`levels`, `skiplist`, `log` and `repair` may stop when their bounds are used up
or, in the last two, when the file is read or the repair has returned.

## Disagreements between the code and what it says of itself

One has a run. `levels_nested` finds `LevelsDisjoint` violated: the tables that a
manual compaction takes from a level need not be adjacent, a memtable that
`DoCompactionWork` flushes on its way may be placed into the gap at the output
level, and the output then spans it, where `MaybeAddFile` says "Must not overlap".
An automatic compaction starts from one table, or from overlapping ones of level 0,
and where it takes more of the level, its inputs from the next level cover the gap.
`levels` checks that with flushes inside automatic compactions: with five values of
three keys it meets a memtable that falls strictly between two tables such a
compaction takes. Larger gaps, with more tables on both sides, rest on the argument.

The others have a configuration that is not among the runs (`tlc -config X.cfg M`
shows the counterexample), and the passing runs exclude exactly the damage they do:

| Configuration | What happens |
|---|---|
| `MCCrashOrder` (`MCCrash`) | `MakeRoomForWrite` (`db/db_impl.cc:1376`) closes the old log unsynced: after a machine crash a synchronous write is there and an earlier write is not (`SyncWriteCoversEarlier`), against the hybrid scheme of `doc/index.md:120-122` |
| `MCCrashAppend` (`MCCrash`) | a failed append (`db/db_impl.cc:1234`) records no background error, and later writes, synchronous ones too, are acknowledged behind a torn record and lost (`AckedSurvives`), against `include/leveldb/options.h:179-181` |
| `MCCrashManifestError` (`MCCrash`) | a flush inside a compaction fails on the MANIFEST, and the compaction appends its edit behind the torn record (`db/db_impl.cc:931`); `Open` then fails (`RecoverySucceeds`), against "Already got an error; no more changes" (`db/db_impl.cc:671`) |
| `MCBackgroundManual` (`MCBackground`) | a background error during a manual compaction makes its caller cancel it, and `BackgroundCompaction` then uses the null `manual_compaction_` (`ManualStillThere`) |

What the `crash` run leaves out is recorded in the history variable `tainted`:
writes logged behind a torn record, and everything once a MANIFEST was written or
reused behind a torn or unsynced record. `AckedUnlessTainted`,
`RecoversUnlessTainted` and `DiskCoversMemory` say nothing about those, so they are
weaker than `AckedSurvives` and `RecoverySucceeds`, which the code does not meet.
`ManualCompletes` in the same way says nothing once the database has an error.

More show in the models:

* `reuse_logs` appends to a log, and to a MANIFEST, behind the torn record of a
  killed process, and to a MANIFEST whose last record was never synced; a second
  crash can then lose acknowledged writes or make `Open` fail.
* `TEST_CompactMemTable` may return OK while the memtable it was to compact is
  still `mem_`, when another leader absorbed its null batch (`BuildBatchGroup`).
* `log::Reader` with an initial offset inside the first fragment of a record
  skips that fragment, which ends the resynchronisation, and then reports the
  next fragment of an intact file as a corruption (`NoFalseReports` in
  `LogFormat`, with `MaxFaults = 0`). `DB::Open` and `RepairDB` always read from 0.
* `RepairTable` moves its source to `lost/` before the copy is finished,
  although it says "We will copy src contents to a new table and then rename the
  new table over the source": a kill in between leaves the data in `lost/` only
  (`exposed`, which `RepairKeepsData` excludes).
* `ArchiveFile` (`db/repair.cc:408`) renames a file over one of the same name that
  is in `lost/` already. After a failed operation and another repair a file number
  can be given out twice, and the archived file, which may hold the only copy of a
  write, is then replaced (`MCRepairReplaced` with `MCRepair`: `NothingGone`).
  `NothingDestroyed` excludes exactly that: while no file operation fails nothing
  readable is ever gone, however often the repair is killed, and where one fails
  nothing is gone before such a replacement.
* `ConvertLogToTable` says "We intentionally make log::Reader do checksumming" and
  passes `false /*do not checksum*/`. A log that cannot be converted is archived
  all the same.
* The numbers of descriptors do not count in `FindFiles` (`db/repair.cc:112`): where
  there are neither logs nor tables the repaired database starts with file number 1,
  and the next `Open` writes its new MANIFEST over the one CURRENT names.
* A repaired database has all tables in level 0, where `Get` goes by file
  number: the table of a copy or of an old log can hide a newer value. `Repair`
  therefore claims that the writes are there, not that `Get` returns the latest.

## What is proved

`WritePath_theorems` states, from the assumptions on the constants in `WritePath`
(`NoThread` is no thread, batches are counted, `kL0_CompactionTrigger` is at
most `kL0_StopWritesTrigger`):

* `TypeCorrect`: `Spec => []TypeOK`;
* `SingleLeader`: `Spec => []LeaderIsFront`;
* `WriteAheadLogging`: `Spec => []MemtableIsLogged`;
* `NoLostWork`: `Spec => [](WorkIsScheduled /\ NoStrandedWaiter)`;
* `StallBoundsLevel0`: `Spec => []Level0Bounded`;
* `SequenceGrows`: `Spec => LastSequenceGrows`.

They follow from one inductive invariant, `IInv` of `WritePath_proofs`,
of five parts. `BgInv`: the
background call flushes only while `imm_` exists, the inputs of a compaction
stay in level 0 until it ends, and while `imm_` exists there is room for one
more level-0 file - the last is why testing the stop trigger at the switch is
enough. `QueueInv`: the leader is at the front, its group is a prefix of the
queue and ends at or after the published sequence number, and who waits and is
not done is in the queue - without the last part, a woken writer could find an
empty queue. `ScheduleInv` is `WorkIsScheduled` and `NoStrandedWaiter`.
`LogInv` adds to `MemtableIsLogged` that the group a leader is inserting is in
a whole record of the newest log; it needs `QueueInv`, since a second leader
could switch the log in between. `TypeOK` itself needs the others: the group
being a part of the queue keeps the woken threads threads, and the inputs being
in level 0 keeps its length a natural number. Each part has a lemma with one
step per action.

`WritePathCalls_proofs` goes on from `IInv` to what a call of `Write` leaves
behind:

* `AcknowledgedIsLogged`: `Spec => []AckedIsLogged`;
* `AcknowledgedIsVisible`: `Spec => []AckedIsVisible`;
* `SequencesFollowTime`: `Spec => []RealTimeOrder`;
* `SnapshotReads`: `Spec => []SnapshotIsStable`.

The invariant `CInv` follows a call from the queue to its return. `MemberInv`
and `CallInv`: a thread is in the queue once, everyone behind the front waits
and is not done, and a thread in `Write` works for a call of its own that is
pending. `OrderInv`: the entries of a group are numbered above `LastSequence`
and belong to the writers of the group. `StoreInv`: nothing is stored of a call
before it is in a group, all of it is stored or still in the group from then on,
and all of it is stored and published when the leader says done; the count is of
sets, so the proof needs that the entries of the batches of a group are numbered
apart. `KeptInv`: the group is in one whole record, synced if any writer of the
group asked for it, which is the rule of `BuildBatchGroup`. `CoverInv`: the
memtables that readers are given and the tables are all there are, since a
flush clears `imm_` only when the table is there. `ReadInv` is
`SnapshotIsStable` and what a reader holds; it needs `OrderInv`, because a group
that is inserted while the reader looks must be above its snapshot.

`BackgroundWork_proofs` proves, for any databases, callers, levels and parts of
the key space. Its assumptions are those of `BackgroundWork`: there is a
database; callers are not databases, and `NoCaller` is no caller; parts are
positive numbers; there are at least three levels, and a flush places its table
above the last; the levels that are found at first are not due for a compaction
and have at most one table for a part below level 0. It shows:

* `NothingRunsOnDestroyed`: `Spec => []NoWorkOnDestroyed`;
* `ThreadAwake`: `Spec => []WorkerAwake`;
* `ManualCompactionsComplete`: `Spec => []ManualCompletes`;
* `WaitersAreServed`: everyone who waits on `background_work_finished_signal_`
  was signalled, or has a background call queued or running that will signal;
* `BackupsAreConsistent`: `Spec => BackupSeesOneVersion`.

`QueueInv`: `background_compaction_scheduled_` says that exactly one call of the
database is queued or running. `WaitInv`: work that there is has been scheduled,
and so has what anyone waits for who was not signalled. `ManualInv`:
`manual_compaction_` points to a compaction whose caller waits for it.
`FilesInv`: the inputs of a compaction stay in their level until it ends, and
below level 0 a part has one table. `TodoInv`: what a caller has still to
compact is in its level and not before where it got to (`Pending`), and the
piece that is being compacted takes in all of it up to the end of the piece
(`PieceInv`), unless an error cancelled the compaction. The last case is why
`PieceInv` is needed beside `ManualCompletes`: `BackgroundCompaction` moves
`begin` to the end of the piece without looking at what was in it. That
`manual_compaction_` may be null there is what `MCBackgroundManual` shows; in the
model the background thread then stops in the state "crashed", and the theorems
cover the behaviours that end so too.

`Repair_proofs` proves, for any logs, tables, descriptors, failures and kills
(the assumptions of `Repair`: logs and tables have different numbers, they are
finitely many, and so are their writes, and no table that is there at first is empty):

* `DestroysNothing`: `Spec => []NothingDestroyed`;
* `Opens`: `Spec => []RepairedOpens`;
* `KeepsData`: `Spec => []RepairKeepsData`.

The inductive invariant has nine parts. `FreshInv`: no file has a number the repair
is still to give out. `WorkInv` and `CopyInv`: what is still to be done is in the
directory, and the source of a copy, or what `lost/` has of it, holds what is to be
saved, and the copy does once it is finished. `ListInv` and `ManifestInv`: the
tables that were kept are good and no write in them is above the number recorded
for them; they give `Opens`. `OnceInv`: while no file operation fails, a name is
archived once, since a number in `lost/` is at most that of a table that stays;
`GoneInv` then says that nothing readable is gone. `DataInv` follows each readable
write from a log or a table to the list of the repair. A repair restarts with
numbers above what it finds, and finding the largest is where the proofs need that
finite sets of numbers are bounded.

Only model-checked: liveness (`write_path_live`, `background_live`); the two
refinements; `ManualStillThere`, which does not hold; everything about the other
modules. `BlockIter` and `DBIter` have RECURSIVE operators, which the prover
cannot take.

## Not modelled

* The bytes of tables, blocks and filters (`table/`, `util/bloom.cc`): key
  compression, handles, footers, checksums and filters are sequential encodings
  without state that outlives a call.
* The encoding of memtable entries, write batches and version edits, the arena,
  comparators, coding, hashing, status, histograms: pure conversions. A varint
  round trip could be an operator checked against a reference.
* The lock table and the Windows and in-memory environments.
* Statistics and `GetApproximateSizes`; the sizes, scores and pointers that steer
  the choice of a compaction, which `LevelCompaction` leaves free.
* The C and Java wrappers, apart from the lock of the backup.
* Snappy, crc32c, the test frameworks, `jni.h`, tests and benchmarks. They are most
  of the lines under `src/`, so that the mapped lines are a small share of all lines
  although they are the core of the store.

## What could come next

Proofs about `TableCache` (an entry is freed exactly when nothing refers to it)
and of the drop rule of `LevelCompaction`; `CrashRecovery` shown to implement a durable `AbstractStore`; the
file-number invariants for every bound.
