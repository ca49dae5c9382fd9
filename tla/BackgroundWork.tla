--------------------------- MODULE BackgroundWork ---------------------------
(***************************************************************************)
(* Who runs background work and who waits for it: the work queue of the    *)
(* environment with its single thread, which all databases of a process    *)
(* share; BackgroundCall and BackgroundCompaction; manual compactions      *)
(* (CompactRange, TEST_CompactRange); the destructor of a database; and    *)
(* the backup of util/jni.cc, which keeps background work out with         *)
(* g_mutex_bgwork.                                                         *)
(*                                                                         *)
(* One action is one critical section of mutex_, or one step of a thread   *)
(* without it.  Tables are abstracted to the part of the key space they    *)
(* cover: files[l][k] is the number of tables of level l that cover part   *)
(* k; only level 0 may have more than one.  Waiters of                     *)
(* background_work_finished_signal_ run only when woken, and a spurious    *)
(* wakeup, which waits again, is a stuttering step.                        *)
(***************************************************************************)
EXTENDS Integers, Sequences, FiniteSets, Functions

CONSTANTS
  DBs,            \* databases opened by the process
  Callers,        \* threads that call CompactRange
  NoCaller,       \* manual_compaction_ == nullptr
  Parts,          \* parts of the key space, 1..n, in key order
  MaxLevel,       \* the deepest level
  MaxMemCompactLevel, \* config::kMaxMemCompactLevel
  Trigger,        \* config::kL0_CompactionTrigger
  FaultKinds,     \* which operations may fail: "flush", "nested", "work", "sync"
  MaxWrites,      \* bound: memtables filled
  MaxFaults,      \* bound: failures
  MaxCalls,       \* bound: calls of CompactRange
  MaxBackups,     \* bound: backups
  InitFiles       \* what the levels hold when the databases are opened

Levels == 0..MaxLevel

ASSUME BackgroundAssumption ==
  /\ DBs # {} /\ DBs \cap Callers = {} /\ NoCaller \notin Callers
  /\ Parts \subseteq Nat \ {0}
  /\ MaxLevel \in Nat /\ MaxLevel >= 2
  /\ MaxMemCompactLevel \in 0..MaxLevel - 1
  /\ InitFiles \subseteq [Levels -> [Parts -> Nat]]
  /\ \A f \in InitFiles :
       /\ ~(SumFunction(f[0]) >= Trigger)
       /\ \A l \in 1..MaxLevel, k \in Parts : f[l][k] <= 1

VARIABLES
  db,      \* db[d]: the fields of a DBImpl
  queue,   \* background_work_queue_
  workcv,  \* background_work_cv_ was signalled and its waiter has not run yet
  worker,  \* the background thread of the environment
  bgwork,  \* who holds g_mutex_bgwork
  call,    \* call[c]: a call of CompactRange and its ManualCompaction
  woken,   \* callers and destructors whose wait was signalled
  used     \* how much of the bounds is used

vars == <<db, queue, workcv, worker, bgwork, call, woken, used>>

NoFiles == [k \in Parts |-> 0]

NoCall == [pc |-> "idle", db |-> CHOOSE d \in DBs : TRUE, level |-> 0, max |-> 1,
           done |-> FALSE, begin |-> 1, todo |-> NoFiles]

NoJob == [pc |-> "idle", db |-> CHOOSE d \in DBs : TRUE, manual |-> FALSE,
          level |-> 0, inputs |-> NoFiles, end |-> 1]

Init ==
  /\ db \in [DBs -> {[life |-> "open", scheduled |-> FALSE, error |-> FALSE,
                      imm |-> FALSE, manual |-> NoCaller, files |-> f] : f \in InitFiles}]
  /\ queue = << >>
  /\ workcv = FALSE
  /\ worker = NoJob
  /\ bgwork = "none"
  /\ call = [c \in Callers |-> NoCall]
  /\ woken = {}
  /\ used = [writes |-> 0, faults |-> 0, calls |-> 0, backups |-> 0]

-----------------------------------------------------------------------------
(* Scheduling and waking *)

\* The size of level 0 stands for the scores of all levels.
NeedsCompaction(r) == SumFunction(r.files[0]) >= Trigger

\* MaybeScheduleCompaction schedules a call.
Schedules(r) ==
  /\ ~r.scheduled
  /\ r.life = "open"
  /\ ~r.error
  /\ r.imm \/ r.manual # NoCaller \/ NeedsCompaction(r)

\* Mutant: signals only when the queue already holds work
ScheduleSignalsLate(d, r) ==
  /\ db' = [db EXCEPT ![d] = [r EXCEPT !.scheduled = @ \/ Schedules(r)]]
  /\ queue' = IF Schedules(r) THEN Append(queue, d) ELSE queue
  /\ workcv' = (workcv \/ (Schedules(r) /\ queue # << >> /\ worker.pc = "wait"))

\* Leave database d with fields r after MaybeScheduleCompaction; a call is
\* appended to the queue, and the waiting thread signalled if it was empty.
MaybeSchedule(d, r) ==
  /\ db' = [db EXCEPT ![d] = [r EXCEPT !.scheduled = @ \/ Schedules(r)]]
  /\ queue' = IF Schedules(r) THEN Append(queue, d) ELSE queue
  /\ workcv' = (workcv \/ (Schedules(r) /\ queue = << >> /\ worker.pc = "wait"))

\* background_work_finished_signal_.SignalAll()
Waiting(d) ==
  {c \in Callers : call[c].db = d /\ call[c].pc \in {"memwait", "wait"}}
    \cup {x \in {d} : db[d].life = "closing"}

Failing(r) == [r EXCEPT !.error = TRUE]

\* RecordBackgroundError wakes the waiters at the first error only.
ErrorWakes(d) == IF db[d].error THEN woken ELSE woken \cup Waiting(d)

CanFail(kind) == kind \in FaultKinds /\ used.faults < MaxFaults

CountFault(failed) == used' = [used EXCEPT !.faults = IF failed THEN @ + 1 ELSE @]

-----------------------------------------------------------------------------
(* Writers: the parts of Write that concern the background work *)

\* MakeRoomForWrite makes the full memtable imm_.
FillMemtable(d) ==
  /\ db[d].life = "open" /\ ~db[d].imm /\ ~db[d].error
  /\ used.writes < MaxWrites
  /\ MaybeSchedule(d, [db[d] EXCEPT !.imm = TRUE])
  /\ used' = [used EXCEPT !.writes = @ + 1]
  /\ UNCHANGED <<worker, bgwork, call, woken>>

\* A failed sync of the log makes all later writes fail.
SyncFails(d) ==
  /\ db[d].life = "open" /\ CanFail("sync")
  /\ db' = [db EXCEPT ![d] = Failing(@)]
  /\ woken' = ErrorWakes(d)
  /\ CountFault(TRUE)
  /\ UNCHANGED <<queue, workcv, worker, bgwork, call>>

-----------------------------------------------------------------------------
(* The background thread of the environment *)

\* BackgroundThreadMain looks at the queue, and waits if it is empty.
TakeWork ==
  /\ worker.pc = "idle" \/ (worker.pc = "wait" /\ workcv)
  /\ workcv' = FALSE
  /\ IF queue = << >>
       THEN /\ worker' = [worker EXCEPT !.pc = "wait"]
            /\ queue' = queue
       ELSE /\ worker' = [NoJob EXCEPT !.pc = "got", !.db = Head(queue)]
            /\ queue' = Tail(queue)
  /\ UNCHANGED <<db, bgwork, call, woken, used>>

\* Mutant: does not take g_mutex_bgwork
BGWorkUnlocked ==
  /\ worker.pc = "got"
  /\ bgwork' = bgwork
  /\ worker' = [worker EXCEPT !.pc = "call"]
  /\ UNCHANGED <<db, queue, workcv, call, woken, used>>

\* BGWork takes g_mutex_bgwork.
BGWork ==
  /\ worker.pc = "got" /\ bgwork = "none"
  /\ bgwork' = "worker"
  /\ worker' = [worker EXCEPT !.pc = "call"]
  /\ UNCHANGED <<db, queue, workcv, call, woken, used>>

\* Mutant: schedules again although the database is closing
EndCallKeepsGoing(r) ==
  /\ LET s == [r EXCEPT !.scheduled = FALSE]
         again == ~s.error /\ (s.imm \/ s.manual # NoCaller \/ NeedsCompaction(s))
     IN /\ db' = [db EXCEPT ![worker.db] = [s EXCEPT !.scheduled = again]]
        /\ queue' = IF again THEN Append(queue, worker.db) ELSE queue
        /\ workcv' = workcv
  /\ woken' = woken \cup Waiting(worker.db)
  /\ worker' = [NoJob EXCEPT !.pc = "unlock", !.db = worker.db]

\* The end of BackgroundCall, with the fields r of the database.
EndCall(r) ==
  /\ MaybeSchedule(worker.db, [r EXCEPT !.scheduled = FALSE])
  /\ woken' = woken \cup Waiting(worker.db)
  /\ worker' = [NoJob EXCEPT !.pc = "unlock", !.db = worker.db]

\* BGWork releases g_mutex_bgwork; the database may be gone by now.
BGWorkEnds ==
  /\ worker.pc = "unlock"
  /\ bgwork' = "none"
  /\ worker' = [worker EXCEPT !.pc = "idle"]
  /\ UNCHANGED <<db, queue, workcv, call, woken, used>>

-----------------------------------------------------------------------------
(* BackgroundCall and BackgroundCompaction *)

\* Nothing is done while the database is closing or after an error.
CallSkips ==
  /\ worker.pc = "call"
  /\ db[worker.db].life # "open" \/ db[worker.db].error
  /\ EndCall(db[worker.db])
  /\ UNCHANGED <<bgwork, call, used>>

\* BackgroundCompaction runs, and d is its database.  It always finds work: what
\* the call was scheduled for is still there, unless an error cancelled it.
Runs(d) == worker.pc = "call" /\ d = worker.db /\ db[d].life = "open" /\ ~db[d].error

StartFlush(d) ==
  /\ Runs(d) /\ db[d].imm
  /\ worker' = [worker EXCEPT !.pc = "flush"]
  /\ UNCHANGED <<db, queue, workcv, bgwork, call, woken, used>>

\* PickLevelForMemTableOutput, for a memtable that covers part k; a large
\* overlap two levels down keeps the table where it is.
MayFlushTo(files, k, l) ==
  /\ l = 0 \/ files[0][k] = 0
  /\ \A j \in 1..l : files[j][k] = 0
  /\ \/ l = MaxMemCompactLevel
     \/ files[0][k] > 0
     \/ files[l + 1][k] > 0
     \/ l + 2 \in Levels /\ files[l + 2][k] > 0

\* CompactMemTable after the table is built: imm_ becomes a table, or an error is
\* recorded, that of the write or that of a shutdown.  A shutdown which begins
\* after it was asked for, while LogAndApply runs, no longer keeps the table out.
Flushed(r, k, l, failed) ==
  IF failed
    THEN Failing(r)
    ELSE [r EXCEPT !.imm = FALSE, !.files[l][k] = @ + 1]

Flush(d) ==
  /\ worker.pc = "flush" /\ d = worker.db
  /\ \E k \in Parts, l \in 0..MaxMemCompactLevel, failed \in BOOLEAN :
       /\ MayFlushTo(db[d].files, k, l)
       /\ failed => CanFail("flush") \/ db[d].life # "open"
       /\ CountFault(failed /\ db[d].life = "open")
       /\ EndCall(Flushed(db[d], k, l, failed))
  /\ UNCHANGED <<bgwork, call>>

\* VersionSet::CompactRange: the tables of the level from begin on, or, below
\* level 0, a first part of them of limited size.
RangeInputs(files, l, begin) == {k \in Parts : k >= begin /\ files[l][k] > 0}

\* Mutant: m->done is not set
ManualDoneForgotten(d) ==
  /\ Runs(d) /\ ~db[d].imm /\ db[d].manual # NoCaller
  /\ LET m == db[d].manual
     IN RangeInputs(db[d].files, call[m].level, call[m].begin) = {}
  /\ EndCall([db[d] EXCEPT !.manual = NoCaller])
  /\ UNCHANGED <<bgwork, call, used>>

\* A manual compaction finds nothing left to do.
ManualDone(d) ==
  /\ Runs(d) /\ ~db[d].imm /\ db[d].manual # NoCaller
  /\ LET m == db[d].manual
     IN /\ RangeInputs(db[d].files, call[m].level, call[m].begin) = {}
        /\ call' = [call EXCEPT ![m].done = TRUE]
  /\ EndCall([db[d] EXCEPT !.manual = NoCaller])
  /\ UNCHANGED <<bgwork, used>>

StartManual(d) ==
  /\ Runs(d) /\ ~db[d].imm /\ db[d].manual # NoCaller
  /\ LET m == call[db[d].manual]
         ks == RangeInputs(db[d].files, m.level, m.begin)
     IN \E e \in ks :
          /\ m.level = 0 => \A k \in ks : k <= e
          /\ worker' = [worker EXCEPT !.pc = "work", !.manual = TRUE, !.level = m.level,
                          !.inputs = [k \in Parts |-> IF k \in ks /\ k <= e
                                                        THEN db[d].files[m.level][k] ELSE 0],
                          !.end = e]
  /\ UNCHANGED <<db, queue, workcv, bgwork, call, woken, used>>

\* The files of r after a compaction of these inputs into the next level.
Merged(r, l, inputs) ==
  [r EXCEPT !.files[l] = [k \in Parts |-> @[k] - inputs[k]],
            !.files[l + 1] = [k \in Parts |-> IF inputs[k] > 0 THEN 1 ELSE @[k]]]

\* What is left to do of the tables that were in the level when c called.
Credit(d, l, inputs) ==
  [c \in Callers |->
     IF call[c].db = d /\ call[c].level = l /\ call[c].pc = "wait"
       THEN [call[c] EXCEPT !.todo = [k \in Parts |-> IF inputs[k] > @[k] THEN 0
                                                                          ELSE @[k] - inputs[k]]]
       ELSE call[c]]

\* PickCompaction: one part of level 0, with all its overlapping tables.
Picked(d, k) == [j \in Parts |-> IF j = k THEN db[d].files[0][k] ELSE 0]

MayPick(d, k) ==
  /\ Runs(d) /\ ~db[d].imm /\ db[d].manual = NoCaller
  /\ NeedsCompaction(db[d]) /\ db[d].files[0][k] > 0

IsTrivialMove(d, k) == db[d].files[0][k] = 1 /\ db[d].files[1][k] = 0

TrivialMove(d) ==
  /\ \E k \in Parts, failed \in BOOLEAN :
       /\ MayPick(d, k) /\ IsTrivialMove(d, k)
       /\ failed => CanFail("work")
       /\ CountFault(failed)
       /\ call' = IF failed THEN call ELSE Credit(d, 0, Picked(d, k))
       /\ LET r == IF failed THEN Failing(db[d]) ELSE Merged(db[d], 0, Picked(d, k))
          IN EndCall(r)
  /\ UNCHANGED bgwork

\* A table is rewritten where it cannot be moved, or where it covers too much
\* two levels down.
StartCompaction(d) ==
  /\ \E k \in Parts :
       /\ MayPick(d, k)
       /\ IsTrivialMove(d, k) => db[d].files[2][k] > 0
       /\ worker' = [worker EXCEPT !.pc = "work", !.inputs = Picked(d, k)]
  /\ UNCHANGED <<db, queue, workcv, bgwork, call, woken, used>>

\* DoCompactionWork finds imm_ and flushes it first.
NestedFlushStarts(d) ==
  /\ worker.pc = "work" /\ d = worker.db
  /\ db[d].life = "open" /\ db[d].imm
  /\ worker' = [worker EXCEPT !.pc = "nested"]
  /\ UNCHANGED <<db, queue, workcv, bgwork, call, woken, used>>

NestedFlush(d) ==
  /\ worker.pc = "nested" /\ d = worker.db
  /\ \E k \in Parts, l \in 0..MaxMemCompactLevel, failed \in BOOLEAN :
       /\ MayFlushTo(db[d].files, k, l)
       /\ failed => CanFail("nested") \/ db[d].life # "open"
       /\ CountFault(failed /\ db[d].life = "open")
       /\ db' = [db EXCEPT ![d] = Flushed(db[d], k, l, failed)]
  /\ woken' = woken \cup Waiting(d)
  /\ worker' = [worker EXCEPT !.pc = "work"]
  /\ UNCHANGED <<queue, workcv, bgwork, call>>

\* Mutant: m->done is set after the first piece
AfterWorkDone(r, calls, failed) ==
  LET m == r.manual
  IN IF ~worker.manual \/ m = NoCaller
       THEN EndCall(r) /\ call' = calls
       ELSE /\ call' = [calls EXCEPT ![m].done = TRUE]
            /\ EndCall([r EXCEPT !.manual = NoCaller])

\* The rest of BackgroundCompaction and of BackgroundCall after the work: the
\* manual compaction is read again from manual_compaction_, and a null pointer
\* there ends the process.
AfterWork(r, calls, failed) ==
  LET m == r.manual
  IN IF ~worker.manual
       THEN EndCall(r) /\ call' = calls
       ELSE IF m = NoCaller
       THEN /\ db' = [db EXCEPT ![worker.db] = r]
            /\ worker' = [worker EXCEPT !.pc = "crashed"]
            /\ call' = calls
            /\ UNCHANGED <<queue, workcv, woken>>
       ELSE /\ call' = [calls EXCEPT ![m].done = failed,
                                     ![m].begin = IF failed THEN @ ELSE worker.end]
            /\ EndCall([r EXCEPT !.manual = NoCaller])

\* DoCompactionWork ends and installs its results.
WorkDone(d) ==
  /\ worker.pc = "work" /\ d = worker.db
  /\ AfterWork(Merged(db[d], worker.level, worker.inputs),
               Credit(d, worker.level, worker.inputs), FALSE)
  /\ UNCHANGED <<bgwork, used>>

\* It fails, or gives up because the database is closing.
WorkFails(d) ==
  /\ worker.pc = "work" /\ d = worker.db
  /\ \/ db[d].life # "open" /\ CountFault(FALSE)
     \/ CanFail("work") /\ CountFault(TRUE)
  /\ AfterWork(Failing(db[d]), call, TRUE)
  /\ UNCHANGED bgwork

-----------------------------------------------------------------------------
(* Manual compactions *)

Deepest(files) ==
  CHOOSE l \in 1..MaxLevel :
    /\ l = 1 \/ \E k \in Parts : files[l][k] > 0
    /\ \A j \in l + 1..MaxLevel, k \in Parts : files[j][k] = 0

\* CompactRange, of the whole key space: how many levels there are to compact.
CompactRange(c, d) ==
  /\ call[c].pc = "idle" /\ db[d].life = "open" /\ used.calls < MaxCalls
  /\ call' = [call EXCEPT ![c] = [NoCall EXCEPT !.pc = "mem", !.db = d,
                                                !.max = Deepest(db[d].files)]]
  /\ used' = [used EXCEPT !.calls = @ + 1]
  /\ UNCHANGED <<db, queue, workcv, worker, bgwork, woken>>

\* Caller c is about to run in pc a, or was woken in its wait b.
Runnable(c, a, b) == call[c].pc = a \/ (call[c].pc = b /\ c \in woken)

\* The second half of TEST_CompactMemTable.
MemWait(c) ==
  /\ Runnable(c, "mem", "memwait")
  /\ LET r == db[call[c].db]
     IN call' = [call EXCEPT ![c].pc = IF r.imm /\ ~r.error THEN "memwait" ELSE "range"]
  /\ woken' = woken \ {c}
  /\ UNCHANGED <<db, queue, workcv, worker, bgwork, used>>

\* TEST_CompactRange: the loop waits, after it made c the manual compaction if
\* there was none; the tables it has to compact are those of the level when it
\* begins.
Begun(c) == IF call[c].pc = "range"
              THEN [call[c] EXCEPT !.todo = db[call[c].db].files[call[c].level]]
              ELSE call[c]

RangeWait(c) ==
  LET d == call[c].db IN
  /\ Runnable(c, "range", "wait")
  /\ ~call[c].done /\ db[d].life = "open" /\ ~db[d].error
  /\ IF db[d].manual = NoCaller
       THEN MaybeSchedule(d, [db[d] EXCEPT !.manual = c])
       ELSE UNCHANGED <<db, queue, workcv>>
  /\ call' = [call EXCEPT ![c] = [Begun(c) EXCEPT !.pc = "wait"]]
  /\ woken' = woken \ {c}
  /\ UNCHANGED <<worker, bgwork, used>>

\* The loop ends; a compaction that is not done is cancelled, and CompactRange
\* goes on with the next level.
RangeEnds(c) ==
  LET d == call[c].db
      next == call[c].level + 1
  IN
  /\ Runnable(c, "range", "wait")
  /\ call[c].done \/ db[d].life # "open" \/ db[d].error
  /\ db' = [db EXCEPT ![d].manual = IF @ = c THEN NoCaller ELSE @]
  /\ call' = [call EXCEPT ![c] =
                IF next < call[c].max
                  THEN [NoCall EXCEPT !.pc = "range", !.db = d,
                                      !.level = next, !.max = call[c].max]
                  ELSE NoCall]
  /\ woken' = woken \ {c}
  /\ UNCHANGED <<queue, workcv, worker, bgwork, used>>

-----------------------------------------------------------------------------
(* The destructor and the backup *)

\* No other call may be running when a database is deleted.
Close(d) ==
  /\ db[d].life = "open"
  /\ \A c \in Callers : call[c].pc = "idle" \/ call[c].db # d
  /\ db' = [db EXCEPT ![d].life = IF db[d].scheduled THEN "closing" ELSE "destroyed"]
  /\ UNCHANGED <<queue, workcv, worker, bgwork, call, woken, used>>

\* Mutant: the destructor waits with if instead of while
CloseOnSignal(d) ==
  /\ db[d].life = "closing" /\ d \in woken
  /\ db' = [db EXCEPT ![d].life = "destroyed"]
  /\ woken' = woken \ {d}
  /\ UNCHANGED <<queue, workcv, worker, bgwork, call, used>>

CloseWoken(d) ==
  /\ db[d].life = "closing" /\ d \in woken
  /\ db' = [db EXCEPT ![d].life = IF db[d].scheduled THEN "closing" ELSE "destroyed"]
  /\ woken' = woken \ {d}
  /\ UNCHANGED <<queue, workcv, worker, bgwork, call, used>>

\* leveldb_backup copies the files of a database while it holds the lock.
BackupStarts ==
  /\ bgwork = "none" /\ used.backups < MaxBackups
  /\ bgwork' = "backup"
  /\ used' = [used EXCEPT !.backups = @ + 1]
  /\ UNCHANGED <<db, queue, workcv, worker, call, woken>>

BackupEnds ==
  /\ bgwork = "backup"
  /\ bgwork' = "none"
  /\ UNCHANGED <<db, queue, workcv, worker, call, woken, used>>

-----------------------------------------------------------------------------

Background ==
  \/ TakeWork \/ BGWork \/ CallSkips \/ BGWorkEnds
  \/ \E d \in DBs :
       \/ StartFlush(d) \/ Flush(d)
       \/ ManualDone(d) \/ StartManual(d)
       \/ TrivialMove(d) \/ StartCompaction(d)
       \/ NestedFlushStarts(d) \/ NestedFlush(d)
       \/ WorkDone(d) \/ WorkFails(d)

Caller(c) == MemWait(c) \/ RangeWait(c) \/ RangeEnds(c)

Next ==
  \/ Background
  \/ \E c \in Callers : Caller(c) \/ \E d \in DBs : CompactRange(c, d)
  \/ \E d \in DBs : FillMemtable(d) \/ SyncFails(d) \/ Close(d) \/ CloseWoken(d)
  \/ BackupStarts \/ BackupEnds

Spec == Init /\ [][Next]_vars

\* Threads that can run do run; a backup ends.
Fairness ==
  /\ WF_vars(Background)
  /\ \A c \in Callers : WF_vars(Caller(c))
  /\ \A d \in DBs : WF_vars(CloseWoken(d))
  /\ WF_vars(BackupEnds)

FairSpec == Spec /\ Fairness

-----------------------------------------------------------------------------
(* Properties *)

Active == {"got", "call", "flush", "work", "nested"}

\* After the destructor of a database has returned, the environment neither
\* holds nor runs a background call for it (~DBImpl waits for the scheduled
\* call, and BackgroundCall must not schedule another).
NoWorkOnDestroyed ==
  \A d \in DBs : db[d].life = "destroyed" =>
    /\ \A i \in 1..Len(queue) : queue[i] # d
    /\ worker.pc \in Active => worker.db # d

\* The thread of PosixEnv does not sleep while its queue holds work, although
\* Schedule signals it only when the queue was empty.
WorkerAwake == queue # << >> /\ worker.pc = "wait" => workcv

\* When a manual compaction is done without an error, every table that was in
\* its level when TEST_CompactRange began has left it, although the range was
\* compacted piecewise, with flushes, automatic compactions and other callers
\* in between.
ManualCompletes ==
  \A c \in Callers : call[c].done /\ ~db[call[c].db].error => call[c].todo = NoFiles

\* BackgroundCompaction finds in manual_compaction_ the manual compaction it
\* worked for when it reads it again (db_impl.cc:771).
ManualStillThere == worker.pc # "crashed"

\* While a backup copies files, no table of any database that was open before
\* appears or goes: background work holds g_mutex_bgwork.  DB::Open, which does
\* not, is not modelled.
BackupSeesOneVersion ==
  [][bgwork = "backup" => \A d \in DBs : db'[d].files = db[d].files]_vars

\* Every call of CompactRange returns, unless the process ends as ManualStillThere says it
\* must not.
CallsReturn ==
  \A c \in Callers : call[c].pc # "idle" ~> call[c].pc = "idle" \/ worker.pc = "crashed"

\* The destructor returns, although the background thread serves other
\* databases and waits for backups.
ClosesReturn ==
  \A d \in DBs : db[d].life = "closing" ~> db[d].life = "destroyed" \/ worker.pc = "crashed"
====
