---------------------------- MODULE CrashRecovery ----------------------------
(***************************************************************************)
(* The files of a database and what survives a crash: log files, tables,   *)
(* MANIFEST files and CURRENT; writes, memtable switches, flushes and      *)
(* compactions that change them (DBImpl::Write, MakeRoomForWrite,          *)
(* CompactMemTable, DoCompactionWork, VersionSet::LogAndApply),            *)
(* RemoveObsoleteFiles, and recovery (DB::Open, DBImpl::Recover,           *)
(* RecoverLogFile, VersionSet::Recover).  A crash may come between any two *)
(* steps, of the process (files keep what was written) or of the machine   *)
(* (a file keeps at least what was synced).                                *)
(*                                                                         *)
(* The data of a write is its entry [id, seq]; a table or a memtable is    *)
(* the set of its entries.  Which entries a compaction may drop is the     *)
(* subject of another module: here it keeps them all.                      *)
(***************************************************************************)
EXTENDS Integers, SequencesExt

CONSTANTS
  ReuseLogs,        \* values of options_.reuse_logs in use
  Syncs,            \* values of WriteOptions::sync in use
  RecoverBuffer,    \* records of a log that fit options_.write_buffer_size
  MaxWrites,        \* bound: writes
  MaxSwitches,      \* bound: memtable switches
  MaxCompactions,   \* bound: compactions
  MaxPins,          \* bound: iterators at one time
  FaultKinds,       \* which file operations may fail
  MaxFaults,        \* bound: failing file operations
  MaxProcessCrashes, \* bound
  MaxMachineCrashes, \* bound
  MaxAccidents       \* bound: faults and crashes together

ASSUME BoundsAssumption ==
  /\ ReuseLogs \subseteq BOOLEAN /\ FALSE \in ReuseLogs
  /\ Syncs \subseteq BOOLEAN
  /\ FaultKinds \subseteq
       {"append", "sync", "build", "compaction", "manifest", "open"}
  /\ {RecoverBuffer, MaxWrites, MaxSwitches, MaxCompactions, MaxPins,
      MaxFaults, MaxProcessCrashes, MaxMachineCrashes, MaxAccidents} \subseteq Nat

VARIABLES
  logFile,    \* disk: log number -> [recs: items in file order, synced: Nat]
  tableFile,  \* disk: table number -> [entries, whole]
  manifest,   \* disk: MANIFEST number -> [recs, synced]
  current,    \* disk: the MANIFEST that CURRENT names; 0: no CURRENT
  db,         \* memory: the DBImpl and its VersionSet (see Down)
  acked,      \* history: id -> [sync, run], of the writes that returned OK
  atRisk,     \* history: returned OK without sync, before a machine crash
  tainted,    \* history: what relies on a file that is not whole or not synced,
              \* [log: ids that returned OK, manifest: BOOLEAN]
  count       \* how often the bounded things happened

history == <<acked, atRisk, tainted>>
vars == <<logFile, tableFile, manifest, current, db, history, count>>

Put(f, n, v) == [x \in DOMAIN f \cup {n} |-> IF x = n THEN v ELSE f[x]]
Without(f, S) == Restrict(f, DOMAIN f \ S)
MaxOf(a, b) == IF a >= b THEN a ELSE b

Counters == [writes |-> MaxWrites, switches |-> MaxSwitches,
             compactions |-> MaxCompactions,
             faults |-> MaxFaults, process |-> MaxProcessCrashes,
             machine |-> MaxMachineCrashes]
Accidents == count.faults + count.process + count.machine
Tick(c) ==
  /\ count[c] < Counters[c]
  /\ c \in {"faults", "process", "machine"} => Accidents < MaxAccidents
  /\ count' = [count EXCEPT ![c] = @ + 1]
Fault(kind) == kind \in FaultKinds /\ Tick("faults")

\* Which opening of the database this is, for the history
Run == count.process + count.machine

NoWrite == [pc |-> "none", entry |-> [id |-> 0, seq |-> 0], sync |-> FALSE]
NoCompaction == [pc |-> "none", out |-> 0, inputs |-> {}, base |-> {}]
NoEdit == [add |-> {}, del |-> {}, log |-> 0, next |-> 0, last |-> 0]

\* The state of a process that has not opened the database
Down ==
  [phase |-> "down",     \* down, newdb, replay, save, cleanup, open, corrupt
   mem |-> {}, imm |-> {}, hasImm |-> FALSE,    \* mem_, imm_
   logfile |-> 0,                               \* logfile_number_
   files |-> {},                                \* current_, as table numbers
   log |-> 0, next |-> 0, manifest |-> 0, last |-> 0,    \* VersionSet
   fresh |-> FALSE,                \* descriptor_log_ is yet to be created
   pins |-> {},                    \* versions that iterators keep
   pending |-> {},                 \* pending_outputs_
   bgError |-> FALSE,              \* bg_error_ is set
   wr |-> NoWrite,                 \* the group being logged
   flush |-> "none", out |-> 0,    \* CompactMemTable and its table
   comp |-> NoCompaction,          \* DoCompactionWork
   la |-> "none", edit |-> NoEdit, \* LogAndApply and its VersionEdit
   doomed |-> {},                  \* files_to_delete of RemoveObsoleteFiles
   replay |-> {},                  \* logs that Recover has yet to read
   reuse |-> FALSE]                \* options_.reuse_logs, in Recover

NoFile == [x \in {} |-> 0]

Init ==
  /\ logFile = NoFile /\ tableFile = NoFile /\ manifest = NoFile
  /\ current = 0
  /\ db = Down
  /\ acked = NoFile /\ atRisk = {}
  /\ tainted = [log |-> {}, manifest |-> FALSE]
  /\ count = [c \in DOMAIN Counters |-> 0]

----------------------------------------------------------------------------
(* Files that are appended to: logs and MANIFESTs.  An item that is being  *)
(* written, or whose writer died or failed half way, is torn.              *)

Item(data) == [data |-> data, whole |-> FALSE]
NewFile == [recs |-> <<>>, synced |-> 0]
AppendItem(f, data) == [f EXCEPT !.recs = Append(@, Item(data))]
CompleteItem(f) == [f EXCEPT !.recs[Len(f.recs)].whole = TRUE]
SyncFile(f) == [f EXCEPT !.synced = Len(f.recs)]

\* log::Reader: records are read up to a torn one.  A torn record at the end
\* of the file is taken for a writer that died.  One in the middle fails its
\* checksum: the rest of its block is dropped, and reading goes on with a
\* later block - with some record after it, or with none
Torn(f) == {i \in DOMAIN f.recs : ~f.recs[i].whole}
Readable(f) ==
  LET end == IF Torn(f) = {} THEN Len(f.recs) + 1 ELSE Min(Torn(f))
  IN  {i \in DOMAIN f.recs : i < end}
Resumed(f) ==
  IF Torn(f) = {} THEN {{}}
  ELSE {{j \in from..Len(f.recs) : f.recs[j].whole} :
          from \in (Min(Torn(f)) + 1)..(Len(f.recs) + 1)}
ReadLog(f) == {Readable(f) \cup S : S \in Resumed(f)}

ManifestFiles(f) ==
  UNION {{n \in f.recs[i].data.add :
            \A j \in Readable(f) : j > i => n \notin f.recs[j].data.del} :
         i \in Readable(f)}
LastEdit(f) == f.recs[Max(Readable(f))].data

----------------------------------------------------------------------------
(* DBImpl::Write, for one group at a time: the writer queue admits one     *)
(* logger.                                                                 *)

StartAppend ==
  /\ db.phase = "open" /\ db.wr.pc = "none" /\ ~db.bgError
  /\ Tick("writes")
  /\ \E sync \in Syncs :
       LET entry == [id |-> count.writes + 1, seq |-> db.last + 1] IN
       /\ db' = [db EXCEPT !.wr = [pc |-> "append", entry |-> entry,
                                   sync |-> sync]]
       /\ logFile' = [logFile EXCEPT ![db.logfile] = AppendItem(@, entry)]
  /\ UNCHANGED <<tableFile, manifest, current, history>>

FinishAppend ==
  /\ db.wr.pc = "append"
  /\ logFile' = [logFile EXCEPT ![db.logfile] = CompleteItem(@)]
  /\ db' = [db EXCEPT !.wr.pc = IF db.wr.sync THEN "sync" ELSE "insert"]
  /\ UNCHANGED <<tableFile, manifest, current, history, count>>

\* Mutant: AddRecord's flush is taken for a sync
SyncLogFlushOnly ==
  /\ db.wr.pc = "sync"
  /\ db' = [db EXCEPT !.wr.pc = "insert"]
  /\ UNCHANGED <<logFile, tableFile, manifest, current, history, count>>

SyncLog ==
  /\ db.wr.pc = "sync"
  /\ logFile' = [logFile EXCEPT ![db.logfile] = SyncFile(@)]
  /\ db' = [db EXCEPT !.wr.pc = "insert"]
  /\ UNCHANGED <<tableFile, manifest, current, history, count>>

\* InsertInto, SetLastSequence, and the return of Write
Acknowledge ==
  /\ db.wr.pc = "insert"
  /\ db' = [db EXCEPT !.mem = @ \cup {db.wr.entry}, !.wr = NoWrite,
                      !.last = db.wr.entry.seq]
  /\ acked' = Put(acked, db.wr.entry.id, [sync |-> db.wr.sync, run |-> Run])
  /\ tainted' = IF Torn(logFile[db.logfile]) = {} THEN tainted
                ELSE [tainted EXCEPT !.log = @ \cup {db.wr.entry.id}]
  /\ UNCHANGED <<logFile, tableFile, manifest, current, atRisk, count>>

\* AddRecord fails before anything or when a part is in the file.  That is
\* no background error; the sequence number is spent
AppendFails ==
  /\ db.wr.pc = "append" /\ Fault("append")
  /\ \/ logFile' = logFile
     \/ logFile' = [logFile EXCEPT ![db.logfile].recs = Front(@)]
  /\ db' = [db EXCEPT !.wr = NoWrite, !.last = db.wr.entry.seq]
  /\ UNCHANGED <<tableFile, manifest, current, history>>

\* Sync fails: a background error
SyncFails ==
  /\ db.wr.pc = "sync" /\ Fault("sync")
  /\ db' = [db EXCEPT !.bgError = TRUE, !.wr = NoWrite,
                      !.last = db.wr.entry.seq]
  /\ UNCHANGED <<logFile, tableFile, manifest, current, history>>

\* MakeRoomForWrite switches to a new log and memtable.  The old log is
\* closed, not synced.  (Where the new log cannot be created the number is
\* given back by ReuseFileNumber and nothing has changed.)
SwitchMemtable ==
  /\ db.phase = "open" /\ db.wr.pc = "none" /\ ~db.bgError /\ ~db.hasImm
  /\ Tick("switches")
  /\ logFile' = Put(logFile, db.next, NewFile)
  /\ db' = [db EXCEPT !.logfile = db.next, !.next = @ + 1, !.imm = db.mem,
                      !.hasImm = TRUE, !.mem = {}]
  /\ UNCHANGED <<tableFile, manifest, current, history>>

----------------------------------------------------------------------------
(* The background thread.                                                  *)

BgFree == /\ db.phase = "open" /\ db.doomed = {}
          /\ db.flush = "none" /\ db.la = "none"
NewTable == [entries |-> {}, whole |-> FALSE]
\* What is written to a file that has been unlinked is lost
WriteTable(n, entries) ==
  [m \in DOMAIN tableFile |->
     IF m = n THEN [entries |-> entries, whole |-> TRUE] ELSE tableFile[m]]

\* CompactMemTable: from BackgroundCompaction, or from DoCompactionWork,
\* which does not look at bg_error_.  WriteLevel0Table opens the table
StartFlush ==
  /\ BgFree /\ db.hasImm
  /\ db.comp.pc = "writing" \/ (db.comp.pc = "none" /\ ~db.bgError)
  /\ db' = [db EXCEPT !.flush = "build", !.out = db.next, !.next = @ + 1,
                      !.pending = @ \cup {db.next}]
  /\ tableFile' = Put(tableFile, db.next, NewTable)
  /\ UNCHANGED <<logFile, manifest, current, history, count>>

\* BuildTable has written and synced the table.  An empty memtable has no
\* table.  The edit makes earlier logs obsolete
FlushBuilt ==
  /\ db.flush = "build"
  /\ tableFile' = IF db.imm = {} THEN Without(tableFile, {db.out})
                  ELSE WriteTable(db.out, db.imm)
  /\ db' = [db EXCEPT
       !.pending = @ \ {db.out}, !.flush = "apply", !.la = "append",
       !.edit = [add |-> IF db.imm = {} THEN {} ELSE {db.out}, del |-> {},
                 log |-> db.logfile, next |-> db.next, last |-> db.last]]
  /\ UNCHANGED <<logFile, manifest, current, history, count>>

FlushFails ==
  /\ db.flush = "build" /\ Fault("build")
  /\ tableFile' = Without(tableFile, {db.out})
  /\ db' = [db EXCEPT !.pending = @ \ {db.out}, !.bgError = TRUE,
                      !.flush = "none", !.out = 0]
  /\ UNCHANGED <<logFile, manifest, current, history>>

\* DoCompactionWork on some tables of the current version, which it pins
StartCompaction ==
  /\ BgFree /\ ~db.hasImm /\ ~db.bgError /\ db.comp.pc = "none"
  /\ Tick("compactions")
  /\ \E inputs \in SUBSET db.files \ {{}} :
       db' = [db EXCEPT
         !.comp = [pc |-> "writing", out |-> db.next, inputs |-> inputs,
                   base |-> db.files],
         !.next = @ + 1, !.pending = @ \cup {db.next}]
  /\ tableFile' = Put(tableFile, db.next, NewTable)
  /\ UNCHANGED <<logFile, manifest, current, history>>

\* The output is finished and synced: InstallCompactionResults
CompactionWritten ==
  /\ BgFree /\ db.comp.pc = "writing"
  /\ tableFile' = WriteTable(db.comp.out,
       UNION {tableFile[n].entries : n \in db.comp.inputs})
  /\ db' = [db EXCEPT
       !.comp.pc = "apply", !.la = "append",
       !.edit = [add |-> {db.comp.out}, del |-> db.comp.inputs, log |-> db.log,
                 next |-> db.next, last |-> db.last]]
  /\ UNCHANGED <<logFile, manifest, current, history, count>>

CompactionFails ==
  /\ BgFree /\ db.comp.pc = "writing" /\ Fault("compaction")
  /\ db' = [db EXCEPT !.bgError = TRUE, !.pending = @ \ {db.comp.out},
                      !.comp = NoCompaction]
  /\ UNCHANGED <<logFile, tableFile, manifest, current, history>>

----------------------------------------------------------------------------
(* VersionSet::LogAndApply, for a flush, a compaction or DB::Open.         *)

LaAppend ==
  /\ db.la = "append"
  /\ manifest' = [manifest EXCEPT ![db.manifest] = AppendItem(@, db.edit)]
  /\ db' = [db EXCEPT !.la = "complete"]
  /\ tainted' = [tainted EXCEPT !.manifest = @ \/ Torn(manifest[db.manifest]) # {}]
  /\ UNCHANGED <<logFile, tableFile, current, acked, atRisk, count>>

LaComplete ==
  /\ db.la = "complete"
  /\ manifest' = [manifest EXCEPT ![db.manifest] = CompleteItem(@)]
  /\ db' = [db EXCEPT !.la = "sync"]
  /\ UNCHANGED <<logFile, tableFile, current, history, count>>

\* Mutant: the MANIFEST is not synced before CURRENT names it
LaSyncSkipped ==
  /\ db.la = "sync"
  /\ db' = [db EXCEPT !.la = IF db.fresh THEN "current" ELSE "install"]
  /\ UNCHANGED <<logFile, tableFile, manifest, current, history, count>>

LaSync ==
  /\ db.la = "sync"
  /\ manifest' = [manifest EXCEPT ![db.manifest] = SyncFile(@)]
  /\ db' = [db EXCEPT !.la = IF db.fresh THEN "current" ELSE "install"]
  /\ UNCHANGED <<logFile, tableFile, current, history, count>>

\* SetCurrentFile: a synced temporary file is renamed to CURRENT
LaCurrent ==
  /\ db.la = "current"
  /\ current' = db.manifest
  /\ db' = [db EXCEPT !.la = "install", !.fresh = FALSE]
  /\ UNCHANGED <<logFile, tableFile, manifest, history, count>>

\* RemoveObsoleteFiles: the files to delete, decided under mutex_
\* Mutant: the version of an iterator is forgotten
LiveFilesWithoutPins(d) == d.pending \cup d.files \cup d.comp.base
LiveFiles(d) == d.pending \cup d.files \cup d.comp.base \cup UNION d.pins
\* Mutant: only the log of mem_ is kept, not the one of imm_
ObsoleteImmLog(d) ==
  IF d.bgError THEN {}
  ELSE {<<"log", n>> : n \in {m \in DOMAIN logFile : m < d.logfile}}
       \cup {<<"table", n>> : n \in DOMAIN tableFile \ LiveFiles(d)}
Obsolete(d) ==
  IF d.bgError THEN {}
  ELSE {<<"log", n>> : n \in {m \in DOMAIN logFile : m < d.log}}
       \cup {<<"manifest", n>> : n \in {m \in DOMAIN manifest : m < d.manifest}}
       \cup {<<"table", n>> : n \in DOMAIN tableFile \ LiveFiles(d)}

\* The new version, and what the caller does with it before it calls
\* RemoveObsoleteFiles: drop imm_, CleanupCompaction and ReleaseInputs
Installed ==
  LET d == [db EXCEPT !.files = (@ \ db.edit.del) \cup db.edit.add,
                      !.log = db.edit.log, !.la = "none", !.edit = NoEdit]
  IN  IF db.flush = "apply"
      THEN [d EXCEPT !.imm = {}, !.hasImm = FALSE, !.flush = "none", !.out = 0]
      ELSE IF db.phase = "save" THEN [d EXCEPT !.phase = "cleanup"]
      ELSE [d EXCEPT !.pending = @ \ {db.comp.out}, !.comp = NoCompaction]

LaInstall ==
  /\ db.la = "install"
  /\ db' = [Installed EXCEPT !.doomed = Obsolete(Installed)]
  /\ UNCHANGED <<logFile, tableFile, manifest, current, history, count>>

\* Writing the MANIFEST fails in the background: a part of the edit, or all
\* of it, may be in the file
LaFails ==
  /\ db.la \in {"append", "complete", "sync"} /\ db.phase = "open"
  /\ Fault("manifest")
  /\ LET d == [db EXCEPT !.bgError = TRUE, !.edit = NoEdit, !.la = "none"]
     IN  db' = IF db.flush = "apply"
               THEN [d EXCEPT !.flush = "none", !.out = 0]
               ELSE [d EXCEPT !.pending = @ \ {db.comp.out},
                              !.comp = NoCompaction]
  /\ UNCHANGED <<logFile, tableFile, manifest, current, history>>

\* RemoveObsoleteFiles deletes one file after the other, without mutex_
DeleteFile ==
  /\ \E f \in db.doomed :
       /\ db' = [db EXCEPT !.doomed = @ \ {f}]
       /\ logFile' = Without(logFile, {n \in {f[2]} : f[1] = "log"})
       /\ manifest' = Without(manifest, {n \in {f[2]} : f[1] = "manifest"})
       /\ tableFile' = Without(tableFile, {n \in {f[2]} : f[1] = "table"})
  /\ UNCHANGED <<current, history, count>>

\* NewInternalIterator keeps the current version until it is destroyed.  (A
\* version without tables has nothing to keep.)
PinVersion ==
  /\ db.phase = "open" /\ db.files \notin db.pins \cup {{}}
  /\ Cardinality(db.pins) < MaxPins
  /\ db' = [db EXCEPT !.pins = @ \cup {db.files}]
  /\ UNCHANGED <<logFile, tableFile, manifest, current, history, count>>

UnpinVersion ==
  /\ \E v \in db.pins : db' = [db EXCEPT !.pins = @ \ {v}]
  /\ UNCHANGED <<logFile, tableFile, manifest, current, history, count>>

----------------------------------------------------------------------------
(* DB::Open: NewDB, VersionSet::Recover, RecoverLogFile for each log, a    *)
(* new log, and LogAndApply.                                               *)

\* NewDB writes and syncs MANIFEST-1, then makes CURRENT name it
NewDB ==
  /\ db.phase = "down" /\ current = 0
  /\ manifest' = Put(manifest, 1,
       SyncFile(CompleteItem(AppendItem(NewFile, [NoEdit EXCEPT !.next = 2]))))
  /\ db' = [Down EXCEPT !.phase = "newdb"]
  /\ UNCHANGED <<logFile, tableFile, current, history, count>>

SetCurrentNewDB ==
  /\ db.phase = "newdb"
  /\ current' = 1
  /\ db' = Down
  /\ UNCHANGED <<logFile, tableFile, manifest, history, count>>

\* What Recover may say of the MANIFEST that CURRENT names.  A torn record at
\* its end is not reported.  One in the middle is, unless its length reaches
\* past the end of the file.  The tables it names are expected to be there,
\* but any file of the same number satisfies the test
Verdicts ==
  IF current \notin DOMAIN manifest THEN {"corrupt"}
  ELSE LET f == manifest[current] IN
       IF Readable(f) = {} \/ ~(ManifestFiles(f) \subseteq DOMAIN tableFile
                                 \cup DOMAIN logFile \cup DOMAIN manifest)
       THEN {"corrupt"}
       ELSE IF \A i \in Torn(f) : i = Len(f.recs) THEN {"ok"}
       ELSE {"ok", "corrupt"}

\* Mutant: only MarkFileNumberUsed(log_number) moves the file counter
RecoverVersionsForgetsNext ==
  /\ db.phase = "down" /\ current # 0 /\ "ok" \in Verdicts
  /\ LET f == manifest[current]
         e == LastEdit(f)
     IN  db' = [Down EXCEPT
           !.phase = "replay", !.files = ManifestFiles(f),
           !.log = e.log, !.next = e.log + 2, !.last = e.last,
           !.manifest = e.next, !.fresh = TRUE,
           !.replay = {n \in DOMAIN logFile : n >= e.log}]
  /\ UNCHANGED <<logFile, tableFile, manifest, current, history, count>>

\* VersionSet::Recover, and the list of logs that Recover makes.  The
\* MANIFEST is reused when reuse_logs is set and it is not too large.  (Bound:
\* reuse_logs is set only while an accident may still follow, since what
\* matters about a reused file is what the next recovery makes of it.)
RecoverVersions ==
  /\ db.phase = "down" /\ current # 0 /\ "ok" \in Verdicts
  /\ LET f == manifest[current]
         e == LastEdit(f)
     IN  \E option \in {o \in ReuseLogs : o => Accidents < MaxAccidents} :
         \E reuse \in {option, FALSE} :
           /\ db' = [Down EXCEPT
                !.phase = "replay", !.reuse = option, !.files = ManifestFiles(f),
                !.log = e.log, !.next = e.next + 1, !.last = e.last,
                !.manifest = IF reuse THEN current ELSE e.next,
                !.fresh = ~reuse,
                !.replay = {n \in DOMAIN logFile : n >= e.log}]
           /\ tainted' = [tainted EXCEPT !.manifest = @ \/ (reuse /\ f.synced < Len(f.recs))]
  /\ UNCHANGED <<logFile, tableFile, manifest, current, acked, atRisk, count>>

\* DB::Open returns a corruption: CURRENT names no file, the MANIFEST cannot
\* be read, or tables are missing
RecoverFails ==
  /\ db.phase = "down" /\ current # 0 /\ "corrupt" \in Verdicts
  /\ db' = [Down EXCEPT !.phase = "corrupt"]
  /\ UNCHANGED <<logFile, tableFile, manifest, current, history, count>>

\* Mutant: the sequence numbers of the log do not move the counter
RecoverLogFileKeepsSequence ==
  /\ db.phase = "replay" /\ db.replay # {}
  /\ LET n == Min(db.replay)
         entries == {logFile[n].recs[i].data : i \in Readable(logFile[n])}
     IN  /\ db' = [db EXCEPT !.replay = @ \ {n}, !.edit.add = @ \cup {db.next},
                             !.next = MaxOf(@ + 1, n + 1)]
         /\ tableFile' = Put(tableFile, db.next,
                             [entries |-> entries, whole |-> TRUE])
  /\ UNCHANGED <<logFile, manifest, current, history, count>>

\* RecoverLogFile on the oldest log: the last one may be kept together with
\* its memtable, if it can be opened for appending; any other is written to a
\* level-0 table
RecoverLogFile ==
  /\ db.phase = "replay" /\ db.replay # {}
  /\ LET n == Min(db.replay)
         f == logFile[n]
     IN  \E read \in ReadLog(f) :
         LET entries == {f.recs[i].data : i \in read}
             last == Max({db.last} \cup {e.seq : e \in entries})
             d == [db EXCEPT !.replay = @ \ {n}, !.last = last]
             reusable == db.reuse /\ db.replay = {n} /\ Cardinality(read) <= RecoverBuffer
         IN  \E kept \in {reusable, FALSE} :
             IF kept
             THEN /\ db' = [d EXCEPT !.logfile = n, !.mem = entries,
                                     !.next = MaxOf(@, n + 1)]
                  /\ tableFile' = tableFile
             ELSE IF entries = {}
             THEN /\ db' = [d EXCEPT !.next = MaxOf(@, n + 1)]
                  /\ tableFile' = tableFile
             ELSE /\ db' = [d EXCEPT !.edit.add = @ \cup {db.next},
                                     !.next = MaxOf(@ + 1, n + 1)]
                  /\ tableFile' = Put(tableFile, db.next,
                                      [entries |-> entries, whole |-> TRUE])
  /\ UNCHANGED <<logFile, manifest, current, history, count>>

\* After the logs: a new log unless one is reused; then LogAndApply if there
\* is something to save, which starts a new MANIFEST with a snapshot of the
\* version unless the old one is reused
FinishRecover ==
  /\ db.phase = "replay" /\ db.replay = {}
  /\ LET new == db.logfile = 0
         d == [db EXCEPT !.reuse = FALSE,
                         !.logfile = IF new THEN db.next ELSE @,
                         !.next = IF new THEN @ + 1 ELSE @]
         save == db.fresh \/ db.edit.add # {}
         snapshot == IF db.fresh THEN db.files ELSE {}
     IN  /\ logFile' = IF new THEN Put(logFile, db.next, NewFile) ELSE logFile
         /\ manifest' = IF db.fresh THEN Put(manifest, db.manifest, NewFile)
                                    ELSE manifest
         /\ db' = IF save
                  THEN [d EXCEPT
                    !.phase = "save", !.la = "append",
                    !.edit = [add |-> db.edit.add \cup snapshot, del |-> {},
                              log |-> d.logfile, next |-> d.next, last |-> d.last]]
                  ELSE [d EXCEPT !.phase = "cleanup", !.doomed = Obsolete(d)]
  /\ UNCHANGED <<tableFile, current, history, count>>

\* Open returns an error: CURRENT cannot be written for a new database, the
\* table of a recovered log or the new log cannot be written, or LogAndApply
\* fails, which removes the MANIFEST it created
OpenFails ==
  /\ db.phase \in {"newdb", "replay", "save"} /\ db.la # "install" /\ Fault("open")
  /\ manifest' = IF db.phase = "save" /\ db.fresh THEN Without(manifest, {db.manifest})
                 ELSE manifest
  /\ db' = Down
  /\ UNCHANGED <<logFile, tableFile, current, history>>

Opened ==
  /\ db.phase = "cleanup" /\ db.doomed = {}
  /\ db' = [db EXCEPT !.phase = "open"]
  /\ UNCHANGED <<logFile, tableFile, manifest, current, history, count>>

----------------------------------------------------------------------------
(* Crashes.                                                                *)

\* What a machine crash leaves of a file: everything that was synced, some
\* of what was not, and perhaps a torn record at the end
Remains(f) ==
  {[recs |-> SubSeq(f.recs, 1, k), synced |-> k] : k \in f.synced..Len(f.recs)}
  \cup
  {[recs |-> Append(SubSeq(f.recs, 1, k), [f.recs[k + 1] EXCEPT !.whole = FALSE]),
    synced |-> k + 1] : k \in f.synced..(Len(f.recs) - 1)}
AllRemains(files) ==
  {g \in [DOMAIN files -> UNION {Remains(files[n]) : n \in DOMAIN files}] :
     \A n \in DOMAIN files : g[n] \in Remains(files[n])}

ProcessCrash ==
  /\ db.phase \notin {"down", "corrupt"} /\ Tick("process")
  /\ db' = Down
  /\ UNCHANGED <<logFile, tableFile, manifest, current, history>>

MachineCrash ==
  /\ db.phase # "corrupt" /\ Tick("machine")
  /\ db' = Down
  /\ logFile' \in AllRemains(logFile)
  /\ manifest' \in AllRemains(manifest)
  /\ atRisk' = {id \in DOMAIN acked : ~acked[id].sync}
  /\ UNCHANGED <<tableFile, current, acked, tainted>>

----------------------------------------------------------------------------
\* The database is open, nothing is going on, and the bounds are reached
Quiescent ==
  /\ BgFree /\ db.wr.pc = "none" /\ db.comp.pc = "none"
  /\ db.hasImm => db.bgError
  /\ UNCHANGED vars

\* Open failed, and will fail again
Unopenable == db.phase = "corrupt" /\ UNCHANGED vars

Next ==
  \/ StartAppend \/ FinishAppend \/ SyncLog \/ Acknowledge
  \/ AppendFails \/ SyncFails
  \/ SwitchMemtable
  \/ StartFlush \/ FlushBuilt \/ FlushFails
  \/ StartCompaction \/ CompactionWritten \/ CompactionFails
  \/ LaAppend \/ LaComplete \/ LaSync \/ LaCurrent \/ LaInstall \/ LaFails
  \/ DeleteFile \/ PinVersion \/ UnpinVersion
  \/ NewDB \/ SetCurrentNewDB \/ RecoverVersions \/ RecoverFails
  \/ RecoverLogFile \/ FinishRecover \/ OpenFails \/ Opened
  \/ ProcessCrash \/ MachineCrash
  \/ Quiescent \/ Unopenable

Spec == Init /\ [][Next]_vars

----------------------------------------------------------------------------
(* Properties.                                                             *)

\* What a read of the open database can find
Readables == db.mem \cup db.imm \cup UNION {tableFile[n].entries : n \in db.files}
Ids == {e.id : e \in Readables}

\* No crash and no failed operation leaves files that DB::Open rejects: CURRENT
\* names a MANIFEST that can be read to its end, and the tables it names are
\* there.  The exceptions: LogAndApply appended behind a torn record, or Open
\* with reuse_logs kept a MANIFEST with a record that was never synced.
RecoversUnlessTainted == db.phase = "corrupt" => tainted.manifest

\* The same without exception: after an error there are "no more changes".
RecoverySucceeds == db.phase # "corrupt"

\* Once the database is open, every write that returned OK is there, unless
\* it was made without sync and the machine crashed after it (WriteOptions).
AckedSurvives ==
  db.phase = "open" => DOMAIN acked \ atRisk \subseteq Ids

\* The same whatever fails and whatever file is appended to again, with the
\* exceptions of a write that was appended to a log behind a torn record, and of a
\* MANIFEST with a torn or unsynced record that was written or reused: no other
\* acknowledged write is lost.
AckedUnlessTainted ==
  db.phase = "open" /\ ~tainted.manifest =>
    DOMAIN acked \ (atRisk \cup tainted.log) \subseteq Ids

\* Every file that a version in use refers to is on disk and complete: no
\* deletion of RemoveObsoleteFiles takes a file of the current version, of a
\* running compaction, or of an iterator.
LiveTablesExist ==
  db.phase \in {"open", "cleanup"} =>
    \A n \in db.files \cup db.comp.base \cup UNION db.pins :
      n \in DOMAIN tableFile /\ tableFile[n].whole

\* At every moment the files alone hold what the open database holds: entries
\* of mem_ and imm_ are in logs that the MANIFEST on disk still calls for, and
\* no such log is deleted before its entries are in a table it names.  (What is
\* behind a torn record of the MANIFEST does not count as written.)
DiskCoversMemory ==
  db.phase = "open" /\ ~tainted.manifest =>
    LET f == manifest[current]
        logs == {n \in DOMAIN logFile : n >= LastEdit(f).log}
    IN  \A e \in Readables :
          \/ \E n \in logs : \E i \in DOMAIN logFile[n].recs :
               logFile[n].recs[i].whole /\ logFile[n].recs[i].data = e
          \/ \E n \in ManifestFiles(f) : e \in tableFile[n].entries

\* Two entries that can be read never have the same sequence number, so
\* recovery restores LastSequence at least to the largest one in use.
SequencesUnique ==
  db.phase = "open" =>
    /\ \A e, g \in Readables : e.seq = g.seq => e = g
    /\ \A e \in Readables : e.seq <= db.last

\* No file is created over one that is still in use: the numbers handed out
\* next are larger than those of all live tables, logs and the MANIFEST.
NumbersFresh ==
  db.phase = "open" =>
    \A n \in db.files \cup db.pending \cup UNION db.pins \cup db.comp.base
               \cup {db.logfile, db.manifest} : n < db.next

\* doc/index.md, "Synchronous Writes": after a crash a bulk load restarts
\* "just after the last synchronous write", so a synchronous write that is
\* there vouches for every write that returned before it.
SyncWriteCoversEarlier ==
  db.phase = "open" =>
    \A id \in Ids \cap DOMAIN acked :
      acked[id].sync =>
        {i \in DOMAIN acked : i < id /\ acked[i].run = acked[id].run} \subseteq Ids

=============================================================================
