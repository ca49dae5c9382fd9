------------------------------- MODULE Repair -------------------------------
(***************************************************************************)
(* RepairDB (db/repair.cc): logs become tables, tables are scanned, the    *)
(* readable part of a damaged one is copied, and a new descriptor names    *)
(* what was found.  The process may be killed between any two steps and    *)
(* file operations may fail; the repair is then run again on what is left. *)
(*                                                                         *)
(* A write is known by its sequence number.  A table is the set of the     *)
(* sequence numbers that an iterator over it yields, and its state: good,  *)
(* damaged (the iterator ends with an error) or partial (it was not        *)
(* finished and yields nothing).  A log is what the log reader returns.    *)
(***************************************************************************)
EXTENDS Integers, FiniteSets, FiniteSetsExt, Functions

CONSTANTS
  Logs,       \* number -> writes, of the logs that the repair finds
  Tables,     \* number -> writes, of the tables
  Manifests,  \* numbers of the descriptors
  MaxFaults,  \* bound: failing file operations
  MaxCrashes  \* bound: repairs that are killed

ASSUME RepairAssumption ==
  /\ DOMAIN Logs \cap DOMAIN Tables = {}
  /\ DOMAIN Logs \cup DOMAIN Tables \cup Manifests \subseteq Nat
  /\ IsFiniteSet(DOMAIN Logs) /\ IsFiniteSet(DOMAIN Tables)
  /\ \A n \in DOMAIN Logs : Logs[n] \subseteq Nat /\ IsFiniteSet(Logs[n])
  /\ \A n \in DOMAIN Tables :
       Tables[n] \subseteq Nat /\ IsFiniteSet(Tables[n]) /\ Tables[n] # {}
  /\ MaxFaults \in Nat /\ MaxCrashes \in Nat

VARIABLES
  log,       \* the logs of the directory
  table,     \* its tables, number -> [writes, state]
  manifest,  \* its descriptors; [files, next, last] where the repair wrote it
  tmp,       \* the temporary file 000001.dbtmp exists
  current,   \* the descriptor that CURRENT names
  lost,      \* what was archived in lost/, <<kind, number>> -> writes
  replaced,  \* history: a file in lost/ was replaced by another of its name
  rp,        \* the Repairer
  salvageable,  \* history: what could be read at first
  faults, crashes,
  exposed    \* history: a repair was killed when a source was archived and its
             \* copy not finished

archive == <<lost, replaced>>
disk == <<log, table, manifest, tmp, current, archive>>
vars == <<disk, rp, salvageable, faults, crashes, exposed>>

Set(f, n, v) == [x \in DOMAIN f \cup {n} |-> IF x = n THEN v ELSE f[x]]
Without(f, n) == Restrict(f, DOMAIN f \ {n})

Largest(S) == Max(S \cup {0})

\* The Repairer before Run, and what Run returned last
Idle(status) ==
  [pc |-> "idle", status |-> status, next |-> 1, logs |-> {}, numbers |-> {},
   manifests |-> {}, tables |-> Restrict([n \in {0} |-> 0], {}), at |-> 0, copy |-> 0,
   saved |-> {}]

Old == [files |-> {}, next |-> 0, last |-> 0]

Init ==
  /\ log = Logs
  /\ table \in {[n \in DOMAIN Tables |->
                   [writes |-> IF s[n] = "partial" THEN {} ELSE Tables[n], state |-> s[n]]] :
                s \in [DOMAIN Tables -> {"good", "damaged", "partial"}]}
  /\ manifest = [n \in Manifests |-> Old]
  /\ tmp = FALSE /\ current = Largest(Manifests)
  /\ lost = Restrict([n \in {<<"log", 0>>} |-> {}], {}) /\ replaced = FALSE
  /\ salvageable = UNION ({log[n] : n \in DOMAIN log} \cup {table[n].writes : n \in DOMAIN table})
  /\ rp = Idle("none")
  /\ faults = 0 /\ crashes = 0 /\ exposed = FALSE

Unchanged == UNCHANGED <<salvageable, faults, crashes, exposed>>

Fault == faults < MaxFaults /\ faults' = faults + 1 /\ UNCHANGED <<salvageable, crashes, exposed>>

\* ArchiveFile renames into lost/, over what was archived there under the same
\* name; callers ignore that it cannot.
Archive(kind, n, writes) ==
  /\ lost' = Set(lost, <<kind, n>>, writes)
  /\ replaced' = (replaced \/ <<kind, n>> \in DOMAIN lost)

-----------------------------------------------------------------------------
\* FindFiles.  The numbers of descriptors do not count, that of a temporary file
\* does.
FindFiles ==
  /\ rp.pc = "idle" /\ rp.status # "ok"
  /\ rp' = [Idle(rp.status) EXCEPT
       !.pc = "logs", !.logs = DOMAIN log, !.numbers = DOMAIN table,
       !.manifests = DOMAIN manifest,
       !.next = 1 + Largest(DOMAIN log \cup DOMAIN table \cup (IF tmp THEN {1} ELSE {}))]
  /\ UNCHANGED disk /\ Unchanged

\* ConvertLogToTable, in the order GetChildren gives: BuildTable creates a file
\* if the log has any entries.
ConvertLogToTable ==
  /\ rp.pc = "logs"
  /\ \E n \in rp.logs :
       /\ rp' = [rp EXCEPT !.pc = "build", !.at = n, !.logs = @ \ {n}, !.copy = rp.next,
                           !.next = @ + 1]
       /\ table' = IF log[n] = {} THEN table
                   ELSE Set(table, rp.next, [writes |-> {}, state |-> "partial"])
  /\ UNCHANGED <<log, manifest, tmp, current, archive>> /\ Unchanged

\* Mutant: the new table is not added to table_numbers_.
TableBuiltUnlisted ==
  /\ rp.pc = "build"
  /\ table' = IF log[rp.at] = {} THEN table
              ELSE [table EXCEPT ![rp.copy] = [writes |-> log[rp.at], state |-> "good"]]
  /\ rp' = [rp EXCEPT !.pc = "archive_log"]
  /\ UNCHANGED <<log, manifest, tmp, current, archive>> /\ Unchanged

TableBuilt ==
  /\ rp.pc = "build"
  /\ table' = IF log[rp.at] = {} THEN table
              ELSE [table EXCEPT ![rp.copy] = [writes |-> log[rp.at], state |-> "good"]]
  /\ rp' = [rp EXCEPT !.pc = "archive_log",
                      !.numbers = IF log[rp.at] = {} THEN @ ELSE @ \cup {rp.copy}]
  /\ UNCHANGED <<log, manifest, tmp, current, archive>> /\ Unchanged

\* The log cannot be opened.
OpenLogFails ==
  /\ rp.pc = "logs" /\ Fault
  /\ \E n \in rp.logs : rp' = [rp EXCEPT !.pc = "archive_log", !.at = n, !.logs = @ \ {n}]
  /\ UNCHANGED disk

\* BuildTable fails and removes its file.  The error is ignored and the log archived all the same.
BuildFails ==
  /\ rp.pc = "build" /\ log[rp.at] # {} /\ Fault
  /\ table' = Without(table, rp.copy)
  /\ rp' = [rp EXCEPT !.pc = "archive_log"]
  /\ UNCHANGED <<log, manifest, tmp, current, archive>>

ArchiveLog ==
  /\ rp.pc = "archive_log"
  /\ rp' = [rp EXCEPT !.pc = "logs"]
  /\ \/ log' = Without(log, rp.at) /\ Archive("log", rp.at, log[rp.at]) /\ Unchanged
     \/ Fault /\ UNCHANGED <<log, archive>>
  /\ UNCHANGED <<table, manifest, tmp, current>>

\* ScanTable: a good table is kept with its largest sequence number, the copy of
\* any other is begun.
ScanTable ==
  /\ rp.pc = "logs" /\ rp.logs = {}
  /\ \E n \in rp.numbers :
       LET t == table[n]
       IN IF t.state = "good"
          THEN /\ rp' = [rp EXCEPT !.numbers = @ \ {n}, !.tables = Set(@, n, Max(t.writes))]
               /\ UNCHANGED table
          ELSE /\ rp' = [rp EXCEPT !.numbers = @ \ {n}, !.pc = "copy", !.at = n,
                                   !.copy = rp.next, !.next = @ + 1]
               /\ table' = Set(table, rp.next, [writes |-> {}, state |-> "partial"])
  /\ UNCHANGED <<log, manifest, tmp, current, archive>> /\ Unchanged

\* GetFileSize fails: the table is archived.  (That ArchiveFile fails as well, a
\* second fault in one step, is not modelled.)
SizeFails ==
  /\ rp.pc = "logs" /\ rp.logs = {} /\ Fault
  /\ \E n \in rp.numbers :
       /\ rp' = [rp EXCEPT !.numbers = @ \ {n}]
       /\ table' = Without(table, n)
       /\ Archive("table", n, table[n].writes)
  /\ UNCHANGED <<log, manifest, tmp, current>>

\* NewWritableFile fails in RepairTable: the table is left where it is, and out.
CopyFails ==
  /\ rp.pc = "logs" /\ rp.logs = {} /\ Fault
  /\ \E n \in rp.numbers :
       /\ table[n].state # "good"
       /\ rp' = [rp EXCEPT !.numbers = @ \ {n}, !.next = @ + 1]
  /\ UNCHANGED disk

\* Mutant: the source is removed instead of archived.
ArchiveSourceRemoves ==
  /\ rp.pc = "copy"
  /\ rp' = [rp EXCEPT !.pc = "finish", !.saved = table[rp.at].writes]
  /\ table' = Without(table, rp.at)
  /\ UNCHANGED <<log, manifest, tmp, current, archive>> /\ Unchanged

\* RepairTable has added every entry of the source to the copy; it archives the
\* source, and only then finishes the copy.
ArchiveSource ==
  /\ rp.pc = "copy"
  /\ rp' = [rp EXCEPT !.pc = "finish", !.saved = table[rp.at].writes]
  /\ \/ /\ table' = Without(table, rp.at)
        /\ Archive("table", rp.at, table[rp.at].writes)
        /\ Unchanged
     \/ Fault /\ UNCHANGED <<table, archive>>
  /\ UNCHANGED <<log, manifest, tmp, current>>

\* Finish and Close.  With nothing to save the builder is abandoned, and its file
\* stays.
FinishCopy ==
  /\ rp.pc = "finish"
  /\ rp' = [rp EXCEPT !.pc = IF rp.saved = {} THEN "logs" ELSE "rename"]
  /\ table' = IF rp.saved = {} THEN table
              ELSE [table EXCEPT ![rp.copy] = [writes |-> rp.saved, state |-> "good"]]
  /\ UNCHANGED <<log, manifest, tmp, current, archive>> /\ Unchanged

\* The copy is renamed over the source.
RenameCopy ==
  /\ rp.pc = "rename"
  /\ table' = Set(Without(table, rp.copy), rp.at, table[rp.copy])
  /\ rp' = [rp EXCEPT !.pc = "logs", !.tables = Set(@, rp.at, Max(rp.saved))]
  /\ UNCHANGED <<log, manifest, tmp, current, archive>> /\ Unchanged

\* Finish, Close or the renaming fails: the copy is removed.  (With nothing to save
\* there is only Close to fail.)
RepairTableFails ==
  /\ rp.pc \in {"finish", "rename"} /\ Fault
  /\ table' = Without(table, rp.copy)
  /\ rp' = [rp EXCEPT !.pc = "logs"]
  /\ UNCHANGED <<log, manifest, tmp, current, archive>>

-----------------------------------------------------------------------------
(* WriteDescriptor *)

\* Mutant: the next file number is computed from the tables that were kept.
DescriptorOfTables ==
  [files |-> DOMAIN rp.tables, next |-> 1 + Largest(DOMAIN rp.tables),
   last |-> Largest({rp.tables[n] : n \in DOMAIN rp.tables})]

Descriptor ==
  [files |-> DOMAIN rp.tables, next |-> rp.next,
   last |-> Largest({rp.tables[n] : n \in DOMAIN rp.tables})]

WriteTemp ==
  /\ rp.pc = "logs" /\ rp.logs = {} /\ rp.numbers = {}
  /\ tmp' = TRUE
  /\ rp' = [rp EXCEPT !.pc = "manifests"]
  /\ UNCHANGED <<log, table, manifest, current, archive>> /\ Unchanged

ArchiveManifest ==
  /\ rp.pc = "manifests"
  /\ \E n \in rp.manifests :
       /\ rp' = [rp EXCEPT !.manifests = @ \ {n}]
       /\ \/ manifest' = Without(manifest, n) /\ Unchanged
          \/ Fault /\ UNCHANGED manifest
  /\ UNCHANGED <<log, table, tmp, current, archive>>

InstallManifest ==
  /\ rp.pc = "manifests" /\ rp.manifests = {}
  /\ tmp' = FALSE
  /\ manifest' = Set(manifest, 1, Descriptor)
  /\ rp' = [rp EXCEPT !.pc = "current"]
  /\ UNCHANGED <<log, table, current, archive>> /\ Unchanged

\* SetCurrentFile(1), by way of the same temporary file.
SetCurrent ==
  /\ rp.pc = "current"
  /\ current' = 1
  /\ rp' = Idle("ok")
  /\ UNCHANGED <<log, table, manifest, tmp, archive>> /\ Unchanged

\* A step of WriteDescriptor fails and RepairDB returns the error; the temporary
\* file is removed.
DescriptorFails ==
  /\ \/ rp.pc = "logs" /\ rp.logs = {} /\ rp.numbers = {}
     \/ rp.pc = "manifests" /\ rp.manifests = {}
     \/ rp.pc = "current"
  /\ Fault
  /\ tmp' \in IF rp.pc = "logs" THEN {tmp, FALSE} ELSE {FALSE}
  /\ rp' = Idle("error")
  /\ UNCHANGED <<log, table, manifest, current, archive>>

-----------------------------------------------------------------------------
\* The process is killed.
Crash ==
  /\ rp.pc # "idle" /\ crashes < MaxCrashes
  /\ crashes' = crashes + 1
  /\ rp' = Idle("none")
  /\ exposed' = (exposed \/ (rp.pc = "finish" /\ rp.at \notin DOMAIN table /\ rp.saved # {}))
  /\ tmp' \in IF rp.pc = "current" THEN BOOLEAN ELSE {tmp}
  /\ UNCHANGED <<log, table, manifest, current, archive, salvageable, faults>>

Next ==
  \/ FindFiles
  \/ ConvertLogToTable \/ OpenLogFails \/ TableBuilt \/ BuildFails \/ ArchiveLog
  \/ ScanTable \/ SizeFails \/ CopyFails
  \/ ArchiveSource \/ FinishCopy \/ RenameCopy \/ RepairTableFails
  \/ WriteTemp \/ ArchiveManifest \/ InstallManifest \/ SetCurrent \/ DescriptorFails
  \/ Crash

Spec == Init /\ [][Next]_vars

-----------------------------------------------------------------------------
(* Properties *)

Done == rp.pc = "idle" /\ rp.status = "ok"

Writes(f) == UNION {f[n].writes : n \in DOMAIN f}
Kept(f) == UNION {f[n] : n \in DOMAIN f}

\* Whatever could be read when the repair began can be read in the directory or in
\* lost/, at every moment of every repair.
NothingGone == salvageable \subseteq Kept(log) \cup Writes(table) \cup Kept(lost)

\* So it is, whatever repairs are killed or fail, unless ArchiveFile replaced an
\* archived file: RemoveFile is called on copies only.  Without failing file
\* operations that does not happen: a table that leaves the directory for lost/
\* leaves a file with a larger number behind, or comes back, so that its number is
\* not given out again.
NothingDestroyed == faults = 0 \/ ~replaced => NothingGone

\* After a repair that returned OK, CURRENT names the new descriptor, every table
\* in it exists and is readable, its next file number is above every log and table
\* of the directory, also those that the repair left behind, and its last sequence
\* number above every write of a listed table: Open accepts it and gives no number
\* of a log or a table out again.  (Descriptors do not count: where there are neither
\* logs nor tables, the next number is 1, that of the new descriptor.)
RepairedOpens ==
  Done =>
    /\ current \in DOMAIN manifest
    /\ LET d == manifest[current]
       IN /\ \A n \in d.files : n \in DOMAIN table /\ table[n].state = "good"
          /\ \A n \in DOMAIN table \cup DOMAIN log : n < d.next
          /\ \A w \in Writes(Restrict(table, d.files)) : w <= d.last

\* A repair that returned OK put into listed tables everything that could be read
\* at first, whatever repairs were killed before it, unless a file operation failed
\* or a repair was killed between the archiving of a source and the end of Finish.
RepairKeepsData ==
  Done /\ faults = 0 /\ ~exposed =>
    salvageable \subseteq Writes(Restrict(table, manifest[current].files))
=============================================================================
