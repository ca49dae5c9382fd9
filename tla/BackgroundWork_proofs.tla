------------------------ MODULE BackgroundWork_proofs ------------------------
(***************************************************************************)
(* Proofs about BackgroundWork, for every number of databases, callers,    *)
(* levels and parts of the key space: scheduled calls and the databases    *)
(* they are for, the sleep of the background thread, the lock of a         *)
(* backup, who waits for whom, and what a manual compaction has done when  *)
(* it is done.                                                             *)
(***************************************************************************)
EXTENDS BackgroundWork, TLAPS, WellFoundedInduction

----------------------------------------------------------------------------
(* The invariant.                                                          *)

FileCounts == [Parts -> Nat]

Database == [life : {"open", "closing", "destroyed"}, scheduled : BOOLEAN,
             error : BOOLEAN, imm : BOOLEAN, manual : Callers \cup {NoCaller},
             files : [Levels -> FileCounts]]

Call == [pc : {"idle", "mem", "memwait", "range", "wait"}, db : DBs,
         level : 0..(MaxLevel - 1), max : 1..MaxLevel, done : BOOLEAN, begin : Nat,
         todo : FileCounts]

Job == [pc : {"idle", "wait", "got", "call", "flush", "work", "nested", "unlock",
              "crashed"},
        db : DBs, manual : BOOLEAN, level : 0..(MaxLevel - 1), inputs : FileCounts,
        end : Nat]

\* The bounds of the model
Counts == [writes : Nat, faults : Nat, calls : Nat, backups : Nat]

\* DBImpl's fields, the environment's queue and thread, and the callers keep
\* their types; no level has less than no tables.
TypeOK ==
  /\ db \in [DBs -> Database]
  /\ queue \in Seq(DBs)
  /\ workcv \in BOOLEAN
  /\ worker \in Job
  /\ bgwork \in {"none", "worker", "backup"}
  /\ call \in [Callers -> Call]
  /\ woken \subseteq Callers \cup DBs
  /\ used \in Counts

\* Where the thread has a call of a database that has not ended
Busy == Active \cup {"crashed"}

\* background_compaction_scheduled_ says that one call of the database is
\* queued or running; a destroyed database has none.
QueueInv ==
  /\ \A i, j \in 1..Len(queue) : queue[i] = queue[j] => i = j
  /\ \A i \in 1..Len(queue) :
       /\ db[queue[i]].scheduled
       /\ worker.pc \in Busy => worker.db # queue[i]
  /\ worker.pc \in Busy => db[worker.db].scheduled
  /\ \A d \in DBs : db[d].scheduled =>
       /\ db[d].life # "destroyed"
       /\ (\E i \in 1..Len(queue) : queue[i] = d) \/ (worker.pc \in Busy /\ worker.db = d)

\* g_mutex_bgwork is held from BGWork's first step to its last.
LockInv ==
  worker.pc \in {"call", "flush", "work", "nested", "unlock", "crashed"} => bgwork = "worker"

\* Work that there is has been scheduled, and so has what anyone waits for who
\* was not woken.  A database with a call running on it is open.
WaitInv ==
  /\ \A d \in DBs : ~Schedules(db[d])
  /\ \A c \in Callers : call[c].pc # "idle" => db[call[c].db].life = "open"
  /\ \A c \in Callers : call[c].pc \in {"memwait", "wait"} /\ c \notin woken
                          => db[call[c].db].scheduled
  /\ \A d \in DBs : db[d].life = "closing" /\ d \notin woken => db[d].scheduled

Working == worker.pc \in {"work", "nested"}

\* manual_compaction_ points to a compaction whose caller waits for it.
ManualInv ==
  /\ \A d \in DBs : LET m == db[d].manual IN
       m # NoCaller => call[m].db = d /\ call[m].pc = "wait" /\ ~call[m].done
  /\ \A c \in Callers : call[c].pc # "wait" => ~call[c].done /\ call[c].begin = 1
  /\ worker.pc \in {"got", "call"} => worker.level = 0 /\ ~worker.manual

\* The tables that a compaction reads stay where they are until it ends, since
\* nothing else removes tables; and below level 0 a part has one table.
FilesInv ==
  /\ \A d \in DBs : \A l \in 1..MaxLevel : \A k \in Parts : db[d].files[l][k] <= 1
  /\ Working => \A k \in Parts :
       worker.inputs[k] <= db[worker.db].files[worker.level][k]

\* What c has still to compact is in its level, behind where it got to.
Pending(c) ==
  \A k \in Parts : /\ call[c].todo[k] <= db[call[c].db].files[call[c].level][k]
                   /\ k < call[c].begin => call[c].todo[k] = 0

\* The piece of a manual compaction that is being done takes in all that its
\* caller has to compact up to the end of the piece, unless an error cancelled
\* the compaction.
PieceInv ==
  Working /\ worker.manual =>
    LET m == db[worker.db].manual IN
    IF m = NoCaller
      THEN db[worker.db].error
      ELSE /\ call[m].level = worker.level
           /\ \A k \in Parts : k <= worker.end => call[m].todo[k] <= worker.inputs[k]

TodoInv ==
  /\ \A c \in Callers : call[c].pc = "wait" => Pending(c)
  /\ PieceInv
  /\ ManualCompletes

IInv == /\ TypeOK /\ QueueInv /\ LockInv /\ WorkerAwake /\ WaitInv /\ ManualInv
        /\ FilesInv /\ TodoInv

----------------------------------------------------------------------------
(* Levels.                                                                 *)

\* A set of numbers that is not empty has a least one.
LEMMA LeastNumber ==
  ASSUME NEW T \in SUBSET Nat, T # {}
  PROVE  \E x \in T : \A y \in T : x <= y
<1>1. PICK x \in T : \A y \in T : ~(<<y, x>> \in OpToRel(<, Nat))
  BY Zenon, NatLessThanWellFounded, WFMin
<1>2. ASSUME NEW y \in T PROVE ~(y < x)
  <2>1. <<y, x>> \in Nat \X Nat /\ <<y, x>>[1] = y /\ <<y, x>>[2] = x
    BY Zenon
  <2>2. QED
    BY Zenon, <1>1, <2>1 DEF OpToRel
<1>3. QED
  BY <1>2

\* The deepest level with tables that CompactRange looks for is there.
LEMMA DeepestLevel ==
  ASSUME NEW f \in [Levels -> FileCounts]
  PROVE  Deepest(f) \in 1..MaxLevel
<1>0. MaxLevel \in Nat /\ MaxLevel >= 2
  BY Zenon, BackgroundAssumption
<1>1. DEFINE Found(l) == l = 1 \/ \E k \in Parts : f[l][k] > 0
             T == {n \in 0..(MaxLevel - 1) : Found(MaxLevel - n)}
<1>2. MaxLevel - 1 \in T /\ T \in SUBSET Nat
  BY <1>0
<1>3. PICK x \in T : \A y \in T : x <= y
  <2>1. T # {}
    BY Zenon, <1>2
  <2>2. QED
    BY Zenon, <1>2, <2>1, LeastNumber
<1>4. DEFINE l == MaxLevel - x
<1>5. l \in 1..MaxLevel /\ Found(l)
  BY <1>0
<1>6. ASSUME NEW j \in l + 1..MaxLevel, NEW k \in Parts PROVE f[j][k] = 0
  <2>1. MaxLevel - j \in 0..(MaxLevel - 1) /\ ~(x <= MaxLevel - j) /\ j \in Levels
    BY <1>0, <1>5 DEF Levels
  <2>2. MaxLevel - j \notin T
    BY Zenon, <1>3, <2>1
  <2>3. ~(f[MaxLevel - (MaxLevel - j)][k] > 0)
    BY Zenon, <2>1, <2>2
  <2>4. MaxLevel - (MaxLevel - j) = j
    BY <1>0, <1>5
  <2>5. f[j][k] \in Nat
    BY Zenon, <2>1 DEF FileCounts
  <2>6. QED
    BY <2>3, <2>4, <2>5
<1>7. \E i \in 1..MaxLevel :
        /\ i = 1 \/ \E k \in Parts : f[i][k] > 0
        /\ \A j \in i + 1..MaxLevel, k \in Parts : f[j][k] = 0
  BY Zenon, <1>5, <1>6
<1>8. QED
  BY Zenon, <1>7 DEF Deepest


----------------------------------------------------------------------------
(* What the steps do to a database.                                        *)

\* What EXCEPT leaves of the fields of a database.
LEMMA FieldsKept ==
  ASSUME NEW r \in Database
  PROVE  /\ \A b \in BOOLEAN :
              LET s == [r EXCEPT !.scheduled = b] IN
              /\ s \in Database /\ s.life = r.life /\ s.scheduled = b /\ s.error = r.error
              /\ s.imm = r.imm /\ s.manual = r.manual /\ s.files = r.files
         /\ LET s == Failing(r) IN
              /\ s \in Database /\ s.life = r.life /\ s.scheduled = r.scheduled /\ s.error
              /\ s.imm = r.imm /\ s.manual = r.manual /\ s.files = r.files
         /\ \A m \in Callers \cup {NoCaller} :
              LET s == [r EXCEPT !.manual = m] IN
              /\ s \in Database /\ s.life = r.life /\ s.scheduled = r.scheduled
              /\ s.error = r.error /\ s.imm = r.imm /\ s.manual = m /\ s.files = r.files
         /\ LET s == [r EXCEPT !.imm = TRUE] IN
              /\ s \in Database /\ s.life = r.life /\ s.scheduled = r.scheduled
              /\ s.error = r.error /\ s.imm /\ s.manual = r.manual /\ s.files = r.files
         /\ \A v \in {"open", "closing", "destroyed"} :
              LET s == [r EXCEPT !.life = v] IN
              /\ s \in Database /\ s.life = v /\ s.scheduled = r.scheduled
              /\ s.error = r.error /\ s.imm = r.imm /\ s.manual = r.manual
              /\ s.files = r.files
<1>1. \A b \in BOOLEAN :
        LET s == [r EXCEPT !.scheduled = b] IN
        /\ s \in Database /\ s.life = r.life /\ s.scheduled = b /\ s.error = r.error
        /\ s.imm = r.imm /\ s.manual = r.manual /\ s.files = r.files
  BY Zenon DEF Database
<1>2. LET s == Failing(r) IN
        /\ s \in Database /\ s.life = r.life /\ s.scheduled = r.scheduled /\ s.error
        /\ s.imm = r.imm /\ s.manual = r.manual /\ s.files = r.files
  BY Zenon DEF Database, Failing
<1>3. \A m \in Callers \cup {NoCaller} :
        LET s == [r EXCEPT !.manual = m] IN
        /\ s \in Database /\ s.life = r.life /\ s.scheduled = r.scheduled
        /\ s.error = r.error /\ s.imm = r.imm /\ s.manual = m /\ s.files = r.files
  BY Zenon DEF Database
<1>4. LET s == [r EXCEPT !.imm = TRUE] IN
        /\ s \in Database /\ s.life = r.life /\ s.scheduled = r.scheduled
        /\ s.error = r.error /\ s.imm /\ s.manual = r.manual /\ s.files = r.files
  BY Zenon DEF Database
<1>5. \A v \in {"open", "closing", "destroyed"} :
        LET s == [r EXCEPT !.life = v] IN
        /\ s \in Database /\ s.life = v /\ s.scheduled = r.scheduled
        /\ s.error = r.error /\ s.imm = r.imm /\ s.manual = r.manual
        /\ s.files = r.files
  BY Zenon DEF Database
<1>6. QED
  BY Zenon, <1>1, <1>2, <1>3, <1>4, <1>5

\* What a compaction installs: its inputs leave their level, and the parts
\* they cover have one table in the next.
MergedEffect(s, r, l, inputs) ==
  /\ s \in Database
  /\ s.life = r.life /\ s.scheduled = r.scheduled /\ s.error = r.error
  /\ s.imm = r.imm /\ s.manual = r.manual
  /\ \A k \in Parts :
       /\ s.files[l][k] = r.files[l][k] - inputs[k]
       /\ s.files[l + 1][k] = IF inputs[k] > 0 THEN 1 ELSE r.files[l + 1][k]
  /\ \A j \in Levels \ {l, l + 1} : s.files[j] = r.files[j]

\* Installing a compaction does that, when its inputs are in the level.
LEMMA MergedChanges ==
  ASSUME NEW r \in Database, NEW l \in 0..(MaxLevel - 1), NEW inputs \in FileCounts,
         \A k \in Parts : inputs[k] <= r.files[l][k]
  PROVE  MergedEffect(Merged(r, l, inputs), r, l, inputs)
<1>0. MaxLevel \in Nat /\ l \in Levels /\ l + 1 \in Levels /\ l # l + 1
  BY BackgroundAssumption DEF Levels
<1>1. DEFINE f == r.files
             a == [k \in Parts |-> f[l][k] - inputs[k]]
             b == [k \in Parts |-> IF inputs[k] > 0 THEN 1 ELSE f[l + 1][k]]
             g == [f EXCEPT ![l] = a, ![l + 1] = b]
<1>2. f \in [Levels -> FileCounts] /\ f[l] \in FileCounts /\ f[l + 1] \in FileCounts
  BY Zenon, <1>0 DEF Database
<1>3. a \in FileCounts /\ b \in FileCounts
  <2>1. \A k \in Parts : f[l][k] \in Nat /\ inputs[k] \in Nat /\ f[l + 1][k] \in Nat
    BY Zenon, <1>2 DEF FileCounts
  <2>2. \A k \in Parts : f[l][k] - inputs[k] \in Nat
    BY <2>1
  <2>3. QED
    BY Zenon, <2>1, <2>2 DEF FileCounts
<1>4. g \in [Levels -> FileCounts]
  BY Zenon, <1>2, <1>3
<1>5. Merged(r, l, inputs) = [r EXCEPT !.files = g]
  BY Zenon, <1>0, <1>2 DEF Merged, Database
<1>6. LET s == [r EXCEPT !.files = g] IN
        /\ s \in Database /\ s.files = g
        /\ s.life = r.life /\ s.scheduled = r.scheduled /\ s.error = r.error
        /\ s.imm = r.imm /\ s.manual = r.manual
  BY Zenon, <1>4 DEF Database
<1>7. /\ g[l] = a /\ g[l + 1] = b
      /\ \A j \in Levels \ {l, l + 1} : g[j] = f[j]
  BY Zenon, <1>0, <1>2
<1>8. QED
  BY SMTT(30), <1>5, <1>6, <1>7 DEF MergedEffect

\* What a flush leaves: one more table in the level it goes to, or an error.
FlushedEffect(s, r, k, l) ==
  /\ s \in Database
  /\ s.life = r.life /\ s.scheduled = r.scheduled /\ s.manual = r.manual
  /\ \/ s.error /\ s.imm = r.imm /\ s.files = r.files
     \/ /\ s.error = r.error /\ ~s.imm
        /\ s.files = [r.files EXCEPT ![l] = [r.files[l] EXCEPT ![k] = r.files[l][k] + 1]]

\* CompactMemTable leaves that.
LEMMA FlushedChanges ==
  ASSUME NEW r \in Database, NEW k \in Parts, NEW l \in 0..MaxMemCompactLevel,
         NEW failed \in BOOLEAN
  PROVE  FlushedEffect(Flushed(r, k, l, failed), r, k, l)
<1>0. l \in Levels
  BY BackgroundAssumption DEF Levels
<1>1. CASE failed
  <2>1. Flushed(r, k, l, failed) = Failing(r)
    BY Zenon, <1>1 DEF Flushed
  <2>2. LET s == Failing(r) IN
          /\ s \in Database /\ s.life = r.life /\ s.scheduled = r.scheduled /\ s.error
          /\ s.imm = r.imm /\ s.manual = r.manual /\ s.files = r.files
    BY Zenon, FieldsKept
  <2>3. QED
    BY Zenon, <2>1, <2>2 DEF FlushedEffect
<1>2. CASE ~failed
  <2>1. DEFINE g == [r.files EXCEPT ![l] = [r.files[l] EXCEPT ![k] = r.files[l][k] + 1]]
  <2>2. r.files \in [Levels -> FileCounts] /\ r.files[l] \in FileCounts
        /\ r.files[l][k] \in Nat
    BY Zenon, <1>0 DEF Database, FileCounts
  <2>3. [r.files[l] EXCEPT ![k] = r.files[l][k] + 1] \in FileCounts
    BY <2>2 DEF FileCounts
  <2>4. g \in [Levels -> FileCounts]
    BY Zenon, <2>2, <2>3
  <2>5. Flushed(r, k, l, failed) = [r EXCEPT !.imm = FALSE, !.files = g]
    BY Zenon, <1>0, <1>2, <2>2 DEF Flushed, Database
  <2>6. LET s == [r EXCEPT !.imm = FALSE, !.files = g] IN
          /\ s \in Database /\ s.files = g /\ s.life = r.life /\ s.scheduled = r.scheduled
          /\ s.error = r.error /\ ~s.imm /\ s.manual = r.manual
    BY Zenon, <2>4 DEF Database
  <2>7. QED
    BY Zenon, <2>5, <2>6 DEF FlushedEffect
<1>3. QED
  BY Zenon, <1>1, <1>2


\* MaybeScheduleCompaction appends a call to the queue if there is work and no
\* call yet, and otherwise changes nothing.
ScheduleEffect(d, r) ==
  /\ db' \in [DBs -> Database] /\ queue' \in Seq(DBs) /\ workcv' \in BOOLEAN
  /\ \A e \in DBs \ {d} : db'[e] = db[e]
  /\ db'[d].life = r.life /\ db'[d].error = r.error /\ db'[d].imm = r.imm
  /\ db'[d].manual = r.manual /\ db'[d].files = r.files
  /\ ~Schedules(db'[d])
  /\ \/ UNCHANGED <<queue, workcv>> /\ db'[d].scheduled = r.scheduled
     \/ /\ db'[d].scheduled /\ ~r.scheduled /\ r.life = "open"
        /\ Len(queue') = Len(queue) + 1 /\ queue'[Len(queue) + 1] = d
        /\ \A i \in 1..Len(queue) : queue'[i] = queue[i]
        /\ worker.pc = "wait" /\ (queue = <<>> \/ workcv) => workcv'

\* MaybeScheduleCompaction has that effect.
LEMMA ScheduleChanges ==
  ASSUME TypeOK, NEW d \in DBs, NEW r \in Database, MaybeSchedule(d, r)
  PROVE  ScheduleEffect(d, r)
<1>0. db \in [DBs -> Database] /\ queue \in Seq(DBs) /\ workcv \in BOOLEAN
      /\ r.scheduled \in BOOLEAN /\ Schedules(r) \in BOOLEAN
  BY Zenon DEF TypeOK, Database, Schedules
<1>1. DEFINE b == r.scheduled \/ Schedules(r)
             s == [r EXCEPT !.scheduled = b]
<1>2. /\ s \in Database /\ s.life = r.life /\ s.scheduled = b /\ s.error = r.error
      /\ s.imm = r.imm /\ s.manual = r.manual /\ s.files = r.files
  <2>1. b \in BOOLEAN
    BY Zenon, <1>0
  <2>2. QED
    BY Zenon, <2>1 DEF Database
<1>3. db' = [db EXCEPT ![d] = s]
  BY Zenon DEF MaybeSchedule
<1>4. /\ db' \in [DBs -> Database] /\ db'[d] = s /\ \A e \in DBs \ {d} : db'[e] = db[e]
  BY Zenon, <1>0, <1>2, <1>3
<1>5. ~Schedules(s)
  BY Zenon, <1>2 DEF Schedules, NeedsCompaction
<1>6. CASE Schedules(r)
  <2>1. queue' = Append(queue, d) /\ workcv' = (workcv \/ (queue = <<>> /\ worker.pc = "wait"))
    BY Zenon, <1>6 DEF MaybeSchedule
  <2>2. /\ queue' \in Seq(DBs) /\ Len(queue') = Len(queue) + 1
        /\ queue'[Len(queue) + 1] = d /\ \A i \in 1..Len(queue) : queue'[i] = queue[i]
    BY <1>0, <2>1
  <2>3. s.scheduled /\ ~r.scheduled /\ r.life = "open"
    BY Zenon, <1>2, <1>6 DEF Schedules
  <2>4. workcv' \in BOOLEAN /\ (worker.pc = "wait" /\ (queue = <<>> \/ workcv) => workcv')
    BY Zenon, <1>0, <2>1
  <2>5. QED
    BY Zenon, <1>2, <1>4, <1>5, <2>2, <2>3, <2>4 DEF ScheduleEffect
<1>7. CASE ~Schedules(r)
  <2>1. UNCHANGED <<queue, workcv>> /\ s.scheduled = r.scheduled
    BY Zenon, <1>0, <1>2, <1>7 DEF MaybeSchedule
  <2>2. QED
    BY Zenon, <1>0, <1>2, <1>4, <1>5, <2>1 DEF ScheduleEffect
<1>8. QED
  BY Zenon, <1>6, <1>7

\* The end of a background call leaves the database with r, schedules the next
\* call if there is work, and wakes everyone.
EndEffect(r) ==
  /\ db' \in [DBs -> Database] /\ queue' \in Seq(DBs) /\ workcv' \in BOOLEAN
  /\ \A e \in DBs \ {worker.db} : db'[e] = db[e]
  /\ LET s == db'[worker.db] IN
     /\ s.life = r.life /\ s.error = r.error /\ s.imm = r.imm
     /\ s.manual = r.manual /\ s.files = r.files
     /\ ~Schedules(s)
     /\ \/ UNCHANGED queue /\ ~s.scheduled
        \/ /\ s.scheduled /\ r.life = "open"
           /\ Len(queue') = Len(queue) + 1 /\ queue'[Len(queue) + 1] = worker.db
           /\ \A i \in 1..Len(queue) : queue'[i] = queue[i]
  /\ woken' = woken \cup Waiting(worker.db)
  /\ worker' \in Job /\ worker'.pc = "unlock" /\ worker'.db = worker.db

\* BackgroundCall ends with that effect.
LEMMA EndChanges ==
  ASSUME TypeOK, NEW r \in Database, EndCall(r)
  PROVE  EndEffect(r)
<1>1. worker.db \in DBs /\ worker \in Job
  BY Zenon DEF TypeOK, Job
<1>2. LET s == [r EXCEPT !.scheduled = FALSE] IN
        /\ s \in Database /\ s.life = r.life /\ s.scheduled = FALSE /\ s.error = r.error
        /\ s.imm = r.imm /\ s.manual = r.manual /\ s.files = r.files
  BY Zenon, FieldsKept
<1>3. ScheduleEffect(worker.db, [r EXCEPT !.scheduled = FALSE])
  BY Zenon, <1>1, <1>2, ScheduleChanges DEF EndCall
<1>4. worker' \in Job /\ worker'.pc = "unlock" /\ worker'.db = worker.db
  <2>1. NoFiles \in FileCounts
    BY Zenon DEF NoFiles, FileCounts
  <2>2. NoJob \in Job
    BY <1>1, <2>1, BackgroundAssumption DEF NoJob, Job
  <2>3. worker' = [NoJob EXCEPT !.pc = "unlock", !.db = worker.db]
    BY Zenon DEF EndCall
  <2>4. QED
    BY Zenon, <1>1, <2>2, <2>3 DEF Job
<1>5. woken' = woken \cup Waiting(worker.db)
  BY Zenon DEF EndCall
<1>6. QED
  BY Zenon, <1>2, <1>3, <1>4, <1>5 DEF ScheduleEffect, EndEffect


\* What is credited to the callers for tables that left level l of d.
CreditEffect(f, d, l, inputs) ==
  /\ f \in [Callers -> Call]
  /\ \A c \in Callers :
       /\ f[c].pc = call[c].pc /\ f[c].db = call[c].db /\ f[c].level = call[c].level
       /\ f[c].done = call[c].done /\ f[c].begin = call[c].begin
       /\ IF call[c].db = d /\ call[c].level = l /\ call[c].pc = "wait"
          THEN \A k \in Parts : f[c].todo[k] = IF inputs[k] > call[c].todo[k] THEN 0
                                               ELSE call[c].todo[k] - inputs[k]
          ELSE f[c].todo = call[c].todo

\* The credit has that effect.
LEMMA CreditChanges ==
  ASSUME TypeOK, NEW d, NEW l, NEW inputs \in FileCounts
  PROVE  CreditEffect(Credit(d, l, inputs), d, l, inputs)
<1>0. call \in [Callers -> Call]
  BY Zenon DEF TypeOK
<1>1. ASSUME NEW c \in Callers
      PROVE  LET s == Credit(d, l, inputs)[c] IN
             /\ s \in Call /\ s.pc = call[c].pc /\ s.db = call[c].db
             /\ s.level = call[c].level /\ s.done = call[c].done /\ s.begin = call[c].begin
             /\ IF call[c].db = d /\ call[c].level = l /\ call[c].pc = "wait"
                THEN \A k \in Parts : s.todo[k] = IF inputs[k] > call[c].todo[k] THEN 0
                                                  ELSE call[c].todo[k] - inputs[k]
                ELSE s.todo = call[c].todo
  <2>1. DEFINE left == [k \in Parts |-> IF inputs[k] > call[c].todo[k] THEN 0
                                        ELSE call[c].todo[k] - inputs[k]]
  <2>2. call[c] \in Call /\ call[c].todo \in FileCounts
    BY Zenon, <1>0 DEF Call
  <2>3. left \in FileCounts
    <3>1. \A k \in Parts : call[c].todo[k] \in Nat /\ inputs[k] \in Nat
      BY Zenon, <2>2 DEF FileCounts
    <3>2. \A k \in Parts : (IF inputs[k] > call[c].todo[k] THEN 0
                            ELSE call[c].todo[k] - inputs[k]) \in Nat
      BY <3>1
    <3>3. QED
      BY Zenon, <3>2 DEF FileCounts
  <2>4. CASE call[c].db = d /\ call[c].level = l /\ call[c].pc = "wait"
    <3>1. Credit(d, l, inputs)[c] = [call[c] EXCEPT !.todo = left]
      BY Zenon, <2>4 DEF Credit
    <3>2. LET s == [call[c] EXCEPT !.todo = left] IN
            /\ s \in Call /\ s.pc = call[c].pc /\ s.db = call[c].db
            /\ s.level = call[c].level /\ s.done = call[c].done /\ s.begin = call[c].begin
            /\ s.todo = left
      BY Zenon, <2>2, <2>3 DEF Call
    <3>3. QED
      BY <2>4, <3>1, <3>2
  <2>5. CASE ~(call[c].db = d /\ call[c].level = l /\ call[c].pc = "wait")
    <3>1. Credit(d, l, inputs)[c] = call[c]
      BY Zenon, <2>5 DEF Credit
    <3>2. QED
      BY Zenon, <2>2, <2>5, <3>1
  <2>6. QED
    BY Zenon, <2>4, <2>5
<1>2. Credit(d, l, inputs) \in [Callers -> Call]
  <2>1. Credit(d, l, inputs) = [c \in Callers |-> Credit(d, l, inputs)[c]]
    BY Zenon DEF Credit
  <2>2. QED
    BY Zenon, <1>1, <2>1
<1>3. QED
  BY Zenon, <1>1, <1>2 DEF CreditEffect

\* A background call ends and leaves its database with r: of the callers it
\* tells at most the one of manual_compaction_ that it is done, and then it
\* clears manual_compaction_.
Ends(r) ==
  /\ r \in Database /\ r.life = db[worker.db].life
  /\ r.manual \in {db[worker.db].manual, NoCaller}
  /\ EndEffect(r)
  /\ call' \in [Callers -> Call]
  /\ \A c \in Callers :
       /\ call'[c].pc = call[c].pc /\ call'[c].db = call[c].db
       /\ call'[c].level = call[c].level
       /\ call'[c].done => call[c].done \/ (c = db[worker.db].manual /\ r.manual = NoCaller)
       /\ c # db[worker.db].manual => call'[c].begin = call[c].begin
  /\ worker.pc \in {"call", "flush", "work"}
  /\ UNCHANGED bgwork

\* The process ends on the null pointer in manual_compaction_.
Crashes(r) ==
  /\ r \in Database /\ r.life = db[worker.db].life
  /\ r.manual = NoCaller /\ db[worker.db].manual = NoCaller
  /\ r.scheduled = db[worker.db].scheduled
  /\ db' = [db EXCEPT ![worker.db] = r]
  /\ call' \in [Callers -> Call]
  /\ \A c \in Callers :
       /\ call'[c].pc = call[c].pc /\ call'[c].db = call[c].db
       /\ call'[c].level = call[c].level /\ call'[c].done = call[c].done
       /\ call'[c].begin = call[c].begin
  /\ worker.pc = "work" /\ worker' = [worker EXCEPT !.pc = "crashed"]
  /\ UNCHANGED <<queue, workcv, woken, bgwork>>

\* The call of a database that is closing, or had an error, ends at once.
LEMMA SkipEnds ==
  ASSUME TypeOK, CallSkips
  PROVE  Ends(db[worker.db]) /\ UNCHANGED call
<1>1. worker.db \in DBs /\ db[worker.db] \in Database /\ call \in [Callers -> Call]
  BY Zenon DEF TypeOK, Job
<1>2. EndEffect(db[worker.db])
  BY Zenon, <1>1, EndChanges DEF CallSkips
<1>3. QED
  BY Zenon, <1>1, <1>2 DEF CallSkips, Ends

\* The call that flushes imm_ ends with one more table or with an error.
LEMMA FlushEnds ==
  ASSUME TypeOK, NEW d \in DBs, Flush(d)
  PROVE  /\ d = worker.db /\ UNCHANGED call
         /\ \E k \in Parts, l \in 0..MaxMemCompactLevel : \E r \in Database :
              /\ MayFlushTo(db[d].files, k, l)
              /\ FlushedEffect(r, db[d], k, l) /\ Ends(r)
<1>1. d = worker.db /\ db[d] \in Database /\ call \in [Callers -> Call]
      /\ worker.pc = "flush" /\ UNCHANGED <<call, bgwork>>
  BY Zenon DEF TypeOK, Flush
<1>2. PICK k \in Parts, l \in 0..MaxMemCompactLevel, failed \in BOOLEAN :
        MayFlushTo(db[d].files, k, l) /\ EndCall(Flushed(db[d], k, l, failed))
  BY Zenon DEF Flush
<1>3. DEFINE r == Flushed(db[d], k, l, failed)
<1>4. FlushedEffect(r, db[d], k, l)
  BY Zenon, <1>1, FlushedChanges
<1>5. r \in Database /\ r.life = db[d].life /\ r.manual = db[d].manual
  BY Zenon, <1>4 DEF FlushedEffect
<1>6. EndEffect(r)
  BY Zenon, <1>2, <1>5, EndChanges
<1>7. Ends(r)
  BY Zenon, <1>1, <1>5, <1>6 DEF Ends
<1>8. QED
  BY Zenon, <1>1, <1>2, <1>4, <1>5, <1>7


\* The rest of the call after the work of a compaction, which left the files
\* as in r and the callers as in calls.
AfterEffect(r, calls, failed) ==
  LET m == db[worker.db].manual IN
  \/ ~worker.manual /\ Ends(r) /\ call' = calls
  \/ worker.manual /\ m = NoCaller /\ Crashes(r) /\ call' = calls
  \/ /\ worker.manual /\ m \in Callers
     /\ \E s \in Database : Ends(s) /\ s.files = r.files /\ s.error = r.error
     /\ \A c \in Callers \ {m} : call'[c] = calls[c]
     /\ call'[m].done = failed /\ call'[m].todo = calls[m].todo
     /\ call'[m].begin = IF failed THEN calls[m].begin ELSE worker.end

\* BackgroundCompaction reads manual_compaction_ again, and ends in one of
\* three ways.
LEMMA AfterWorkChanges ==
  ASSUME TypeOK, worker.pc = "work", UNCHANGED bgwork, NEW r \in Database,
         r.life = db[worker.db].life, r.manual = db[worker.db].manual,
         r.scheduled = db[worker.db].scheduled,
         NEW calls \in [Callers -> Call],
         \A c \in Callers : /\ calls[c].pc = call[c].pc /\ calls[c].db = call[c].db
                            /\ calls[c].level = call[c].level /\ calls[c].done = call[c].done
                            /\ calls[c].begin = call[c].begin,
         NEW failed \in BOOLEAN, AfterWork(r, calls, failed)
  PROVE  AfterEffect(r, calls, failed)
<1>0. DEFINE m == db[worker.db].manual
<1>1. /\ worker.db \in DBs /\ worker \in Job /\ db[worker.db] \in Database
      /\ m \in Callers \cup {NoCaller} /\ worker.manual \in BOOLEAN /\ worker.end \in Nat
  BY Zenon DEF TypeOK, Job, Database
<1>2. CASE ~worker.manual
  <2>1. EndCall(r) /\ call' = calls
    BY Zenon, <1>2 DEF AfterWork
  <2>2. EndEffect(r)
    BY Zenon, <2>1, EndChanges
  <2>3. Ends(r)
    BY Zenon, <1>1, <2>1, <2>2 DEF Ends
  <2>4. QED
    BY Zenon, <1>2, <2>1, <2>3 DEF AfterEffect
<1>3. CASE worker.manual /\ m = NoCaller
  <2>1. /\ db' = [db EXCEPT ![worker.db] = r] /\ call' = calls
        /\ worker' = [worker EXCEPT !.pc = "crashed"]
        /\ UNCHANGED <<queue, workcv, woken>>
    BY Zenon, <1>3 DEF AfterWork
  <2>2. Crashes(r)
    BY Zenon, <1>1, <1>3, <2>1 DEF Crashes
  <2>3. QED
    BY Zenon, <1>3, <2>1, <2>2 DEF AfterEffect
<1>4. CASE worker.manual /\ m # NoCaller
  <2>1. /\ m \in Callers
        /\ call' = [calls EXCEPT ![m].done = failed,
                                 ![m].begin = IF failed THEN @ ELSE worker.end]
        /\ EndCall([r EXCEPT !.manual = NoCaller])
    BY Zenon, <1>1, <1>4 DEF AfterWork
  <2>2. DEFINE s == [r EXCEPT !.manual = NoCaller]
  <2>3. /\ s \in Database /\ s.life = r.life /\ s.error = r.error
        /\ s.manual = NoCaller /\ s.files = r.files
    BY Zenon DEF Database
  <2>4. EndEffect(s)
    BY Zenon, <2>1, <2>3, EndChanges
  <2>5. /\ \A c \in Callers \ {m} : call'[c] = calls[c]
        /\ call'[m].done = failed /\ call'[m].todo = calls[m].todo
        /\ call'[m].begin = (IF failed THEN calls[m].begin ELSE worker.end)
        /\ call'[m].pc = calls[m].pc /\ call'[m].db = calls[m].db
        /\ call'[m].level = calls[m].level
        /\ call' \in [Callers -> Call]
    <3>1. calls[m] \in Call /\ (IF failed THEN calls[m].begin ELSE worker.end) \in Nat
      BY Zenon, <1>1, <2>1 DEF Call
    <3>2. DEFINE x == [calls[m] EXCEPT !.done = failed,
                                       !.begin = IF failed THEN @ ELSE worker.end]
    <3>3. /\ x \in Call /\ x.done = failed /\ x.todo = calls[m].todo
          /\ x.begin = (IF failed THEN calls[m].begin ELSE worker.end)
          /\ x.pc = calls[m].pc /\ x.db = calls[m].db /\ x.level = calls[m].level
      BY Zenon, <3>1 DEF Call
    <3>4. call' = [calls EXCEPT ![m] = x]
      BY Zenon, <2>1, <3>1 DEF Call
    <3>. HIDE DEF x, m
    <3>5. /\ call' \in [Callers -> Call] /\ call'[m] = x
          /\ \A c \in Callers \ {m} : call'[c] = calls[c]
      BY ZenonT(60), <2>1, <3>3, <3>4
    <3>6. QED
      BY Zenon, <3>3, <3>5
  <2>6. Ends(s)
    <3>1. \A c \in Callers :
            /\ call'[c].pc = call[c].pc /\ call'[c].db = call[c].db
            /\ call'[c].level = call[c].level
            /\ call'[c].done => call[c].done \/ c = m
            /\ c # m => call'[c].begin = call[c].begin
      BY SMTT(30), <2>5
    <3>2. QED
      BY Zenon, <2>3, <2>4, <2>5, <3>1 DEF Ends
  <2>7. QED
    BY Zenon, <1>4, <2>1, <2>3, <2>5, <2>6 DEF AfterEffect
<1>5. QED
  BY Zenon, <1>2, <1>3, <1>4

\* A manual compaction that finds nothing left to do is done.
LEMMA ManualDoneEnds ==
  ASSUME TypeOK, NEW d \in DBs, ManualDone(d)
  PROVE  LET m == db[d].manual IN
         /\ d = worker.db /\ m \in Callers
         /\ RangeInputs(db[d].files, call[m].level, call[m].begin) = {}
         /\ \A c \in Callers \ {m} : call'[c] = call[c]
         /\ call'[m].done /\ call'[m].todo = call[m].todo
         /\ call'[m].begin = call[m].begin
         /\ \E r \in Database : Ends(r) /\ r.files = db[d].files /\ r.error = db[d].error
<1>0. DEFINE m == db[d].manual
             r == [db[d] EXCEPT !.manual = NoCaller]
<1>1. /\ d = worker.db /\ db[d] \in Database /\ m \in Callers /\ worker.pc = "call"
      /\ call \in [Callers -> Call] /\ call[m] \in Call
  BY Zenon DEF TypeOK, ManualDone, Runs, Database
<1>2. /\ RangeInputs(db[d].files, call[m].level, call[m].begin) = {}
      /\ call' = [call EXCEPT ![m] = [call[m] EXCEPT !.done = TRUE]]
      /\ EndCall(r) /\ UNCHANGED bgwork
  BY Zenon DEF ManualDone
<1>3. /\ r \in Database /\ r.life = db[d].life /\ r.error = db[d].error
      /\ r.manual = NoCaller /\ r.files = db[d].files
  BY Zenon, <1>1 DEF Database
<1>4. EndEffect(r)
  BY <1>2, <1>3, EndChanges
<1>5. LET x == [call[m] EXCEPT !.done = TRUE] IN
        /\ x \in Call /\ x.done /\ x.todo = call[m].todo /\ x.begin = call[m].begin
        /\ x.pc = call[m].pc /\ x.db = call[m].db /\ x.level = call[m].level
  BY Zenon, <1>1 DEF Call
<1>6. /\ call' \in [Callers -> Call] /\ \A c \in Callers \ {m} : call'[c] = call[c]
      /\ call'[m] = [call[m] EXCEPT !.done = TRUE]
  BY Zenon, <1>1, <1>2, <1>5
<1>7. Ends(r)
  <2>1. \A c \in Callers :
          /\ call'[c].pc = call[c].pc /\ call'[c].db = call[c].db
          /\ call'[c].level = call[c].level
          /\ call'[c].done => call[c].done \/ c = m
          /\ c # m => call'[c].begin = call[c].begin
    BY Zenon, <1>5, <1>6
  <2>2. QED
    BY Zenon, <1>1, <1>2, <1>3, <1>4, <1>6, <2>1 DEF Ends
<1>8. QED
  BY Zenon, <1>1, <1>2, <1>3, <1>5, <1>6, <1>7


\* What PickCompaction takes of a part is in level 0.
LEMMA PickedType ==
  ASSUME TypeOK, NEW d \in DBs, NEW k \in Parts
  PROVE  /\ Picked(d, k) \in FileCounts
         /\ \A j \in Parts : Picked(d, k)[j] <= db[d].files[0][j]
<1>1. db[d].files[0] \in FileCounts
  BY BackgroundAssumption DEF TypeOK, Database, Levels
<1>2. \A j \in Parts : db[d].files[0][j] \in Nat
  BY Zenon, <1>1 DEF FileCounts
<1>3. QED
  BY <1>2 DEF Picked, FileCounts

\* A trivial move ends with an error, or with the table in level 1.
LEMMA TrivialMoveEnds ==
  ASSUME TypeOK, NEW d \in DBs, TrivialMove(d)
  PROVE  /\ d = worker.db /\ worker.pc = "call"
         /\ \E r \in Database :
              \/ Ends(r) /\ r.files = db[d].files /\ r.error /\ UNCHANGED call
              \/ \E inputs \in FileCounts :
                   /\ \A j \in Parts : inputs[j] <= db[d].files[0][j]
                   /\ MergedEffect(r, db[d], 0, inputs) /\ Ends(r)
                   /\ CreditEffect(call', d, 0, inputs)
<1>1. PICK k \in Parts, failed \in BOOLEAN :
        /\ MayPick(d, k)
        /\ call' = IF failed THEN call ELSE Credit(d, 0, Picked(d, k))
        /\ EndCall(IF failed THEN Failing(db[d]) ELSE Merged(db[d], 0, Picked(d, k)))
  BY Zenon DEF TrivialMove
<1>2. /\ d = worker.db /\ worker.pc = "call" /\ db[d] \in Database /\ UNCHANGED bgwork
      /\ call \in [Callers -> Call] /\ MaxLevel \in Nat /\ MaxLevel >= 2
  BY Zenon, <1>1, BackgroundAssumption DEF MayPick, Runs, TypeOK, TrivialMove
<1>3. CASE failed
  <2>1. DEFINE r == Failing(db[d])
  <2>2. /\ r \in Database /\ r.life = db[d].life /\ r.error
        /\ r.manual = db[d].manual /\ r.files = db[d].files
    BY Zenon, <1>2 DEF Failing, Database
  <2>3. EndCall(r) /\ UNCHANGED call
    BY Zenon, <1>1, <1>3
  <2>. HIDE DEF r
  <2>4. EndEffect(r)
    BY Zenon, <2>2, <2>3, EndChanges
  <2>5. Ends(r)
    BY Zenon, <1>2, <2>2, <2>3, <2>4 DEF Ends
  <2>6. QED
    BY Zenon, <1>2, <2>2, <2>3, <2>5
<1>4. CASE ~failed
  <2>1. DEFINE inputs == Picked(d, k)
               r == Merged(db[d], 0, inputs)
  <2>2. inputs \in FileCounts /\ \A j \in Parts : inputs[j] <= db[d].files[0][j]
    BY Zenon, PickedType
  <2>3. EndCall(r) /\ call' = Credit(d, 0, inputs)
    BY Zenon, <1>1, <1>4
  <2>. HIDE DEF inputs
  <2>4. MergedEffect(r, db[d], 0, inputs)
    BY <1>2, <2>2, MergedChanges
  <2>5. CreditEffect(call', d, 0, inputs)
    BY Zenon, <2>2, <2>3, CreditChanges
  <2>. HIDE DEF r
  <2>6. r \in Database /\ EndEffect(r)
    BY Zenon, <2>3, <2>4, EndChanges DEF MergedEffect
  <2>7. Ends(r)
    BY SMTT(30), <1>2, <2>4, <2>5, <2>6 DEF Ends, MergedEffect, CreditEffect
  <2>8. QED
    BY Zenon, <1>2, <2>2, <2>4, <2>5, <2>6, <2>7
<1>5. QED
  BY Zenon, <1>3, <1>4

\* The work of a compaction is installed, and its callers credited.
LEMMA WorkDoneEnds ==
  ASSUME TypeOK, FilesInv, NEW d \in DBs, WorkDone(d)
  PROVE  /\ d = worker.db /\ worker.pc = "work"
         /\ \E r \in Database, calls \in [Callers -> Call] :
              /\ MergedEffect(r, db[d], worker.level, worker.inputs)
              /\ CreditEffect(calls, d, worker.level, worker.inputs)
              /\ AfterEffect(r, calls, FALSE)
<1>1. /\ d = worker.db /\ worker.pc = "work" /\ UNCHANGED bgwork /\ db[d] \in Database
      /\ worker.level \in 0..(MaxLevel - 1) /\ worker.inputs \in FileCounts
  BY Zenon DEF WorkDone, TypeOK, Job
<1>2. DEFINE r == Merged(db[d], worker.level, worker.inputs)
             calls == Credit(d, worker.level, worker.inputs)
<1>3. AfterWork(r, calls, FALSE)
  BY Zenon DEF WorkDone
<1>4. MergedEffect(r, db[d], worker.level, worker.inputs)
  <2>1. \A k \in Parts : worker.inputs[k] <= db[d].files[worker.level][k]
    BY Zenon, <1>1 DEF FilesInv, Working
  <2>2. QED
    BY Zenon, <1>1, <2>1, MergedChanges
<1>5. CreditEffect(calls, d, worker.level, worker.inputs)
  BY Zenon, <1>1, CreditChanges
<1>. HIDE DEF r, calls
<1>6. r \in Database /\ calls \in [Callers -> Call]
  BY Zenon, <1>4, <1>5 DEF MergedEffect, CreditEffect
<1>7. AfterEffect(r, calls, FALSE)
  <2>1. /\ r.life = db[worker.db].life /\ r.manual = db[worker.db].manual
        /\ r.scheduled = db[worker.db].scheduled
    BY Zenon, <1>1, <1>4 DEF MergedEffect
  <2>2. \A c \in Callers : /\ calls[c].pc = call[c].pc /\ calls[c].db = call[c].db
                           /\ calls[c].level = call[c].level /\ calls[c].done = call[c].done
                           /\ calls[c].begin = call[c].begin
    BY Zenon, <1>5 DEF CreditEffect
  <2>3. QED
    BY Zenon, <1>1, <1>3, <1>6, <2>1, <2>2, AfterWorkChanges
<1>8. QED
  BY Zenon, <1>1, <1>4, <1>5, <1>6, <1>7

\* The work of a compaction fails: there is an error, and nothing is installed.
LEMMA WorkFailsEnds ==
  ASSUME TypeOK, NEW d \in DBs, WorkFails(d)
  PROVE  /\ d = worker.db /\ worker.pc = "work"
         /\ \E r \in Database :
              r.files = db[d].files /\ r.error /\ AfterEffect(r, call, TRUE)
<1>1. /\ d = worker.db /\ worker.pc = "work" /\ UNCHANGED bgwork /\ db[d] \in Database
      /\ call \in [Callers -> Call]
  BY Zenon DEF WorkFails, TypeOK
<1>2. DEFINE r == Failing(db[d])
<1>3. AfterWork(r, call, TRUE)
  BY Zenon DEF WorkFails
<1>4. /\ r \in Database /\ r.life = db[d].life /\ r.scheduled = db[d].scheduled /\ r.error
      /\ r.manual = db[d].manual /\ r.files = db[d].files
  BY Zenon, <1>1 DEF Failing, Database
<1>. HIDE DEF r
<1>5. AfterEffect(r, call, TRUE)
  BY Zenon, <1>1, <1>3, <1>4, AfterWorkChanges
<1>6. QED
  BY Zenon, <1>1, <1>4, <1>5


\* The steps that end a background call.
Ending(d) ==
  CallSkips \/ Flush(d) \/ ManualDone(d) \/ TrivialMove(d) \/ WorkDone(d) \/ WorkFails(d)

\* They end it properly, or end the process.
LEMMA EndingCases ==
  ASSUME TypeOK, FilesInv, NEW d \in DBs, Ending(d)
  PROVE  \E r \in Database : Ends(r) \/ Crashes(r)
<1>1. ASSUME NEW r \in Database, NEW calls, NEW failed, AfterEffect(r, calls, failed)
      PROVE  \E s \in Database : Ends(s) \/ Crashes(s)
  BY Zenon, <1>1 DEF AfterEffect
<1>2. CASE CallSkips
  <2>1. db[worker.db] \in Database
    BY Zenon DEF TypeOK, Job
  <2>2. QED
    BY Zenon, <1>2, <2>1, SkipEnds
<1>3. CASE Flush(d)
  BY Zenon, <1>3, FlushEnds
<1>4. CASE ManualDone(d)
  BY Zenon, <1>4, ManualDoneEnds
<1>5. CASE TrivialMove(d)
  BY Zenon, <1>5, TrivialMoveEnds
<1>6. CASE WorkDone(d)
  BY Zenon, <1>1, <1>6, WorkDoneEnds
<1>7. CASE WorkFails(d)
  BY Zenon, <1>1, <1>7, WorkFailsEnds
<1>8. QED
  BY Zenon, <1>2, <1>3, <1>4, <1>5, <1>6, <1>7 DEF Ending

\* The actions of the specification.
LEMMA StepCases ==
  ASSUME [Next]_vars
  PROVE  \/ UNCHANGED vars \/ TakeWork \/ BGWork \/ BGWorkEnds \/ BackupStarts \/ BackupEnds
         \/ \E d \in DBs :
              \/ Ending(d) \/ StartFlush(d) \/ StartManual(d) \/ StartCompaction(d)
              \/ NestedFlushStarts(d) \/ NestedFlush(d) \/ FillMemtable(d) \/ SyncFails(d)
              \/ Close(d) \/ CloseWoken(d)
         \/ \E c \in Callers :
              MemWait(c) \/ RangeWait(c) \/ RangeEnds(c) \/ \E d \in DBs : CompactRange(c, d)
<1>1. CASE CallSkips
  <2>1. PICK d : d \in DBs
    BY Zenon, BackgroundAssumption
  <2>2. QED
    BY Zenon, <1>1, <2>1 DEF Ending
<1>2. CASE ~CallSkips
  BY Zenon, <1>2 DEF Next, Background, Caller, Ending
<1>3. QED
  BY Zenon, <1>1, <1>2

----------------------------------------------------------------------------
(* Types.                                                                  *)

\* The bounds of the model count in natural numbers.
LEMMA CountsStep ==
  ASSUME used \in Counts, [Next]_vars
  PROVE  used' \in Counts
<1>1. ASSUME NEW failed, CountFault(failed) PROVE used' \in Counts
  BY <1>1 DEF CountFault, Counts
<1>2. ASSUME NEW d \in DBs, Flush(d) \/ TrivialMove(d) \/ NestedFlush(d) \/ WorkFails(d)
             \/ SyncFails(d)
      PROVE  used' \in Counts
  BY Zenon, <1>1, <1>2 DEF Flush, TrivialMove, NestedFlush, WorkFails, SyncFails
<1>3. ASSUME NEW d \in DBs, FillMemtable(d) \/ BackupStarts
                            \/ \E c \in Callers : CompactRange(c, d)
      PROVE  used' \in Counts
  BY <1>3 DEF FillMemtable, BackupStarts, CompactRange, Counts
<1>4. ASSUME UNCHANGED used PROVE used' \in Counts
  BY Zenon, <1>4
<1>5. ASSUME TakeWork \/ BGWork \/ BGWorkEnds \/ BackupEnds \/ CallSkips \/ UNCHANGED vars
      PROVE  UNCHANGED used
  BY Zenon, <1>5 DEF TakeWork, BGWork, BGWorkEnds, BackupEnds, CallSkips, vars
<1>6. ASSUME NEW d \in DBs,
             ManualDone(d) \/ WorkDone(d) \/ StartFlush(d) \/ StartManual(d)
             \/ StartCompaction(d) \/ NestedFlushStarts(d) \/ Close(d) \/ CloseWoken(d)
      PROVE  UNCHANGED used
  BY Zenon, <1>6 DEF ManualDone, WorkDone, StartFlush, StartManual, StartCompaction,
     NestedFlushStarts, Close, CloseWoken
<1>7. ASSUME NEW c \in Callers, MemWait(c) \/ RangeWait(c) \/ RangeEnds(c)
      PROVE  UNCHANGED used
  BY Zenon, <1>7 DEF MemWait, RangeWait, RangeEnds
<1>8. PICK d : d \in DBs
  BY Zenon, BackgroundAssumption
<1>9. BackupStarts => used' \in Counts
  BY Zenon, <1>3, <1>8
<1>10. QED
  BY Zenon, <1>2, <1>3, <1>4, <1>5, <1>6, <1>7, <1>9, StepCases DEF Ending


\* What a caller starts and ends with.
LEMMA NoCallType ==
  /\ NoCall \in Call /\ NoCall.pc = "idle" /\ NoCall.level = 0 /\ NoCall.max = 1
  /\ ~NoCall.done /\ NoCall.begin = 1
<1>1. NoFiles \in FileCounts
  BY Zenon DEF NoFiles, FileCounts
<1>2. (CHOOSE d \in DBs : TRUE) \in DBs /\ MaxLevel \in Nat /\ MaxLevel >= 2
  BY Zenon, BackgroundAssumption
<1>3. QED
  BY <1>1, <1>2 DEF NoCall, Call

\* What the steps of a caller change of its own call.
CallerEffect(c) ==
  /\ call' \in [Callers -> Call] /\ \A x \in Callers \ {c} : call'[x] = call[x]
  /\ UNCHANGED <<worker, bgwork>>

\* A new call of CompactRange.
LEMMA CompactRangeChanges ==
  ASSUME TypeOK, NEW c \in Callers, NEW d \in DBs, CompactRange(c, d)
  PROVE  /\ CallerEffect(c) /\ UNCHANGED <<db, queue, workcv, woken>>
         /\ db[d].life = "open" /\ call'[c].pc = "mem" /\ call'[c].db = d
         /\ call[c].pc = "idle" /\ ~call'[c].done /\ call'[c].begin = 1
<1>1. call \in [Callers -> Call] /\ db[d].files \in [Levels -> FileCounts]
  BY Zenon DEF TypeOK, Database
<1>2. DEFINE x == [NoCall EXCEPT !.pc = "mem", !.db = d, !.max = Deepest(db[d].files)]
<1>3. /\ call' = [call EXCEPT ![c] = x] /\ db[d].life = "open" /\ call[c].pc = "idle"
      /\ UNCHANGED <<db, queue, workcv, worker, bgwork, woken>>
  BY Zenon DEF CompactRange
<1>4. Deepest(db[d].files) \in 1..MaxLevel
  BY <1>1, DeepestLevel
<1>5. x \in Call /\ x.pc = "mem" /\ x.db = d /\ ~x.done /\ x.begin = 1
  BY Zenon, <1>4, NoCallType DEF Call
<1>. HIDE DEF x
<1>6. call' \in [Callers -> Call] /\ call'[c] = x /\ \A y \in Callers \ {c} : call'[y] = call[y]
  BY Zenon, <1>1, <1>3, <1>5
<1>7. QED
  BY Zenon, <1>3, <1>5, <1>6 DEF CallerEffect

\* A caller waits for imm_, or goes on.
LEMMA MemWaitChanges ==
  ASSUME TypeOK, NEW c \in Callers, MemWait(c)
  PROVE  /\ CallerEffect(c) /\ UNCHANGED <<db, queue, workcv>> /\ woken' = woken \ {c}
         /\ call[c].pc \in {"mem", "memwait"} /\ call'[c].pc \in {"memwait", "range"}
         /\ call'[c].pc = "memwait" => db[call[c].db].imm /\ ~db[call[c].db].error
         /\ call'[c].db = call[c].db /\ call'[c].level = call[c].level
         /\ call'[c].done = call[c].done /\ call'[c].begin = call[c].begin
<1>1. call \in [Callers -> Call] /\ call[c] \in Call
  BY Zenon DEF TypeOK
<1>2. DEFINE v == IF db[call[c].db].imm /\ ~db[call[c].db].error THEN "memwait" ELSE "range"
             x == [call[c] EXCEPT !.pc = v]
<1>3. /\ call' = [call EXCEPT ![c] = x] /\ woken' = woken \ {c}
      /\ call[c].pc \in {"mem", "memwait"}
      /\ UNCHANGED <<db, queue, workcv, worker, bgwork>>
  BY Zenon DEF MemWait, Runnable
<1>4. /\ x \in Call /\ x.pc = v /\ x.db = call[c].db /\ x.level = call[c].level
      /\ x.done = call[c].done /\ x.begin = call[c].begin
  BY Zenon, <1>1 DEF Call
<1>. HIDE DEF x
<1>5. call' \in [Callers -> Call] /\ call'[c] = x /\ \A y \in Callers \ {c} : call'[y] = call[y]
  BY Zenon, <1>1, <1>3, <1>4
<1>6. QED
  BY Zenon, <1>3, <1>4, <1>5 DEF CallerEffect

\* A caller of TEST_CompactRange waits, after it made itself the manual
\* compaction if there was none.
LEMMA RangeWaitChanges ==
  ASSUME TypeOK, NEW c \in Callers, RangeWait(c)
  PROVE  LET d == call[c].db IN
         /\ CallerEffect(c) /\ woken' = woken \ {c}
         /\ d \in DBs /\ db[d].life = "open" /\ ~db[d].error
         /\ call[c].pc \in {"range", "wait"} /\ call'[c].pc = "wait"
         /\ ~call[c].done /\ ~call'[c].done
         /\ call'[c].db = d /\ call'[c].level = call[c].level
         /\ call'[c].begin = call[c].begin
         /\ call'[c].todo = IF call[c].pc = "range" THEN db[d].files[call[c].level]
                            ELSE call[c].todo
         /\ \/ db[d].manual # NoCaller /\ UNCHANGED <<db, queue, workcv>>
            \/ /\ db[d].manual = NoCaller
               /\ [db[d] EXCEPT !.manual = c] \in Database
               /\ ScheduleEffect(d, [db[d] EXCEPT !.manual = c])
<1>0. DEFINE d == call[c].db
<1>1. /\ call \in [Callers -> Call] /\ call[c] \in Call /\ d \in DBs /\ db[d] \in Database
      /\ db[d].files[call[c].level] \in FileCounts
  BY SMTT(30), BackgroundAssumption DEF TypeOK, Call, Database, Levels
<1>2. DEFINE w == IF call[c].pc = "range" THEN db[d].files[call[c].level] ELSE call[c].todo
             x == [Begun(c) EXCEPT !.pc = "wait"]
<1>3. /\ call' = [call EXCEPT ![c] = x] /\ woken' = woken \ {c}
      /\ call[c].pc \in {"range", "wait"} /\ ~call[c].done
      /\ db[d].life = "open" /\ ~db[d].error /\ UNCHANGED <<worker, bgwork>>
  BY Zenon DEF RangeWait, Runnable
<1>4. /\ x \in Call /\ x.pc = "wait" /\ x.db = d /\ x.level = call[c].level
      /\ x.done = call[c].done /\ x.begin = call[c].begin /\ x.todo = w
  BY Zenon, <1>1 DEF Call, Begun
<1>. HIDE DEF x, w
<1>5. call' \in [Callers -> Call] /\ call'[c] = x /\ \A y \in Callers \ {c} : call'[y] = call[y]
  BY Zenon, <1>1, <1>3, <1>4
<1>6. \/ db[d].manual # NoCaller /\ UNCHANGED <<db, queue, workcv>>
      \/ /\ db[d].manual = NoCaller
         /\ [db[d] EXCEPT !.manual = c] \in Database
         /\ ScheduleEffect(d, [db[d] EXCEPT !.manual = c])
  <2>1. CASE db[d].manual # NoCaller
    BY Zenon, <2>1 DEF RangeWait
  <2>2. CASE db[d].manual = NoCaller
    <3>1. [db[d] EXCEPT !.manual = c] \in Database
      BY Zenon, <1>1 DEF Database
    <3>2. MaybeSchedule(d, [db[d] EXCEPT !.manual = c])
      BY Zenon, <2>2 DEF RangeWait
    <3>3. QED
      BY Zenon, <1>1, <2>2, <3>1, <3>2, ScheduleChanges
  <2>3. QED
    BY Zenon, <2>1, <2>2
<1>7. QED
  BY Zenon, <1>1, <1>3, <1>4, <1>5, <1>6 DEF CallerEffect, w

\* A caller ends with a level, goes on to the next or returns; it takes itself
\* out of manual_compaction_.
LEMMA RangeEndsChanges ==
  ASSUME TypeOK, NEW c \in Callers, RangeEnds(c)
  PROVE  LET d == call[c].db IN
         /\ CallerEffect(c) /\ woken' = woken \ {c} /\ UNCHANGED <<queue, workcv>>
         /\ d \in DBs /\ (call[c].done \/ db[d].life # "open" \/ db[d].error)
         /\ call[c].pc \in {"range", "wait"} /\ call'[c].pc \in {"idle", "range"}
         /\ ~call'[c].done /\ call'[c].begin = 1
         /\ call'[c].pc = "range" => call'[c].db = d
         /\ db' \in [DBs -> Database] /\ \A e \in DBs \ {d} : db'[e] = db[e]
         /\ db'[d].life = db[d].life /\ db'[d].scheduled = db[d].scheduled
         /\ db'[d].error = db[d].error /\ db'[d].imm = db[d].imm
         /\ db'[d].files = db[d].files
         /\ db'[d].manual = IF db[d].manual = c THEN NoCaller ELSE db[d].manual
<1>0. DEFINE d == call[c].db
             n == call[c].level + 1
             x == IF n < call[c].max
                  THEN [NoCall EXCEPT !.pc = "range", !.db = d, !.level = n,
                                      !.max = call[c].max]
                  ELSE NoCall
             m == IF db[d].manual = c THEN NoCaller ELSE db[d].manual
             s == [db[d] EXCEPT !.manual = m]
<1>1. /\ call \in [Callers -> Call] /\ call[c] \in Call /\ d \in DBs /\ db[d] \in Database
      /\ call[c].level \in 0..(MaxLevel - 1) /\ call[c].max \in 1..MaxLevel
      /\ db \in [DBs -> Database]
  BY Zenon DEF TypeOK, Call
<1>2. /\ call' = [call EXCEPT ![c] = x] /\ woken' = woken \ {c}
      /\ call[c].pc \in {"range", "wait"}
      /\ call[c].done \/ db[d].life # "open" \/ db[d].error
      /\ db' = [db EXCEPT ![d] = s]
      /\ UNCHANGED <<queue, workcv, worker, bgwork>>
  BY Zenon DEF RangeEnds, Runnable
<1>3. /\ x \in Call /\ x.pc \in {"idle", "range"} /\ ~x.done /\ x.begin = 1
      /\ x.pc = "range" => x.db = d
  <2>1. MaxLevel \in Nat
    BY Zenon, BackgroundAssumption
  <2>2. n < call[c].max => n \in 0..(MaxLevel - 1)
    BY <1>1, <2>1
  <2>3. QED
    BY Zenon, <1>1, <2>2, NoCallType DEF Call
<1>4. /\ s \in Database /\ s.life = db[d].life /\ s.scheduled = db[d].scheduled
      /\ s.error = db[d].error /\ s.imm = db[d].imm /\ s.files = db[d].files /\ s.manual = m
  BY Zenon, <1>1 DEF Database
<1>. HIDE DEF x, m, s
<1>5. call' \in [Callers -> Call] /\ call'[c] = x /\ \A y \in Callers \ {c} : call'[y] = call[y]
  BY Zenon, <1>1, <1>2, <1>3
<1>6. db' \in [DBs -> Database] /\ db'[d] = s /\ \A e \in DBs \ {d} : db'[e] = db[e]
  BY Zenon, <1>1, <1>2, <1>4
<1>7. QED
  BY Zenon, <1>1, <1>2, <1>3, <1>4, <1>5, <1>6 DEF CallerEffect, m


\* Only these fields of database d are left as they were, and no other database
\* changes.
Keeps(d, fields) ==
  /\ db' \in [DBs -> Database] /\ \A e \in DBs \ {d} : db'[e] = db[e]
  /\ \A f \in fields : db'[d][f] = db[d][f]

\* The memtable becomes imm_.
LEMMA FillMemtableChanges ==
  ASSUME TypeOK, NEW d \in DBs, FillMemtable(d)
  PROVE  /\ UNCHANGED <<worker, bgwork, call, woken>> /\ db[d].life = "open"
         /\ \E r \in Database :
              /\ ScheduleEffect(d, r) /\ r.life = db[d].life /\ r.error = db[d].error
              /\ r.manual = db[d].manual /\ r.files = db[d].files
              /\ r.scheduled = db[d].scheduled
<1>1. DEFINE r == [db[d] EXCEPT !.imm = TRUE]
<1>2. /\ UNCHANGED <<worker, bgwork, call, woken>> /\ db[d].life = "open"
      /\ db[d] \in Database /\ MaybeSchedule(d, r)
  BY Zenon DEF TypeOK, FillMemtable
<1>3. /\ r \in Database /\ r.life = db[d].life /\ r.error = db[d].error
      /\ r.manual = db[d].manual /\ r.files = db[d].files /\ r.scheduled = db[d].scheduled
  BY Zenon, <1>2 DEF Database
<1>. HIDE DEF r
<1>4. ScheduleEffect(d, r)
  BY Zenon, <1>2, <1>3, ScheduleChanges
<1>5. QED
  BY Zenon, <1>2, <1>3, <1>4

\* A failed sync of the log is an error of the database.
LEMMA SyncFailsChanges ==
  ASSUME TypeOK, NEW d \in DBs, SyncFails(d)
  PROVE  /\ UNCHANGED <<queue, workcv, worker, bgwork, call>> /\ woken' = ErrorWakes(d)
         /\ Keeps(d, {"life", "scheduled", "imm", "manual", "files"}) /\ db'[d].error
<1>1. /\ UNCHANGED <<queue, workcv, worker, bgwork, call>> /\ woken' = ErrorWakes(d)
      /\ db \in [DBs -> Database] /\ db[d] \in Database
      /\ db' = [db EXCEPT ![d] = Failing(db[d])]
  BY Zenon DEF TypeOK, SyncFails
<1>2. LET s == Failing(db[d]) IN
        /\ s \in Database /\ s.life = db[d].life /\ s.scheduled = db[d].scheduled /\ s.error
        /\ s.imm = db[d].imm /\ s.manual = db[d].manual /\ s.files = db[d].files
  BY Zenon, <1>1 DEF Failing, Database
<1>3. QED
  BY Zenon, <1>1, <1>2 DEF Keeps

\* The destructor begins, or looks again.
LEMMA CloseChanges ==
  ASSUME TypeOK, NEW d \in DBs, Close(d) \/ CloseWoken(d)
  PROVE  /\ UNCHANGED <<queue, workcv, worker, bgwork, call>>
         /\ db[d].life \in {"open", "closing"}
         /\ woken' = IF Close(d) THEN woken ELSE woken \ {d}
         /\ Keeps(d, {"scheduled", "error", "imm", "manual", "files"})
         /\ db'[d].life = IF db[d].scheduled THEN "closing" ELSE "destroyed"
         /\ db[d].life = "open" => \A c \in Callers : call[c].pc = "idle" \/ call[c].db # d
<1>1. DEFINE v == IF db[d].scheduled THEN "closing" ELSE "destroyed"
             s == [db[d] EXCEPT !.life = v]
<1>2. db \in [DBs -> Database] /\ db[d] \in Database
  BY Zenon DEF TypeOK
<1>3. /\ UNCHANGED <<queue, workcv, worker, bgwork, call>>
      /\ db[d].life \in {"open", "closing"}
      /\ woken' = IF Close(d) THEN woken ELSE woken \ {d}
      /\ db' = [db EXCEPT ![d] = s]
      /\ db[d].life = "open" => \A c \in Callers : call[c].pc = "idle" \/ call[c].db # d
  BY Zenon DEF Close, CloseWoken
<1>4. /\ s \in Database /\ s.life = v /\ s.scheduled = db[d].scheduled
      /\ s.error = db[d].error /\ s.imm = db[d].imm /\ s.manual = db[d].manual
      /\ s.files = db[d].files
  BY Zenon, <1>2 DEF Database
<1>. HIDE DEF s
<1>5. QED
  BY Zenon, <1>2, <1>3, <1>4 DEF Keeps

\* DoCompactionWork has flushed imm_, or has failed to.
LEMMA NestedFlushChanges ==
  ASSUME TypeOK, NEW d \in DBs, NestedFlush(d)
  PROVE  /\ UNCHANGED <<queue, workcv, bgwork, call>> /\ d = worker.db
         /\ woken' = woken \cup Waiting(d)
         /\ worker.pc = "nested" /\ worker' \in Job
         /\ worker' = [worker EXCEPT !.pc = "work"]
         /\ Keeps(d, {"life", "scheduled", "manual"})
         /\ \E k \in Parts, l \in 0..MaxMemCompactLevel :
              MayFlushTo(db[d].files, k, l) /\ FlushedEffect(db'[d], db[d], k, l)
<1>1. /\ UNCHANGED <<queue, workcv, bgwork, call>> /\ d = worker.db /\ worker.pc = "nested"
      /\ woken' = woken \cup Waiting(d)
      /\ worker' = [worker EXCEPT !.pc = "work"] /\ worker \in Job
      /\ db \in [DBs -> Database] /\ db[d] \in Database
  BY Zenon DEF NestedFlush, TypeOK
<1>2. PICK k \in Parts, l \in 0..MaxMemCompactLevel, failed \in BOOLEAN :
        /\ MayFlushTo(db[d].files, k, l)
        /\ db' = [db EXCEPT ![d] = Flushed(db[d], k, l, failed)]
  BY ZenonT(60) DEF NestedFlush
<1>3. FlushedEffect(Flushed(db[d], k, l, failed), db[d], k, l)
  BY Zenon, <1>1, FlushedChanges
<1>4. Flushed(db[d], k, l, failed) \in Database
  BY Zenon, <1>3 DEF FlushedEffect
<1>5. /\ db' \in [DBs -> Database] /\ db'[d] = Flushed(db[d], k, l, failed)
      /\ \A e \in DBs \ {d} : db'[e] = db[e]
  BY Zenon, <1>1, <1>2, <1>4
<1>6. FlushedEffect(db'[d], db[d], k, l)
  BY Zenon, <1>3, <1>5
<1>7. Keeps(d, {"life", "scheduled", "manual"})
  BY Zenon, <1>5, <1>6 DEF Keeps, FlushedEffect
<1>8. worker' \in Job
  BY Zenon, <1>1 DEF Job
<1>9. QED
  BY Zenon, <1>1, <1>2, <1>6, <1>7, <1>8


\* The steps of the background thread within a call.
Starting(d) == StartFlush(d) \/ StartManual(d) \/ StartCompaction(d) \/ NestedFlushStarts(d)

\* They change what the thread is about only.
LEMMA StartingChanges ==
  ASSUME TypeOK, NEW d \in DBs, Starting(d)
  PROVE  /\ UNCHANGED <<db, queue, workcv, bgwork, call, woken, used>>
         /\ d = worker.db /\ worker' \in Job /\ worker'.db = worker.db
         /\ worker.pc \in {"call", "work"} /\ worker'.pc \in {"flush", "work", "nested"}
<1>1. /\ UNCHANGED <<db, queue, workcv, bgwork, call, woken, used>>
      /\ d = worker.db /\ worker.pc \in {"call", "work"}
  BY Zenon DEF Starting, StartFlush, StartManual, StartCompaction, NestedFlushStarts, MayPick, Runs
<1>2. worker \in Job /\ db[d] \in Database /\ db[d].files \in [Levels -> FileCounts]
  BY Zenon DEF TypeOK, Database
<1>3. CASE StartFlush(d) \/ NestedFlushStarts(d)
  <2>1. \E v \in {"flush", "nested"} : worker' = [worker EXCEPT !.pc = v]
    BY Zenon, <1>3 DEF StartFlush, NestedFlushStarts
  <2>2. QED
    BY <1>1, <1>2, <2>1 DEF Job
<1>4. CASE StartManual(d)
  <2>0. DEFINE m == call[db[d].manual]
               ks == RangeInputs(db[d].files, m.level, m.begin)
  <2>1. db[d].manual \in Callers
    BY Zenon, <1>2, <1>4 DEF StartManual, Database
  <2>2. m.level \in 0..(MaxLevel - 1)
    BY Zenon, <2>1 DEF TypeOK, Call
  <2>3. PICK e \in ks : worker' = [worker EXCEPT !.pc = "work", !.manual = TRUE,
                          !.level = m.level,
                          !.inputs = [k \in Parts |-> IF k \in ks /\ k <= e
                                                        THEN db[d].files[m.level][k] ELSE 0],
                          !.end = e]
    BY Zenon, <1>4 DEF StartManual
  <2>4. DEFINE inputs == [k \in Parts |-> IF k \in ks /\ k <= e
                                            THEN db[d].files[m.level][k] ELSE 0]
  <2>5. e \in Nat
    BY Zenon, BackgroundAssumption DEF RangeInputs
  <2>6. inputs \in FileCounts
    <3>1. db[d].files[m.level] \in FileCounts
      BY SMTT(30), <1>2, <2>2, BackgroundAssumption DEF Levels
    <3>2. QED
      BY Zenon, <3>1 DEF FileCounts
  <2>. HIDE DEF inputs, ks, m
  <2>7. worker' \in Job /\ worker'.db = worker.db /\ worker'.pc = "work"
    BY Zenon, <1>2, <2>2, <2>3, <2>5, <2>6 DEF Job, inputs
  <2>8. QED
    BY Zenon, <1>1, <2>7
<1>5. CASE StartCompaction(d)
  <2>1. PICK k \in Parts : worker' = [worker EXCEPT !.pc = "work", !.inputs = Picked(d, k)]
    BY Zenon, <1>5 DEF StartCompaction
  <2>2. Picked(d, k) \in FileCounts
    BY Zenon, PickedType
  <2>3. QED
    BY Zenon, <1>1, <1>2, <2>1, <2>2 DEF Job
<1>6. QED
  BY Zenon, <1>3, <1>4, <1>5 DEF Starting

\* BackgroundThreadMain waits, or takes the oldest call off the queue.
LEMMA TakeWorkChanges ==
  ASSUME TypeOK, TakeWork
  PROVE  /\ UNCHANGED <<db, bgwork, call, woken, used>> /\ workcv' = FALSE
         /\ worker' \in Job /\ worker.pc \in {"idle", "wait"}
         /\ \/ queue = <<>> /\ UNCHANGED queue /\ worker'.pc = "wait"
            \/ /\ queue # <<>> /\ queue' \in Seq(DBs) /\ Len(queue') = Len(queue) - 1
               /\ \A i \in 1..Len(queue') : queue'[i] = queue[i + 1]
               /\ worker'.pc = "got" /\ worker'.db = queue[1]
               /\ worker'.level = 0 /\ ~worker'.manual
<1>1. /\ UNCHANGED <<db, bgwork, call, woken, used>> /\ workcv' = FALSE
      /\ worker.pc \in {"idle", "wait"} /\ worker \in Job /\ queue \in Seq(DBs)
  BY Zenon DEF TypeOK, TakeWork
<1>2. CASE queue = <<>>
  <2>1. worker' = [worker EXCEPT !.pc = "wait"] /\ queue' = queue
    BY Zenon, <1>2 DEF TakeWork
  <2>2. worker' \in Job /\ worker'.pc = "wait"
    BY Zenon, <1>1, <2>1 DEF Job
  <2>3. QED
    BY Zenon, <1>1, <1>2, <2>1, <2>2
<1>3. CASE queue # <<>>
  <2>1. worker' = [NoJob EXCEPT !.pc = "got", !.db = Head(queue)] /\ queue' = Tail(queue)
    BY Zenon, <1>3 DEF TakeWork
  <2>2. NoJob \in Job /\ NoJob.level = 0 /\ NoJob.manual = FALSE
    <3>1. (CHOOSE d \in DBs : TRUE) \in DBs /\ MaxLevel \in Nat /\ MaxLevel >= 2
      BY Zenon, BackgroundAssumption
    <3>2. NoFiles \in FileCounts
      BY Zenon DEF NoFiles, FileCounts
    <3>3. QED
      BY <3>1, <3>2 DEF NoJob, Job
  <2>3. Head(queue) \in DBs /\ Head(queue) = queue[1]
    BY <1>1, <1>3
  <2>4. worker' \in Job /\ worker'.pc = "got" /\ worker'.db = queue[1]
        /\ worker'.level = 0 /\ ~worker'.manual
    BY Zenon, <2>1, <2>2, <2>3 DEF Job
  <2>5. /\ queue' \in Seq(DBs) /\ Len(queue') = Len(queue) - 1
        /\ \A i \in 1..Len(queue') : queue'[i] = queue[i + 1]
    BY <1>1, <1>3, <2>1
  <2>6. QED
    BY Zenon, <1>1, <1>3, <2>4, <2>5
<1>4. QED
  BY Zenon, <1>2, <1>3

\* Every step keeps the types.
LEMMA TypeStep ==
  ASSUME TypeOK, FilesInv, [Next]_vars
  PROVE  TypeOK'
<1>0. /\ db \in [DBs -> Database] /\ queue \in Seq(DBs) /\ workcv \in BOOLEAN
      /\ worker \in Job /\ bgwork \in {"none", "worker", "backup"}
      /\ call \in [Callers -> Call] /\ woken \subseteq Callers \cup DBs
      /\ used' \in Counts
  BY Zenon, CountsStep DEF TypeOK
<1>w. \A d \in DBs : Waiting(d) \subseteq Callers \cup DBs
  BY Zenon DEF Waiting
<1>1. CASE UNCHANGED vars
  BY Zenon, <1>0, <1>1 DEF TypeOK, vars
<1>2. CASE TakeWork
  BY Zenon, <1>0, <1>2, TakeWorkChanges DEF TypeOK
<1>3. CASE BGWork \/ BGWorkEnds
  <2>1. \E v \in {"call", "idle"} : worker' = [worker EXCEPT !.pc = v]
    BY Zenon, <1>3 DEF BGWork, BGWorkEnds
  <2>2. worker' \in Job
    BY Zenon, <1>0, <2>1 DEF Job
  <2>3. QED
    BY Zenon, <1>0, <1>3, <2>2 DEF TypeOK, BGWork, BGWorkEnds
<1>4. CASE BackupStarts \/ BackupEnds
  BY Zenon, <1>0, <1>4 DEF TypeOK, BackupStarts, BackupEnds
<1>5. ASSUME NEW d \in DBs, Ending(d) PROVE TypeOK'
  <2>1. PICK r \in Database : Ends(r) \/ Crashes(r)
    BY Zenon, <1>5, EndingCases
  <2>2. worker.db \in DBs
    BY Zenon, <1>0 DEF Job
  <2>3. CASE Ends(r)
    BY Zenon, <1>0, <1>w, <2>2, <2>3 DEF Ends, EndEffect, TypeOK
  <2>4. CASE Crashes(r)
    <3>1. worker' \in Job
      BY Zenon, <1>0, <2>4 DEF Crashes, Job
    <3>2. db' \in [DBs -> Database]
      BY Zenon, <1>0, <2>2, <2>4 DEF Crashes
    <3>3. QED
      BY Zenon, <1>0, <2>4, <3>1, <3>2 DEF Crashes, TypeOK
  <2>5. QED
    BY Zenon, <2>1, <2>3, <2>4
<1>6. ASSUME NEW d \in DBs, Starting(d) PROVE TypeOK'
  BY Zenon, <1>0, <1>6, StartingChanges DEF TypeOK
<1>7. ASSUME NEW d \in DBs, NestedFlush(d) PROVE TypeOK'
  BY Zenon, <1>0, <1>w, <1>7, NestedFlushChanges DEF TypeOK, Keeps
<1>8. ASSUME NEW d \in DBs, FillMemtable(d) PROVE TypeOK'
  BY SMTT(30), <1>0, <1>8, FillMemtableChanges DEF TypeOK, ScheduleEffect
<1>9. ASSUME NEW d \in DBs, SyncFails(d) PROVE TypeOK'
  BY SMTT(30), <1>0, <1>w, <1>9, SyncFailsChanges DEF TypeOK, Keeps, ErrorWakes
<1>10. ASSUME NEW d \in DBs, Close(d) \/ CloseWoken(d) PROVE TypeOK'
  BY SMTT(30), <1>0, <1>10, CloseChanges DEF TypeOK, Keeps
<1>11. ASSUME NEW c \in Callers, MemWait(c) PROVE TypeOK'
  BY Zenon, <1>0, <1>11, MemWaitChanges DEF TypeOK, CallerEffect
<1>12. ASSUME NEW c \in Callers, RangeWait(c) PROVE TypeOK'
  BY Zenon, <1>0, <1>12, RangeWaitChanges DEF TypeOK, CallerEffect, ScheduleEffect
<1>13. ASSUME NEW c \in Callers, RangeEnds(c) PROVE TypeOK'
  BY SMTT(30), <1>0, <1>13, RangeEndsChanges DEF TypeOK, CallerEffect
<1>14. ASSUME NEW c \in Callers, NEW d \in DBs, CompactRange(c, d) PROVE TypeOK'
  BY SMTT(30), <1>0, <1>14, CompactRangeChanges DEF TypeOK, CallerEffect
<1>15. QED
  BY Zenon, <1>1, <1>2, <1>3, <1>4, <1>5, <1>6, <1>7, <1>8, <1>9, <1>10, <1>11, <1>12,
     <1>13, <1>14, StepCases DEF Starting


----------------------------------------------------------------------------
(* Scheduled calls.                                                        *)

\* The background thread is where it has a call.
LEMMA BusyPlaces == Busy = {"got", "call", "flush", "work", "nested", "crashed"}
  BY Zenon DEF Busy, Active

\* A step that leaves the queue alone, and does not begin or end a call.
LEMMA QueueKept ==
  ASSUME TypeOK, QueueInv, UNCHANGED queue, worker'.db = worker.db,
         (worker'.pc \in Busy) <=> (worker.pc \in Busy),
         \A d \in DBs : db'[d].scheduled = db[d].scheduled,
         \A d \in DBs : db[d].scheduled /\ db'[d].life = "destroyed"
                          => db[d].life = "destroyed"
  PROVE  QueueInv'
<1>1. queue \in Seq(DBs) /\ worker.db \in DBs
  BY Zenon DEF TypeOK, Job
<1>2. \A i \in 1..Len(queue) : queue[i] \in DBs
  BY <1>1
<1>3. QED
  BY SMTT(30), <1>1, <1>2 DEF QueueInv

\* MaybeScheduleCompaction keeps one call of each database.
LEMMA QueueScheduled ==
  ASSUME TypeOK, QueueInv, UNCHANGED worker, NEW d \in DBs, NEW r \in Database,
         ScheduleEffect(d, r), r.scheduled = db[d].scheduled, r.life = db[d].life
  PROVE  QueueInv'
<1>1. /\ queue \in Seq(DBs) /\ worker.db \in DBs /\ Len(queue) \in Nat
      /\ \A i \in 1..Len(queue) : queue[i] \in DBs
  BY DEF TypeOK, Job
<1>2. CASE UNCHANGED queue /\ db'[d].scheduled = r.scheduled
  <2>1. \A e \in DBs : db'[e].scheduled = db[e].scheduled /\ db'[e].life = db[e].life
    BY Zenon, <1>2 DEF ScheduleEffect
  <2>2. QED
    BY Zenon, <1>2, <2>1, QueueKept
<1>3. CASE /\ db'[d].scheduled /\ ~r.scheduled /\ r.life = "open"
           /\ Len(queue') = Len(queue) + 1 /\ queue'[Len(queue) + 1] = d
           /\ \A i \in 1..Len(queue) : queue'[i] = queue[i]
  <2>1. \A i \in 1..Len(queue) : queue[i] # d
    BY Zenon, <1>3 DEF QueueInv
  <2>2. worker.pc \in Busy => worker.db # d
    BY Zenon, <1>3 DEF QueueInv
  <2>3. \A e \in DBs \ {d} : db'[e] = db[e]
    BY Zenon DEF ScheduleEffect
  <2>4. \A i \in 1..Len(queue') : i \in 1..Len(queue) \/ i = Len(queue) + 1
    BY SMTT(30), <1>1, <1>3
  <2>5. \A i, j \in 1..Len(queue') : queue'[i] = queue'[j] => i = j
    BY SMTT(30), <1>3, <2>1, <2>4 DEF QueueInv
  <2>6. \A i \in 1..Len(queue') :
          /\ db'[queue'[i]].scheduled
          /\ worker'.pc \in Busy => worker'.db # queue'[i]
    BY SMTT(30), <1>1, <1>3, <2>1, <2>2, <2>3, <2>4 DEF QueueInv
  <2>7. worker'.pc \in Busy => db'[worker'.db].scheduled
    BY Zenon, <1>1, <2>2, <2>3 DEF QueueInv
  <2>8. ASSUME NEW e \in DBs, db'[e].scheduled
        PROVE  /\ db'[e].life # "destroyed"
               /\ \/ \E i \in 1..Len(queue') : queue'[i] = e
                  \/ worker'.pc \in Busy /\ worker'.db = e
    <3>1. CASE e = d
      <4>1. db'[d].life = "open"
        BY Zenon, <1>3 DEF ScheduleEffect
      <4>2. Len(queue) + 1 \in 1..Len(queue')
        BY <1>1, <1>3
      <4>3. QED
        BY Zenon, <1>3, <3>1, <4>1, <4>2
    <3>2. CASE e # d
      <4>1. /\ db[e].life # "destroyed"
            /\ \/ \E i \in 1..Len(queue) : queue[i] = e
               \/ worker.pc \in Busy /\ worker.db = e
        BY Zenon, <2>3, <2>8, <3>2 DEF QueueInv
      <4>2. \A i \in 1..Len(queue) : i \in 1..Len(queue')
        BY SMTT(30), <1>1, <1>3
      <4>3. QED
        BY Zenon, <1>3, <2>3, <3>2, <4>1, <4>2
    <3>3. QED
      BY Zenon, <3>1, <3>2
  <2>9. QED
    BY Zenon, <2>5, <2>6, <2>7, <2>8 DEF QueueInv
<1>4. QED
  BY Zenon, <1>2, <1>3 DEF ScheduleEffect

\* The end of a call is the end of the only call of its database.
LEMMA QueueEnds ==
  ASSUME TypeOK, QueueInv, NEW r \in Database, Ends(r)
  PROVE  QueueInv'
<1>0. DEFINE d == worker.db
<1>1. /\ queue \in Seq(DBs) /\ d \in DBs /\ Len(queue) \in Nat
      /\ \A i \in 1..Len(queue) : queue[i] \in DBs
  BY DEF TypeOK, Job
<1>2. worker.pc \in Busy /\ worker'.pc \notin Busy
  BY Zenon, BusyPlaces DEF Ends, EndEffect
<1>3. \A i \in 1..Len(queue) : queue[i] # d
  BY Zenon, <1>2 DEF QueueInv
<1>4. \A e \in DBs \ {d} : db'[e] = db[e]
  BY Zenon DEF Ends, EndEffect
<1>5. \A e \in DBs \ {d} : db[e].scheduled =>
        db[e].life # "destroyed" /\ \E i \in 1..Len(queue) : queue[i] = e
  BY Zenon DEF QueueInv
<1>6. CASE UNCHANGED queue /\ ~db'[d].scheduled
  BY SMTT(30), <1>1, <1>2, <1>3, <1>4, <1>5, <1>6 DEF QueueInv
<1>7. CASE /\ db'[d].scheduled /\ db'[d].life = "open"
           /\ Len(queue') = Len(queue) + 1 /\ queue'[Len(queue) + 1] = d
           /\ \A i \in 1..Len(queue) : queue'[i] = queue[i]
  <2>1. \A i \in 1..Len(queue') : i \in 1..Len(queue) \/ i = Len(queue) + 1
    BY <1>1, <1>7
  <2>2. \A i, j \in 1..Len(queue') : queue'[i] = queue'[j] => i = j
    BY SMTT(30), <1>3, <1>7, <2>1 DEF QueueInv
  <2>3. \A i \in 1..Len(queue') : db'[queue'[i]].scheduled
    BY SMTT(30), <1>1, <1>3, <1>4, <1>7, <2>1 DEF QueueInv
  <2>4. ASSUME NEW e \in DBs, db'[e].scheduled
        PROVE  db'[e].life # "destroyed" /\ \E i \in 1..Len(queue') : queue'[i] = e
    <3>1. \A i \in 1..Len(queue) : i \in 1..Len(queue')
      BY <1>1, <1>7
    <3>2. Len(queue) + 1 \in 1..Len(queue')
      BY <1>1, <1>7
    <3>3. CASE e = d
      BY Zenon, <1>7, <3>2, <3>3
    <3>4. CASE e # d
      BY SMTT(30), <1>4, <1>5, <1>7, <2>4, <3>1, <3>4
    <3>5. QED
      BY Zenon, <3>3, <3>4
  <2>5. QED
    BY Zenon, <1>2, <2>2, <2>3, <2>4 DEF QueueInv
<1>8. QED
  BY Zenon, <1>6, <1>7 DEF Ends, EndEffect

\* The thread takes a call of the queue, and runs it.
LEMMA QueueTaken ==
  ASSUME TypeOK, QueueInv, TakeWork
  PROVE  QueueInv'
<1>1. /\ queue \in Seq(DBs) /\ Len(queue) \in Nat
      /\ \A i \in 1..Len(queue) : queue[i] \in DBs
  BY DEF TypeOK
<1>2. worker.pc \notin Busy /\ UNCHANGED db
  BY Zenon, TakeWorkChanges, BusyPlaces
<1>3. CASE queue = <<>> /\ UNCHANGED queue /\ worker'.pc = "wait"
  BY SMTT(30), <1>2, <1>3, BusyPlaces DEF QueueInv
<1>4. CASE /\ queue # <<>> /\ Len(queue') = Len(queue) - 1
           /\ \A i \in 1..Len(queue') : queue'[i] = queue[i + 1]
           /\ worker'.pc = "got" /\ worker'.db = queue[1]
  <2>1. Len(queue) > 0 /\ Len(queue') \in Nat
    BY <1>1, <1>4
  <2>2. \A i \in 1..Len(queue') : i + 1 \in 1..Len(queue) /\ i + 1 # 1
    BY <1>1, <1>4, <2>1
  <2>3. 1 \in 1..Len(queue) /\ worker'.pc \in Busy
    BY <1>1, <1>4, <2>1, BusyPlaces
  <2>4. \A i, j \in 1..Len(queue') : queue'[i] = queue'[j] => i = j
    BY SMTT(30), <1>4, <2>1, <2>2 DEF QueueInv
  <2>5. \A i \in 1..Len(queue') : db'[queue'[i]].scheduled /\ worker'.db # queue'[i]
    BY SMTT(30), <1>2, <1>4, <2>2, <2>3 DEF QueueInv
  <2>6. db'[worker'.db].scheduled
    BY Zenon, <1>2, <1>4, <2>3 DEF QueueInv
  <2>7. ASSUME NEW e \in DBs, db'[e].scheduled
        PROVE  /\ db'[e].life # "destroyed"
               /\ (\E i \in 1..Len(queue') : queue'[i] = e) \/ worker'.db = e
    <3>1. PICK i \in 1..Len(queue) : queue[i] = e /\ db[e].life # "destroyed"
      BY Zenon, <1>2, <2>7 DEF QueueInv
    <3>2. CASE i = 1
      BY Zenon, <1>2, <1>4, <3>1, <3>2
    <3>3. CASE i # 1
      <4>1. i - 1 \in 1..Len(queue') /\ (i - 1) + 1 = i
        BY <1>1, <1>4, <3>3
      <4>2. queue'[i - 1] = e
        BY Zenon, <1>4, <3>1, <4>1
      <4>3. QED
        BY Zenon, <1>2, <3>1, <4>1, <4>2
    <3>4. QED
      BY Zenon, <3>2, <3>3
  <2>8. QED
    BY Zenon, <2>3, <2>4, <2>5, <2>6, <2>7 DEF QueueInv
<1>5. QED
  BY Zenon, <1>3, <1>4, TakeWorkChanges


\* The scheduled calls, the lock of the background work and the sleep of the
\* background thread, through every step.
LEMMA SchedulingStep ==
  ASSUME TypeOK, FilesInv, QueueInv, LockInv, WorkerAwake, [Next]_vars
  PROVE  QueueInv' /\ LockInv' /\ WorkerAwake'
<1>0. worker \in Job /\ db \in [DBs -> Database] /\ worker.db \in DBs
      /\ workcv \in BOOLEAN
  BY Zenon DEF TypeOK, Job
<1>q. ASSUME UNCHANGED <<queue, workcv, worker, bgwork>>,
             \A d \in DBs : db'[d].scheduled = db[d].scheduled,
             \A d \in DBs : db[d].scheduled /\ db'[d].life = "destroyed"
                              => db[d].life = "destroyed"
      PROVE  QueueInv' /\ LockInv' /\ WorkerAwake'
  <2>1. QueueInv'
    BY Zenon, <1>q, QueueKept
  <2>2. QED
    BY Zenon, <1>q, <2>1 DEF LockInv, WorkerAwake
<1>s. ASSUME UNCHANGED <<worker, bgwork>>, NEW d \in DBs, NEW r \in Database,
             ScheduleEffect(d, r), r.scheduled = db[d].scheduled, r.life = db[d].life
      PROVE  QueueInv' /\ LockInv' /\ WorkerAwake'
  <2>1. QueueInv'
    BY Zenon, <1>s, QueueScheduled
  <2>2. WorkerAwake'
    BY <1>s DEF ScheduleEffect, WorkerAwake
  <2>3. QED
    BY Zenon, <1>s, <2>1, <2>2 DEF LockInv
<1>1. CASE UNCHANGED vars
  BY Zenon, <1>1, <1>q DEF vars
<1>2. CASE TakeWork
  <2>1. QueueInv'
    BY Zenon, <1>2, QueueTaken
  <2>2. QED
    BY Zenon, <1>2, <2>1, TakeWorkChanges DEF LockInv, WorkerAwake
<1>3. CASE BGWork \/ BGWorkEnds
  <2>1. /\ UNCHANGED <<db, queue, workcv>>
        /\ \/ /\ worker.pc = "got" /\ bgwork' = "worker"
              /\ worker' = [worker EXCEPT !.pc = "call"]
           \/ worker.pc = "unlock" /\ worker' = [worker EXCEPT !.pc = "idle"]
    BY Zenon, <1>3 DEF BGWork, BGWorkEnds
  <2>2. /\ worker'.db = worker.db
        /\ \/ worker.pc = "got" /\ bgwork' = "worker" /\ worker'.pc = "call"
           \/ worker.pc = "unlock" /\ worker'.pc = "idle"
    BY Zenon, <1>0, <2>1 DEF Job
  <2>3. QueueInv'
    BY Zenon, <2>1, <2>2, QueueKept, BusyPlaces
  <2>4. QED
    BY Zenon, <2>2, <2>3 DEF LockInv, WorkerAwake
<1>4. CASE BackupStarts \/ BackupEnds
  <2>1. UNCHANGED <<db, queue, workcv, worker>> /\ bgwork # "worker"
    BY Zenon, <1>4 DEF BackupStarts, BackupEnds
  <2>2. QueueInv'
    BY Zenon, <2>1, QueueKept
  <2>3. QED
    BY Zenon, <2>1, <2>2 DEF LockInv, WorkerAwake
<1>5. ASSUME NEW d \in DBs, Ending(d) PROVE QueueInv' /\ LockInv' /\ WorkerAwake'
  <2>1. PICK r \in Database : Ends(r) \/ Crashes(r)
    BY Zenon, <1>5, EndingCases
  <2>2. CASE Ends(r)
    <3>1. QueueInv'
      BY Zenon, <2>2, QueueEnds
    <3>2. QED
      BY Zenon, <2>2, <3>1 DEF Ends, EndEffect, LockInv, WorkerAwake
  <2>3. CASE Crashes(r)
    <3>1. /\ UNCHANGED <<queue, workcv, bgwork>> /\ worker.pc = "work"
          /\ worker'.pc = "crashed" /\ worker'.db = worker.db
      BY Zenon, <1>0, <2>3 DEF Crashes, Job
    <3>2. \A e \in DBs : db'[e].scheduled = db[e].scheduled /\ db'[e].life = db[e].life
      BY Zenon, <1>0, <2>3 DEF Crashes
    <3>3. QueueInv'
      BY Zenon, <3>1, <3>2, QueueKept, BusyPlaces
    <3>4. QED
      BY Zenon, <3>1, <3>3 DEF LockInv, WorkerAwake
  <2>4. QED
    BY Zenon, <2>1, <2>2, <2>3
<1>6. ASSUME NEW d \in DBs, Starting(d) PROVE QueueInv' /\ LockInv' /\ WorkerAwake'
  <2>1. /\ UNCHANGED <<db, queue, workcv, bgwork>> /\ worker'.db = worker.db
        /\ worker.pc \in {"call", "work"} /\ worker'.pc \in {"flush", "work", "nested"}
    BY Zenon, <1>6, StartingChanges
  <2>2. QueueInv'
    BY Zenon, <2>1, QueueKept, BusyPlaces
  <2>3. QED
    BY Zenon, <2>1, <2>2 DEF LockInv, WorkerAwake
<1>7. ASSUME NEW d \in DBs, NestedFlush(d) PROVE QueueInv' /\ LockInv' /\ WorkerAwake'
  <2>1. /\ UNCHANGED <<queue, workcv, bgwork>> /\ worker.pc = "nested"
        /\ worker'.db = worker.db /\ worker'.pc = "work"
    BY Zenon, <1>0, <1>7, NestedFlushChanges DEF Job
  <2>2. \A e \in DBs : db'[e].scheduled = db[e].scheduled /\ db'[e].life = db[e].life
    BY Zenon, <1>7, NestedFlushChanges DEF Keeps
  <2>3. QueueInv'
    BY Zenon, <2>1, <2>2, QueueKept, BusyPlaces
  <2>4. QED
    BY Zenon, <2>1, <2>3 DEF LockInv, WorkerAwake
<1>8. ASSUME NEW d \in DBs, FillMemtable(d) PROVE QueueInv' /\ LockInv' /\ WorkerAwake'
  BY Zenon, <1>8, <1>s, FillMemtableChanges
<1>9. ASSUME NEW d \in DBs, SyncFails(d) PROVE QueueInv' /\ LockInv' /\ WorkerAwake'
  <2>1. \A e \in DBs : db'[e].scheduled = db[e].scheduled /\ db'[e].life = db[e].life
    BY Zenon, <1>9, SyncFailsChanges DEF Keeps
  <2>2. QED
    BY Zenon, <1>9, <1>q, <2>1, SyncFailsChanges
<1>10. ASSUME NEW d \in DBs, Close(d) \/ CloseWoken(d)
       PROVE  QueueInv' /\ LockInv' /\ WorkerAwake'
  <2>1. \A e \in DBs : /\ db'[e].scheduled = db[e].scheduled
                       /\ db[e].scheduled /\ db'[e].life = "destroyed"
                            => db[e].life = "destroyed"
    BY SMTT(30), <1>10, CloseChanges DEF Keeps
  <2>2. QED
    BY Zenon, <1>10, <1>q, <2>1, CloseChanges
<1>11. ASSUME NEW c \in Callers, MemWait(c) PROVE QueueInv' /\ LockInv' /\ WorkerAwake'
  BY Zenon, <1>11, <1>q, MemWaitChanges DEF CallerEffect
<1>12. ASSUME NEW c \in Callers, RangeWait(c) PROVE QueueInv' /\ LockInv' /\ WorkerAwake'
  <2>1. DEFINE d == call[c].db
               r == [db[d] EXCEPT !.manual = c]
  <2>2. UNCHANGED <<worker, bgwork>> /\ d \in DBs
    BY Zenon, <1>12, RangeWaitChanges DEF CallerEffect
  <2>3. CASE UNCHANGED <<db, queue, workcv>>
    BY Zenon, <1>q, <2>2, <2>3
  <2>4. CASE r \in Database /\ ScheduleEffect(d, r)
    <3>1. r.scheduled = db[d].scheduled /\ r.life = db[d].life
      BY Zenon, <1>0, <2>2 DEF Database
    <3>. HIDE DEF r, d
    <3>2. QED
      BY Zenon, <1>s, <2>2, <2>4, <3>1
  <2>5. QED
    BY Zenon, <1>12, <2>3, <2>4, RangeWaitChanges
<1>13. ASSUME NEW c \in Callers, RangeEnds(c) PROVE QueueInv' /\ LockInv' /\ WorkerAwake'
  <2>1. \A e \in DBs : db'[e].scheduled = db[e].scheduled /\ db'[e].life = db[e].life
    BY ZenonT(60), <1>13, RangeEndsChanges
  <2>2. QED
    BY Zenon, <1>13, <1>q, <2>1, RangeEndsChanges DEF CallerEffect
<1>14. ASSUME NEW c \in Callers, NEW d \in DBs, CompactRange(c, d)
       PROVE  QueueInv' /\ LockInv' /\ WorkerAwake'
  BY Zenon, <1>14, <1>q, CompactRangeChanges DEF CallerEffect
<1>15. QED
  BY Zenon, <1>1, <1>2, <1>3, <1>4, <1>5, <1>6, <1>7, <1>8, <1>9, <1>10, <1>11, <1>12,
     <1>13, <1>14, StepCases DEF Starting


----------------------------------------------------------------------------
(* Waiting, and manual compactions.                                        *)

\* What is scheduled depends on these fields of a database.
LEMMA SchedulesSame ==
  ASSUME NEW r, NEW s, s.scheduled = r.scheduled, s.life = r.life, s.error = r.error,
         s.imm = r.imm, s.manual = r.manual, s.files = r.files
  PROVE  Schedules(s) <=> Schedules(r)
BY Zenon DEF Schedules, NeedsCompaction

\* A background call that ends wakes everyone who waits for its database.
LEMMA WaitEnds ==
  ASSUME TypeOK, QueueInv, WaitInv, NEW r \in Database, Ends(r)
  PROVE  WaitInv'
<1>0. DEFINE d == worker.db
<1>1. /\ d \in DBs /\ call \in [Callers -> Call] /\ db \in [DBs -> Database]
      /\ DBs \cap Callers = {}
  BY Zenon, BackgroundAssumption DEF TypeOK, Job
<1>2. /\ \A e \in DBs \ {d} : db'[e] = db[e]
      /\ ~Schedules(db'[d]) /\ db'[d].life = db[d].life
      /\ woken' = woken \cup Waiting(d)
  BY Zenon DEF Ends, EndEffect
<1>3. \A c \in Callers : call'[c].pc = call[c].pc /\ call'[c].db = call[c].db
  BY Zenon DEF Ends
<1>4. \A c \in Callers : call[c].db \in DBs
  BY Zenon, <1>1 DEF Call
<1>5. \A e \in DBs : ~Schedules(db'[e])
  BY Zenon, <1>2 DEF WaitInv
<1>6. \A c \in Callers : call'[c].pc # "idle" => db'[call'[c].db].life = "open"
  BY SMTT(30), <1>2, <1>3, <1>4 DEF WaitInv
<1>7. ASSUME NEW c \in Callers, call'[c].pc \in {"memwait", "wait"}, c \notin woken'
      PROVE  db'[call'[c].db].scheduled
  <2>1. c \notin woken /\ c \notin Waiting(d)
    BY Zenon, <1>2, <1>7
  <2>2. call[c].db # d
    BY Zenon, <1>3, <1>7, <2>1 DEF Waiting
  <2>3. QED
    BY SMTT(30), <1>2, <1>3, <1>4, <1>7, <2>1, <2>2 DEF WaitInv
<1>8. ASSUME NEW e \in DBs, db'[e].life = "closing", e \notin woken'
      PROVE  db'[e].scheduled
  <2>1. e \notin woken /\ e \notin Waiting(d)
    BY Zenon, <1>2, <1>8
  <2>2. e # d
    BY Zenon, <1>2, <1>8, <2>1 DEF Waiting
  <2>3. QED
    BY Zenon, <1>2, <1>8, <2>1, <2>2 DEF WaitInv
<1>9. QED
  BY Zenon, <1>5, <1>6, <1>7, <1>8 DEF WaitInv

\* Its manual compaction is kept, or it is cleared and its caller told.
LEMMA ManualEnds ==
  ASSUME TypeOK, ManualInv, NEW r \in Database, Ends(r)
  PROVE  ManualInv'
<1>0. DEFINE d == worker.db
<1>1. d \in DBs /\ call \in [Callers -> Call] /\ db \in [DBs -> Database]
  BY Zenon DEF TypeOK, Job
<1>2. /\ \A e \in DBs \ {d} : db'[e] = db[e]
      /\ db'[d].manual = r.manual /\ r.manual \in {db[d].manual, NoCaller}
      /\ worker'.pc = "unlock"
  BY Zenon DEF Ends, EndEffect
<1>3. \A c \in Callers :
        /\ call'[c].pc = call[c].pc /\ call'[c].db = call[c].db
        /\ call'[c].done => call[c].done \/ (c = db[d].manual /\ r.manual = NoCaller)
        /\ c # db[d].manual => call'[c].begin = call[c].begin
  BY Zenon DEF Ends
<1>4. ASSUME NEW e \in DBs, db'[e].manual # NoCaller
      PROVE  LET m == db'[e].manual IN
             call'[m].db = e /\ call'[m].pc = "wait" /\ ~call'[m].done
  <2>1. DEFINE m == db'[e].manual
  <2>2. m = db[e].manual /\ m \in Callers
    BY SMTT(30), <1>1, <1>2, <1>4 DEF Database
  <2>3. call[m].db = e /\ call[m].pc = "wait" /\ ~call[m].done
    BY Zenon, <1>4, <2>2 DEF ManualInv
  <2>4. ~(m = db[d].manual /\ r.manual = NoCaller)
    <3>1. CASE e = d
      BY Zenon, <1>2, <1>4, <3>1
    <3>2. CASE e # d
      <4>1. db[d].manual # NoCaller => call[db[d].manual].db = d
        BY Zenon, <1>1 DEF ManualInv
      <4>2. QED
        BY Zenon, <1>4, <2>2, <2>3, <3>2, <4>1
    <3>3. QED
      BY Zenon, <3>1, <3>2
  <2>5. QED
    BY Zenon, <1>3, <2>2, <2>3, <2>4
<1>5. ASSUME NEW c \in Callers, call'[c].pc # "wait"
      PROVE  ~call'[c].done /\ call'[c].begin = 1
  <2>1. c # db[d].manual
    <3>1. NoCaller \notin Callers
      BY Zenon, BackgroundAssumption
    <3>2. db[d].manual # NoCaller => call[db[d].manual].pc = "wait"
      BY Zenon, <1>1 DEF ManualInv
    <3>3. QED
      BY Zenon, <1>3, <1>5, <3>1, <3>2
  <2>2. ~call[c].done /\ call[c].begin = 1
    BY Zenon, <1>3, <1>5 DEF ManualInv
  <2>3. QED
    BY Zenon, <1>3, <2>1, <2>2
<1>6. QED
  BY Zenon, <1>2, <1>4, <1>5 DEF ManualInv

\* A caller that waits, waits for work that is scheduled.
LEMMA RangeWaitScheduled ==
  ASSUME TypeOK, WaitInv, NEW c \in Callers, RangeWait(c)
  PROVE  /\ \A d \in DBs : /\ ~Schedules(db'[d]) /\ db'[d].life = db[d].life
                           /\ db[d].scheduled => db'[d].scheduled
                           /\ db'[d].error = db[d].error /\ db'[d].files = db[d].files
                           /\ \/ db'[d].manual = db[d].manual
                              \/ /\ db[d].manual = NoCaller /\ db'[d].manual = c
                                 /\ d = call[c].db
         /\ db'[call[c].db].scheduled
<1>0. DEFINE d == call[c].db
             r == [db[d] EXCEPT !.manual = c]
<1>1. d \in DBs /\ db[d] \in Database /\ NoCaller \notin Callers
  BY Zenon, RangeWaitChanges, BackgroundAssumption DEF TypeOK
<1>2. db[d].life = "open" /\ ~db[d].error
  BY Zenon, RangeWaitChanges
<1>3. CASE db[d].manual # NoCaller /\ UNCHANGED db
  <2>1. ~Schedules(db[d])
    BY Zenon, <1>1 DEF WaitInv
  <2>2. db[d].scheduled
    BY Zenon, <1>2, <1>3, <2>1 DEF Schedules
  <2>3. QED
    BY Zenon, <1>3, <2>2 DEF WaitInv
<1>4. CASE db[d].manual = NoCaller /\ r \in Database /\ ScheduleEffect(d, r)
  <2>1. /\ r.life = db[d].life /\ r.error = db[d].error /\ r.imm = db[d].imm
        /\ r.manual = c /\ r.files = db[d].files /\ r.scheduled = db[d].scheduled
    BY Zenon, <1>1 DEF Database
  <2>. HIDE DEF r
  <2>2. /\ db'[d].life = db[d].life /\ db'[d].error = db[d].error /\ db'[d].manual = c
        /\ db'[d].files = db[d].files
        /\ ~Schedules(db'[d]) /\ \A e \in DBs \ {d} : db'[e] = db[e]
        /\ db'[d].scheduled \/ db'[d].scheduled = db[d].scheduled
    BY Zenon, <1>4, <2>1 DEF ScheduleEffect
  <2>3. db'[d].scheduled
    BY Zenon, <1>1, <1>2, <2>2 DEF Schedules
  <2>4. QED
    BY Zenon, <1>4, <2>2, <2>3 DEF WaitInv
<1>5. QED
  BY Zenon, <1>3, <1>4, RangeWaitChanges


\* Nobody waits for what is not scheduled, through every step.
LEMMA WaitStep ==
  ASSUME TypeOK, FilesInv, QueueInv, WaitInv, ManualInv, [Next]_vars
  PROVE  WaitInv'
<1>0. /\ worker \in Job /\ db \in [DBs -> Database] /\ worker.db \in DBs
      /\ call \in [Callers -> Call] /\ DBs \cap Callers = {}
      /\ \A c \in Callers : call[c].db \in DBs
  BY Zenon, BackgroundAssumption DEF TypeOK, Job, Call
<1>k. ASSUME UNCHANGED call, woken \subseteq woken',
             \A d \in DBs : /\ ~Schedules(db'[d]) /\ db'[d].life = db[d].life
                            /\ db[d].scheduled => db'[d].scheduled
      PROVE  WaitInv'
  BY Zenon, <1>0, <1>k DEF WaitInv
<1>1. CASE UNCHANGED <<db, call, woken>>
  BY Zenon, <1>1, <1>k DEF WaitInv
<1>2. ASSUME NEW d \in DBs, Ending(d) PROVE WaitInv'
  <2>1. PICK r \in Database : Ends(r) \/ Crashes(r)
    BY Zenon, <1>2, EndingCases
  <2>2. CASE Ends(r)
    BY Zenon, <2>2, WaitEnds
  <2>3. CASE Crashes(r)
    <3>1. /\ UNCHANGED woken /\ worker.pc = "work"
          /\ \A e \in DBs : db'[e].life = db[e].life /\ db'[e].scheduled = db[e].scheduled
          /\ \A e \in DBs \ {worker.db} : db'[e] = db[e]
          /\ \A c \in Callers : call'[c].pc = call[c].pc /\ call'[c].db = call[c].db
      BY Zenon, <1>0, <2>3 DEF Crashes
    <3>2. db[worker.db].scheduled
      BY Zenon, <3>1, BusyPlaces DEF QueueInv
    <3>3. \A e \in DBs : ~Schedules(db'[e])
      BY SMTT(30), <1>0, <3>1, <3>2 DEF WaitInv, Schedules
    <3>4. QED
      BY SMTT(30), <1>0, <3>1, <3>3 DEF WaitInv
  <2>4. QED
    BY Zenon, <2>1, <2>2, <2>3
<1>3. ASSUME NEW d \in DBs, NestedFlush(d) PROVE WaitInv'
  <2>1. /\ UNCHANGED call /\ woken \subseteq woken' /\ d = worker.db /\ worker.pc = "nested"
    BY Zenon, <1>3, NestedFlushChanges
  <2>2. /\ \A e \in DBs : db'[e].life = db[e].life /\ db'[e].scheduled = db[e].scheduled
        /\ \A e \in DBs \ {d} : db'[e] = db[e]
    BY Zenon, <1>3, NestedFlushChanges DEF Keeps
  <2>3. db[d].scheduled
    BY Zenon, <2>1, BusyPlaces DEF QueueInv
  <2>4. \A e \in DBs : ~Schedules(db'[e])
    BY Zenon, <2>2, <2>3 DEF WaitInv, Schedules
  <2>5. QED
    BY Zenon, <1>k, <2>1, <2>2, <2>4
<1>4. ASSUME NEW d \in DBs, FillMemtable(d) PROVE WaitInv'
  <2>1. PICK r \in Database : /\ ScheduleEffect(d, r) /\ r.life = db[d].life
                              /\ r.scheduled = db[d].scheduled
    BY Zenon, <1>4, FillMemtableChanges
  <2>2. \A e \in DBs : /\ ~Schedules(db'[e]) /\ db'[e].life = db[e].life
                       /\ db[e].scheduled => db'[e].scheduled
    BY Zenon, <2>1 DEF ScheduleEffect, WaitInv
  <2>3. QED
    BY Zenon, <1>4, <1>k, <2>2, FillMemtableChanges
<1>5. ASSUME NEW d \in DBs, SyncFails(d) PROVE WaitInv'
  <2>1. UNCHANGED call /\ woken \subseteq woken' /\ db'[d].error
    BY Zenon, <1>5, SyncFailsChanges DEF ErrorWakes
  <2>2. /\ \A e \in DBs : db'[e].life = db[e].life /\ db'[e].scheduled = db[e].scheduled
        /\ \A e \in DBs \ {d} : db'[e] = db[e]
    BY Zenon, <1>5, SyncFailsChanges DEF Keeps
  <2>3. \A e \in DBs : ~Schedules(db'[e])
    BY Zenon, <2>1, <2>2 DEF WaitInv, Schedules
  <2>4. QED
    BY Zenon, <1>k, <2>1, <2>2, <2>3
<1>6. ASSUME NEW d \in DBs, Close(d) \/ CloseWoken(d) PROVE WaitInv'
  <2>1. /\ UNCHANGED call /\ woken' \in {woken, woken \ {d}}
        /\ db'[d].life = IF db[d].scheduled THEN "closing" ELSE "destroyed"
        /\ db[d].life \in {"open", "closing"}
        /\ db[d].life = "open" => \A c \in Callers : call[c].pc = "idle" \/ call[c].db # d
    BY Zenon, <1>6, CloseChanges
  <2>2. /\ \A e \in DBs : db'[e].scheduled = db[e].scheduled
        /\ \A e \in DBs \ {d} : db'[e] = db[e]
    BY SMTT(30), <1>6, CloseChanges DEF Keeps
  <2>3. \A c \in Callers : call[c].pc = "idle" \/ call[c].db # d
    BY Zenon, <2>1 DEF WaitInv
  <2>4. \A e \in DBs : ~Schedules(db'[e])
    BY SMTT(30), <2>1, <2>2 DEF WaitInv, Schedules
  <2>5. \A c \in Callers : call'[c].pc # "idle" => db'[call'[c].db].life = "open"
    BY SMTT(30), <1>0, <2>1, <2>2, <2>3 DEF WaitInv
  <2>6. \A c \in Callers : call'[c].pc \in {"memwait", "wait"} /\ c \notin woken'
                             => db'[call'[c].db].scheduled
    BY SMTT(30), <1>0, <2>1, <2>2, <2>3 DEF WaitInv
  <2>7. \A e \in DBs : db'[e].life = "closing" /\ e \notin woken' => db'[e].scheduled
    BY Zenon, <2>1, <2>2 DEF WaitInv
  <2>8. QED
    BY Zenon, <2>4, <2>5, <2>6, <2>7 DEF WaitInv
<1>7. ASSUME NEW c \in Callers, MemWait(c) PROVE WaitInv'
  <2>1. /\ UNCHANGED db /\ woken' = woken \ {c} /\ call[c].pc \in {"mem", "memwait"}
        /\ call'[c].pc \in {"memwait", "range"} /\ call'[c].db = call[c].db
        /\ call'[c].pc = "memwait" => db[call[c].db].imm /\ ~db[call[c].db].error
        /\ \A x \in Callers \ {c} : call'[x] = call[x]
    BY Zenon, <1>7, MemWaitChanges DEF CallerEffect
  <2>2. db[call[c].db].life = "open" /\ ~Schedules(db[call[c].db])
    BY Zenon, <1>0, <2>1 DEF WaitInv
  <2>3. call'[c].pc = "memwait" => db[call[c].db].scheduled
    BY Zenon, <2>1, <2>2 DEF Schedules
  <2>4. QED
    BY SMTT(30), <1>0, <2>1, <2>2, <2>3 DEF WaitInv
<1>8. ASSUME NEW c \in Callers, RangeWait(c) PROVE WaitInv'
  <2>1. /\ \A d \in DBs : /\ ~Schedules(db'[d]) /\ db'[d].life = db[d].life
                          /\ db[d].scheduled => db'[d].scheduled
        /\ db'[call[c].db].scheduled
    BY Zenon, <1>8, RangeWaitScheduled
  <2>2. /\ woken' = woken \ {c} /\ call'[c].db = call[c].db
        /\ db[call[c].db].life = "open"
        /\ \A x \in Callers \ {c} : call'[x] = call[x]
    BY Zenon, <1>8, RangeWaitChanges DEF CallerEffect
  <2>3. QED
    BY SMTT(30), <1>0, <2>1, <2>2 DEF WaitInv
<1>9. ASSUME NEW c \in Callers, RangeEnds(c) PROVE WaitInv'
  <2>0. DEFINE d == call[c].db
  <2>1. /\ woken' = woken \ {c} /\ d \in DBs
        /\ call[c].pc \in {"range", "wait"}
        /\ call'[c].pc \in {"idle", "range"}
        /\ call'[c].pc = "range" => call'[c].db = d
        /\ \A x \in Callers \ {c} : call'[x] = call[x]
        /\ \A e \in DBs \ {d} : db'[e] = db[e]
        /\ db'[d].life = db[d].life /\ db'[d].scheduled = db[d].scheduled
        /\ db'[d].error = db[d].error /\ db'[d].imm = db[d].imm
        /\ db'[d].files = db[d].files
        /\ db'[d].manual = IF db[d].manual = c THEN NoCaller ELSE db[d].manual
        /\ call[c].done \/ db[d].life # "open" \/ db[d].error
    BY Zenon, <1>9, RangeEndsChanges DEF CallerEffect
  <2>2. ~Schedules(db'[d])
    <3>1. CASE db[d].manual = c
      <4>1. ~call[c].done
        <5>1. c # NoCaller
          BY Zenon, BackgroundAssumption
        <5>2. QED
          BY Zenon, <2>1, <3>1, <5>1 DEF ManualInv
      <4>2. QED
        BY Zenon, <2>1, <4>1 DEF Schedules
    <3>2. CASE db[d].manual # c
      BY ZenonT(60), <2>1, <3>2, SchedulesSame DEF WaitInv
    <3>3. QED
      BY Zenon, <3>1, <3>2
  <2>3. \A e \in DBs : ~Schedules(db'[e])
    BY ZenonT(60), <2>1, <2>2 DEF WaitInv
  <2>4. db[d].life = "open"
    BY Zenon, <2>1 DEF WaitInv
  <2>5. \A e \in DBs : db'[e].life = db[e].life /\ db'[e].scheduled = db[e].scheduled
    BY Zenon, <2>1
  <2>6. ASSUME NEW x \in Callers
        PROVE  /\ call'[x].pc # "idle" => db'[call'[x].db].life = "open"
               /\ call'[x].pc \in {"memwait", "wait"} /\ x \notin woken'
                    => db'[call'[x].db].scheduled
    <3>1. CASE x = c
      <4>1. db'[d].life = "open" /\ call'[c].pc \in {"idle", "range"}
            /\ (call'[c].pc = "range" => call'[c].db = d)
        BY Zenon, <2>1, <2>4
      <4>2. QED
        BY Zenon, <3>1, <4>1
    <3>2. CASE x # c
      <4>1. call'[x] = call[x] /\ (x \notin woken' => x \notin woken)
        BY Zenon, <2>1, <3>2
      <4>2. call[x].db \in DBs
        BY Zenon, <1>0
      <4>3. QED
        BY Zenon, <2>5, <4>1, <4>2 DEF WaitInv
    <3>3. QED
      BY Zenon, <3>1, <3>2
  <2>8. \A e \in DBs : db'[e].life = "closing" /\ e \notin woken' => db'[e].scheduled
    BY ZenonT(60), <1>0, <2>1, <2>5 DEF WaitInv
  <2>9. QED
    BY Zenon, <2>3, <2>6, <2>8 DEF WaitInv
<1>10. ASSUME NEW c \in Callers, NEW d \in DBs, CompactRange(c, d) PROVE WaitInv'
  <2>1. /\ UNCHANGED <<db, woken>> /\ db[d].life = "open" /\ call'[c].pc = "mem"
        /\ call'[c].db = d /\ \A x \in Callers \ {c} : call'[x] = call[x]
    BY SMTT(30), <1>10, CompactRangeChanges DEF CallerEffect
  <2>2. QED
    BY SMTT(30), <1>0, <2>1 DEF WaitInv
<1>11. ASSUME NEW d \in DBs, Starting(d) PROVE WaitInv'
  BY Zenon, <1>1, <1>11, StartingChanges
<1>12. CASE TakeWork \/ BGWork \/ BGWorkEnds \/ BackupStarts \/ BackupEnds \/ UNCHANGED vars
  <2>1. UNCHANGED <<db, call, woken>>
    BY Zenon, <1>12 DEF TakeWork, BGWork, BGWorkEnds, BackupStarts, BackupEnds, vars
  <2>2. QED
    BY Zenon, <1>1, <2>1
<1>13. QED
  BY Zenon, <1>2, <1>3, <1>4, <1>5, <1>6, <1>7, <1>8, <1>9, <1>10, <1>11, <1>12,
     StepCases DEF Starting


\* The manual compactions, through every step.
LEMMA ManualStep ==
  ASSUME TypeOK, FilesInv, WaitInv, ManualInv, [Next]_vars
  PROVE  ManualInv'
<1>0. /\ worker \in Job /\ db \in [DBs -> Database] /\ worker.db \in DBs
      /\ call \in [Callers -> Call] /\ NoCaller \notin Callers
      /\ \A d \in DBs : db[d].manual \in Callers \cup {NoCaller}
  BY Zenon, BackgroundAssumption DEF TypeOK, Job, Database
<1>k. ASSUME UNCHANGED call, \A d \in DBs : db'[d].manual = db[d].manual,
             worker'.pc \in {"got", "call"} => worker'.level = 0 /\ ~worker'.manual
      PROVE  ManualInv'
  BY SMTT(30), <1>0, <1>k DEF ManualInv
<1>u. ASSUME UNCHANGED worker
      PROVE  worker'.pc \in {"got", "call"} => worker'.level = 0 /\ ~worker'.manual
  BY Zenon, <1>u DEF ManualInv
<1>1. CASE UNCHANGED <<db, call, worker>>
  BY Zenon, <1>1, <1>k, <1>u
<1>2. ASSUME NEW d \in DBs, Ending(d) PROVE ManualInv'
  <2>1. PICK r \in Database : Ends(r) \/ Crashes(r)
    BY Zenon, <1>2, EndingCases
  <2>2. CASE Ends(r)
    BY Zenon, <2>2, ManualEnds
  <2>3. CASE Crashes(r)
    <3>1. /\ \A e \in DBs : db'[e].manual = db[e].manual
          /\ \A c \in Callers : /\ call'[c].pc = call[c].pc /\ call'[c].db = call[c].db
                                /\ call'[c].done = call[c].done
                                /\ call'[c].begin = call[c].begin
      BY Zenon, <1>0, <2>3 DEF Crashes
    <3>2. worker'.pc = "crashed"
      BY Zenon, <1>0, <2>3 DEF Crashes, Job
    <3>3. QED
      BY SMTT(30), <1>0, <3>1, <3>2 DEF ManualInv
  <2>4. QED
    BY Zenon, <2>1, <2>2, <2>3
<1>3. ASSUME NEW d \in DBs, NestedFlush(d) PROVE ManualInv'
  <2>1. UNCHANGED call /\ worker'.pc = "work"
    BY Zenon, <1>0, <1>3, NestedFlushChanges DEF Job
  <2>2. \A e \in DBs : db'[e].manual = db[e].manual
    BY Zenon, <1>3, NestedFlushChanges DEF Keeps
  <2>3. QED
    BY Zenon, <1>k, <2>1, <2>2
<1>4. ASSUME NEW d \in DBs, FillMemtable(d) PROVE ManualInv'
  <2>1. UNCHANGED <<call, worker>> /\ \A e \in DBs : db'[e].manual = db[e].manual
    BY SMTT(30), <1>4, FillMemtableChanges DEF ScheduleEffect
  <2>2. QED
    BY Zenon, <1>k, <1>u, <2>1
<1>5. ASSUME NEW d \in DBs, SyncFails(d) \/ Close(d) \/ CloseWoken(d) PROVE ManualInv'
  <2>1. UNCHANGED <<call, worker>>
    BY Zenon, <1>5, SyncFailsChanges, CloseChanges
  <2>2. \A e \in DBs : db'[e].manual = db[e].manual
    BY SMTT(30), <1>5, SyncFailsChanges, CloseChanges DEF Keeps
  <2>3. QED
    BY Zenon, <1>k, <1>u, <2>1, <2>2
<1>6. ASSUME NEW d \in DBs, Starting(d) PROVE ManualInv'
  BY Zenon, <1>6, <1>k, StartingChanges
<1>7. ASSUME NEW c \in Callers, MemWait(c) PROVE ManualInv'
  <2>1. /\ UNCHANGED <<db, worker>> /\ call[c].pc \in {"mem", "memwait"}
        /\ call'[c].pc \in {"memwait", "range"} /\ call'[c].done = call[c].done
        /\ call'[c].begin = call[c].begin
        /\ \A x \in Callers \ {c} : call'[x] = call[x]
    BY Zenon, <1>7, MemWaitChanges DEF CallerEffect
  <2>2. QED
    BY SMTT(30), <1>0, <1>u, <2>1 DEF ManualInv
<1>8. ASSUME NEW c \in Callers, RangeWait(c) PROVE ManualInv'
  <2>1. /\ UNCHANGED worker /\ call'[c].pc = "wait" /\ ~call'[c].done
        /\ call'[c].db = call[c].db
        /\ \A x \in Callers \ {c} : call'[x] = call[x]
    BY Zenon, <1>8, RangeWaitChanges DEF CallerEffect
  <2>2. \A d \in DBs : \/ db'[d].manual = db[d].manual
                       \/ db'[d].manual = c /\ d = call[c].db
    BY Zenon, <1>8, RangeWaitScheduled
  <2>3. ASSUME NEW d \in DBs, db'[d].manual # NoCaller
        PROVE  LET m == db'[d].manual IN
               call'[m].db = d /\ call'[m].pc = "wait" /\ ~call'[m].done
    BY SMTT(30), <1>0, <2>1, <2>2, <2>3 DEF ManualInv
  <2>4. QED
    BY SMTT(30), <1>u, <2>1, <2>3 DEF ManualInv
<1>9. ASSUME NEW c \in Callers, RangeEnds(c) PROVE ManualInv'
  <2>0. DEFINE d == call[c].db
  <2>1. /\ UNCHANGED worker /\ d \in DBs /\ call'[c].pc \in {"idle", "range"}
        /\ ~call'[c].done /\ call'[c].begin = 1
        /\ \A x \in Callers \ {c} : call'[x] = call[x]
        /\ \A e \in DBs \ {d} : db'[e] = db[e]
        /\ db'[d].manual = IF db[d].manual = c THEN NoCaller ELSE db[d].manual
    BY Zenon, <1>9, RangeEndsChanges DEF CallerEffect
  <2>2. ASSUME NEW e \in DBs, db'[e].manual # NoCaller
        PROVE  LET m == db'[e].manual IN
               call'[m].db = e /\ call'[m].pc = "wait" /\ ~call'[m].done
    <3>1. db'[e].manual = db[e].manual /\ db[e].manual \in Callers \ {c}
      BY SMTT(30), <1>0, <2>1, <2>2 DEF ManualInv
    <3>2. QED
      BY SMTT(30), <2>1, <2>2, <3>1 DEF ManualInv
  <2>3. QED
    BY SMTT(30), <1>u, <2>1, <2>2 DEF ManualInv
<1>10. ASSUME NEW c \in Callers, NEW d \in DBs, CompactRange(c, d) PROVE ManualInv'
  <2>1. /\ UNCHANGED <<db, worker>> /\ call[c].pc = "idle" /\ call'[c].pc = "mem"
        /\ ~call'[c].done /\ call'[c].begin = 1
        /\ \A x \in Callers \ {c} : call'[x] = call[x]
    BY Zenon, <1>10, CompactRangeChanges DEF CallerEffect
  <2>2. QED
    BY SMTT(30), <1>0, <1>u, <2>1 DEF ManualInv
<1>11. CASE TakeWork
  BY Zenon, <1>11, <1>k, TakeWorkChanges
<1>12. CASE BGWork
  <2>1. UNCHANGED <<db, call>> /\ worker.pc = "got" /\ worker' = [worker EXCEPT !.pc = "call"]
    BY Zenon, <1>12 DEF BGWork
  <2>2. worker'.level = worker.level /\ worker'.manual = worker.manual
    BY Zenon, <1>0, <2>1 DEF Job
  <2>3. QED
    BY Zenon, <1>k, <2>1, <2>2 DEF ManualInv
<1>13. CASE BGWorkEnds
  <2>1. UNCHANGED <<db, call>> /\ worker'.pc = "idle"
    BY Zenon, <1>0, <1>13 DEF BGWorkEnds, Job
  <2>2. QED
    BY Zenon, <1>k, <2>1
<1>14. CASE BackupStarts \/ BackupEnds \/ UNCHANGED vars
  <2>1. UNCHANGED <<db, call, worker>>
    BY Zenon, <1>14 DEF BackupStarts, BackupEnds, vars
  <2>2. QED
    BY Zenon, <1>1, <2>1
<1>15. QED
  BY Zenon, <1>2, <1>3, <1>4, <1>5, <1>6, <1>7, <1>8, <1>9, <1>10, <1>11, <1>12, <1>13,
     <1>14, StepCases DEF Starting

============================================================================
