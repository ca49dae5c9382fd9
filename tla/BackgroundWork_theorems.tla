--------------------- MODULE BackgroundWork_theorems -----------------------
(***************************************************************************)
(* What holds in every behaviour of the background work, for any numbers   *)
(* of databases, callers and levels.  BackgroundWork_proofs shows that     *)
(* every step keeps the types, the queue, the waits and the manual         *)
(* compactions; this module follows the tables and the ranges that the     *)
(* callers still have to have compacted, and draws the conclusions.        *)
(***************************************************************************)
EXTENDS BackgroundWork_proofs

----------------------------------------------------------------------------
(* Tables.                                                                 *)

\* The tables of the levels are counted.
LEMMA FileNumbers ==
  ASSUME NEW r \in Database
  PROVE  \A l \in Levels : \A k \in Parts : r.files[l][k] \in Nat
BY Zenon DEF Database, FileCounts

\* A number of tables that stays the same does not fall.
LEMMA AtMostSelf == ASSUME NEW x \in Nat PROVE x <= x
OBVIOUS

\* Numbers of tables are compared through a third one.
LEMMA AtMost ==
  ASSUME NEW x \in Nat, NEW y \in Nat, NEW z \in Nat, x <= y, y <= z
  PROVE  x <= z
OBVIOUS

\* Below level 0 a part has at most one table.
Tidy(r) == \A l \in 1..MaxLevel : \A k \in Parts : r.files[l][k] <= 1

\* A flush adds a table, below level 0 only where there is none.
LEMMA FlushedTidy ==
  ASSUME NEW r \in Database, NEW s, NEW k \in Parts, NEW l \in 0..MaxMemCompactLevel,
         MayFlushTo(r.files, k, l), FlushedEffect(s, r, k, l), Tidy(r)
  PROVE  /\ Tidy(s)
         /\ \A j \in Levels : \A i \in Parts : r.files[j][i] <= s.files[j][i]
         /\ r.error => s.error
<1>0. /\ MaxLevel \in Nat /\ l \in Levels /\ r.files \in [Levels -> FileCounts]
      /\ \A j \in Levels : \A i \in Parts : r.files[j][i] \in Nat
      /\ \A j \in 1..MaxLevel : j \in Levels
  <2>1. MaxLevel \in Nat /\ l \in Levels /\ \A j \in 1..MaxLevel : j \in Levels
    BY BackgroundAssumption DEF Levels
  <2>2. r.files \in [Levels -> FileCounts]
    BY Zenon DEF Database
  <2>3. QED
    BY Zenon, <2>1, <2>2, FileNumbers
<1>1. CASE s.error /\ s.files = r.files
  BY <1>0, <1>1 DEF Tidy
<1>2. CASE /\ s.error = r.error
           /\ s.files = [r.files EXCEPT ![l] = [r.files[l] EXCEPT ![k] = r.files[l][k] + 1]]
  <2>1. r.files[l] \in [Parts -> Nat]
    BY Zenon, <1>0 DEF FileCounts
  <2>2. s.files[l] = [r.files[l] EXCEPT ![k] = r.files[l][k] + 1]
        /\ \A j \in Levels \ {l} : s.files[j] = r.files[j]
    BY Zenon, <1>0, <1>2
  <2>3. s.files[l][k] = r.files[l][k] + 1 /\ \A i \in Parts \ {k} : s.files[l][i] = r.files[l][i]
    BY Zenon, <2>1, <2>2
  <2>4. ASSUME NEW j \in Levels, NEW i \in Parts PROVE r.files[j][i] <= s.files[j][i]
    <3>1. r.files[j][i] \in Nat
      BY Zenon, <1>0
    <3>2. CASE j = l /\ i = k
      BY <2>3, <3>1, <3>2
    <3>3. CASE ~(j = l /\ i = k)
      <4>1. s.files[j][i] = r.files[j][i]
        BY Zenon, <2>2, <2>3, <3>3
      <4>2. QED
        BY <3>1, <4>1
    <3>4. QED
      BY Zenon, <3>2, <3>3
  <2>5. l # 0 => r.files[l][k] = 0
    <3>1. l # 0 => l \in 1..l
      BY BackgroundAssumption
    <3>2. QED
      BY Zenon, <3>1 DEF MayFlushTo
  <2>6. ASSUME NEW j \in 1..MaxLevel, NEW i \in Parts PROVE s.files[j][i] <= 1
    <3>1. r.files[j][i] <= 1 /\ j \in Levels /\ j # 0
      BY <1>0 DEF Tidy
    <3>2. CASE j = l /\ i = k
      BY <2>3, <2>5, <3>1, <3>2
    <3>3. CASE ~(j = l /\ i = k)
      BY Zenon, <2>2, <2>3, <3>1, <3>3
    <3>4. QED
      BY Zenon, <3>2, <3>3
  <2>7. QED
    BY Zenon, <1>2, <2>4, <2>6 DEF Tidy
<1>3. QED
  BY Zenon, <1>1, <1>2 DEF FlushedEffect

\* A compaction leaves one table in each part it covers.
LEMMA MergedTidy ==
  ASSUME NEW r \in Database, NEW s, NEW l \in 0..(MaxLevel - 1), NEW inputs \in FileCounts,
         \A k \in Parts : inputs[k] <= r.files[l][k],
         MergedEffect(s, r, l, inputs), Tidy(r)
  PROVE  Tidy(s)
<1>1. SUFFICES ASSUME NEW j \in 1..MaxLevel, NEW k \in Parts PROVE s.files[j][k] <= 1
  BY Zenon DEF Tidy
<1>2. MaxLevel \in Nat /\ j \in Levels /\ l \in Levels /\ l + 1 \in Levels
  BY BackgroundAssumption DEF Levels
<1>3. r.files[j][k] \in Nat /\ r.files[j][k] <= 1 /\ inputs[k] \in Nat
  BY Zenon, <1>2, FileNumbers DEF Tidy, FileCounts
<1>4. CASE j = l
  <2>1. s.files[j][k] = r.files[j][k] - inputs[k]
    BY Zenon, <1>4 DEF MergedEffect
  <2>2. QED
    BY <1>3, <2>1
<1>5. CASE j = l + 1
  <2>1. s.files[j][k] = IF inputs[k] > 0 THEN 1 ELSE r.files[j][k]
    BY Zenon, <1>5 DEF MergedEffect
  <2>2. QED
    BY <1>3, <2>1
<1>6. CASE j # l /\ j # l + 1
  <2>1. s.files[j] = r.files[j]
    BY Zenon, <1>2, <1>6 DEF MergedEffect
  <2>2. QED
    BY Zenon, <1>3, <2>1
<1>7. QED
  BY Zenon, <1>4, <1>5, <1>6


\* What the end of a background call does to the tables and to the callers: it
\* may add a flushed table, or install a compaction of tables that are there,
\* or only record an error; and it tells the caller of a manual compaction.
EndingFiles(d) ==
  LET r == db'[d]
      m == db[d].manual
  IN
  \/ r.files = db[d].files /\ r.error = db[d].error /\ UNCHANGED call
  \/ /\ UNCHANGED call
     /\ \E k \in Parts, l \in 0..MaxMemCompactLevel, s \in Database :
          /\ MayFlushTo(db[d].files, k, l) /\ FlushedEffect(s, db[d], k, l)
          /\ r.files = s.files /\ r.error = s.error
  \/ /\ r.files = db[d].files /\ r.error = db[d].error /\ m \in Callers
     /\ RangeInputs(db[d].files, call[m].level, call[m].begin) = {}
     /\ \A c \in Callers \ {m} : call'[c] = call[c]
     /\ call'[m].todo = call[m].todo /\ call'[m].begin = call[m].begin
  \/ /\ r.files = db[d].files /\ r.error
     /\ \A c \in Callers : call'[c].todo = call[c].todo /\ call'[c].begin = call[c].begin
  \/ \E s \in Database, l \in 0..(MaxLevel - 1), inputs \in FileCounts,
        calls \in [Callers -> Call] :
       /\ \A k \in Parts : inputs[k] <= db[d].files[l][k]
       /\ MergedEffect(s, db[d], l, inputs) /\ CreditEffect(calls, d, l, inputs)
       /\ r.files = s.files /\ r.error = s.error
       /\ \A c \in Callers : call'[c].todo = calls[c].todo
       /\ \/ call' = calls
          \/ /\ worker.pc = "work" /\ worker.manual /\ m \in Callers
             /\ l = worker.level /\ inputs = worker.inputs
             /\ \A c \in Callers \ {m} : call'[c] = calls[c]
             /\ ~call'[m].done /\ call'[m].begin = worker.end

\* The steps that end a call do that.
LEMMA EndingFilesCases ==
  ASSUME TypeOK, FilesInv, NEW d \in DBs, Ending(d)
  PROVE  EndingFiles(worker.db)
<1>0. /\ worker.db \in DBs /\ db \in [DBs -> Database] /\ call \in [Callers -> Call]
      /\ worker.level \in 0..(MaxLevel - 1) /\ worker.inputs \in FileCounts
  BY Zenon DEF TypeOK, Job
<1>e. ASSUME NEW r \in Database, Ends(r)
      PROVE  db'[worker.db].files = r.files /\ db'[worker.db].error = r.error
  BY Zenon, <1>e DEF Ends, EndEffect
<1>c. ASSUME NEW r \in Database, Crashes(r)
      PROVE  db'[worker.db] = r
  BY Zenon, <1>0, <1>c DEF Crashes
<1>1. CASE CallSkips
  <2>1. Ends(db[worker.db]) /\ UNCHANGED call
    BY Zenon, <1>1, SkipEnds
  <2>2. QED
    BY Zenon, <1>0, <1>e, <2>1 DEF EndingFiles
<1>2. CASE Flush(d)
  <2>1. d = worker.db /\ UNCHANGED call
    BY Zenon, <1>2, FlushEnds
  <2>2. PICK k \in Parts, l \in 0..MaxMemCompactLevel : \E r \in Database :
          MayFlushTo(db[d].files, k, l) /\ FlushedEffect(r, db[d], k, l) /\ Ends(r)
    BY Zenon, <1>2, FlushEnds
  <2>3. PICK r \in Database :
          MayFlushTo(db[d].files, k, l) /\ FlushedEffect(r, db[d], k, l) /\ Ends(r)
    BY Zenon, <2>2
  <2>4. QED
    BY Zenon, <1>e, <2>1, <2>3 DEF EndingFiles
<1>3. CASE ManualDone(d)
  <2>0. DEFINE m == db[d].manual
  <2>1. /\ d = worker.db /\ m \in Callers
        /\ RangeInputs(db[d].files, call[m].level, call[m].begin) = {}
        /\ \A c \in Callers \ {m} : call'[c] = call[c]
        /\ call'[m].todo = call[m].todo /\ call'[m].begin = call[m].begin
    BY Zenon, <1>3, ManualDoneEnds
  <2>2. PICK r \in Database : Ends(r) /\ r.files = db[d].files /\ r.error = db[d].error
    BY Zenon, <1>3, ManualDoneEnds
  <2>3. QED
    BY Zenon, <1>e, <2>1, <2>2 DEF EndingFiles
<1>4. CASE TrivialMove(d)
  <2>1. d = worker.db
    BY Zenon, <1>4, TrivialMoveEnds
  <2>2. PICK r \in Database :
              \/ Ends(r) /\ r.files = db[d].files /\ r.error /\ UNCHANGED call
              \/ \E inputs \in FileCounts :
                   /\ \A j \in Parts : inputs[j] <= db[d].files[0][j]
                   /\ MergedEffect(r, db[d], 0, inputs) /\ Ends(r)
                   /\ CreditEffect(call', d, 0, inputs)
    BY Zenon, <1>4, TrivialMoveEnds
  <2>3. CASE Ends(r) /\ r.files = db[d].files /\ r.error /\ UNCHANGED call
    BY Zenon, <1>e, <2>1, <2>3 DEF EndingFiles
  <2>4. ASSUME NEW inputs \in FileCounts,
               \A j \in Parts : inputs[j] <= db[d].files[0][j],
               MergedEffect(r, db[d], 0, inputs), Ends(r),
               CreditEffect(call', d, 0, inputs)
        PROVE  EndingFiles(worker.db)
    <3>1. 0 \in 0..(MaxLevel - 1)
      BY BackgroundAssumption
    <3>2. call' \in [Callers -> Call]
      BY Zenon, <2>4 DEF Ends
    <3>3. db'[d].files = r.files /\ db'[d].error = r.error
      BY Zenon, <1>e, <2>1, <2>4
    <3>4. QED
      BY Zenon, <2>1, <2>4, <3>1, <3>2, <3>3 DEF EndingFiles
  <2>5. QED
    BY Zenon, <2>2, <2>3, <2>4
<1>5. CASE WorkDone(d)
  <2>1. d = worker.db /\ worker.pc = "work"
    BY Zenon, <1>5, WorkDoneEnds
  <2>2. PICK r \in Database, calls \in [Callers -> Call] :
              /\ MergedEffect(r, db[d], worker.level, worker.inputs)
              /\ CreditEffect(calls, d, worker.level, worker.inputs)
              /\ AfterEffect(r, calls, FALSE)
    BY Zenon, <1>5, WorkDoneEnds
  <2>3. \A k \in Parts : worker.inputs[k] <= db[d].files[worker.level][k]
    BY Zenon, <2>1 DEF FilesInv, Working
  <2>4. CASE (Ends(r) \/ Crashes(r)) /\ call' = calls
    <3>1. db'[d].files = r.files /\ db'[d].error = r.error
      BY Zenon, <1>e, <1>c, <2>1, <2>4
    <3>2. QED
      BY Zenon, <1>0, <2>1, <2>2, <2>3, <2>4, <3>1 DEF EndingFiles
  <2>5. CASE LET m == db[d].manual IN
             /\ worker.manual /\ m \in Callers
             /\ \E s \in Database : Ends(s) /\ s.files = r.files /\ s.error = r.error
             /\ \A c \in Callers \ {m} : call'[c] = calls[c]
             /\ call'[m].done = FALSE /\ call'[m].todo = calls[m].todo
             /\ call'[m].begin = worker.end
    <3>1. db'[d].files = r.files /\ db'[d].error = r.error
      BY Zenon, <1>e, <2>1, <2>5
    <3>2. \A c \in Callers : call'[c].todo = calls[c].todo
      BY Zenon, <2>5
    <3>3. QED
      BY Zenon, <1>0, <2>1, <2>2, <2>3, <2>5, <3>1, <3>2 DEF EndingFiles
  <2>6. QED
    BY Zenon, <2>1, <2>2, <2>4, <2>5 DEF AfterEffect
<1>6. CASE WorkFails(d)
  <2>1. d = worker.db
    BY Zenon, <1>6, WorkFailsEnds
  <2>2. PICK r \in Database : r.files = db[d].files /\ r.error /\ AfterEffect(r, call, TRUE)
    BY Zenon, <1>6, WorkFailsEnds
  <2>3. CASE (Ends(r) \/ Crashes(r)) /\ call' = call
    BY Zenon, <1>e, <1>c, <2>1, <2>2, <2>3 DEF EndingFiles
  <2>4. CASE LET m == db[d].manual IN
             /\ m \in Callers
             /\ \E s \in Database : Ends(s) /\ s.files = r.files /\ s.error = r.error
             /\ \A c \in Callers \ {m} : call'[c] = call[c]
             /\ call'[m].todo = call[m].todo /\ call'[m].begin = call[m].begin
    <3>1. db'[d].files = r.files /\ db'[d].error = r.error
      BY Zenon, <1>e, <2>1, <2>4
    <3>2. \A c \in Callers : call'[c].todo = call[c].todo /\ call'[c].begin = call[c].begin
      BY Zenon, <2>4
    <3>3. QED
      BY Zenon, <2>1, <2>2, <3>1, <3>2 DEF EndingFiles
  <2>5. QED
    BY Zenon, <2>1, <2>2, <2>3, <2>4 DEF AfterEffect
<1>7. QED
  BY Zenon, <1>1, <1>2, <1>3, <1>4, <1>5, <1>6 DEF Ending


\* The tables, through every step.
LEMMA FilesStep ==
  ASSUME TypeOK, FilesInv, ManualInv, [Next]_vars
  PROVE  FilesInv'
<1>0. /\ worker \in Job /\ db \in [DBs -> Database] /\ worker.db \in DBs
      /\ worker.level \in Levels /\ call \in [Callers -> Call] /\ 0 \in Levels
  BY BackgroundAssumption DEF TypeOK, Job, Levels
<1>t. \A d \in DBs : Tidy(db[d])
  BY Zenon DEF FilesInv, Tidy
<1>k. ASSUME \A d \in DBs : db'[d].files = db[d].files, UNCHANGED worker
      PROVE  FilesInv'
  BY Zenon, <1>0, <1>k DEF FilesInv, Working
<1>n. ASSUME \A d \in DBs : Tidy(db'[d]), ~Working' PROVE FilesInv'
  BY Zenon, <1>n DEF FilesInv, Tidy
<1>1. ASSUME NEW d \in DBs, Ending(d) PROVE FilesInv'
  <2>1. EndingFiles(worker.db)
    BY Zenon, <1>1, EndingFilesCases
  <2>2. PICK r \in Database : Ends(r) \/ Crashes(r)
    BY Zenon, <1>1, EndingCases
  <2>3. ~Working' /\ \A e \in DBs \ {worker.db} : db'[e] = db[e]
    <3>1. CASE Ends(r)
      BY Zenon, <3>1 DEF Ends, EndEffect, Working
    <3>2. CASE Crashes(r)
      <4>1. worker'.pc = "crashed"
        BY Zenon, <1>0, <3>2 DEF Crashes, Job
      <4>2. QED
        BY Zenon, <1>0, <3>2, <4>1 DEF Crashes, Working
    <3>3. QED
      BY Zenon, <2>2, <3>1, <3>2
  <2>4. Tidy(db'[worker.db])
    <3>0. db[worker.db] \in Database /\ Tidy(db[worker.db])
      BY Zenon, <1>0, <1>t
    <3>1. CASE db'[worker.db].files = db[worker.db].files
      BY Zenon, <3>0, <3>1 DEF Tidy
    <3>2. ASSUME NEW k \in Parts, NEW l \in 0..MaxMemCompactLevel, NEW s \in Database,
                 MayFlushTo(db[worker.db].files, k, l), FlushedEffect(s, db[worker.db], k, l),
                 db'[worker.db].files = s.files
          PROVE  Tidy(db'[worker.db])
      <4>1. Tidy(s)
        BY Zenon, <3>0, <3>2, FlushedTidy
      <4>2. QED
        BY Zenon, <3>2, <4>1 DEF Tidy
    <3>3. ASSUME NEW s \in Database, NEW l \in 0..(MaxLevel - 1), NEW inputs \in FileCounts,
                 \A k \in Parts : inputs[k] <= db[worker.db].files[l][k],
                 MergedEffect(s, db[worker.db], l, inputs),
                 db'[worker.db].files = s.files
          PROVE  Tidy(db'[worker.db])
      <4>1. Tidy(s)
        BY Zenon, <3>0, <3>3, MergedTidy
      <4>2. QED
        BY Zenon, <3>3, <4>1 DEF Tidy
    <3>4. QED
      BY ZenonT(60), <2>1, <3>1, <3>2, <3>3 DEF EndingFiles
  <2>5. \A e \in DBs : Tidy(db'[e])
    BY Zenon, <1>t, <2>3, <2>4
  <2>6. QED
    BY Zenon, <1>n, <2>3, <2>5
<1>2. ASSUME NEW d \in DBs, NestedFlush(d) PROVE FilesInv'
  <2>1. d = worker.db /\ worker.pc = "nested" /\ worker' = [worker EXCEPT !.pc = "work"]
    BY Zenon, <1>2, NestedFlushChanges
  <2>2. \A e \in DBs \ {d} : db'[e] = db[e]
    BY Zenon, <1>2, NestedFlushChanges DEF Keeps
  <2>3. PICK k \in Parts, l \in 0..MaxMemCompactLevel :
          MayFlushTo(db[d].files, k, l) /\ FlushedEffect(db'[d], db[d], k, l)
    BY Zenon, <1>2, NestedFlushChanges
  <2>4. /\ Tidy(db'[d])
        /\ \A j \in Levels : \A i \in Parts : db[d].files[j][i] <= db'[d].files[j][i]
    BY Zenon, <1>0, <1>t, <2>3, FlushedTidy
  <2>5. \A e \in DBs : Tidy(db'[e])
    BY Zenon, <1>t, <2>2, <2>4
  <2>6. worker'.db = d /\ worker'.level = worker.level /\ worker'.inputs = worker.inputs
    BY Zenon, <1>0, <2>1 DEF Job
  <2>7. ASSUME NEW i \in Parts PROVE worker.inputs[i] <= db'[d].files[worker.level][i]
    <3>1. worker.inputs[i] <= db[d].files[worker.level][i]
      BY Zenon, <2>1 DEF FilesInv, Working
    <3>2. db[d].files[worker.level][i] <= db'[d].files[worker.level][i]
      BY Zenon, <1>0, <2>4
    <3>3. /\ worker.inputs[i] \in Nat /\ db[d].files[worker.level][i] \in Nat
      BY Zenon, <1>0, FileNumbers DEF Job, FileCounts
    <3>4. db'[d].files[worker.level][i] \in Nat
      <4>1. db'[d] \in Database
        BY Zenon, <2>3 DEF FlushedEffect
      <4>2. QED
        BY Zenon, <1>0, <4>1, FileNumbers
    <3>5. QED
      BY SMTT(30), <3>1, <3>2, <3>3, <3>4
  <2>8. QED
    BY Zenon, <2>5, <2>6, <2>7 DEF FilesInv, Tidy
<1>3. ASSUME NEW d \in DBs, StartManual(d) PROVE FilesInv'
  <2>0. DEFINE m == call[db[d].manual]
               ks == RangeInputs(db[d].files, m.level, m.begin)
  <2>1. UNCHANGED db /\ d = worker.db /\ worker'.db = worker.db
    BY Zenon, <1>3, StartingChanges DEF Starting
  <2>2. PICK e \in ks : worker' = [worker EXCEPT !.pc = "work", !.manual = TRUE,
                          !.level = m.level,
                          !.inputs = [k \in Parts |-> IF k \in ks /\ k <= e
                                                        THEN db[d].files[m.level][k] ELSE 0],
                          !.end = e]
    BY Zenon, <1>3 DEF StartManual
  <2>3. worker'.level = m.level /\ \A k \in Parts :
          worker'.inputs[k] = IF k \in ks /\ k <= e THEN db[d].files[m.level][k] ELSE 0
    BY Zenon, <1>0, <2>2 DEF Job
  <2>4. \A k \in Parts : db[d].files[m.level][k] \in Nat
    <3>1. db[d].manual \in Callers
      BY Zenon, <1>0, <1>3 DEF StartManual, Database
    <3>2. m.level \in Levels
      BY SMTT(30), <1>0, <3>1, BackgroundAssumption DEF Call, Levels
    <3>3. QED
      BY Zenon, <1>0, <3>2, FileNumbers
  <2>5. ASSUME NEW k \in Parts PROVE worker'.inputs[k] <= db[d].files[m.level][k]
    <3>1. /\ db[d].files[m.level][k] \in Nat
          /\ worker'.inputs[k] = db[d].files[m.level][k] \/ worker'.inputs[k] = 0
      BY Zenon, <2>3, <2>4
    <3>2. QED
      BY SMTT(30), <3>1
  <2>6. QED
    BY Zenon, <2>1, <2>3, <2>5 DEF FilesInv
<1>4. ASSUME NEW d \in DBs, StartCompaction(d) PROVE FilesInv'
  <2>1. UNCHANGED db /\ d = worker.db /\ worker'.db = worker.db
    BY Zenon, <1>4, StartingChanges DEF Starting
  <2>2. PICK k \in Parts : /\ worker' = [worker EXCEPT !.pc = "work", !.inputs = Picked(d, k)]
                           /\ worker.pc = "call"
    BY Zenon, <1>4 DEF StartCompaction, MayPick, Runs
  <2>3. worker'.level = 0 /\ worker'.inputs = Picked(d, k)
    BY Zenon, <1>0, <2>2 DEF Job, ManualInv
  <2>4. \A j \in Parts : Picked(d, k)[j] <= db[d].files[0][j]
    BY Zenon, PickedType
  <2>5. QED
    BY Zenon, <2>1, <2>3, <2>4 DEF FilesInv
<1>5. ASSUME NEW d \in DBs, StartFlush(d) PROVE FilesInv'
  <2>1. UNCHANGED db /\ worker' = [worker EXCEPT !.pc = "flush"]
    BY Zenon, <1>5 DEF StartFlush
  <2>2. ~Working'
    BY Zenon, <1>0, <2>1 DEF Working, Job
  <2>3. QED
    BY Zenon, <1>n, <1>t, <2>1, <2>2
<1>6. ASSUME NEW d \in DBs, NestedFlushStarts(d) PROVE FilesInv'
  <2>1. UNCHANGED db /\ worker.pc = "work" /\ worker' = [worker EXCEPT !.pc = "nested"]
    BY Zenon, <1>6 DEF NestedFlushStarts
  <2>2. worker'.db = worker.db /\ worker'.level = worker.level
        /\ worker'.inputs = worker.inputs
    BY Zenon, <1>0, <2>1 DEF Job
  <2>3. QED
    BY Zenon, <2>1, <2>2 DEF FilesInv, Working
<1>7. ASSUME NEW d \in DBs, FillMemtable(d) PROVE FilesInv'
  <2>1. UNCHANGED worker /\ \A e \in DBs : db'[e].files = db[e].files
    BY <1>7, FillMemtableChanges DEF ScheduleEffect
  <2>2. QED
    BY Zenon, <1>k, <2>1
<1>8. ASSUME NEW d \in DBs, SyncFails(d) \/ Close(d) \/ CloseWoken(d) PROVE FilesInv'
  <2>1. UNCHANGED worker
    BY Zenon, <1>8, SyncFailsChanges, CloseChanges
  <2>2. \A e \in DBs : db'[e].files = db[e].files
    BY <1>8, SyncFailsChanges, CloseChanges DEF Keeps
  <2>3. QED
    BY Zenon, <1>k, <2>1, <2>2
<1>9. ASSUME NEW c \in Callers, MemWait(c) \/ \E d \in DBs : CompactRange(c, d)
      PROVE  FilesInv'
  BY Zenon, <1>9, <1>k, MemWaitChanges, CompactRangeChanges DEF CallerEffect
<1>10. ASSUME NEW c \in Callers, RangeWait(c) PROVE FilesInv'
  <2>1. UNCHANGED worker
    BY Zenon, <1>10, RangeWaitChanges DEF CallerEffect
  <2>2. \A d \in DBs : db'[d].files = db[d].files
    <3>1. DEFINE d == call[c].db
                 r == [db[d] EXCEPT !.manual = c]
    <3>2. CASE UNCHANGED db
      BY Zenon, <3>2
    <3>3. CASE ScheduleEffect(d, r)
      <4>1. d \in DBs /\ r.files = db[d].files
        BY ZenonT(60), <1>0, <1>10, RangeWaitChanges DEF Database
      <4>. HIDE DEF r, d
      <4>2. QED
        BY Zenon, <3>3, <4>1 DEF ScheduleEffect
    <3>4. QED
      BY Zenon, <1>10, <3>2, <3>3, RangeWaitChanges
  <2>3. QED
    BY Zenon, <1>k, <2>1, <2>2
<1>11. ASSUME NEW c \in Callers, RangeEnds(c) PROVE FilesInv'
  <2>1. UNCHANGED worker /\ \A d \in DBs : db'[d].files = db[d].files
    BY ZenonT(60), <1>11, RangeEndsChanges DEF CallerEffect
  <2>2. QED
    BY Zenon, <1>k, <2>1
<1>12. CASE TakeWork
  <2>1. UNCHANGED db /\ worker'.pc \in {"wait", "got"}
    BY Zenon, <1>12, TakeWorkChanges
  <2>2. QED
    BY Zenon, <1>n, <1>t, <2>1 DEF Working
<1>13. CASE BGWork \/ BGWorkEnds
  <2>1. UNCHANGED db /\ \E v \in {"call", "idle"} : worker' = [worker EXCEPT !.pc = v]
    BY Zenon, <1>13 DEF BGWork, BGWorkEnds
  <2>2. ~Working'
    BY Zenon, <1>0, <2>1 DEF Working, Job
  <2>3. QED
    BY Zenon, <1>n, <1>t, <2>1, <2>2
<1>14. CASE BackupStarts \/ BackupEnds \/ UNCHANGED vars
  <2>1. UNCHANGED <<db, worker>>
    BY Zenon, <1>14 DEF BackupStarts, BackupEnds, vars
  <2>2. QED
    BY Zenon, <1>k, <2>1
<1>15. QED
  BY Zenon, <1>1, <1>2, <1>3, <1>4, <1>5, <1>6, <1>7, <1>8, <1>9, <1>10, <1>11, <1>12, <1>13,
     <1>14, StepCases


----------------------------------------------------------------------------
(* What manual compactions have done.                                      *)

\* The numbers a call counts with.
LEMMA CallNumbers ==
  ASSUME TypeOK, NEW c \in Callers
  PROVE  /\ call[c].db \in DBs /\ call[c].level \in Levels /\ call[c].begin \in Nat
         /\ call[c].level \in 0..(MaxLevel - 1)
         /\ db[call[c].db] \in Database
         /\ \A k \in Parts : /\ call[c].todo[k] \in Nat
                             /\ db[call[c].db].files[call[c].level][k] \in Nat
                             /\ k \in Nat /\ k >= 1
<1>1. /\ call[c] \in Call /\ db \in [DBs -> Database] /\ MaxLevel \in Nat
      /\ \A k \in Parts : k \in Nat /\ k >= 1
  BY BackgroundAssumption DEF TypeOK
<1>2. call[c].level \in Levels
  BY <1>1 DEF Call, Levels
<1>3. QED
  BY Zenon, <1>1, <1>2, FileNumbers DEF Call, FileCounts

\* After the files of d became those of s and the calls became calls, what is
\* left to do is still there, and no more than before; and what is among the
\* inputs of the compaction is done.
StillThere(calls, d, s, l, inputs) ==
  \A c \in Callers : call[c].pc = "wait" => \A k \in Parts :
    LET f == IF call[c].db = d THEN s.files ELSE db[call[c].db].files IN
    /\ calls[c].todo[k] <= f[call[c].level][k]
    /\ calls[c].todo[k] \in Nat /\ calls[c].todo[k] <= call[c].todo[k]
    /\ call[c].db = d /\ call[c].level = l /\ call[c].todo[k] <= inputs[k]
         => calls[c].todo[k] = 0

\* Tables that a compaction took out of a level are credited to the calls on it.
LEMMA CreditPending ==
  ASSUME TypeOK, NEW d \in DBs, Tidy(db[d]), NEW s \in Database, NEW l \in 0..(MaxLevel - 1),
         NEW inputs \in FileCounts, \A k \in Parts : inputs[k] <= db[d].files[l][k],
         NEW calls \in [Callers -> Call],
         MergedEffect(s, db[d], l, inputs), CreditEffect(calls, d, l, inputs),
         \A c \in Callers : call[c].pc = "wait" => Pending(c)
  PROVE  StillThere(calls, d, s, l, inputs)
<1>. SUFFICES ASSUME NEW c \in Callers, call[c].pc = "wait", NEW k \in Parts
              PROVE  LET f == IF call[c].db = d THEN s.files ELSE db[call[c].db].files IN
                     /\ calls[c].todo[k] <= f[call[c].level][k]
                     /\ calls[c].todo[k] \in Nat /\ calls[c].todo[k] <= call[c].todo[k]
                     /\ call[c].db = d /\ call[c].level = l /\ call[c].todo[k] <= inputs[k]
                          => calls[c].todo[k] = 0
  BY Zenon DEF StillThere
<1>p. Pending(c)
  BY Zenon
<1>0. DEFINE j == call[c].level
             t == call[c].todo[k]
             n == db[call[c].db].files[j][k]
<1>1. /\ j \in Levels /\ t \in Nat /\ n \in Nat /\ t <= n /\ inputs[k] \in Nat
      /\ MaxLevel \in Nat
  BY Zenon, <1>p, CallNumbers, BackgroundAssumption DEF Pending, FileCounts
<1>2. CASE call[c].db = d /\ j = l
  <2>1. calls[c].todo[k] = IF inputs[k] > t THEN 0 ELSE t - inputs[k]
    BY Zenon, <1>2 DEF CreditEffect
  <2>2. s.files[j][k] = n - inputs[k] /\ inputs[k] <= n
    BY Zenon, <1>2 DEF MergedEffect
  <2>. HIDE DEF t, n
  <2>3. calls[c].todo[k] <= n - inputs[k] /\ calls[c].todo[k] \in Nat
        /\ calls[c].todo[k] <= t /\ (t <= inputs[k] => calls[c].todo[k] = 0)
    BY SMTT(30), <1>1, <2>1, <2>2
  <2>4. QED
    BY Zenon, <1>2, <2>2, <2>3 DEF t
<1>3. CASE ~(call[c].db = d /\ j = l)
  <2>1. calls[c].todo = call[c].todo
    BY Zenon, <1>3 DEF CreditEffect
  <2>2. CASE call[c].db # d
    <3>1. t <= t
      BY Zenon, <1>1, AtMostSelf
    <3>2. QED
      BY Zenon, <1>1, <2>1, <2>2, <3>1
  <2>3. CASE call[c].db = d /\ j = l + 1
    <3>1. s.files[j][k] = IF inputs[k] > 0 THEN 1 ELSE n
      BY ZenonT(60), <2>3 DEF MergedEffect
    <3>2. n <= 1
      <4>1. j \in 1..MaxLevel
        BY SMTT(30), <2>3, BackgroundAssumption
      <4>2. QED
        BY Zenon, <2>3, <4>1 DEF Tidy
    <3>3. t <= s.files[j][k]
      <4>1. CASE inputs[k] > 0
        <5>1. s.files[j][k] = 1
          BY Zenon, <3>1, <4>1
        <5>. HIDE DEF t, n
        <5>2. QED
          BY SMTT(30), <1>1, <3>2, <5>1
      <4>2. CASE ~(inputs[k] > 0)
        BY ZenonT(30), <1>1, <3>1, <4>2
      <4>3. QED
        BY Zenon, <4>1, <4>2
    <3>4. QED
      BY SMTT(30), <1>1, <1>3, <2>1, <2>3, <3>3
  <2>4. CASE call[c].db = d /\ j # l /\ j # l + 1
    <3>1. s.files[j] = db[d].files[j]
      BY Zenon, <1>1, <2>4 DEF MergedEffect
    <3>2. QED
      BY SMTT(30), <1>1, <1>3, <2>1, <2>4, <3>1
  <2>5. QED
    BY Zenon, <1>3, <2>2, <2>3, <2>4
<1>4. QED
  BY Zenon, <1>2, <1>3

\* What is left to do when nothing is left of the range.
LEMMA NothingLeft ==
  ASSUME TypeOK, NEW c \in Callers, Pending(c),
         RangeInputs(db[call[c].db].files, call[c].level, call[c].begin) = {}
  PROVE  call[c].todo = NoFiles
<1>1. ASSUME NEW k \in Parts PROVE call[c].todo[k] = 0
  <2>0. DEFINE n == db[call[c].db].files[call[c].level][k]
  <2>1. /\ call[c].begin \in Nat /\ call[c].todo[k] \in Nat /\ k \in Nat /\ n \in Nat
    BY Zenon, CallNumbers
  <2>2. ~(k >= call[c].begin /\ n > 0)
    BY Zenon DEF RangeInputs
  <2>3. call[c].todo[k] <= n /\ (k < call[c].begin => call[c].todo[k] = 0)
    BY Zenon DEF Pending
  <2>4. QED
    BY SMTT(30), <2>1, <2>2, <2>3
<1>2. call[c].todo \in [Parts -> Nat]
  BY Zenon DEF TypeOK, Call, FileCounts
<1>3. QED
  BY ZenonT(30), <1>1, <1>2 DEF NoFiles


\* The end of a call keeps count of what its callers have to do, and tells one
\* that it is done only when nothing is left or there is an error.
LEMMA TodoEnds ==
  ASSUME TypeOK, FilesInv, ManualInv, TodoInv, EndingFiles(worker.db),
         \A e \in DBs \ {worker.db} : db'[e] = db[e], call' \in [Callers -> Call],
         \A c \in Callers :
           /\ call'[c].pc = call[c].pc /\ call'[c].db = call[c].db
           /\ call'[c].level = call[c].level
           /\ call'[c].done => call[c].done \/ c = db[worker.db].manual
  PROVE  /\ \A c \in Callers : call[c].pc = "wait" => Pending(c)'
         /\ ManualCompletes'
<1>0. DEFINE d == worker.db
             m == db[d].manual
<1>1. /\ d \in DBs /\ db \in [DBs -> Database] /\ call \in [Callers -> Call]
      /\ db[d] \in Database
      /\ worker.level \in 0..(MaxLevel - 1) /\ worker.inputs \in FileCounts
      /\ worker.end \in Nat /\ NoCaller \notin Callers
  BY Zenon, BackgroundAssumption DEF TypeOK, Job
<1>2. \A c \in Callers : call[c].pc = "wait" => Pending(c)
  BY Zenon DEF TodoInv
<1>3. \A e \in DBs : Tidy(db[e])
  BY Zenon DEF FilesInv, Tidy
<1>4. \A c \in Callers : call[c].done /\ ~db[call[c].db].error => call[c].todo = NoFiles
  BY Zenon DEF TodoInv, ManualCompletes
<1>5. \A c \in Callers : call[c].pc # "wait" => ~call'[c].done
  <2>1. ASSUME NEW c \in Callers, call[c].pc # "wait" PROVE ~call'[c].done
    <3>1. ~call[c].done
      BY Zenon, <2>1 DEF ManualInv
    <3>2. m # NoCaller => call[m].pc = "wait"
      BY Zenon, <1>1 DEF ManualInv
    <3>3. c # m
      BY Zenon, <1>1, <2>1, <3>2
    <3>4. QED
      BY Zenon, <3>1, <3>3
  <2>2. QED
    BY Zenon, <2>1
\* nothing, or more tables
<1>6. ASSUME \A l \in Levels : \A k \in Parts : db[d].files[l][k] <= db'[d].files[l][k],
             \A l \in Levels : \A k \in Parts : db'[d].files[l][k] \in Nat,
             \A c \in Callers : call'[c].todo = call[c].todo /\ call'[c].begin = call[c].begin
      PROVE  \A c \in Callers : call[c].pc = "wait" => Pending(c)'
  <2>1. SUFFICES ASSUME NEW c \in Callers, call[c].pc = "wait" PROVE Pending(c)'
    BY Zenon
  <2>2. SUFFICES ASSUME NEW k \in Parts
                 PROVE  /\ call[c].todo[k] <= db'[call[c].db].files[call[c].level][k]
                        /\ k < call[c].begin => call[c].todo[k] = 0
    BY ZenonT(60), <1>6 DEF Pending
  <2>3. /\ call[c].todo[k] <= db[call[c].db].files[call[c].level][k]
        /\ k < call[c].begin => call[c].todo[k] = 0
    BY Zenon, <1>2, <2>1 DEF Pending
  <2>4. CASE call[c].db # d
    <3>1. db'[call[c].db] = db[call[c].db]
      BY Zenon, <2>4, CallNumbers
    <3>2. QED
      BY Zenon, <2>3, <3>1
  <2>5. CASE call[c].db = d
    <3>1. /\ db[d].files[call[c].level][k] <= db'[d].files[call[c].level][k]
          /\ call[c].todo[k] \in Nat /\ db[d].files[call[c].level][k] \in Nat
          /\ db'[d].files[call[c].level][k] \in Nat
      BY Zenon, <1>6, <2>5, CallNumbers
    <3>2. call[c].todo[k] <= db[d].files[call[c].level][k]
      BY Zenon, <2>3, <2>5
    <3>3. call[c].todo[k] <= db'[d].files[call[c].level][k]
      BY Zenon, <3>1, <3>2, AtMost
    <3>4. QED
      BY Zenon, <2>3, <2>5, <3>3
  <2>6. QED
    BY Zenon, <2>4, <2>5
<1>7. ASSUME UNCHANGED call, db[d].error => db'[d].error PROVE ManualCompletes'
  <2>1. \A c \in Callers : db[call[c].db].error => db'[call[c].db].error
    BY Zenon, <1>7, CallNumbers
  <2>2. QED
    BY Zenon, <1>4, <1>7, <2>1 DEF ManualCompletes
<1>8. \A l \in Levels : \A k \in Parts : db[d].files[l][k] \in Nat
  BY Zenon, <1>1, FileNumbers
<1>9. CASE db'[d].files = db[d].files /\ db'[d].error = db[d].error /\ UNCHANGED call
  <2>1. \A l \in Levels : \A k \in Parts : /\ db[d].files[l][k] <= db'[d].files[l][k]
                                           /\ db'[d].files[l][k] \in Nat
    BY SMTT(30), <1>8, <1>9
  <2>2. QED
    BY Zenon, <1>6, <1>7, <1>9, <2>1
<1>10. ASSUME UNCHANGED call, NEW k \in Parts, NEW l \in 0..MaxMemCompactLevel,
              NEW s \in Database,
              MayFlushTo(db[d].files, k, l), FlushedEffect(s, db[d], k, l),
              db'[d].files = s.files, db'[d].error = s.error
       PROVE  /\ \A c \in Callers : call[c].pc = "wait" => Pending(c)'
              /\ ManualCompletes'
  <2>1. /\ \A j \in Levels : \A i \in Parts : db[d].files[j][i] <= db'[d].files[j][i]
        /\ db[d].error => db'[d].error
    BY ZenonT(60), <1>1, <1>3, <1>10, FlushedTidy
  <2>2. \A j \in Levels : \A i \in Parts : db'[d].files[j][i] \in Nat
    BY Zenon, <1>10, FileNumbers
  <2>3. QED
    BY Zenon, <1>6, <1>7, <1>10, <2>1, <2>2
<1>11. CASE /\ db'[d].files = db[d].files /\ db'[d].error = db[d].error /\ m \in Callers
            /\ RangeInputs(db[d].files, call[m].level, call[m].begin) = {}
            /\ \A c \in Callers \ {m} : call'[c] = call[c]
            /\ call'[m].todo = call[m].todo /\ call'[m].begin = call[m].begin
  <2>1. \A l \in Levels : \A k \in Parts : /\ db[d].files[l][k] <= db'[d].files[l][k]
                                           /\ db'[d].files[l][k] \in Nat
    BY Zenon, <1>8, <1>11, AtMostSelf
  <2>2. \A c \in Callers : call'[c].todo = call[c].todo /\ call'[c].begin = call[c].begin
    BY Zenon, <1>11
  <2>3. call[m].db = d /\ call[m].pc = "wait"
    <3>1. m # NoCaller
      BY Zenon, <1>1, <1>11
    <3>2. QED
      BY Zenon, <1>1, <3>1 DEF ManualInv
  <2>4. call[m].todo = NoFiles
    BY ZenonT(60), <1>2, <1>11, <2>3, NothingLeft
  <2>5. \A c \in Callers : db'[call[c].db].error = db[call[c].db].error
    BY Zenon, <1>11, CallNumbers
  <2>6. ManualCompletes'
    BY ZenonT(60), <1>4, <1>11, <2>4, <2>5 DEF ManualCompletes
  <2>7. QED
    BY Zenon, <1>6, <2>1, <2>2, <2>6
<1>12. CASE /\ db'[d].files = db[d].files /\ db'[d].error
            /\ \A c \in Callers : call'[c].todo = call[c].todo /\ call'[c].begin = call[c].begin
  <2>1. \A l \in Levels : \A k \in Parts : /\ db[d].files[l][k] <= db'[d].files[l][k]
                                           /\ db'[d].files[l][k] \in Nat
    BY Zenon, <1>8, <1>12, AtMostSelf
  <2>2. ASSUME NEW c \in Callers, call'[c].done, ~db'[call'[c].db].error
        PROVE  call'[c].todo = NoFiles
    <3>1. call[c].db # d
      BY Zenon, <1>12, <2>2
    <3>2. c # m
      BY SMTT(30), <1>1, <3>1 DEF ManualInv
    <3>3. call[c].done /\ db'[call[c].db] = db[call[c].db]
      BY Zenon, <2>2, <3>1, <3>2, CallNumbers
    <3>4. QED
      BY Zenon, <1>4, <1>12, <2>2, <3>3
  <2>3. QED
    BY Zenon, <1>6, <1>12, <2>1, <2>2 DEF ManualCompletes
<1>13. ASSUME NEW s \in Database, NEW l \in 0..(MaxLevel - 1), NEW inputs \in FileCounts,
              NEW calls \in [Callers -> Call],
              \A k \in Parts : inputs[k] <= db[d].files[l][k],
              MergedEffect(s, db[d], l, inputs), CreditEffect(calls, d, l, inputs),
              db'[d].files = s.files, db'[d].error = s.error,
              \A c \in Callers : call'[c].todo = calls[c].todo,
              \/ call' = calls
              \/ /\ worker.pc = "work" /\ worker.manual /\ m \in Callers
                 /\ l = worker.level /\ inputs = worker.inputs
                 /\ \A c \in Callers \ {m} : call'[c] = calls[c]
                 /\ ~call'[m].done /\ call'[m].begin = worker.end
       PROVE  /\ \A c \in Callers : call[c].pc = "wait" => Pending(c)'
              /\ ManualCompletes'
  <2>0. StillThere(calls, d, s, l, inputs)
    BY Zenon, <1>1, <1>2, <1>3, <1>13, CreditPending
  <2>1. ASSUME NEW c \in Callers, call[c].pc = "wait", NEW k \in Parts
        PROVE  /\ calls[c].todo[k] <= db'[call[c].db].files[call[c].level][k]
               /\ calls[c].todo[k] \in Nat /\ calls[c].todo[k] <= call[c].todo[k]
               /\ call[c].db = d /\ call[c].level = l /\ call[c].todo[k] <= inputs[k]
                    => calls[c].todo[k] = 0
    <3>1. LET f == IF call[c].db = d THEN s.files ELSE db[call[c].db].files IN
          /\ calls[c].todo[k] <= f[call[c].level][k]
          /\ calls[c].todo[k] \in Nat /\ calls[c].todo[k] <= call[c].todo[k]
          /\ call[c].db = d /\ call[c].level = l /\ call[c].todo[k] <= inputs[k]
               => calls[c].todo[k] = 0
      BY Zenon, <2>0, <2>1 DEF StillThere
    <3>2. db'[call[c].db].files = IF call[c].db = d THEN s.files ELSE db[call[c].db].files
      BY ZenonT(60), <1>13, CallNumbers
    <3>3. QED
      BY Zenon, <3>1, <3>2
  <2>2. \A c \in Callers : calls[c].begin = call[c].begin /\ calls[c].done = call[c].done
    BY Zenon, <1>13 DEF CreditEffect
  <2>3. ASSUME NEW c \in Callers, call[c].pc = "wait" PROVE Pending(c)'
    <3>1. SUFFICES ASSUME NEW k \in Parts
                   PROVE  /\ calls[c].todo[k] <= db'[call[c].db].files[call[c].level][k]
                          /\ k < call'[c].begin => calls[c].todo[k] = 0
      <4>1. call'[c].db = call[c].db /\ call'[c].level = call[c].level
            /\ call'[c].todo = calls[c].todo
        BY ZenonT(30), <1>13
      <4>2. QED
        BY Zenon, <4>1 DEF Pending
    <3>2. CASE call'[c].begin = call[c].begin
      <4>1. k < call[c].begin => call[c].todo[k] = 0
        BY Zenon, <1>2, <2>3 DEF Pending
      <4>2. QED
        BY SMTT(30), <2>1, <2>3, <3>2, <4>1
    <3>3. CASE /\ worker.pc = "work" /\ worker.manual /\ c = m /\ m \in Callers
               /\ l = worker.level /\ inputs = worker.inputs /\ call'[c].begin = worker.end
      <4>1. call[c].db = d
        BY SMTT(30), <1>1, <3>3 DEF ManualInv
      <4>2. PieceInv /\ Working /\ m # NoCaller
        BY Zenon, <1>1, <3>3 DEF TodoInv, Working
      <4>3. call[c].level = l /\ (k <= worker.end => call[c].todo[k] <= inputs[k])
        BY ZenonT(30), <3>3, <4>2 DEF PieceInv
      <4>4. k < call'[c].begin => k <= worker.end
        BY SMTT(30), <1>1, <3>3, CallNumbers
      <4>5. QED
        BY Zenon, <2>1, <2>3, <4>1, <4>3, <4>4
    <3>4. \/ call'[c] = calls[c]
          \/ /\ worker.pc = "work" /\ worker.manual /\ c = m /\ m \in Callers
             /\ l = worker.level /\ inputs = worker.inputs /\ call'[c].begin = worker.end
      BY Zenon, <1>13
    <3>5. QED
      BY Zenon, <2>2, <3>2, <3>3, <3>4
  <2>4. ASSUME NEW c \in Callers, call'[c].done, ~db'[call'[c].db].error
        PROVE  call'[c].todo = NoFiles
    <3>1. call[c].done
      BY ZenonT(60), <1>13, <2>2, <2>4
    <3>2. call[c].pc = "wait"
      BY Zenon, <3>1 DEF ManualInv
    <3>3. db'[call[c].db].error = db[call[c].db].error
      BY ZenonT(60), <1>13, CallNumbers DEF MergedEffect
    <3>4. call[c].todo = NoFiles
      BY Zenon, <1>4, <2>4, <3>1, <3>3
    <3>5. ASSUME NEW k \in Parts PROVE calls[c].todo[k] = 0
      <4>1. call[c].todo[k] = 0
        BY Zenon, <3>4 DEF NoFiles
      <4>2. calls[c].todo[k] \in Nat /\ calls[c].todo[k] <= call[c].todo[k]
        BY Zenon, <2>1, <3>2
      <4>3. QED
        BY SMTT(30), <4>1, <4>2
    <3>6. calls[c].todo \in [Parts -> Nat]
      BY Zenon, <1>13 DEF Call, FileCounts
    <3>7. QED
      BY SMTT(30), <1>13, <3>5, <3>6 DEF NoFiles
  <2>5. QED
    BY Zenon, <2>3, <2>4 DEF ManualCompletes
<1>14. QED
  BY ZenonT(60), <1>9, <1>10, <1>11, <1>12, <1>13 DEF EndingFiles


\* What else the end of a call leaves.
LEMMA EndingOthers ==
  ASSUME TypeOK, FilesInv, NEW d \in DBs, Ending(d)
  PROVE  /\ ~Working' /\ call' \in [Callers -> Call]
         /\ \A e \in DBs \ {worker.db} : db'[e] = db[e]
         /\ \A c \in Callers :
              /\ call'[c].pc = call[c].pc /\ call'[c].db = call[c].db
              /\ call'[c].level = call[c].level
              /\ call'[c].done => call[c].done \/ c = db[worker.db].manual
<1>1. PICK r \in Database : Ends(r) \/ Crashes(r)
  BY Zenon, EndingCases
<1>2. CASE Ends(r)
  <2>1. worker'.pc = "unlock" /\ call' \in [Callers -> Call]
        /\ \A e \in DBs \ {worker.db} : db'[e] = db[e]
    BY Zenon, <1>2 DEF Ends, EndEffect
  <2>2. \A c \in Callers :
          /\ call'[c].pc = call[c].pc /\ call'[c].db = call[c].db
          /\ call'[c].level = call[c].level
          /\ call'[c].done => call[c].done \/ c = db[worker.db].manual
    BY Zenon, <1>2 DEF Ends
  <2>3. QED
    BY Zenon, <2>1, <2>2 DEF Working
<1>3. CASE Crashes(r)
  <2>1. worker'.pc = "crashed"
    BY Zenon, <1>3 DEF Crashes, TypeOK, Job
  <2>2. QED
    BY Zenon, <1>3, <2>1 DEF Crashes, Working, TypeOK
<1>4. QED
  BY Zenon, <1>1, <1>2, <1>3

\* What manual compactions have done, through every step.
LEMMA TodoStep ==
  ASSUME TypeOK, FilesInv, WaitInv, ManualInv, TodoInv, [Next]_vars
  PROVE  TodoInv'
<1>0. /\ worker \in Job /\ db \in [DBs -> Database] /\ worker.db \in DBs
      /\ call \in [Callers -> Call] /\ NoCaller \notin Callers
      /\ \A c \in Callers : call[c].db \in DBs
      /\ \A d \in DBs : db[d].manual \in Callers \cup {NoCaller}
  BY Zenon, BackgroundAssumption DEF TypeOK, Job, Call, Database
<1>p. \A c \in Callers : call[c].pc = "wait" => Pending(c)
  BY Zenon DEF TodoInv
<1>m. \A c \in Callers : call[c].done /\ ~db[call[c].db].error => call[c].todo = NoFiles
  BY Zenon DEF TodoInv, ManualCompletes
\* steps that change neither tables nor calls
<1>k. ASSUME UNCHANGED call, \A d \in DBs : db'[d].files = db[d].files,
             \A d \in DBs : db[d].error => db'[d].error
      PROVE  (\A c \in Callers : call'[c].pc = "wait" => Pending(c)') /\ ManualCompletes'
  BY ZenonT(60), <1>0, <1>k, <1>p, <1>m DEF Pending, ManualCompletes
<1>w. ASSUME UNCHANGED <<worker, call>>, \A d \in DBs : db'[d].manual = db[d].manual,
             \A d \in DBs : db[d].error => db'[d].error
      PROVE  PieceInv'
  BY Zenon, <1>0, <1>w DEF TodoInv, PieceInv, Working
<1>n. ASSUME ~Working' PROVE PieceInv'
  BY Zenon, <1>n DEF PieceInv
<1>1. ASSUME NEW d \in DBs, Ending(d) PROVE TodoInv'
  <2>1. EndingFiles(worker.db)
    BY Zenon, <1>1, EndingFilesCases
  <2>2. /\ ~Working' /\ call' \in [Callers -> Call]
        /\ \A e \in DBs \ {worker.db} : db'[e] = db[e]
        /\ \A c \in Callers :
             /\ call'[c].pc = call[c].pc /\ call'[c].db = call[c].db
             /\ call'[c].level = call[c].level
             /\ call'[c].done => call[c].done \/ c = db[worker.db].manual
    BY Zenon, <1>1, EndingOthers
  <2>3. /\ \A c \in Callers : call[c].pc = "wait" => Pending(c)'
        /\ ManualCompletes'
    BY Zenon, <2>1, <2>2, TodoEnds
  <2>4. QED
    BY Zenon, <1>n, <2>2, <2>3 DEF TodoInv
<1>2. ASSUME NEW d \in DBs, NestedFlush(d) PROVE TodoInv'
  <2>1. /\ d = worker.db /\ worker.pc = "nested" /\ worker' = [worker EXCEPT !.pc = "work"]
        /\ UNCHANGED call
    BY Zenon, <1>2, NestedFlushChanges
  <2>2. db'[d] \in Database /\ db'[d].manual = db[d].manual
        /\ \A e \in DBs \ {d} : db'[e] = db[e]
    BY Zenon, <1>2, NestedFlushChanges DEF Keeps
  <2>3. PICK k \in Parts, l \in 0..MaxMemCompactLevel :
          MayFlushTo(db[d].files, k, l) /\ FlushedEffect(db'[d], db[d], k, l)
    BY Zenon, <1>2, NestedFlushChanges
  <2>4. Tidy(db[d])
    BY Zenon DEF FilesInv, Tidy
  <2>5. /\ \A j \in Levels : \A i \in Parts : db[d].files[j][i] <= db'[d].files[j][i]
        /\ db[d].error => db'[d].error
    BY Zenon, <1>0, <2>3, <2>4, FlushedTidy
  <2>6. ASSUME NEW c \in Callers, call'[c].pc = "wait" PROVE Pending(c)'
    <3>1. SUFFICES ASSUME NEW i \in Parts
                   PROVE  /\ call[c].todo[i] <= db'[call[c].db].files[call[c].level][i]
                          /\ i < call[c].begin => call[c].todo[i] = 0
      BY Zenon, <2>1 DEF Pending
    <3>2. /\ call[c].todo[i] <= db[call[c].db].files[call[c].level][i]
          /\ i < call[c].begin => call[c].todo[i] = 0
      BY Zenon, <1>p, <2>1, <2>6 DEF Pending
    <3>3. CASE call[c].db # d
      BY ZenonT(30), <1>0, <2>2, <3>2, <3>3
    <3>4. CASE call[c].db = d
      <4>1. /\ call[c].todo[i] \in Nat /\ db[d].files[call[c].level][i] \in Nat
            /\ call[c].level \in Levels
        BY Zenon, <3>4, CallNumbers
      <4>2. db[d].files[call[c].level][i] <= db'[d].files[call[c].level][i]
            /\ db'[d].files[call[c].level][i] \in Nat
        BY Zenon, <2>2, <2>5, <4>1, FileNumbers
      <4>3. QED
        BY SMTT(30), <3>2, <3>4, <4>1, <4>2
    <3>5. QED
      BY Zenon, <3>3, <3>4
  <2>7. ManualCompletes'
    BY ZenonT(30), <1>0, <1>m, <2>1, <2>2, <2>5 DEF ManualCompletes
  <2>8. PieceInv'
    <3>1. /\ worker'.db = d /\ worker'.manual = worker.manual /\ worker'.level = worker.level
          /\ worker'.inputs = worker.inputs /\ worker'.end = worker.end
      BY Zenon, <1>0, <2>1 DEF Job
    <3>2. QED
      BY SMTT(30), <2>1, <2>2, <2>5, <3>1 DEF TodoInv, PieceInv, Working
  <2>9. QED
    BY Zenon, <2>6, <2>7, <2>8 DEF TodoInv
<1>3. ASSUME NEW d \in DBs, StartManual(d) PROVE TodoInv'
  <2>0. DEFINE m == db[d].manual
               ks == RangeInputs(db[d].files, call[m].level, call[m].begin)
  <2>1. UNCHANGED <<db, call>> /\ d = worker.db /\ worker'.db = worker.db
    BY Zenon, <1>3, StartingChanges DEF Starting
  <2>2. m \in Callers
    BY Zenon, <1>0, <1>3 DEF StartManual
  <2>3. PICK e \in ks : worker' = [worker EXCEPT !.pc = "work", !.manual = TRUE,
                          !.level = call[m].level,
                          !.inputs = [k \in Parts |-> IF k \in ks /\ k <= e
                                                        THEN db[d].files[call[m].level][k]
                                                        ELSE 0],
                          !.end = e]
    BY Zenon, <1>3 DEF StartManual
  <2>4. /\ worker'.level = call[m].level /\ worker'.end = e
        /\ \A k \in Parts : worker'.inputs[k] =
             IF k \in ks /\ k <= e THEN db[d].files[call[m].level][k] ELSE 0
    BY Zenon, <1>0, <2>3 DEF Job
  <2>5. call[m].db = d /\ Pending(m)
    BY Zenon, <1>0, <1>p, <2>2 DEF ManualInv
  <2>6. ASSUME NEW k \in Parts, k <= e PROVE call[m].todo[k] <= worker'.inputs[k]
    <3>1. /\ call[m].todo[k] <= db[d].files[call[m].level][k]
          /\ k < call[m].begin => call[m].todo[k] = 0
      BY Zenon, <2>5 DEF Pending
    <3>2. /\ call[m].todo[k] \in Nat /\ db[d].files[call[m].level][k] \in Nat
          /\ k \in Nat /\ call[m].begin \in Nat
      BY Zenon, <2>2, <2>5, CallNumbers
    <3>3. CASE k \in ks
      BY Zenon, <2>4, <2>6, <3>1, <3>3
    <3>4. CASE k \notin ks
      <4>1. ~(k >= call[m].begin /\ db[d].files[call[m].level][k] > 0)
        BY Zenon, <3>4 DEF RangeInputs
      <4>2. worker'.inputs[k] = 0
        BY Zenon, <2>4, <3>4
      <4>. HIDE DEF m, ks
      <4>3. call[m].todo[k] = 0
        BY SMTT(30), <3>1, <3>2, <4>1
      <4>4. QED
        BY SMTT(30), <4>2, <4>3
    <3>5. QED
      BY Zenon, <3>3, <3>4
  <2>7. PieceInv'
    BY Zenon, <1>0, <2>1, <2>2, <2>4, <2>6 DEF PieceInv
  <2>8. QED
    BY Zenon, <1>k, <2>1, <2>7 DEF TodoInv

<1>4. ASSUME NEW d \in DBs, StartCompaction(d) PROVE TodoInv'
  <2>1. UNCHANGED <<db, call>>
    BY Zenon, <1>4, StartingChanges DEF Starting
  <2>2. \E k \in Parts : /\ worker' = [worker EXCEPT !.pc = "work", !.inputs = Picked(d, k)]
                         /\ worker.pc = "call"
    BY Zenon, <1>4 DEF StartCompaction, MayPick, Runs
  <2>3. ~worker'.manual
    BY Zenon, <1>0, <2>2 DEF Job, ManualInv
  <2>4. PieceInv'
    BY Zenon, <2>3 DEF PieceInv
  <2>5. QED
    BY Zenon, <1>k, <2>1, <2>4 DEF TodoInv
<1>5. ASSUME NEW d \in DBs, StartFlush(d) PROVE TodoInv'
  <2>1. UNCHANGED <<db, call>> /\ worker' = [worker EXCEPT !.pc = "flush"]
    BY Zenon, <1>5 DEF StartFlush
  <2>2. ~Working'
    BY Zenon, <1>0, <2>1 DEF Working, Job
  <2>3. QED
    BY Zenon, <1>k, <1>n, <2>1, <2>2 DEF TodoInv
<1>6. ASSUME NEW d \in DBs, NestedFlushStarts(d) PROVE TodoInv'
  <2>1. /\ UNCHANGED <<db, call>> /\ worker.pc = "work"
        /\ worker' = [worker EXCEPT !.pc = "nested"]
    BY Zenon, <1>6 DEF NestedFlushStarts
  <2>2. /\ worker'.db = worker.db /\ worker'.manual = worker.manual
        /\ worker'.level = worker.level
        /\ worker'.inputs = worker.inputs /\ worker'.end = worker.end
    BY Zenon, <1>0, <2>1 DEF Job
  <2>3. PieceInv'
    BY Zenon, <2>1, <2>2 DEF TodoInv, PieceInv, Working
  <2>4. QED
    BY Zenon, <1>k, <2>1, <2>3 DEF TodoInv
<1>7. ASSUME NEW d \in DBs, FillMemtable(d) PROVE TodoInv'
  <2>1. /\ UNCHANGED <<worker, call>>
        /\ \A e \in DBs : /\ db'[e].files = db[e].files /\ db'[e].error = db[e].error
                          /\ db'[e].manual = db[e].manual
    BY SMTT(30), <1>7, FillMemtableChanges DEF ScheduleEffect
  <2>2. QED
    BY Zenon, <1>k, <1>w, <2>1 DEF TodoInv
<1>8. ASSUME NEW d \in DBs, SyncFails(d) \/ Close(d) \/ CloseWoken(d) PROVE TodoInv'
  <2>1. UNCHANGED <<worker, call>>
    BY Zenon, <1>8, SyncFailsChanges, CloseChanges
  <2>2. \A e \in DBs : /\ db'[e].files = db[e].files /\ db'[e].manual = db[e].manual
                       /\ db[e].error => db'[e].error
    <3>1. CASE SyncFails(d)
      BY Zenon, <3>1, SyncFailsChanges DEF Keeps
    <3>2. CASE Close(d) \/ CloseWoken(d)
      BY Zenon, <3>2, CloseChanges DEF Keeps
    <3>3. QED
      BY Zenon, <1>8, <3>1, <3>2
  <2>3. QED
    BY Zenon, <1>k, <1>w, <2>1, <2>2 DEF TodoInv
<1>9. CASE BackupStarts \/ BackupEnds \/ UNCHANGED vars
  <2>1. UNCHANGED <<db, worker, call>>
    BY Zenon, <1>9 DEF BackupStarts, BackupEnds, vars
  <2>2. QED
    BY Zenon, <1>k, <1>w, <2>1 DEF TodoInv
<1>10. CASE TakeWork
  <2>1. UNCHANGED <<db, call>> /\ ~Working'
    BY Zenon, <1>10, TakeWorkChanges DEF Working
  <2>2. QED
    BY Zenon, <1>k, <1>n, <2>1 DEF TodoInv
<1>11. CASE BGWork \/ BGWorkEnds
  <2>1. UNCHANGED <<db, call>> /\ \E v \in {"call", "idle"} : worker' = [worker EXCEPT !.pc = v]
    BY Zenon, <1>11 DEF BGWork, BGWorkEnds
  <2>2. ~Working'
    BY Zenon, <1>0, <2>1 DEF Working, Job
  <2>3. QED
    BY Zenon, <1>k, <1>n, <2>1, <2>2 DEF TodoInv
\* steps of a caller that has no manual compaction before and after
<1>c. ASSUME NEW c \in Callers, UNCHANGED <<db, worker>>, call[c].pc # "wait",
             call'[c].pc # "wait", ~call'[c].done,
             \A x \in Callers \ {c} : call'[x] = call[x]
      PROVE  TodoInv'
  <2>1. \A x \in Callers : call'[x].pc = "wait" => Pending(x)'
    BY Zenon, <1>c, <1>p DEF Pending
  <2>2. ManualCompletes'
    BY Zenon, <1>c, <1>m DEF ManualCompletes
  <2>3. \A d \in DBs : db[d].manual # NoCaller => call'[db[d].manual] = call[db[d].manual]
    BY SMTT(30), <1>0, <1>c DEF ManualInv
  <2>4. PieceInv'
    BY Zenon, <1>0, <1>c, <2>3 DEF TodoInv, PieceInv, Working
  <2>5. QED
    BY Zenon, <2>1, <2>2, <2>4 DEF TodoInv
<1>12. ASSUME NEW c \in Callers, MemWait(c) PROVE TodoInv'
  <2>1. /\ UNCHANGED <<db, worker>> /\ call[c].pc \in {"mem", "memwait"}
        /\ call'[c].pc \in {"memwait", "range"} /\ call'[c].done = call[c].done
        /\ \A x \in Callers \ {c} : call'[x] = call[x]
    BY Zenon, <1>12, MemWaitChanges DEF CallerEffect
  <2>2. ~call[c].done
    BY Zenon, <2>1 DEF ManualInv
  <2>3. QED
    BY Zenon, <1>c, <2>1, <2>2
<1>13. ASSUME NEW c \in Callers, NEW d \in DBs, CompactRange(c, d) PROVE TodoInv'
  BY Zenon, <1>13, <1>c, CompactRangeChanges DEF CallerEffect
<1>14. ASSUME NEW c \in Callers, RangeWait(c) PROVE TodoInv'
  <2>0. DEFINE d == call[c].db
  <2>1. /\ UNCHANGED worker /\ d \in DBs /\ ~db[d].error
        /\ call[c].pc \in {"range", "wait"} /\ call'[c].pc = "wait"
        /\ ~call'[c].done /\ call'[c].db = d /\ call'[c].level = call[c].level
        /\ call'[c].begin = call[c].begin
        /\ call'[c].todo = IF call[c].pc = "range" THEN db[d].files[call[c].level]
                           ELSE call[c].todo
        /\ \A x \in Callers \ {c} : call'[x] = call[x]
    BY Zenon, <1>14, RangeWaitChanges DEF CallerEffect
  <2>2. \A e \in DBs : /\ db'[e].error = db[e].error /\ db'[e].files = db[e].files
                       /\ \/ db'[e].manual = db[e].manual
                          \/ db[e].manual = NoCaller /\ db'[e].manual = c /\ e = d
    BY Zenon, <1>14, RangeWaitScheduled
  <2>3. Pending(c)'
    <3>1. CASE call[c].pc = "wait"
      <4>1. Pending(c) /\ call'[c].todo = call[c].todo /\ db'[d].files = db[d].files
            /\ call'[c].db = d /\ call'[c].level = call[c].level
            /\ call'[c].begin = call[c].begin
        BY Zenon, <1>p, <2>1, <2>2, <3>1
      <4>2. QED
        BY Zenon, <4>1 DEF Pending
    <3>2. CASE call[c].pc = "range"
      <4>1. call[c].begin = 1
        BY Zenon, <3>2 DEF ManualInv
      <4>2. ASSUME NEW k \in Parts
            PROVE  call'[c].todo[k] <= db'[d].files[call[c].level][k] /\ ~(k < call[c].begin)
        <5>1. call'[c].todo[k] = db[d].files[call[c].level][k]
          BY Zenon, <2>1, <3>2
        <5>2. db[d].files[call[c].level][k] \in Nat /\ k \in Nat /\ k >= 1
          BY Zenon, CallNumbers
        <5>3. db'[d].files = db[d].files
          BY Zenon, <2>1, <2>2
        <5>4. call'[c].todo[k] = db'[d].files[call[c].level][k]
          BY Zenon, <5>1, <5>3
        <5>5. call'[c].todo[k] \in Nat
          BY Zenon, <5>1, <5>2
        <5>6. ~(k < call[c].begin)
          BY SMTT(30), <4>1, <5>2
        <5>7. call'[c].todo[k] <= call'[c].todo[k]
          BY <5>5
        <5>8. QED
          BY Zenon, <5>4, <5>6, <5>7
      <4>3. QED
        BY Zenon, <2>1, <4>2 DEF Pending
    <3>3. QED
      BY Zenon, <2>1, <3>1, <3>2
  <2>4. ASSUME NEW x \in Callers, call'[x].pc = "wait" PROVE Pending(x)'
    <3>1. CASE x = c
      BY Zenon, <2>3, <3>1
    <3>2. CASE x # c
      <4>1. call'[x] = call[x] /\ call[x].pc = "wait" /\ call[x].db \in DBs
        BY Zenon, <1>0, <2>1, <2>4, <3>2
      <4>2. Pending(x) /\ db'[call[x].db].files = db[call[x].db].files
        BY Zenon, <1>p, <2>2, <4>1
      <4>3. QED
        BY Zenon, <4>1, <4>2 DEF Pending
    <3>3. QED
      BY Zenon, <3>1, <3>2
  <2>5. ManualCompletes'
    <3>1. ASSUME NEW x \in Callers, call'[x].done, ~db'[call'[x].db].error
          PROVE  call'[x].todo = NoFiles
      <4>1. x # c /\ call'[x] = call[x]
        BY Zenon, <2>1, <3>1
      <4>2. QED
        BY Zenon, <1>0, <1>m, <2>2, <3>1, <4>1
    <3>2. QED
      BY Zenon, <3>1 DEF ManualCompletes
  <2>6. PieceInv'
    <3>0. SUFFICES ASSUME Working, worker.manual
                   PROVE  LET m == db'[worker.db].manual IN
                          IF m = NoCaller THEN db'[worker.db].error
                          ELSE /\ call'[m].level = worker.level
                               /\ \A k \in Parts : k <= worker.end
                                     => call'[m].todo[k] <= worker.inputs[k]
      BY Zenon, <2>1 DEF PieceInv, Working
    <3>1. DEFINE m == db[worker.db].manual
    <3>2. IF m = NoCaller THEN db[worker.db].error
          ELSE /\ call[m].level = worker.level
               /\ \A k \in Parts : k <= worker.end => call[m].todo[k] <= worker.inputs[k]
      BY Zenon, <3>0 DEF TodoInv, PieceInv
    <3>3. db'[worker.db].manual = m /\ db'[worker.db].error = db[worker.db].error
      BY Zenon, <1>0, <2>1, <2>2, <3>2
    <3>4. m # NoCaller => m \in Callers /\ call[m].pc = "wait"
      BY Zenon, <1>0 DEF ManualInv
    <3>5. m # NoCaller => call'[m].level = call[m].level /\ call'[m].todo = call[m].todo
      BY Zenon, <2>1, <3>4
    <3>. HIDE DEF m
    <3>6. QED
      BY Zenon, <3>2, <3>3, <3>5
  <2>7. QED
    BY Zenon, <2>4, <2>5, <2>6 DEF TodoInv
<1>15. ASSUME NEW c \in Callers, RangeEnds(c) PROVE TodoInv'
  <2>0. DEFINE d == call[c].db
  <2>1. /\ UNCHANGED worker /\ d \in DBs /\ call'[c].pc \in {"idle", "range"}
        /\ ~call'[c].done /\ call[c].pc \in {"range", "wait"}
        /\ call[c].done \/ db[d].life # "open" \/ db[d].error
        /\ \A x \in Callers \ {c} : call'[x] = call[x]
    BY Zenon, <1>15, RangeEndsChanges DEF CallerEffect
  <2>2. /\ \A e \in DBs : /\ db'[e].error = db[e].error /\ db'[e].files = db[e].files
        /\ \A e \in DBs : \/ db'[e].manual = db[e].manual
                          \/ e = d /\ db[e].manual = c /\ db'[e].manual = NoCaller
    BY SMTT(30), <1>15, RangeEndsChanges
  <2>3. ASSUME NEW x \in Callers, call'[x].pc = "wait" PROVE Pending(x)'
    <3>1. x # c /\ call'[x] = call[x]
      BY Zenon, <2>1, <2>3
    <3>2. QED
      BY SMTT(30), <1>0, <1>p, <2>2, <2>3, <3>1 DEF Pending
  <2>4. ManualCompletes'
    <3>1. ASSUME NEW x \in Callers, call'[x].done, ~db'[call'[x].db].error
          PROVE  call'[x].todo = NoFiles
      <4>1. x # c /\ call'[x] = call[x]
        BY Zenon, <2>1, <3>1
      <4>2. QED
        BY Zenon, <1>0, <1>m, <2>2, <3>1, <4>1
    <3>2. QED
      BY Zenon, <3>1 DEF ManualCompletes
  <2>5. PieceInv'
    <3>0. SUFFICES ASSUME Working, worker.manual
                   PROVE  LET m == db'[worker.db].manual IN
                          IF m = NoCaller THEN db'[worker.db].error
                          ELSE /\ call'[m].level = worker.level
                               /\ \A k \in Parts : k <= worker.end
                                     => call'[m].todo[k] <= worker.inputs[k]
      BY Zenon, <2>1 DEF PieceInv, Working
    <3>1. DEFINE m == db[worker.db].manual
    <3>2. IF m = NoCaller THEN db[worker.db].error
          ELSE /\ call[m].level = worker.level
               /\ \A k \in Parts : k <= worker.end => call[m].todo[k] <= worker.inputs[k]
      BY Zenon, <3>0 DEF TodoInv, PieceInv
    <3>3. db'[worker.db].error = db[worker.db].error
      BY Zenon, <1>0, <2>2
    <3>4. CASE m = c
      <4>1. worker.db = d /\ ~call[c].done
        BY Zenon, <1>0, <3>4 DEF ManualInv
      <4>2. db[d].life = "open"
        BY Zenon, <2>1 DEF WaitInv
      <4>3. db[d].error
        BY ZenonT(30), <2>1, <4>1, <4>2
      <4>4. db'[worker.db].manual = NoCaller
        BY SMTT(30), <1>15, <3>4, <4>1, RangeEndsChanges
      <4>5. QED
        BY Zenon, <3>3, <4>1, <4>3, <4>4
    <3>5. CASE m # c
      <4>1. db'[worker.db].manual = m
        BY Zenon, <1>0, <2>2, <3>5
      <4>2. m # NoCaller => call'[m] = call[m]
        BY Zenon, <1>0, <2>1, <3>5
      <4>. HIDE DEF m
      <4>3. QED
        BY Zenon, <3>2, <3>3, <4>1, <4>2
    <3>6. QED
      BY Zenon, <3>4, <3>5
  <2>6. QED
    BY Zenon, <2>3, <2>4, <2>5 DEF TodoInv
<1>16. QED
  BY Zenon, <1>1, <1>2, <1>3, <1>4, <1>5, <1>6, <1>7, <1>8, <1>9, <1>10, <1>11, <1>12, <1>13,
     <1>14, <1>15, StepCases


----------------------------------------------------------------------------
(* The theorems.                                                           *)

\* The databases are opened with nothing to do and nothing scheduled.
LEMMA InitInv ==
  ASSUME Init
  PROVE  IInv
<1>0. /\ NoCaller \notin Callers
      /\ \A f \in InitFiles : /\ f \in [Levels -> FileCounts] /\ ~(SumFunction(f[0]) >= Trigger)
                              /\ \A l \in 1..MaxLevel, k \in Parts : f[l][k] <= 1
  BY Zenon, BackgroundAssumption DEF FileCounts
<1>1. ASSUME NEW d \in DBs
      PROVE  /\ db[d] \in Database /\ ~Schedules(db[d]) /\ db[d].manual = NoCaller
             /\ db[d].life = "open" /\ ~db[d].scheduled
             /\ \A l \in 1..MaxLevel : \A k \in Parts : db[d].files[l][k] <= 1
  <2>1. PICK f \in InitFiles :
          db[d] = [life |-> "open", scheduled |-> FALSE, error |-> FALSE,
                   imm |-> FALSE, manual |-> NoCaller, files |-> f]
    BY Zenon DEF Init
  <2>2. db[d].files = f /\ db[d] \in Database /\ db[d].manual = NoCaller /\ ~db[d].imm
        /\ db[d].life = "open" /\ ~db[d].scheduled
    BY SMTT(30), <1>0, <2>1 DEF Database
  <2>3. ~Schedules(db[d])
    BY Zenon, <1>0, <2>2 DEF Schedules, NeedsCompaction
  <2>4. QED
    BY Zenon, <1>0, <2>2, <2>3
<1>2. \A c \in Callers : call[c] = NoCall
  BY Zenon DEF Init
<1>3. /\ queue = <<>> /\ workcv = FALSE /\ worker = NoJob /\ bgwork = "none" /\ woken = {}
      /\ call = [c \in Callers |-> NoCall]
      /\ used = [writes |-> 0, faults |-> 0, calls |-> 0, backups |-> 0]
  BY Zenon DEF Init
<1>4. worker \in Job /\ worker.pc = "idle"
  <2>1. (CHOOSE d \in DBs : TRUE) \in DBs /\ MaxLevel \in Nat /\ MaxLevel >= 2
    BY Zenon, BackgroundAssumption
  <2>2. NoFiles \in FileCounts
    BY Zenon DEF NoFiles, FileCounts
  <2>3. QED
    BY SMTT(30), <1>3, <2>1, <2>2 DEF NoJob, Job
<1>5. TypeOK
  <2>1. db \in [DBs -> Database]
    <3>1. db = [d \in DBs |-> db[d]]
      BY Zenon DEF Init
    <3>2. QED
      BY Zenon, <1>1, <3>1
  <2>2. call \in [Callers -> Call]
    BY Zenon, <1>3, NoCallType
  <2>3. queue \in Seq(DBs) /\ used \in Counts
    BY SMTT(30), <1>3 DEF Counts
  <2>4. QED
    BY Zenon, <1>3, <1>4, <2>1, <2>2, <2>3 DEF TypeOK
<1>6. QueueInv
  BY SMTT(30), <1>1, <1>3, <1>4, BusyPlaces DEF QueueInv
<1>7. LockInv /\ WorkerAwake /\ ~Working
  BY Zenon, <1>3, <1>4 DEF LockInv, WorkerAwake, Working
<1>8. WaitInv
  BY Zenon, <1>1, <1>2, NoCallType DEF WaitInv
<1>9. ManualInv
  BY Zenon, <1>1, <1>2, <1>4, NoCallType DEF ManualInv
<1>10. FilesInv
  BY Zenon, <1>1, <1>7 DEF FilesInv
<1>11. TodoInv
  BY Zenon, <1>2, <1>7, NoCallType DEF TodoInv, PieceInv, ManualCompletes
<1>12. QED
  BY Zenon, <1>5, <1>6, <1>7, <1>8, <1>9, <1>10, <1>11 DEF IInv

\* The inductive invariant of background work: one scheduled call for each
\* database that needs one, the lock of a backup, waits that are served, and
\* the progress of manual compactions, in every reachable state.
THEOREM Invariance == Spec => []IInv
<1>1. Init => IInv
  BY Zenon, InitInv
<1>2. IInv /\ [Next]_vars => IInv'
  <2>1. SUFFICES ASSUME IInv, [Next]_vars PROVE IInv'
    BY Zenon
  <2>2. TypeOK /\ QueueInv /\ LockInv /\ WorkerAwake /\ WaitInv /\ ManualInv /\ FilesInv /\ TodoInv
    BY Zenon, <2>1 DEF IInv
  <2>3. TypeOK'
    BY Zenon, <2>1, <2>2, TypeStep
  <2>4. QueueInv' /\ LockInv' /\ WorkerAwake'
    BY Zenon, <2>1, <2>2, SchedulingStep
  <2>5. WaitInv'
    BY Zenon, <2>1, <2>2, WaitStep
  <2>6. ManualInv'
    BY Zenon, <2>1, <2>2, ManualStep
  <2>7. FilesInv'
    BY Zenon, <2>1, <2>2, FilesStep
  <2>8. TodoInv'
    BY Zenon, <2>1, <2>2, TodoStep
  <2>9. QED
    BY Zenon, <2>3, <2>4, <2>5, <2>6, <2>7, <2>8 DEF IInv
<1>3. QED
  BY <1>1, <1>2, PTL DEF Spec

\* No background call is queued or running for a database whose destructor has
\* returned (~DBImpl, BackgroundCall, MaybeScheduleCompaction).
THEOREM NothingRunsOnDestroyed == Spec => []NoWorkOnDestroyed
<1>1. IInv => NoWorkOnDestroyed
  <2>1. SUFFICES ASSUME IInv, NEW d \in DBs, db[d].life = "destroyed"
                 PROVE  /\ \A i \in 1..Len(queue) : queue[i] # d
                        /\ worker.pc \in Active => worker.db # d
    BY Zenon DEF NoWorkOnDestroyed
  <2>2. ~db[d].scheduled
    BY Zenon, <2>1 DEF IInv, QueueInv
  <2>3. \A i \in 1..Len(queue) : queue[i] # d
    BY Zenon, <2>1, <2>2 DEF IInv, QueueInv
  <2>4. worker.pc \in Active => worker.db # d
    BY Zenon, <2>1, <2>2 DEF IInv, QueueInv, Busy
  <2>5. QED
    BY Zenon, <2>3, <2>4
<1>2. QED
  BY <1>1, Invariance, PTL

\* The thread of PosixEnv never sleeps on a queue that holds work
\* (PosixEnv::Schedule, BackgroundThreadMain).
THEOREM ThreadAwake == Spec => []WorkerAwake
<1>1. IInv => WorkerAwake
  BY Zenon DEF IInv
<1>2. QED
  BY <1>1, Invariance, PTL

\* A manual compaction that is done without an error has moved every table that
\* was in its level when it began (TEST_CompactRange, BackgroundCompaction).
THEOREM ManualCompactionsComplete == Spec => []ManualCompletes
<1>1. IInv => ManualCompletes
  BY Zenon DEF IInv, TodoInv
<1>2. QED
  BY <1>1, Invariance, PTL

\* A background call of database d is queued or is running.
Served(d) == (\E i \in 1..Len(queue) : queue[i] = d) \/ (worker.pc \in Busy /\ worker.db = d)

\* Everyone who waits on background_work_finished_signal_ was woken or has a
\* background call coming that wakes them.
NobodyForgotten ==
  /\ \A c \in Callers : call[c].pc \in {"memwait", "wait"} /\ c \notin woken
                          => Served(call[c].db)
  /\ \A d \in DBs : db[d].life = "closing" /\ d \notin woken => Served(d)

\* No caller of CompactRange and no destructor waits for a signal that nobody
\* will send: the invariant that their return rests on (TEST_CompactRange,
\* TEST_CompactMemTable, ~DBImpl).
THEOREM WaitersAreServed == Spec => []NobodyForgotten
<1>1. IInv => NobodyForgotten
  <2>1. SUFFICES ASSUME IInv PROVE NobodyForgotten
    BY Zenon
  <2>2. \A d \in DBs : db[d].scheduled => Served(d)
    BY Zenon, <2>1 DEF IInv, QueueInv, Served
  <2>3. \A c \in Callers : call[c].db \in DBs
    BY Zenon, <2>1, CallNumbers DEF IInv
  <2>4. QED
    BY Zenon, <2>1, <2>2, <2>3 DEF IInv, WaitInv, NobodyForgotten
<1>2. QED
  BY <1>1, Invariance, PTL

\* While a backup copies files no table of any database appears or goes
\* (leveldb_backup of util/jni.cc, BGWork).
THEOREM BackupsAreConsistent == Spec => BackupSeesOneVersion
<1>1. IInv /\ [Next]_vars
        => [bgwork = "backup" => \A d \in DBs : db'[d].files = db[d].files]_vars
  <2>1. SUFFICES ASSUME IInv, [Next]_vars, bgwork = "backup", NEW d \in DBs
                 PROVE  db'[d].files = db[d].files
    BY Zenon
  <2>2. TypeOK /\ FilesInv /\ WaitInv
        /\ worker.pc \notin {"call", "flush", "work", "nested", "unlock", "crashed"}
    BY Zenon, <2>1 DEF IInv, LockInv
  <2>3. ASSUME NEW e \in DBs PROVE ~Ending(e)
    <3>1. SUFFICES ASSUME Ending(e) PROVE FALSE
      BY Zenon
    <3>2. PICK r \in Database : Ends(r) \/ Crashes(r)
      BY Zenon, <2>2, <3>1, EndingCases
    <3>3. QED
      BY Zenon, <2>2, <3>2 DEF Ends, Crashes
  <2>4. ASSUME NEW e \in DBs PROVE ~NestedFlush(e)
    BY Zenon, <2>2 DEF NestedFlush
  <2>5. ASSUME NEW e \in DBs, Starting(e) PROVE UNCHANGED db
    BY Zenon, <2>2, <2>5, StartingChanges
  <2>6. ASSUME NEW e \in DBs, FillMemtable(e) PROVE db'[d].files = db[d].files
    BY SMTT(30), <2>2, <2>6, FillMemtableChanges DEF ScheduleEffect
  <2>7. ASSUME NEW e \in DBs, SyncFails(e) PROVE db'[d].files = db[d].files
    BY Zenon, <2>2, <2>7, SyncFailsChanges DEF Keeps
  <2>8. ASSUME NEW e \in DBs, Close(e) \/ CloseWoken(e) PROVE db'[d].files = db[d].files
    BY SMTT(30), <2>2, <2>8, CloseChanges DEF Keeps
  <2>9. ASSUME NEW c \in Callers, MemWait(c) \/ \E e \in DBs : CompactRange(c, e)
        PROVE  UNCHANGED db
    BY Zenon, <2>2, <2>9, MemWaitChanges, CompactRangeChanges
  <2>10. ASSUME NEW c \in Callers, RangeWait(c) PROVE db'[d].files = db[d].files
    BY Zenon, <2>2, <2>10, RangeWaitScheduled
  <2>11. ASSUME NEW c \in Callers, RangeEnds(c) PROVE db'[d].files = db[d].files
    BY ZenonT(60), <2>2, <2>11, RangeEndsChanges
  <2>12. CASE TakeWork \/ BGWork \/ BGWorkEnds \/ BackupStarts \/ BackupEnds \/ UNCHANGED vars
    <3>1. UNCHANGED db
      BY Zenon, <2>12 DEF TakeWork, BGWork, BGWorkEnds, BackupStarts, BackupEnds, vars
    <3>2. QED
      BY Zenon, <3>1
  <2>13. QED
    BY Zenon, <2>1, <2>3, <2>4, <2>5, <2>6, <2>7, <2>8, <2>9, <2>10, <2>11, <2>12,
       StepCases DEF Starting
<1>2. QED
  BY <1>1, Invariance, PTL DEF Spec, BackupSeesOneVersion
=============================================================================
