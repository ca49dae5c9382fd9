--------------------------- MODULE LevelCompaction ---------------------------
(***************************************************************************)
(* The levels of tables and the compactions that rewrite them              *)
(* (db/version_set.cc and DoCompactionWork of db/db_impl.cc): where a      *)
(* memtable is written, which tables a compaction takes, which entries it  *)
(* drops, and what Get then reads through memtables and levels.            *)
(*                                                                         *)
(* An entry is known by its sequence number: hist[s] holds its user key    *)
(* and type.  A table (FileMetaData) is its entries with the smallest and  *)
(* the largest of their internal keys.  Table numbers only order level 0,  *)
(* where each flush appends a new number, so level 0 is a sequence, oldest *)
(* first, and a deeper level is a set.                                     *)
(* Sizes in bytes are abstracted: where the code compares a size with a    *)
(* limit, both outcomes are allowed unless there are no bytes at all.      *)
(* compact_pointer_ is part of that choice (it says which table of a level *)
(* is next), and so is file_to_compact_, which belongs to a version and    *)
(* which only reads of that version set.  The background thread is the     *)
(* only one to change the levels, and a compaction decides from what it    *)
(* saw when it was picked (input_version_, smallest_snapshot), so its loop *)
(* is one step.                                                            *)
(***************************************************************************)
EXTENDS Integers, Sequences, FiniteSets, SequencesExt

CONSTANTS
  Keys,                 \* user keys, a set of integers ordered by the comparator
  NumLevels,            \* config::kNumLevels
  MaxMemCompactLevel,   \* config::kMaxMemCompactLevel
  L0_CompactionTrigger, \* config::kL0_CompactionTrigger
  NestedIn,             \* kinds of compaction, "auto" or "manual", during
                        \* which a memtable is flushed
  Types,                \* kinds of writes, "put" or "delete"
  MaxSeq,               \* bound: writes
  Admits(_, _)          \* bound: the writes, and the live snapshots they go with

ASSUME LevelAssumption ==
  /\ Keys \subseteq Int /\ Keys # {}
  /\ NumLevels \in Nat /\ NumLevels > 1
  /\ MaxMemCompactLevel \in 0..NumLevels - 1
  /\ L0_CompactionTrigger \in Nat \ {0}
  /\ NestedIn \subseteq {"auto", "manual"}
  /\ Types \subseteq {"put", "delete"}

VARIABLES
  hist,       \* hist[s]: key and type of the write with sequence number s
  mem, imm,   \* the entries of mem_ and imm_
  level0,     \* the tables of level 0, in the order of their numbers
  levels,     \* levels[l]: the tables of a level above 0
  snapshots,  \* sequence numbers of the live snapshots
  job         \* the compaction DoCompactionWork runs, or NoJob

vars == <<hist, mem, imm, level0, levels, snapshots, job>>

NoJob == [level |-> -1, in0 |-> {}, in1 |-> {}, base |-> {}, smallest |-> 0, kind |-> "none"]

LastSequence == Len(hist)
Deep == 1..NumLevels - 1
FilesAt(l) == IF l = 0 THEN ToSet(level0) ELSE levels[l]
EntriesIn(files) == UNION {f.entries : f \in files}
EntriesAt(l) == EntriesIn(FilesAt(l))
Entries == mem \cup imm \cup UNION {EntriesAt(l) : l \in 0..NumLevels - 1}

-----------------------------------------------------------------------------
(* Keys and ranges *)

UserKey(s) == hist[s].key

\* InternalKeyComparator: user keys ascending, then sequence numbers descending.
IKeyLess(s, t) ==
  UserKey(s) < UserKey(t) \/ (UserKey(s) = UserKey(t) /\ s > t)

\* The FileMetaData that BuildTable and DoCompactionWork fill in.
Table(S) == [entries |-> S,
             smallest |-> CHOOSE s \in S : \A t \in S \ {s} : IKeyLess(s, t),
             largest |-> CHOOSE s \in S : \A t \in S \ {s} : IKeyLess(t, s)]

Begin(f) == UserKey(f.smallest)
End(f) == UserKey(f.largest)

\* AfterFile and BeforeFile
Overlaps(f, b, e) == End(f) >= b /\ Begin(f) <= e

OverlapInLevel(l, b, e) == \E f \in FilesAt(l) : Overlaps(f, b, e)

\* In level 0 a table that reaches beyond the range extends it and the search
\* starts over.
GetOverlappingInputs(l, b, e) ==
  LET Grown[n \in 0..Len(level0)] ==
        IF n = 0 THEN <<b, e>>
        ELSE LET r == Grown[n - 1]
                 in == {f \in FilesAt(0) : Overlaps(f, r[1], r[2])}
             IN <<Min({r[1]} \cup {Begin(f) : f \in in}),
                  Max({r[2]} \cup {End(f) : f \in in})>>
      r == IF l = 0 THEN Grown[Len(level0)] ELSE <<b, e>>
  IN {f \in FilesAt(l) : Overlaps(f, r[1], r[2])}

-----------------------------------------------------------------------------
(* Which level a memtable goes to *)

\* Mutant: the next level is not asked for overlap.
PickLevelSkipsNext(b, e) ==
  {l \in 0..MaxMemCompactLevel :
     l > 0 => \A j \in 0..l - 1 : ~OverlapInLevel(j, b, e)}

\* The levels PickLevelForMemTableOutput may return: it moves down while the
\* next level has no overlap, and may stop early when the level after that has.
PickLevelForMemTableOutput(b, e) ==
  {l \in 0..MaxMemCompactLevel :
     /\ l > 0 => \A j \in 0..l : ~OverlapInLevel(j, b, e)
     /\ \/ l = MaxMemCompactLevel
        \/ OverlapInLevel(0, b, e)
        \/ OverlapInLevel(l + 1, b, e)
        \/ l + 2 < NumLevels /\ OverlapInLevel(l + 2, b, e)}

-----------------------------------------------------------------------------
(* Which tables a compaction takes *)

\* Mutant: no boundary tables.
NoBoundaryInputs(files, inputs) == inputs

\* AddBoundaryInputs with FindSmallestBoundaryFile: while the level has a table
\* that starts with an older entry of the last user key taken, take it too.
AddBoundaryInputs(files, inputs) ==
  LET Boundary(in) ==
        LET u == Table(EntriesIn(in)).largest
        IN {f \in files : IKeyLess(u, f.smallest) /\ Begin(f) = UserKey(u)}
      Added[n \in 0..Cardinality(files)] ==
        IF n = 0 THEN inputs
        ELSE LET in == Added[n - 1]
                 bs == Boundary(in)
             IN IF bs = {} THEN in
                ELSE in \cup {CHOOSE f \in bs :
                               \A g \in bs \ {f} : IKeyLess(f.smallest, g.smallest)}
  IN IF inputs = {} THEN {} ELSE Added[Cardinality(files)]

\* GetRange, GetRange2 and GetOverlappingInputs for the range they return
InputsFor(l, files) ==
  LET all == Table(EntriesIn(files)) IN GetOverlappingInputs(l, Begin(all), End(all))

\* SetupOtherInputs: the inputs it may settle on.  It prefers the grown inputs
\* if they are below ExpandedCompactionByteSizeLimit.
SetupOtherInputs(l, inputs) ==
  LET in0 == AddBoundaryInputs(FilesAt(l), inputs)
      in1 == AddBoundaryInputs(FilesAt(l + 1), InputsFor(l + 1, in0))
      expanded0 == AddBoundaryInputs(FilesAt(l), InputsFor(l, in0 \cup in1))
      expanded1 == AddBoundaryInputs(FilesAt(l + 1), InputsFor(l + 1, expanded0))
      growable == /\ in1 # {}
                  /\ Cardinality(expanded0) > Cardinality(in0)
                  /\ Cardinality(expanded1) = Cardinality(in1)
  IN {[level |-> l, in0 |-> in0, in1 |-> in1]}
     \cup IF growable THEN {[level |-> l, in0 |-> expanded0, in1 |-> expanded1]} ELSE {}

-----------------------------------------------------------------------------
(* What a compaction writes *)

\* IsBaseLevelForKey: no table of input_version_ below the output level has k
\* in its range.
IsBaseLevelForKey(k) == \A f \in job.base : ~Overlaps(f, k, k)

\* Mutant: a newer entry hides an older one from every snapshot.
DroppedIgnoringSnapshots(s) ==
  \/ \E t \in EntriesIn(job.in0 \cup job.in1) : UserKey(t) = UserKey(s) /\ t > s
  \/ hist[s].type = "delete" /\ IsBaseLevelForKey(UserKey(s))

\* The drop rule of DoCompactionWork.  The entries of a key come newest first,
\* so last_sequence_for_key <= smallest_snapshot says that a newer entry is old
\* enough for every snapshot.
Dropped(s) ==
  \/ \E t \in EntriesIn(job.in0 \cup job.in1) :
       UserKey(t) = UserKey(s) /\ t > s /\ t <= job.smallest
  \/ /\ hist[s].type = "delete"
     /\ s <= job.smallest
     /\ IsBaseLevelForKey(UserKey(s))

Kept == {s \in EntriesIn(job.in0 \cup job.in1) : ~Dropped(s)}

\* The tables written when a table is finished after each entry of cuts
\* (ShouldStopBefore, MaxOutputFileSize).
Outputs(cuts) ==
  {Table({t \in Kept : \A c \in cuts : IKeyLess(c, s) <=> IKeyLess(c, t)}) : s \in Kept}

\* LogAndApply with the edit of a compaction.
Install(l, in0, in1, out) ==
  /\ level0' = IF l = 0 THEN SelectSeq(level0, LAMBDA f : f \notin in0) ELSE level0
  /\ levels' = [k \in Deep |->
                  CASE k = l -> levels[k] \ in0
                    [] k = l + 1 -> (levels[k] \ in1) \cup out
                    [] OTHER -> levels[k]]

-----------------------------------------------------------------------------
(* Reading *)

\* The newest entry of k in a table or memtable that sequence number s may see,
\* a set of at most one; a table is searched from the internal key (k, s).
Lookup(S, k, s) ==
  {t \in S : t <= s /\ UserKey(t) = k /\ \A u \in S : UserKey(u) = k => u <= t \/ u > s}

\* FindFile: f is the first table whose largest key is at or after (k, s), and
\* its range begins at or before k.
FindFile(f, l, k, s) ==
  LET AtOrAfter(g) == End(g) > k \/ (End(g) = k /\ g.largest <= s)
  IN /\ AtOrAfter(f)
     /\ Begin(f) <= k
     /\ \A g \in levels[l] \ {f} : AtOrAfter(g) => IKeyLess(f.largest, g.largest)

\* ForEachOverlapping: the tables searched for (k, s), each with its turn: level
\* 0 from the newest table to the oldest, then level by level.
ForEachOverlapping(k, s) ==
  {<<-i, level0[i]>> : i \in {i \in DOMAIN level0 : Overlaps(level0[i], k, k)}}
  \cup UNION {{<<l, f>> : f \in {f \in levels[l] : FindFile(f, l, k, s)}} : l \in Deep}

\* What level 0 and a level above 0 have for (k, s).
Level0Hit(k, s) ==
  UNION {Lookup(level0[i].entries, k, s) : i \in
    {i \in DOMAIN level0 :
       \A j \in i + 1..Len(level0) : Lookup(level0[j].entries, k, s) = {}}}

LevelHit(l, k, s) ==
  UNION {Lookup(f.entries, k, s) : f \in {f \in levels[l] : FindFile(f, l, k, s)}}

OrElse(S, T) == IF S # {} THEN S ELSE T

\* DBImpl::Get and Version::Get: the first of mem_, imm_ and the tables that
\* has an entry decides.  An entry that is a deletion is no value.
Get(k, s) ==
  LET From[l \in 1..NumLevels] ==
        IF l = NumLevels THEN {} ELSE OrElse(LevelHit(l, k, s), From[l + 1])
  IN {t \in OrElse(Lookup(mem, k, s),
              OrElse(Lookup(imm, k, s), OrElse(Level0Hit(k, s), From[1]))) :
        hist[t].type = "put"}

\* The tables, with their levels, that file_to_compact_ of this version may be:
\* the first table searched, of two or more, by a Get that does not find its key
\* there or by a sampled read of an iterator at an entry (RecordReadSample), when
\* UpdateStats has used up its allowed_seeks.
SeekFiles ==
  LET First(k, s) ==
        LET found == ForEachOverlapping(k, s)
        IN {p \in found :
              /\ Cardinality(found) >= 2
              /\ \A q \in found : p[1] <= q[1]
              /\ Lookup(p[2].entries, k, s) = {} \/ (s \in Entries /\ UserKey(s) = k)}
  IN {<<Max({0, p[1]}), p[2]>> :
        p \in UNION {First(k, s) : k \in Keys, s \in 0..LastSequence}}

-----------------------------------------------------------------------------
(* The actions *)

Init ==
  /\ hist = << >>
  /\ mem = {} /\ imm = {}
  /\ level0 = << >>
  /\ levels = [l \in Deep |-> {}]
  /\ snapshots = {}
  /\ job = NoJob

Write(k, type) ==
  /\ LastSequence < MaxSeq
  /\ hist' = Append(hist, [key |-> k, type |-> type])
  /\ Admits(hist', snapshots)
  /\ mem' = mem \cup {LastSequence + 1}
  /\ UNCHANGED <<imm, level0, levels, snapshots, job>>

\* MakeRoomForWrite switches memtables when the last one is flushed.
SwitchMemtable ==
  /\ mem # {} /\ imm = {}
  /\ imm' = mem /\ mem' = {}
  /\ UNCHANGED <<hist, level0, levels, snapshots, job>>

\* CompactMemTable and WriteLevel0Table
CompactMemTable ==
  /\ imm # {}
  /\ LET f == Table(imm)
     IN \E l \in PickLevelForMemTableOutput(Begin(f), End(f)) :
          /\ level0' = IF l = 0 THEN Append(level0, f) ELSE level0
          /\ levels' = [k \in Deep |-> IF k = l THEN levels[k] \cup {f} ELSE levels[k]]
  /\ imm' = {}
  /\ UNCHANGED <<hist, mem, snapshots, job>>

\* The flush with which BackgroundCompaction begins.
Flush == job = NoJob /\ CompactMemTable

\* The flush in the loop of DoCompactionWork.
NestedFlush == job.kind \in NestedIn /\ CompactMemTable

GetSnapshot ==
  /\ snapshots' = snapshots \cup {LastSequence}
  /\ Admits(hist, snapshots')
  /\ UNCHANGED <<hist, mem, imm, level0, levels, job>>

ReleaseSnapshot(s) ==
  /\ snapshots' = snapshots \ {s}
  /\ UNCHANGED <<hist, mem, imm, level0, levels, job>>

\* The compactions PickCompaction may return.  It begins with a table of a level
\* whose score is 1 or more, which for level 0 depends on the number of tables,
\* or else with file_to_compact_; in level 0 every overlapping table comes along.
PickCompaction ==
  LET Scored == {l \in 0..NumLevels - 2 : l = 0 => Len(level0) >= L0_CompactionTrigger}
      picks == UNION {{<<l, f>> : f \in FilesAt(l)} : l \in Scored}
               \cup IF 0 \in Scored THEN {} ELSE SeekFiles
      Inputs(l, f) == IF l = 0 THEN GetOverlappingInputs(0, Begin(f), End(f)) ELSE {f}
  IN UNION {SetupOtherInputs(p[1], Inputs(p[1], p[2])) : p \in picks}

\* The compactions CompactRange of VersionSet may return for [b, e] in level l:
\* above level 0 it stops after the table that brings the size to the limit.
CompactRange(l, b, e) ==
  LET inputs == GetOverlappingInputs(l, b, e)
      UpTo(last) == {f \in inputs : f = last \/ IKeyLess(f.smallest, last.smallest)}
      chosen == IF l = 0 /\ inputs # {} THEN {inputs} ELSE {UpTo(f) : f \in inputs}
  IN UNION {SetupOtherInputs(l, in) : in \in chosen}

\* DBImpl::CompactRange visits the levels above the deepest that overlaps.
ManualCompactions ==
  UNION {CompactRange(r[1], r[2], r[3]) :
           r \in {r \in (0..NumLevels - 2) \X Keys \X Keys :
                    r[1] = 0 \/ \E m \in r[1] + 1..NumLevels - 1 : OverlapInLevel(m, r[2], r[3])}}

\* IsTrivialMove: one table to move, nothing to merge it with.
Single(c) == Cardinality(c.in0) = 1 /\ c.in1 = {}

\* The tables of the level after the next that the inputs overlap.
Grandparents(c) ==
  LET all == Table(EntriesIn(c.in0 \cup c.in1))
  IN IF c.level + 2 < NumLevels THEN GetOverlappingInputs(c.level + 2, Begin(all), End(all))
     ELSE {}

\* BackgroundCompaction picks a compaction when no memtable waits to be flushed.
Idle == job = NoJob /\ imm = {}

\* BackgroundCompaction moves a single table down, unless it overlaps too many
\* bytes of grandparents.
TrivialMove(c) ==
  /\ Idle /\ Single(c)
  /\ Install(c.level, c.in0, {}, c.in0)
  /\ UNCHANGED <<hist, mem, imm, snapshots, job>>

\* DoCompactionWork up to the point where it releases the mutex.
StartWork(c, kind) ==
  /\ Idle
  /\ kind = "auto" /\ Single(c) => Grandparents(c) # {}
  /\ job' = [level |-> c.level, in0 |-> c.in0, in1 |-> c.in1, kind |-> kind,
             base |-> UNION {FilesAt(k) : k \in c.level + 2..NumLevels - 1},
             smallest |-> Min({LastSequence} \cup snapshots)]
  /\ UNCHANGED <<hist, mem, imm, level0, levels, snapshots>>

\* The end of DoCompactionWork: the outputs replace the inputs in the current
\* version, which may have changed since the compaction was picked.
InstallCompactionResults(out) ==
  /\ job # NoJob
  /\ Install(job.level, job.in0, job.in1, out)
  /\ job' = NoJob
  /\ UNCHANGED <<hist, mem, imm, snapshots>>

\* The process ends, perhaps in the middle of a compaction, whose outputs are
\* then garbage, and the database is opened again: each log becomes a table of
\* level 0 (RecoverLogFile, where WriteLevel0Table has no base version).
Reopen ==
  /\ LET logs == SelectSeq(<<imm, mem>>, LAMBDA m : m # {})
     IN level0' = level0 \o [i \in DOMAIN logs |-> Table(logs[i])]
  /\ mem' = {} /\ imm' = {}
  /\ snapshots' = {}
  /\ job' = NoJob
  /\ UNCHANGED <<hist, levels>>

Next ==
  \/ \E k \in Keys, type \in Types : Write(k, type)
  \/ SwitchMemtable
  \/ Flush
  \/ NestedFlush
  \/ GetSnapshot
  \/ \E s \in snapshots : ReleaseSnapshot(s)
  \/ Idle /\ \E c \in PickCompaction : TrivialMove(c)
  \/ Idle /\ \E c \in PickCompaction : StartWork(c, "auto")
  \/ Idle /\ \E c \in ManualCompactions : StartWork(c, "manual")
  \/ \E out \in {Outputs(cuts) : cuts \in SUBSET Kept} : InstallCompactionResults(out)
  \/ Reopen

Spec == Init /\ [][Next]_vars

-----------------------------------------------------------------------------
(* Properties *)

\* Above level 0 the tables of a level have disjoint ranges of internal keys:
\* what MaybeAddFile asserts and SaveTo aborts on ("overlapping ranges in same
\* level"), and what the binary search of FindFile rests on.
LevelsDisjoint ==
  \A l \in Deep : \A f, g \in levels[l] :
    f # g => IKeyLess(f.largest, g.smallest) \/ IKeyLess(g.largest, f.smallest)

\* For every key, what is nearer to the memtable is newer: mem_, imm_, level 0
\* from its newest table to its oldest, then level by level.  Get stops at the
\* first place that has the key, and rule (2) of the drop rule ("data in lower
\* levels will have larger sequence numbers") says the same.
NewerAbove ==
  LET Newer(S, T) == \A s \in S, t \in T : UserKey(s) = UserKey(t) => s > t
      tables == UNION {EntriesAt(l) : l \in 0..NumLevels - 1}
  IN /\ Newer(mem, imm \cup tables)
     /\ Newer(imm, tables)
     /\ \A i, j \in DOMAIN level0 : i > j => Newer(level0[i].entries, level0[j].entries)
     /\ \A l, m \in 0..NumLevels - 1 : l < m => Newer(EntriesAt(l), EntriesAt(m))

View(s) == [k \in Keys |-> Get(k, s)]

Store == INSTANCE AbstractStore WITH
  Values <- {{s} : s \in 1..MaxSeq}, NotFound <- {},
  latest <- View(LastSequence), views <- {View(s) : s \in snapshots}

\* The levels implement the abstract store: writes and snapshots are the only
\* steps that change what can be read.
ImplementsStore == Store!Spec
=============================================================================
