---------------------------- MODULE Repair_proofs ----------------------------
(***************************************************************************)
(* Proofs about Repair: what could be read is never destroyed, and the     *)
(* descriptor of a repair that returned OK names readable tables that hold *)
(* all of it, for any logs and tables and any number of faults and kills.  *)
(***************************************************************************)
EXTENDS Repair, Sequences, TLAPS, WellFoundedInduction

-----------------------------------------------------------------------------
(* Sets of numbers, and functions that gain or lose an argument.           *)

\* What replaces finiteness in the invariant: it can be kept step by step.
Bounded(S) == \E k \in Nat : \A x \in S : x <= k

\* A set of numbers that is not empty has a least one.
LEMMA LeastNumber ==
  ASSUME NEW T \in SUBSET Nat, T # {}
  PROVE  \E x \in T : \A y \in T : x <= y
<1>1. PICK x \in T : \A y \in T : ~(<<y, x>> \in OpToRel(<, Nat))
  BY Zenon, NatLessThanWellFounded, WFMin
<1>2. ASSUME NEW y \in T PROVE ~(y < x)
  <2>1. <<y, x>> \in Nat \X Nat /\ <<y, x>>[1] = y /\ <<y, x>>[2] = x
    OBVIOUS
  <2>2. QED
    BY Zenon, <1>1, <2>1 DEF OpToRel
<1>3. QED
  BY <1>2

\* A finite set of numbers is bounded: otherwise a shortest prefix of an
\* enumeration would not be.
LEMMA FiniteIsBounded ==
  ASSUME NEW S \in SUBSET Nat, IsFiniteSet(S)
  PROVE  Bounded(S)
<1>1. PICK seq \in Seq(S) : \A s \in S : \E n \in 1..Len(seq) : seq[n] = s
  BY Zenon DEF IsFiniteSet
<1>2. Len(seq) \in Nat /\ \A i \in 1..Len(seq) : seq[i] \in Nat
  <2>1. Len(seq) \in Nat /\ \A i \in 1..Len(seq) : seq[i] \in S
    OBVIOUS
  <2>2. QED
    BY Zenon, <2>1
<1>. DEFINE T == {n \in 0..Len(seq) : ~(\E k \in Nat : \A i \in 1..n : seq[i] <= k)}
<1>. HIDE DEF T
<1>3. CASE T = {}
  <2>1. Len(seq) \in 0..Len(seq)
    BY <1>2
  <2>2. PICK k \in Nat : \A i \in 1..Len(seq) : seq[i] <= k
    BY Zenon, <1>3, <2>1 DEF T
  <2>3. QED
    BY Zenon, <1>1, <2>2 DEF Bounded
<1>4. CASE T # {}
  <2>1. PICK n \in T : \A m \in T : n <= m
    <3>1. T \in SUBSET Nat
      BY <1>2 DEF T
    <3>2. QED
      BY Zenon, <1>4, <3>1, LeastNumber
  <2>2. n \in 0..Len(seq) /\ ~(\E k \in Nat : \A i \in 1..n : seq[i] <= k)
    BY Zenon DEF T
  <2>3. n # 0
    BY <2>2
  <2>4. n - 1 \in 0..Len(seq) /\ n - 1 \notin T
    <3>1. n \in Nat /\ n - 1 \in 0..Len(seq) /\ ~(n <= n - 1)
      BY <1>2, <2>2, <2>3
    <3>2. QED
      BY Zenon, <2>1, <3>1
  <2>5. PICK k \in Nat : \A i \in 1..(n - 1) : seq[i] <= k
    BY Zenon, <2>4 DEF T
  <2>6. seq[n] \in Nat /\ k + seq[n] \in Nat
    <3>1. n \in 1..Len(seq)
      BY <1>2, <2>2, <2>3
    <3>2. seq[n] \in Nat
      BY Zenon, <1>2, <3>1
    <3>3. QED
      BY <3>2
  <2>7. ASSUME NEW i \in 1..n PROVE seq[i] <= k + seq[n]
    <3>0. Len(seq) \in Nat /\ n \in 0..Len(seq)
      BY Zenon, <1>2, <2>2
    <3>1. i \in 1..Len(seq) /\ (i = n \/ i \in 1..(n - 1))
      BY <3>0
    <3>2. seq[i] \in Nat /\ (i = n \/ seq[i] <= k)
      BY Zenon, <1>2, <2>5, <3>1
    <3>3. QED
      BY <2>6, <3>2
  <2>8. QED
    BY Zenon, <2>2, <2>6, <2>7
<1>5. QED
  BY Zenon, <1>3, <1>4

\* Max of a bounded set is one of its members and none is larger.
LEMMA MaxOf ==
  ASSUME NEW S \in SUBSET Nat, S # {}, Bounded(S)
  PROVE  Max(S) \in S /\ \A x \in S : x <= Max(S)
<1>. DEFINE U == {k \in Nat : \A x \in S : x <= k}
<1>1. PICK k \in U : \A m \in U : k <= m
  <2>1. U \in SUBSET Nat /\ U # {}
    BY Zenon DEF Bounded
  <2>2. QED
    BY Zenon, <2>1, LeastNumber
<1>2. k \in S
  <2>1. SUFFICES ASSUME k \notin S PROVE FALSE
    BY Zenon
  <2>2. k # 0
    <3>1. PICK x \in S : TRUE
      BY Zenon
    <3>2. x \in Nat /\ x <= k /\ x # k /\ k \in Nat
      BY Zenon, <1>1, <2>1
    <3>3. QED
      BY <3>2
  <2>3. k - 1 \in Nat /\ \A x \in S : x <= k - 1
    BY <1>1, <2>1, <2>2
  <2>4. QED
    BY <1>1, <2>3
<1>3. \A x \in S : k >= x
  BY <1>1
<1>4. Max(S) \in S /\ \A x \in S : Max(S) >= x
  BY Zenon, <1>2, <1>3 DEF Max
<1>5. QED
  BY <1>4

\* Largest is above every member, and 0 of the empty set.
LEMMA LargestOf ==
  ASSUME NEW S \in SUBSET Nat, Bounded(S)
  PROVE  Largest(S) \in Nat /\ \A x \in S : x <= Largest(S)
<1>1. S \cup {0} \in SUBSET Nat /\ S \cup {0} # {}
  OBVIOUS
<1>2. Bounded(S \cup {0})
  BY DEF Bounded
<1>3. Max(S \cup {0}) \in S \cup {0} /\ \A x \in S \cup {0} : x <= Max(S \cup {0})
  BY Zenon, <1>1, <1>2, MaxOf
<1>4. QED
  BY ZenonT(60), <1>1, <1>3 DEF Largest

\* A number more does not unbound a set.
LEMMA BoundedAdd ==
  ASSUME NEW S \in SUBSET Nat, Bounded(S), NEW n \in Nat
  PROVE  Bounded(S \cup {n})
<1>1. PICK k \in Nat : \A x \in S : x <= k
  BY Zenon DEF Bounded
<1>2. k + n \in Nat /\ \A x \in S \cup {n} : x <= k + n
  BY <1>1
<1>3. QED
  BY Zenon, <1>2 DEF Bounded

\* g is a function.
IsFun(g) == g = [x \in DOMAIN g |-> g[x]]

\* g is f with v at n.
Adds(f, g, n, v) ==
  /\ IsFun(g) /\ DOMAIN g = DOMAIN f \cup {n} /\ g[n] = v
  /\ \A x \in DOMAIN f : x # n => g[x] = f[x]

\* g is f without n.
Loses(f, g, n) ==
  /\ IsFun(g) /\ DOMAIN g = DOMAIN f \ {n}
  /\ \A x \in DOMAIN f : x # n => g[x] = f[x]

\* A file is created, or one replaced.
LEMMA SetAdds ==
  ASSUME NEW f, NEW n, NEW v
  PROVE  Adds(f, Set(f, n, v), n, v)
BY Zenon DEF Adds, Set, IsFun

\* A file is removed.
LEMMA WithoutLoses ==
  ASSUME NEW f, NEW n
  PROVE  Loses(f, Without(f, n), n)
BY Zenon DEF Loses, Without, Restrict, IsFun

\* A file is finished.
LEMMA ExceptAdds ==
  ASSUME NEW f, IsFun(f), NEW n \in DOMAIN f, NEW v
  PROVE  Adds(f, [f EXCEPT ![n] = v], n, v)
BY DEF Adds, IsFun

-----------------------------------------------------------------------------
(* The inductive invariant.                                                *)

States == {"good", "damaged", "partial"}
Pcs == {"idle", "logs", "build", "archive_log", "copy", "finish", "rename",
        "manifests", "current"}

\* What TableBuilder leaves of a file: a finished table is not empty, and one
\* that was not finished yields nothing.
WellFormed(t) ==
  /\ Bounded(t.writes)
  /\ t.state = "good" => t.writes # {}
  /\ t.state = "partial" => t.writes = {}

\* The tables that are kept, with their largest sequence numbers
Listing == UNION {[S -> Nat] : S \in SUBSET Nat}

Repairer ==
  [pc : Pcs, status : {"none", "ok", "error"}, next : Nat, logs : SUBSET Nat,
   numbers : SUBSET Nat, manifests : SUBSET Nat,
   tables : Listing, at : Nat, copy : Nat, saved : SUBSET Nat]

\* A log is as it was found, for as long as it is there.
TypeOK ==
  /\ rp \in Repairer /\ Bounded({rp.tables[n] : n \in DOMAIN rp.tables})
  /\ DOMAIN log \subseteq DOMAIN Logs /\ \A n \in DOMAIN log : log[n] = Logs[n]
  /\ DOMAIN table \subseteq Nat /\ Bounded(DOMAIN table)
  /\ table \in [DOMAIN table -> [writes : SUBSET Nat, state : States]]
  /\ \A n \in DOMAIN table : WellFormed(table[n])
  /\ DOMAIN manifest \subseteq Nat
  /\ tmp \in BOOLEAN /\ replaced \in BOOLEAN /\ exposed \in BOOLEAN
  /\ faults \in Nat /\ crashes \in Nat

Active == rp.pc # "idle"
Copying == rp.pc \in {"copy", "finish", "rename"}
Partial(n) == n \in DOMAIN table /\ table[n].state = "partial"

\* No file has a number that the repair is still going to give out.
FreshInv == Active => \A n \in DOMAIN log \cup DOMAIN table : n < rp.next

\* What the repair has still to do is in the directory.
WorkInv ==
  Active =>
    /\ rp.logs \subseteq DOMAIN log /\ rp.numbers \subseteq DOMAIN table
    /\ rp.pc \in {"build", "archive_log"} => rp.at \in DOMAIN log \ rp.logs
    /\ rp.pc = "build" /\ log[rp.at] # {} => Partial(rp.copy)
    /\ rp.pc = "build" => rp.copy \notin rp.numbers \cup DOMAIN rp.tables
    /\ rp.pc \in {"manifests", "current"} => rp.logs = {} /\ rp.numbers = {}

\* The source and the copy of RepairTable: the source, or what is in lost/ of
\* it, holds what is saved, and so does the copy once it is finished.
CopyInv ==
  Copying =>
    /\ rp.logs = {} /\ rp.at < rp.copy /\ rp.copy \in DOMAIN table
    /\ {rp.at, rp.copy} \cap (rp.numbers \cup DOMAIN rp.tables) = {}
    /\ rp.pc = "copy" => rp.at \in DOMAIN table /\ table[rp.at].state # "good"
    /\ rp.pc \in {"copy", "finish"} => table[rp.copy].state = "partial"
    /\ rp.pc = "rename" => rp.saved # {} /\ table[rp.copy] = [writes |-> rp.saved, state |-> "good"]
    /\ rp.pc \in {"finish", "rename"} =>
         /\ Bounded(rp.saved)
         /\ IF rp.at \in DOMAIN table THEN table[rp.at].writes = rp.saved
            ELSE <<"table", rp.at>> \in DOMAIN lost /\ lost[<<"table", rp.at>>] = rp.saved

\* The tables that were kept are good, and no write is behind their sequence
\* numbers.
ListInv ==
  Active =>
    /\ DOMAIN rp.tables \cap rp.numbers = {}
    /\ \A n \in DOMAIN rp.tables :
         /\ n \in DOMAIN table /\ table[n].state = "good"
         /\ \A w \in table[n].writes : w <= rp.tables[n]

ManifestInv == rp.pc = "current" => 1 \in DOMAIN manifest /\ manifest[1] = Descriptor

\* The numbers of the tables that stay: a source that is away comes back, or its
\* copy stays.
Present ==
  (DOMAIN table \cup (IF rp.pc \in {"finish", "rename"} THEN {rp.at} ELSE {}))
    \ (IF Copying THEN {rp.copy} ELSE {})

\* While no file operation fails, a file that is in lost/ is not archived again:
\* a log is gone, and a table is good or its number is not given out again.
OnceInv ==
  faults = 0 =>
    /\ ~replaced
    /\ \A n \in DOMAIN log : <<"log", n>> \notin DOMAIN lost
    /\ \A n \in Nat : <<"table", n>> \in DOMAIN lost =>
         /\ n \in DOMAIN table => table[n].state = "good"
         /\ \E m \in Present : n <= m

GoneInv == ~replaced => NothingGone

\* The write can be read in the directory or is about to be written to the copy.
Stored(w) ==
  \/ \E n \in DOMAIN log : w \in log[n]
  \/ \E n \in DOMAIN table : w \in table[n].writes
  \/ rp.pc = "finish" /\ w \in rp.saved

AllStored == \A w \in salvageable : Stored(w)

\* Every log that is still there is going to be converted or archived.
LogsPending ==
  Active => \A n \in DOMAIN log :
    n \in rp.logs \/ (rp.pc \in {"build", "archive_log"} /\ n = rp.at)

\* A log that is going to be archived is in a table.
LogBuilt ==
  rp.pc = "archive_log" =>
    log[rp.at] = {} \/ (rp.copy \in DOMAIN table /\ table[rp.copy].writes = log[rp.at])

SourceAway == rp.pc \in {"finish", "rename"} => rp.at \notin DOMAIN table

\* Every table with a write is listed or going to be.
TablesPending ==
  Active => \A n \in DOMAIN table :
    \/ table[n].writes = {} \/ n \in rp.numbers \/ n \in DOMAIN rp.tables
    \/ rp.pc = "copy" /\ n = rp.at
    \/ rp.pc = "rename" /\ n = rp.copy

\* While no file operation fails and no repair was killed at the wrong moment,
\* nothing is missing from the directory, and nothing of it from the repair's list.
DataInv ==
  faults = 0 /\ ~exposed =>
    AllStored /\ LogsPending /\ LogBuilt /\ SourceAway /\ TablesPending

IInv == /\ TypeOK /\ FreshInv /\ WorkInv /\ CopyInv /\ ListInv /\ ManifestInv
        /\ OnceInv /\ GoneInv /\ DataInv /\ RepairedOpens /\ RepairKeepsData

-----------------------------------------------------------------------------
(* What the steps of a repair change.                                      *)

\* The Repairer afterwards, but for its status and the old descriptors.
RpIs(pc, next, logs, numbers, at, copy, saved) ==
  /\ rp'.pc = pc /\ rp'.next = next /\ rp'.logs = logs /\ rp'.numbers = numbers
  /\ rp'.at = at /\ rp'.copy = copy /\ rp'.saved = saved

Same == UNCHANGED <<salvageable, faults, exposed>>
Faulted == UNCHANGED <<salvageable, exposed>> /\ faults' # 0
archived == <<log, lost, replaced>>

NewTable == [writes |-> {}, state |-> "partial"]
Finished(w) == [writes |-> w, state |-> "good"]

FindEffect ==
  /\ rp.pc = "idle" /\ rp.status # "ok"
  /\ RpIs("logs", rp'.next, DOMAIN log, DOMAIN table, 0, 0, {})
  /\ DOMAIN rp'.tables = {}
  /\ \A n \in DOMAIN log \cup DOMAIN table : n < rp'.next
  /\ UNCHANGED <<archived, table>> /\ Same

ConvertEffect(n) ==
  /\ rp.pc = "logs" /\ n \in rp.logs
  /\ RpIs("build", rp.next + 1, rp.logs \ {n}, rp.numbers, n, rp.next, rp.saved)
  /\ log[n] = {} => table' = table
  /\ log[n] # {} => Adds(table, table', rp.next, NewTable)
  /\ rp'.tables = rp.tables /\ UNCHANGED archived /\ Same

OpenFailsEffect(n) ==
  /\ rp.pc = "logs" /\ n \in rp.logs
  /\ RpIs("archive_log", rp.next, rp.logs \ {n}, rp.numbers, n, rp.copy, rp.saved)
  /\ rp'.tables = rp.tables /\ UNCHANGED <<archived, table>> /\ Faulted

BuiltEffect ==
  /\ rp.pc = "build"
  /\ RpIs("archive_log", rp.next, rp.logs,
          IF log[rp.at] = {} THEN rp.numbers ELSE rp.numbers \cup {rp.copy},
          rp.at, rp.copy, rp.saved)
  /\ log[rp.at] = {} => table' = table
  /\ log[rp.at] # {} => Adds(table, table', rp.copy, Finished(log[rp.at]))
  /\ rp'.tables = rp.tables /\ UNCHANGED archived /\ Same

BuildFailsEffect ==
  /\ rp.pc = "build" /\ log[rp.at] # {}
  /\ RpIs("archive_log", rp.next, rp.logs, rp.numbers, rp.at, rp.copy, rp.saved)
  /\ Loses(table, table', rp.copy)
  /\ rp'.tables = rp.tables /\ UNCHANGED archived /\ Faulted

\* A file is archived, or that fails.
Archives(kind, n, w) ==
  /\ Adds(lost, lost', <<kind, n>>, w)
  /\ replaced' = (replaced \/ <<kind, n>> \in DOMAIN lost)

ArchiveLogEffect ==
  /\ rp.pc = "archive_log"
  /\ RpIs("logs", rp.next, rp.logs, rp.numbers, rp.at, rp.copy, rp.saved)
  /\ \/ Loses(log, log', rp.at) /\ Archives("log", rp.at, log[rp.at]) /\ Same
     \/ UNCHANGED archived /\ Faulted
  /\ rp'.tables = rp.tables /\ UNCHANGED table

KeepEffect(n) ==
  /\ rp.pc = "logs" /\ rp.logs = {} /\ n \in rp.numbers /\ table[n].state = "good"
  /\ RpIs("logs", rp.next, rp.logs, rp.numbers \ {n}, rp.at, rp.copy, rp.saved)
  /\ Adds(rp.tables, rp'.tables, n, Max(table[n].writes))
  /\ UNCHANGED <<archived, table>> /\ Same

CopyEffect(n) ==
  /\ rp.pc = "logs" /\ rp.logs = {} /\ n \in rp.numbers /\ table[n].state # "good"
  /\ RpIs("copy", rp.next + 1, rp.logs, rp.numbers \ {n}, n, rp.next, rp.saved)
  /\ Adds(table, table', rp.next, NewTable)
  /\ rp'.tables = rp.tables /\ UNCHANGED archived /\ Same

SizeFailsEffect(n) ==
  /\ rp.pc = "logs" /\ rp.logs = {} /\ n \in rp.numbers
  /\ RpIs("logs", rp.next, rp.logs, rp.numbers \ {n}, rp.at, rp.copy, rp.saved)
  /\ Loses(table, table', n) /\ Archives("table", n, table[n].writes)
  /\ rp'.tables = rp.tables /\ UNCHANGED log /\ Faulted

CopyFailsEffect(n) ==
  /\ rp.pc = "logs" /\ rp.logs = {} /\ n \in rp.numbers
  /\ RpIs("logs", rp.next + 1, rp.logs, rp.numbers \ {n}, rp.at, rp.copy, rp.saved)
  /\ rp'.tables = rp.tables /\ UNCHANGED <<archived, table>> /\ Faulted

ArchiveSourceEffect ==
  /\ rp.pc = "copy"
  /\ RpIs("finish", rp.next, rp.logs, rp.numbers, rp.at, rp.copy, table[rp.at].writes)
  /\ \/ /\ Loses(table, table', rp.at) /\ Archives("table", rp.at, table[rp.at].writes)
        /\ UNCHANGED log /\ Same
     \/ UNCHANGED <<archived, table>> /\ Faulted
  /\ rp'.tables = rp.tables

FinishEffect ==
  /\ rp.pc = "finish"
  /\ RpIs(IF rp.saved = {} THEN "logs" ELSE "rename", rp.next, rp.logs, rp.numbers,
          rp.at, rp.copy, rp.saved)
  /\ rp.saved = {} => table' = table
  /\ rp.saved # {} => Adds(table, table', rp.copy, Finished(rp.saved))
  /\ rp'.tables = rp.tables /\ UNCHANGED archived /\ Same

RenameEffect ==
  /\ rp.pc = "rename"
  /\ RpIs("logs", rp.next, rp.logs, rp.numbers, rp.at, rp.copy, rp.saved)
  /\ Adds(rp.tables, rp'.tables, rp.at, Max(rp.saved))
  /\ DOMAIN table' = (DOMAIN table \ {rp.copy}) \cup {rp.at}
  /\ table'[rp.at] = table[rp.copy] /\ IsFun(table')
  /\ \A x \in DOMAIN table \ {rp.copy, rp.at} : table'[x] = table[x]
  /\ UNCHANGED archived /\ Same

RepairFailsEffect ==
  /\ rp.pc \in {"finish", "rename"}
  /\ RpIs("logs", rp.next, rp.logs, rp.numbers, rp.at, rp.copy, rp.saved)
  /\ Loses(table, table', rp.copy)
  /\ rp'.tables = rp.tables /\ UNCHANGED archived /\ Faulted

\* The steps of WriteDescriptor up to the installation of the descriptor
DescriptorEffect ==
  /\ rp.pc \in {"logs", "manifests"} /\ rp'.pc \in {"manifests", "current"}
  /\ rp.pc = "logs" => rp.logs = {} /\ rp.numbers = {}
  /\ RpIs(rp'.pc, rp.next, rp.logs, rp.numbers, rp.at, rp.copy, rp.saved)
  /\ rp'.tables = rp.tables
  /\ rp'.pc = "current" => 1 \in DOMAIN manifest' /\ manifest'[1] = Descriptor
  /\ UNCHANGED <<archived, table>>
  /\ Same \/ Faulted

\* The repair returns or is killed.
EndEffect ==
  /\ Active /\ rp'.pc = "idle"
  /\ UNCHANGED <<archived, table, manifest, salvageable>>
  /\ \/ rp.pc = "current" /\ rp'.status = "ok" /\ current' = 1 /\ Same
     \/ rp'.status = "error" /\ Faulted
     \/ /\ rp'.status = "none" /\ faults' = faults
        /\ exposed' = (exposed \/ (rp.pc = "finish" /\ rp.at \notin DOMAIN table /\ rp.saved # {}))

\* A kept table more
LEMMA ListingAdd ==
  ASSUME NEW f \in Listing, NEW n \in Nat, NEW v \in Nat,
         Bounded({f[x] : x \in DOMAIN f})
  PROVE  LET g == Set(f, n, v)
         IN  g \in Listing /\ Bounded({g[x] : x \in DOMAIN g})
<1>. DEFINE g == Set(f, n, v)
<1>1. DOMAIN f \in SUBSET Nat /\ \A x \in DOMAIN f : f[x] \in Nat
  BY ZenonT(60) DEF Listing
<1>2. g \in [DOMAIN f \cup {n} -> Nat] /\ DOMAIN f \cup {n} \in SUBSET Nat
  BY <1>1 DEF Set
<1>3. g \in Listing
  BY Zenon, <1>2 DEF Listing
<1>4. {f[x] : x \in DOMAIN f} \in SUBSET Nat
  BY Zenon, <1>1
<1>5. {g[x] : x \in DOMAIN g} \subseteq {f[x] : x \in DOMAIN f} \cup {v}
  BY Zenon DEF Set
<1>6. Bounded({f[x] : x \in DOMAIN f} \cup {v})
  BY Zenon, <1>4, BoundedAdd
<1>7. Bounded({g[x] : x \in DOMAIN g})
  BY Zenon, <1>5, <1>6 DEF Bounded
<1>8. QED
  BY Zenon, <1>3, <1>7

\* The fields of the Repairer have their types.
LEMMA RepairerFields ==
  ASSUME TypeOK
  PROVE  /\ rp \in Repairer /\ rp.pc \in Pcs /\ rp.next \in Nat
         /\ rp.logs \in SUBSET Nat /\ rp.numbers \in SUBSET Nat
         /\ rp.tables \in Listing /\ DOMAIN rp.tables \in SUBSET Nat
         /\ rp.at \in Nat /\ rp.copy \in Nat /\ rp.saved \in SUBSET Nat
<1>1. rp \in Repairer
  BY Zenon DEF TypeOK
<1>2. /\ rp.pc \in Pcs /\ rp.next \in Nat
      /\ rp.logs \in SUBSET Nat /\ rp.numbers \in SUBSET Nat
      /\ rp.tables \in Listing
      /\ rp.at \in Nat /\ rp.copy \in Nat /\ rp.saved \in SUBSET Nat
  BY <1>1 DEF Repairer
<1>3. DOMAIN rp.tables \in SUBSET Nat
  BY ZenonT(60), <1>2 DEF Listing
<1>4. QED
  BY Zenon, <1>1, <1>2, <1>3

\* There are finitely many logs.
LEMMA LogsBounded ==
  ASSUME TypeOK
  PROVE  DOMAIN log \in SUBSET Nat /\ Bounded(DOMAIN log)
<1>1. DOMAIN Logs \in SUBSET Nat /\ IsFiniteSet(DOMAIN Logs)
  BY Zenon, RepairAssumption
<1>2. Bounded(DOMAIN Logs)
  BY Zenon, <1>1, FiniteIsBounded
<1>3. DOMAIN log \subseteq DOMAIN Logs
  BY Zenon DEF TypeOK
<1>4. QED
  BY Zenon, <1>1, <1>2, <1>3 DEF Bounded

\* A new Repairer
LEMMA IdleFields ==
  ASSUME NEW s \in {"none", "ok", "error"}
  PROVE  /\ Idle(s) \in Repairer /\ Idle(s).pc = "idle" /\ Idle(s).status = s
         /\ DOMAIN Idle(s).tables = {} /\ Idle(s).at = 0 /\ Idle(s).copy = 0
         /\ Idle(s).saved = {}
         /\ Bounded({Idle(s).tables[n] : n \in DOMAIN Idle(s).tables})
<1>1. Restrict([n \in {0} |-> 0], {}) \in [{} -> Nat]
  BY DEF Restrict
<1>2. Restrict([n \in {0} |-> 0], {}) \in Listing
  BY Zenon, <1>1 DEF Listing
<1>3. /\ Idle(s) \in Repairer /\ Idle(s).pc = "idle" /\ Idle(s).status = s
      /\ Idle(s).tables = Restrict([n \in {0} |-> 0], {}) /\ Idle(s).at = 0
      /\ Idle(s).copy = 0 /\ Idle(s).saved = {}
  BY <1>2 DEF Idle, Repairer, Pcs
<1>4. DOMAIN Idle(s).tables = {}
  BY <1>1, <1>3
<1>5. 0 \in Nat
  OBVIOUS
<1>6. QED
  BY Zenon, <1>3, <1>4, <1>5 DEF Bounded

\* What the type of the Repairer takes, and keeps in every step
RpType == rp \in Repairer /\ Bounded({rp.tables[n] : n \in DOMAIN rp.tables})

\* FindFiles looks for the largest number of a log or table.
LEMMA FindChanges ==
  ASSUME TypeOK, FindFiles
  PROVE  FindEffect /\ RpType'
<1>. DEFINE S == DOMAIN log \cup DOMAIN table \cup (IF tmp THEN {1} ELSE {})
<1>0. /\ DOMAIN table \in SUBSET Nat /\ Bounded(DOMAIN table) /\ tmp \in BOOLEAN
      /\ rp \in Repairer /\ DOMAIN manifest \in SUBSET Nat
  BY Zenon DEF TypeOK
<1>1. DOMAIN log \in SUBSET Nat /\ Bounded(DOMAIN log)
  BY Zenon, LogsBounded
<1>2. S \in SUBSET Nat
  BY <1>0, <1>1
<1>3. Bounded(S)
  <2>1. PICK j \in Nat : \A x \in DOMAIN log : x <= j
    BY Zenon, <1>1 DEF Bounded
  <2>2. PICK k \in Nat : \A x \in DOMAIN table : x <= k
    BY Zenon, <1>0 DEF Bounded
  <2>3. ASSUME NEW x \in S PROVE x <= j + k + 1
    BY <1>0, <1>1, <2>1, <2>2
  <2>4. QED
    BY <2>3 DEF Bounded
<1>4. Largest(S) \in Nat /\ \A x \in S : x <= Largest(S)
  BY Zenon, <1>2, <1>3, LargestOf
<1>5. rp.pc = "idle" /\ rp.status # "ok" /\ rp.status \in {"none", "error"}
  BY <1>0 DEF FindFiles, Repairer
<1>6. /\ rp' = [Idle(rp.status) EXCEPT !.pc = "logs", !.logs = DOMAIN log,
                  !.numbers = DOMAIN table, !.manifests = DOMAIN manifest,
                  !.next = 1 + Largest(S)]
      /\ UNCHANGED disk /\ Unchanged
  BY Zenon DEF FindFiles
<1>. HIDE DEF S
<1>7. /\ Idle(rp.status) \in Repairer /\ DOMAIN Idle(rp.status).tables = {}
      /\ Idle(rp.status).at = 0 /\ Idle(rp.status).copy = 0 /\ Idle(rp.status).saved = {}
      /\ Bounded({Idle(rp.status).tables[n] : n \in DOMAIN Idle(rp.status).tables})
  BY Zenon, <1>5, IdleFields
<1>8. /\ rp' \in Repairer
      /\ RpIs("logs", 1 + Largest(S), DOMAIN log, DOMAIN table, 0, 0, {})
      /\ rp'.tables = Idle(rp.status).tables
  <2>. DEFINE base == Idle(rp.status)
              next == 1 + Largest(S)
  <2>1. /\ base \in Repairer /\ base.at = 0 /\ base.copy = 0 /\ base.saved = {}
        /\ next \in Nat
    BY <1>4, <1>7
  <2>2. rp' = [base EXCEPT !.pc = "logs", !.logs = DOMAIN log,
                 !.numbers = DOMAIN table, !.manifests = DOMAIN manifest,
                 !.next = next]
    BY Zenon, <1>6
  <2>. HIDE DEF base, next
  <2>3. /\ rp' \in Repairer /\ rp'.tables = base.tables
        /\ RpIs("logs", next, DOMAIN log, DOMAIN table, 0, 0, {})
    BY ZenonT(60), <1>0, <1>1, <2>1, <2>2 DEF Repairer, Pcs, RpIs
  <2>4. QED
    BY Zenon, <2>3 DEF base, next
<1>9. ASSUME NEW n \in DOMAIN log \cup DOMAIN table PROVE n < 1 + Largest(S)
  <2>1. n \in S /\ n \in Nat
    BY <1>0, <1>1 DEF S
  <2>2. QED
    BY <1>4, <2>1
<1>10. rp'.next = 1 + Largest(S)
  BY Zenon, <1>8 DEF RpIs
<1>11. UNCHANGED <<archived, table>> /\ Same
  BY Zenon, <1>6 DEF disk, archive, archived, Unchanged, Same
<1>12. QED
  BY Zenon, <1>5, <1>7, <1>8, <1>9, <1>10, <1>11 DEF FindEffect, RpType

\* Most steps keep what was listed.
LEMMA ListingKept ==
  ASSUME TypeOK, rp' \in Repairer, rp'.tables = rp.tables
  PROVE  RpType'
BY Zenon DEF TypeOK, RpType

\* A failing file operation is counted.
LEMMA FaultCounts ==
  ASSUME TypeOK, Fault
  PROVE  Faulted
<1>1. faults \in Nat /\ faults' = faults + 1 /\ UNCHANGED <<salvageable, exposed>>
  BY Zenon DEF TypeOK, Fault
<1>2. faults' # 0
  BY <1>1
<1>3. QED
  BY Zenon, <1>1, <1>2 DEF Faulted

\* ConvertLogToTable takes the next number for the table.
LEMMA ConvertChanges ==
  ASSUME TypeOK, ConvertLogToTable
  PROVE  (\E n \in rp.logs : ConvertEffect(n)) /\ RpType'
<1>1. PICK n \in rp.logs :
        /\ rp' = [rp EXCEPT !.pc = "build", !.at = n, !.logs = @ \ {n},
                            !.copy = rp.next, !.next = @ + 1]
        /\ table' = IF log[n] = {} THEN table ELSE Set(table, rp.next, NewTable)
  BY Zenon DEF ConvertLogToTable, NewTable
<1>2. /\ rp' \in Repairer /\ rp'.tables = rp.tables
      /\ RpIs("build", rp.next + 1, rp.logs \ {n}, rp.numbers, n, rp.next, rp.saved)
  <2>. DEFINE next == rp.next + 1
  <2>1. next \in Nat /\ n \in Nat
    BY RepairerFields
  <2>2. rp' = [rp EXCEPT !.pc = "build", !.at = n, !.logs = @ \ {n},
                         !.copy = rp.next, !.next = next]
    BY Zenon, <1>1
  <2>. HIDE DEF next
  <2>3. /\ rp' \in Repairer /\ rp'.tables = rp.tables
        /\ RpIs("build", next, rp.logs \ {n}, rp.numbers, n, rp.next, rp.saved)
    BY ZenonT(60), <2>1, <2>2, RepairerFields DEF Repairer, Pcs, RpIs
  <2>4. QED
    BY Zenon, <2>3 DEF next
<1>3. rp.pc = "logs" /\ UNCHANGED archived /\ Same
  BY Zenon DEF ConvertLogToTable, archive, archived, Unchanged, Same
<1>4. QED
  BY Zenon, <1>1, <1>2, <1>3, SetAdds, ListingKept DEF ConvertEffect

\* A log that cannot be opened is going to be archived.
LEMMA OpenFailsChanges ==
  ASSUME TypeOK, OpenLogFails
  PROVE  (\E n \in rp.logs : OpenFailsEffect(n)) /\ RpType'
<1>1. PICK n \in rp.logs :
        rp' = [rp EXCEPT !.pc = "archive_log", !.at = n, !.logs = @ \ {n}]
  BY Zenon DEF OpenLogFails
<1>2. /\ rp' \in Repairer /\ rp'.tables = rp.tables
      /\ RpIs("archive_log", rp.next, rp.logs \ {n}, rp.numbers, n, rp.copy, rp.saved)
  BY ZenonT(60), <1>1, RepairerFields DEF Repairer, Pcs, RpIs
<1>3. rp.pc = "logs" /\ UNCHANGED <<archived, table>> /\ Faulted
  BY Zenon, FaultCounts DEF OpenLogFails, disk, archive, archived
<1>4. QED
  BY Zenon, <1>1, <1>2, <1>3, ListingKept DEF OpenFailsEffect

\* BuildTable finishes the table of a log that has entries.
LEMMA BuiltChanges ==
  ASSUME TypeOK, WorkInv, TableBuilt
  PROVE  BuiltEffect /\ RpType'
<1>1. /\ rp' = [rp EXCEPT !.pc = "archive_log",
                  !.numbers = IF log[rp.at] = {} THEN @ ELSE @ \cup {rp.copy}]
      /\ table' = IF log[rp.at] = {} THEN table
                  ELSE [table EXCEPT ![rp.copy] = Finished(log[rp.at])]
      /\ rp.pc = "build"
  BY Zenon DEF TableBuilt, Finished
<1>2. /\ rp' \in Repairer /\ rp'.tables = rp.tables
      /\ RpIs("archive_log", rp.next, rp.logs,
              IF log[rp.at] = {} THEN rp.numbers ELSE rp.numbers \cup {rp.copy},
              rp.at, rp.copy, rp.saved)
  BY ZenonT(60), <1>1, RepairerFields DEF Repairer, Pcs, RpIs
<1>3. UNCHANGED archived /\ Same
  BY Zenon DEF TableBuilt, archive, archived, Unchanged, Same
<1>4. ASSUME log[rp.at] # {}
      PROVE  Adds(table, table', rp.copy, Finished(log[rp.at]))
  <2>1. rp.copy \in DOMAIN table
    BY SMTT(30), <1>1, <1>4 DEF WorkInv, Active, Partial
  <2>2. IsFun(table)
    BY Zenon DEF TypeOK, IsFun
  <2>3. QED
    BY Zenon, <1>1, <1>4, <2>1, <2>2, ExceptAdds
<1>5. QED
  BY Zenon, <1>1, <1>2, <1>3, <1>4, ListingKept DEF BuiltEffect

\* BuildTable removes the file that it could not finish.
LEMMA BuildFailsChanges ==
  ASSUME TypeOK, BuildFails
  PROVE  BuildFailsEffect /\ RpType'
<1>1. /\ rp' = [rp EXCEPT !.pc = "archive_log"] /\ table' = Without(table, rp.copy)
      /\ rp.pc = "build" /\ log[rp.at] # {}
  BY Zenon DEF BuildFails
<1>2. /\ rp' \in Repairer /\ rp'.tables = rp.tables
      /\ RpIs("archive_log", rp.next, rp.logs, rp.numbers, rp.at, rp.copy, rp.saved)
  BY <1>1, RepairerFields DEF Repairer, Pcs, RpIs
<1>3. UNCHANGED archived /\ Faulted
  BY Zenon, FaultCounts DEF BuildFails, archive, archived
<1>4. QED
  BY Zenon, <1>1, <1>2, <1>3, WithoutLoses, ListingKept DEF BuildFailsEffect

\* The log goes to lost/, or stays when that fails.
LEMMA ArchiveLogChanges ==
  ASSUME TypeOK, ArchiveLog
  PROVE  ArchiveLogEffect /\ RpType'
<1>1. /\ rp' = [rp EXCEPT !.pc = "logs"] /\ rp.pc = "archive_log" /\ UNCHANGED table
      /\ \/ log' = Without(log, rp.at) /\ Archive("log", rp.at, log[rp.at]) /\ Unchanged
         \/ Fault /\ UNCHANGED <<log, archive>>
  BY Zenon DEF ArchiveLog
<1>2. /\ rp' \in Repairer /\ rp'.tables = rp.tables
      /\ RpIs("logs", rp.next, rp.logs, rp.numbers, rp.at, rp.copy, rp.saved)
  BY <1>1, RepairerFields DEF Repairer, Pcs, RpIs
<1>3. CASE log' = Without(log, rp.at) /\ Archive("log", rp.at, log[rp.at]) /\ Unchanged
  <2>1. Loses(log, log', rp.at) /\ Archives("log", rp.at, log[rp.at]) /\ Same
    BY Zenon, <1>3, WithoutLoses, SetAdds DEF Archive, Archives, Unchanged, Same
  <2>2. QED
    BY Zenon, <1>1, <1>2, <2>1, ListingKept DEF ArchiveLogEffect
<1>4. CASE Fault /\ UNCHANGED <<log, archive>>
  <2>1. UNCHANGED archived /\ Faulted
    BY Zenon, <1>4, FaultCounts DEF archive, archived
  <2>2. QED
    BY Zenon, <1>1, <1>2, <2>1, ListingKept DEF ArchiveLogEffect
<1>5. QED
  BY Zenon, <1>1, <1>3, <1>4

\* ScanTable keeps a good table and begins the copy of any other.
LEMMA ScanChanges ==
  ASSUME TypeOK, WorkInv, ScanTable
  PROVE  (\E n \in rp.numbers : KeepEffect(n) \/ CopyEffect(n)) /\ RpType'
<1>1. PICK n \in rp.numbers :
        IF table[n].state = "good"
        THEN /\ rp' = [rp EXCEPT !.numbers = @ \ {n},
                                 !.tables = Set(@, n, Max(table[n].writes))]
             /\ UNCHANGED table
        ELSE /\ rp' = [rp EXCEPT !.numbers = @ \ {n}, !.pc = "copy", !.at = n,
                                 !.copy = rp.next, !.next = @ + 1]
             /\ table' = Set(table, rp.next, NewTable)
  BY Zenon DEF ScanTable, NewTable
<1>2. rp.pc = "logs" /\ rp.logs = {} /\ UNCHANGED archived /\ Same
  BY Zenon DEF ScanTable, archive, archived, Unchanged, Same
<1>3. CASE table[n].state = "good"
  <2>1. n \in Nat /\ n \in DOMAIN table
    BY <1>2, RepairerFields DEF WorkInv, Active
  <2>2. table[n].writes \in SUBSET Nat /\ WellFormed(table[n])
    <3>1. table \in [DOMAIN table -> [writes : SUBSET Nat, state : States]]
      BY Zenon DEF TypeOK
    <3>2. table[n] \in [writes : SUBSET Nat, state : States]
      BY Zenon, <2>1, <3>1
    <3>3. table[n].writes \in SUBSET Nat
      BY <3>2
    <3>4. QED
      BY Zenon, <2>1, <3>3 DEF TypeOK
  <2>3. Max(table[n].writes) \in Nat
    <3>1. table[n].writes # {} /\ Bounded(table[n].writes)
      BY Zenon, <1>3, <2>2 DEF WellFormed
    <3>2. QED
      BY Zenon, <2>2, <3>1, MaxOf
  <2>. DEFINE v == Max(table[n].writes)
              g == Set(rp.tables, n, v)
  <2>4. g \in Listing /\ Bounded({g[x] : x \in DOMAIN g})
    <3>1. rp.tables \in Listing /\ Bounded({rp.tables[x] : x \in DOMAIN rp.tables})
      BY Zenon, RepairerFields DEF TypeOK
    <3>2. QED
      BY Zenon, <2>1, <2>3, <3>1, ListingAdd
  <2>5. rp' = [rp EXCEPT !.numbers = @ \ {n}, !.tables = g] /\ UNCHANGED table
    BY Zenon, <1>1, <1>3
  <2>6. Adds(rp.tables, g, n, v)
    BY Zenon, SetAdds
  <2>7. g \in Listing
    BY Zenon, <2>4
  <2>. HIDE DEF g, v
  <2>8. /\ rp' \in Repairer /\ rp'.tables = g
        /\ RpIs("logs", rp.next, rp.logs, rp.numbers \ {n}, rp.at, rp.copy, rp.saved)
    BY ZenonT(60), <1>2, <2>5, <2>7, RepairerFields DEF Repairer, Pcs, RpIs
  <2>9. RpType'
    BY Zenon, <2>4, <2>8 DEF RpType
  <2>10. KeepEffect(n)
    BY Zenon, <1>2, <1>3, <2>5, <2>6, <2>8 DEF KeepEffect, v
  <2>11. QED
    BY Zenon, <2>9, <2>10
<1>4. CASE table[n].state # "good"
  <2>1. /\ rp' = [rp EXCEPT !.numbers = @ \ {n}, !.pc = "copy", !.at = n,
                            !.copy = rp.next, !.next = @ + 1]
        /\ table' = Set(table, rp.next, NewTable)
    BY Zenon, <1>1, <1>4
  <2>2. /\ rp' \in Repairer /\ rp'.tables = rp.tables
        /\ RpIs("copy", rp.next + 1, rp.logs, rp.numbers \ {n}, n, rp.next, rp.saved)
    <3>. DEFINE next == rp.next + 1
    <3>1. next \in Nat /\ n \in Nat
      BY RepairerFields
    <3>2. rp' = [rp EXCEPT !.numbers = @ \ {n}, !.pc = "copy", !.at = n,
                           !.copy = rp.next, !.next = next]
      BY Zenon, <2>1
    <3>. HIDE DEF next
    <3>3. /\ rp' \in Repairer /\ rp'.tables = rp.tables
          /\ RpIs("copy", next, rp.logs, rp.numbers \ {n}, n, rp.next, rp.saved)
      BY ZenonT(60), <3>1, <3>2, RepairerFields DEF Repairer, Pcs, RpIs
    <3>4. QED
      BY Zenon, <3>3 DEF next
  <2>3. QED
    BY Zenon, <1>2, <1>4, <2>1, <2>2, SetAdds, ListingKept DEF CopyEffect
<1>5. QED
  BY Zenon, <1>3, <1>4

\* A table whose size cannot be read is archived.
LEMMA SizeFailsChanges ==
  ASSUME TypeOK, SizeFails
  PROVE  (\E n \in rp.numbers : SizeFailsEffect(n)) /\ RpType'
<1>1. PICK n \in rp.numbers :
        /\ rp' = [rp EXCEPT !.numbers = @ \ {n}] /\ table' = Without(table, n)
        /\ Archive("table", n, table[n].writes)
  BY Zenon DEF SizeFails
<1>2. rp.pc = "logs" /\ rp.logs = {} /\ UNCHANGED log /\ Faulted
  BY Zenon, FaultCounts DEF SizeFails
<1>3. /\ rp' \in Repairer /\ rp'.tables = rp.tables
      /\ RpIs("logs", rp.next, rp.logs, rp.numbers \ {n}, rp.at, rp.copy, rp.saved)
  BY SMTT(30), <1>1, <1>2, RepairerFields DEF Repairer, Pcs, RpIs
<1>4. Loses(table, table', n) /\ Archives("table", n, table[n].writes)
  BY Zenon, <1>1, WithoutLoses, SetAdds DEF Archive, Archives
<1>5. QED
  BY Zenon, <1>2, <1>3, <1>4, ListingKept DEF SizeFailsEffect

\* A table whose copy cannot be created is passed over.
LEMMA CopyFailsChanges ==
  ASSUME TypeOK, CopyFails
  PROVE  (\E n \in rp.numbers : CopyFailsEffect(n)) /\ RpType'
<1>1. PICK n \in rp.numbers : rp' = [rp EXCEPT !.numbers = @ \ {n}, !.next = @ + 1]
  BY Zenon DEF CopyFails
<1>2. rp.pc = "logs" /\ rp.logs = {} /\ UNCHANGED <<archived, table>> /\ Faulted
  BY Zenon, FaultCounts DEF CopyFails, disk, archive, archived
<1>3. /\ rp' \in Repairer /\ rp'.tables = rp.tables
      /\ RpIs("logs", rp.next + 1, rp.logs, rp.numbers \ {n}, rp.at, rp.copy, rp.saved)
  <2>. DEFINE next == rp.next + 1
  <2>1. next \in Nat
    BY RepairerFields
  <2>2. rp' = [rp EXCEPT !.numbers = @ \ {n}, !.next = next]
    BY Zenon, <1>1
  <2>. HIDE DEF next
  <2>3. /\ rp' \in Repairer /\ rp'.tables = rp.tables
        /\ RpIs("logs", next, rp.logs, rp.numbers \ {n}, rp.at, rp.copy, rp.saved)
    BY ZenonT(60), <1>2, <2>1, <2>2, RepairerFields DEF Repairer, Pcs, RpIs
  <2>4. QED
    BY Zenon, <2>3 DEF next
<1>4. QED
  BY Zenon, <1>2, <1>3, ListingKept DEF CopyFailsEffect

\* The writes of a table are numbers.
LEMMA TableFields ==
  ASSUME TypeOK, NEW n \in DOMAIN table
  PROVE  /\ n \in Nat /\ table[n] \in [writes : SUBSET Nat, state : States]
         /\ table[n].writes \in SUBSET Nat /\ table[n].state \in States
         /\ WellFormed(table[n])
<1>1. /\ table \in [DOMAIN table -> [writes : SUBSET Nat, state : States]]
      /\ n \in Nat /\ WellFormed(table[n])
  BY Zenon DEF TypeOK
<1>2. table[n] \in [writes : SUBSET Nat, state : States]
  BY Zenon, <1>1
<1>3. table[n].writes \in SUBSET Nat /\ table[n].state \in States
  BY SMTT(30), <1>2
<1>4. QED
  BY Zenon, <1>1, <1>2, <1>3

\* RepairTable archives the source, or goes on without.
LEMMA ArchiveSourceChanges ==
  ASSUME TypeOK, CopyInv, ArchiveSource
  PROVE  ArchiveSourceEffect /\ RpType'
<1>1. /\ rp' = [rp EXCEPT !.pc = "finish", !.saved = table[rp.at].writes]
      /\ rp.pc = "copy" /\ UNCHANGED log
      /\ \/ /\ table' = Without(table, rp.at)
            /\ Archive("table", rp.at, table[rp.at].writes) /\ Unchanged
         \/ Fault /\ UNCHANGED <<table, archive>>
  BY Zenon DEF ArchiveSource
<1>2. rp.at \in DOMAIN table
  BY SMTT(30), <1>1 DEF CopyInv, Copying
<1>3. table[rp.at].writes \in SUBSET Nat
  BY Zenon, <1>2, TableFields
<1>4. /\ rp' \in Repairer /\ rp'.tables = rp.tables
      /\ RpIs("finish", rp.next, rp.logs, rp.numbers, rp.at, rp.copy, table[rp.at].writes)
  BY ZenonT(60), <1>1, <1>3, RepairerFields DEF Repairer, Pcs, RpIs
<1>5. CASE /\ table' = Without(table, rp.at)
           /\ Archive("table", rp.at, table[rp.at].writes) /\ Unchanged
  <2>1. /\ Loses(table, table', rp.at) /\ Archives("table", rp.at, table[rp.at].writes)
        /\ Same
    BY Zenon, <1>5, WithoutLoses, SetAdds DEF Archive, Archives, Unchanged, Same
  <2>2. QED
    BY Zenon, <1>1, <1>4, <2>1, ListingKept DEF ArchiveSourceEffect
<1>6. CASE Fault /\ UNCHANGED <<table, archive>>
  <2>1. UNCHANGED <<archived, table>> /\ Faulted
    BY Zenon, <1>1, <1>6, FaultCounts DEF archive, archived
  <2>2. QED
    BY Zenon, <1>1, <1>4, <2>1, ListingKept DEF ArchiveSourceEffect
<1>7. QED
  BY Zenon, <1>1, <1>5, <1>6

\* Finish completes the copy, if there is anything to save.
LEMMA FinishChanges ==
  ASSUME TypeOK, CopyInv, FinishCopy
  PROVE  FinishEffect /\ RpType'
<1>1. /\ rp' = [rp EXCEPT !.pc = IF rp.saved = {} THEN "logs" ELSE "rename"]
      /\ table' = IF rp.saved = {} THEN table
                  ELSE [table EXCEPT ![rp.copy] = Finished(rp.saved)]
      /\ rp.pc = "finish" /\ UNCHANGED archived /\ Same
  BY Zenon DEF FinishCopy, Finished, archive, archived, Unchanged, Same
<1>2. /\ rp' \in Repairer /\ rp'.tables = rp.tables
      /\ RpIs(IF rp.saved = {} THEN "logs" ELSE "rename", rp.next, rp.logs, rp.numbers,
              rp.at, rp.copy, rp.saved)
  BY SMTT(30), <1>1, RepairerFields DEF Repairer, Pcs, RpIs
<1>3. ASSUME rp.saved # {} PROVE Adds(table, table', rp.copy, Finished(rp.saved))
  <2>1. rp.copy \in DOMAIN table
    BY SMTT(30), <1>1 DEF CopyInv, Copying
  <2>2. IsFun(table)
    BY Zenon DEF TypeOK, IsFun
  <2>3. QED
    BY Zenon, <1>1, <1>3, <2>1, <2>2, ExceptAdds
<1>4. QED
  BY Zenon, <1>1, <1>2, <1>3, ListingKept DEF FinishEffect

\* The copy takes the place of the source and is kept.
LEMMA RenameChanges ==
  ASSUME TypeOK, CopyInv, RenameCopy
  PROVE  RenameEffect /\ RpType'
<1>. DEFINE v == Max(rp.saved)
            g == Set(rp.tables, rp.at, v)
            h == Without(table, rp.copy)
<1>1. /\ rp' = [rp EXCEPT !.pc = "logs", !.tables = g]
      /\ table' = Set(h, rp.at, table[rp.copy])
      /\ rp.pc = "rename" /\ UNCHANGED archived /\ Same
  BY Zenon DEF RenameCopy, archive, archived, Unchanged, Same
<1>2. v \in Nat
  <2>1. rp.saved # {} /\ Bounded(rp.saved) /\ rp.saved \in SUBSET Nat
    BY SMTT(30), <1>1, RepairerFields DEF CopyInv, Copying
  <2>2. QED
    BY Zenon, <2>1, MaxOf
<1>3. g \in Listing /\ Bounded({g[x] : x \in DOMAIN g})
  <2>1. /\ rp.tables \in Listing /\ Bounded({rp.tables[x] : x \in DOMAIN rp.tables})
        /\ rp.at \in Nat
    BY ZenonT(60), RepairerFields DEF TypeOK
  <2>2. QED
    BY Zenon, <1>2, <2>1, ListingAdd
<1>4. Adds(rp.tables, g, rp.at, v)
  BY Zenon, SetAdds
<1>5. Loses(table, h, rp.copy) /\ Adds(h, table', rp.at, table[rp.copy])
  BY Zenon, <1>1, SetAdds, WithoutLoses
<1>. HIDE DEF g, h, v
<1>6. /\ DOMAIN table' = (DOMAIN table \ {rp.copy}) \cup {rp.at}
      /\ table'[rp.at] = table[rp.copy] /\ IsFun(table')
      /\ \A x \in DOMAIN table \ {rp.copy, rp.at} : table'[x] = table[x]
  BY Zenon, <1>5 DEF Adds, Loses
<1>7. g \in Listing
  BY Zenon, <1>3
<1>8. /\ rp' \in Repairer /\ rp'.tables = g
      /\ RpIs("logs", rp.next, rp.logs, rp.numbers, rp.at, rp.copy, rp.saved)
  BY ZenonT(60), <1>1, <1>7, RepairerFields DEF Repairer, Pcs, RpIs
<1>9. RpType'
  BY Zenon, <1>3, <1>8 DEF RpType
<1>10. QED
  BY Zenon, <1>1, <1>4, <1>6, <1>8, <1>9 DEF RenameEffect, v

\* A copy that cannot be finished or renamed is removed.
LEMMA RepairFailsChanges ==
  ASSUME TypeOK, RepairTableFails
  PROVE  RepairFailsEffect /\ RpType'
<1>1. /\ rp' = [rp EXCEPT !.pc = "logs"] /\ table' = Without(table, rp.copy)
      /\ rp.pc \in {"finish", "rename"} /\ UNCHANGED archived
  BY Zenon DEF RepairTableFails, archive, archived
<1>2. /\ rp' \in Repairer /\ rp'.tables = rp.tables
      /\ RpIs("logs", rp.next, rp.logs, rp.numbers, rp.at, rp.copy, rp.saved)
  BY <1>1, RepairerFields DEF Repairer, Pcs, RpIs
<1>3. Faulted
  BY Zenon, FaultCounts DEF RepairTableFails
<1>4. QED
  BY Zenon, <1>1, <1>2, <1>3, WithoutLoses, ListingKept DEF RepairFailsEffect

\* The old descriptors are archived and the new one is installed.
LEMMA DescriptorChanges ==
  ASSUME TypeOK, WriteTemp \/ ArchiveManifest \/ InstallManifest
  PROVE  DescriptorEffect /\ RpType'
<1>1. CASE WriteTemp
  <2>1. /\ rp' = [rp EXCEPT !.pc = "manifests"] /\ rp.pc = "logs" /\ rp.logs = {}
        /\ rp.numbers = {} /\ UNCHANGED <<archived, table>> /\ Same
    BY Zenon, <1>1 DEF WriteTemp, archive, archived, Unchanged, Same
  <2>2. /\ rp' \in Repairer /\ rp'.tables = rp.tables
        /\ RpIs("manifests", rp.next, rp.logs, rp.numbers, rp.at, rp.copy, rp.saved)
    BY SMTT(30), <2>1, RepairerFields DEF Repairer, Pcs, RpIs
  <2>3. QED
    BY <2>1, <2>2, ListingKept DEF DescriptorEffect, RpIs
<1>2. CASE ArchiveManifest
  <2>1. PICK n \in rp.manifests :
          /\ rp' = [rp EXCEPT !.manifests = @ \ {n}]
          /\ Unchanged \/ Fault
    BY Zenon, <1>2 DEF ArchiveManifest
  <2>2. rp.pc = "manifests" /\ UNCHANGED <<archived, table>>
    BY Zenon, <1>2 DEF ArchiveManifest, archive, archived
  <2>3. Same \/ Faulted
    BY Zenon, <2>1, FaultCounts DEF Unchanged, Same
  <2>4. /\ rp' \in Repairer /\ rp'.tables = rp.tables
        /\ RpIs("manifests", rp.next, rp.logs, rp.numbers, rp.at, rp.copy, rp.saved)
    BY SMTT(30), <2>1, <2>2, RepairerFields DEF Repairer, Pcs, RpIs
  <2>5. QED
    BY SMTT(30), <2>2, <2>3, <2>4, ListingKept DEF DescriptorEffect, RpIs
<1>3. CASE InstallManifest
  <2>1. /\ rp' = [rp EXCEPT !.pc = "current"] /\ rp.pc = "manifests"
        /\ manifest' = Set(manifest, 1, Descriptor)
        /\ UNCHANGED <<archived, table>> /\ Same
    BY Zenon, <1>3 DEF InstallManifest, archive, archived, Unchanged, Same
  <2>2. /\ rp' \in Repairer /\ rp'.tables = rp.tables
        /\ RpIs("current", rp.next, rp.logs, rp.numbers, rp.at, rp.copy, rp.saved)
    BY SMTT(30), <2>1, RepairerFields DEF Repairer, Pcs, RpIs
  <2>3. 1 \in DOMAIN manifest' /\ manifest'[1] = Descriptor
    <3>1. Adds(manifest, manifest', 1, Descriptor)
      BY Zenon, <2>1, SetAdds
    <3>2. QED
      BY Zenon, <3>1 DEF Adds
  <2>4. QED
    BY SMTT(30), <2>1, <2>2, <2>3, ListingKept DEF DescriptorEffect, RpIs
<1>4. QED
  BY Zenon, <1>1, <1>2, <1>3

\* The Repairer goes when RepairDB returns and when the process is killed.
LEMMA EndChanges ==
  ASSUME TypeOK, SetCurrent \/ DescriptorFails \/ Crash
  PROVE  EndEffect /\ RpType'
<1>1. \A s \in {"none", "ok", "error"} : rp' = Idle(s) =>
        RpType' /\ rp'.pc = "idle" /\ rp'.status = s
  BY ZenonT(60), IdleFields DEF RpType
<1>2. CASE SetCurrent
  <2>1. /\ rp.pc = "current" /\ current' = 1 /\ rp' = Idle("ok")
        /\ UNCHANGED <<archived, table, manifest, salvageable>> /\ Same
    BY ZenonT(60), <1>2 DEF SetCurrent, archive, archived, Unchanged, Same
  <2>2. QED
    BY SMTT(30), <1>1, <2>1 DEF EndEffect, Active
<1>3. CASE DescriptorFails
  <2>1. /\ rp.pc \in {"logs", "manifests", "current"} /\ rp' = Idle("error")
        /\ UNCHANGED <<archived, table, manifest>> /\ Fault
    BY ZenonT(60), <1>3 DEF DescriptorFails, archive, archived
  <2>2. Faulted /\ UNCHANGED salvageable
    BY ZenonT(60), <2>1, FaultCounts DEF Faulted
  <2>3. QED
    BY SMTT(30), <1>1, <2>1, <2>2 DEF EndEffect, Active
<1>4. CASE Crash
  <2>1. /\ rp.pc # "idle" /\ rp' = Idle("none") /\ faults' = faults
        /\ exposed' = (exposed \/ (rp.pc = "finish" /\ rp.at \notin DOMAIN table /\ rp.saved # {}))
        /\ UNCHANGED <<archived, table, manifest, salvageable>>
    BY ZenonT(60), <1>4 DEF Crash, archive, archived
  <2>2. QED
    BY Zenon, <1>1, <2>1 DEF EndEffect, Active
<1>5. QED
  BY Zenon, <1>2, <1>3, <1>4

\* Every step of a repair has one of these effects.
Step ==
  \/ FindEffect
  \/ \E n \in rp.logs : ConvertEffect(n) \/ OpenFailsEffect(n)
  \/ BuiltEffect \/ BuildFailsEffect \/ ArchiveLogEffect
  \/ \E n \in rp.numbers :
       KeepEffect(n) \/ CopyEffect(n) \/ SizeFailsEffect(n) \/ CopyFailsEffect(n)
  \/ ArchiveSourceEffect \/ FinishEffect \/ RenameEffect \/ RepairFailsEffect
  \/ DescriptorEffect \/ EndEffect
  \/ UNCHANGED vars

\* The steps of RepairDB, their failures and the kill are the cases of Step.
LEMMA StepCases ==
  ASSUME TypeOK, WorkInv, CopyInv, [Next]_vars
  PROVE  Step /\ RpType'
<1>1. CASE UNCHANGED vars
  BY ZenonT(60), <1>1 DEF Step, TypeOK, RpType, vars
<1>2. CASE FindFiles \/ ConvertLogToTable \/ OpenLogFails
  BY ZenonT(60), <1>2, FindChanges, ConvertChanges, OpenFailsChanges DEF Step
<1>3. CASE TableBuilt \/ BuildFails \/ ArchiveLog
  BY ZenonT(60), <1>3, BuiltChanges, BuildFailsChanges, ArchiveLogChanges DEF Step
<1>4. CASE ScanTable \/ SizeFails \/ CopyFails
  BY ZenonT(60), <1>4, ScanChanges, SizeFailsChanges, CopyFailsChanges DEF Step
<1>5. CASE ArchiveSource \/ FinishCopy \/ RenameCopy \/ RepairTableFails
  BY ZenonT(60), <1>5, ArchiveSourceChanges, FinishChanges, RenameChanges,
     RepairFailsChanges DEF Step
<1>6. CASE WriteTemp \/ ArchiveManifest \/ InstallManifest
  BY ZenonT(60), <1>6, DescriptorChanges DEF Step
<1>7. CASE SetCurrent \/ DescriptorFails \/ Crash
  BY ZenonT(60), <1>7, EndChanges DEF Step
<1>8. QED
  BY ZenonT(60), <1>1, <1>2, <1>3, <1>4, <1>5, <1>6, <1>7 DEF Next

-----------------------------------------------------------------------------
(* Types.                                                                  *)

\* The counters, the temporary file and the names of descriptors
LEMMA OtherTypes ==
  ASSUME TypeOK, [Next]_vars
  PROVE  /\ DOMAIN manifest' \subseteq Nat
         /\ tmp' \in BOOLEAN /\ replaced' \in BOOLEAN /\ exposed' \in BOOLEAN
         /\ faults' \in Nat /\ crashes' \in Nat
<1>0. /\ DOMAIN manifest \subseteq Nat
      /\ tmp \in BOOLEAN /\ replaced \in BOOLEAN /\ exposed \in BOOLEAN
      /\ faults \in Nat /\ crashes \in Nat
      /\ faults + 1 \in Nat /\ crashes + 1 \in Nat /\ 1 \in Nat
  BY SMTT(30) DEF TypeOK
<1>1. Unchanged \/ Fault => /\ exposed' \in BOOLEAN /\ faults' \in Nat
                            /\ crashes' \in Nat
  BY ZenonT(60), <1>0 DEF Unchanged, Fault
<1>2. UNCHANGED archive \/ (\E k, n, w : Archive(k, n, w)) => replaced' \in BOOLEAN
  BY Zenon, <1>0 DEF archive, Archive
<1>3. CASE UNCHANGED vars
  BY Zenon, <1>0, <1>3 DEF vars, disk, archive
<1>4. CASE FindFiles \/ OpenLogFails \/ CopyFails
  BY Zenon, <1>0, <1>1, <1>2, <1>4 DEF FindFiles, OpenLogFails, CopyFails, disk
<1>5. CASE ConvertLogToTable \/ TableBuilt \/ BuildFails \/ ScanTable
  BY Zenon, <1>0, <1>1, <1>2, <1>5 DEF ConvertLogToTable, TableBuilt, BuildFails, ScanTable
<1>6. CASE ArchiveLog \/ SizeFails \/ ArchiveSource
  BY Zenon, <1>0, <1>1, <1>2, <1>6 DEF ArchiveLog, SizeFails, ArchiveSource
<1>7. CASE FinishCopy \/ RenameCopy \/ RepairTableFails
  BY Zenon, <1>0, <1>1, <1>2, <1>7 DEF FinishCopy, RenameCopy, RepairTableFails
<1>8. CASE WriteTemp \/ SetCurrent \/ DescriptorFails
  BY Zenon, <1>0, <1>1, <1>2, <1>8 DEF WriteTemp, SetCurrent, DescriptorFails
<1>9. CASE ArchiveManifest \/ InstallManifest
  <2>1. DOMAIN manifest' \subseteq Nat
    <3>1. CASE ArchiveManifest
      <4>1. manifest' = manifest \/ \E n : manifest' = Without(manifest, n)
        BY Zenon, <3>1 DEF ArchiveManifest
      <4>2. QED
        BY Zenon, <1>0, <4>1, WithoutLoses DEF Loses
    <3>2. CASE InstallManifest
      <4>1. manifest' = Set(manifest, 1, Descriptor)
        BY Zenon, <3>2 DEF InstallManifest
      <4>2. Adds(manifest, manifest', 1, Descriptor)
        BY Zenon, <4>1, SetAdds
      <4>3. QED
        BY Zenon, <1>0, <4>2 DEF Adds
    <3>3. QED
      BY Zenon, <1>9, <3>1, <3>2
  <2>2. QED
    BY Zenon, <1>0, <1>1, <1>2, <1>9, <2>1 DEF ArchiveManifest, InstallManifest
<1>10. CASE Crash
  BY Zenon, <1>0, <1>2, <1>10 DEF Crash
<1>11. QED
  BY ZenonT(60), <1>3, <1>4, <1>5, <1>6, <1>7, <1>8, <1>9, <1>10 DEF Next

\* What holds of the tables of the directory
TablesType(f) ==
  /\ DOMAIN f \subseteq Nat /\ Bounded(DOMAIN f)
  /\ f \in [DOMAIN f -> [writes : SUBSET Nat, state : States]]
  /\ \A n \in DOMAIN f : WellFormed(f[n])

\* A table that was begun, and one that was finished
LEMMA NewTablesType ==
  /\ NewTable \in [writes : SUBSET Nat, state : States] /\ WellFormed(NewTable)
  /\ \A w \in SUBSET Nat : w # {} /\ Bounded(w) =>
       Finished(w) \in [writes : SUBSET Nat, state : States] /\ WellFormed(Finished(w))
<1>1. Bounded({})
  BY DEF Bounded
<1>2. QED
  BY <1>1 DEF NewTable, Finished, WellFormed, States

\* Creating or finishing a table keeps the type.
LEMMA TableAdded ==
  ASSUME NEW f, NEW g, NEW n \in Nat, NEW v, TablesType(f), Adds(f, g, n, v),
         v \in [writes : SUBSET Nat, state : States], WellFormed(v)
  PROVE  TablesType(g)
<1>1. DOMAIN f \in SUBSET Nat /\ DOMAIN g = DOMAIN f \cup {n}
  BY Zenon DEF TablesType, Adds
<1>2. DOMAIN g \subseteq Nat /\ Bounded(DOMAIN g)
  BY Zenon, <1>1, BoundedAdd DEF TablesType
<1>3. ASSUME NEW x \in DOMAIN g
      PROVE  g[x] \in [writes : SUBSET Nat, state : States] /\ WellFormed(g[x])
  BY Zenon, <1>1 DEF TablesType, Adds
<1>4. QED
  BY Zenon, <1>2, <1>3 DEF TablesType, Adds, IsFun

\* So does removing one.
LEMMA TableLost ==
  ASSUME NEW f, NEW g, NEW n, TablesType(f), Loses(f, g, n)
  PROVE  TablesType(g)
BY Zenon DEF TablesType, Loses, IsFun, Bounded

\* The tables keep their type: only tables with something in them are finished.
LEMMA TablesStep ==
  ASSUME TypeOK, WorkInv, CopyInv, Step
  PROVE  TablesType(table')
<1>0. TablesType(table) /\ rp.next \in Nat /\ rp.copy \in Nat /\ rp.at \in Nat
  BY Zenon, RepairerFields DEF TypeOK, TablesType
<1>1. ASSUME UNCHANGED table PROVE TablesType(table')
  BY Zenon, <1>0, <1>1
<1>2. ASSUME NEW n, Loses(table, table', n) PROVE TablesType(table')
  BY Zenon, <1>0, <1>2, TableLost
<1>3. ASSUME Adds(table, table', rp.next, NewTable) PROVE TablesType(table')
  BY Zenon, <1>0, <1>3, NewTablesType, TableAdded
<1>4. CASE BuiltEffect
  <2>1. CASE log[rp.at] = {}
    BY Zenon, <1>1, <1>4, <2>1 DEF BuiltEffect
  <2>2. CASE log[rp.at] # {}
    <3>1. rp.at \in DOMAIN log
      BY <1>4 DEF WorkInv, Active, BuiltEffect
    <3>2. rp.at \in DOMAIN Logs /\ log[rp.at] = Logs[rp.at]
      BY Zenon, <3>1 DEF TypeOK
    <3>3. Logs[rp.at] \in SUBSET Nat /\ IsFiniteSet(Logs[rp.at])
      BY Zenon, <3>2, RepairAssumption
    <3>4. Bounded(Logs[rp.at])
      BY Zenon, <3>3, FiniteIsBounded
    <3>5. /\ Finished(log[rp.at]) \in [writes : SUBSET Nat, state : States]
          /\ WellFormed(Finished(log[rp.at]))
      BY Zenon, <2>2, <3>2, <3>3, <3>4, NewTablesType
    <3>6. Adds(table, table', rp.copy, Finished(log[rp.at]))
      BY Zenon, <1>4, <2>2 DEF BuiltEffect
    <3>7. QED
      <4>. DEFINE v == Finished(log[rp.at])
      <4>1. /\ v \in [writes : SUBSET Nat, state : States] /\ WellFormed(v)
            /\ Adds(table, table', rp.copy, v)
        BY Zenon, <3>5, <3>6
      <4>. HIDE DEF v
      <4>2. QED
        BY Zenon, <1>0, <4>1, TableAdded
  <2>3. QED
    BY Zenon, <2>1, <2>2
<1>5. CASE FinishEffect
  <2>1. CASE rp.saved = {}
    BY Zenon, <1>1, <1>5, <2>1 DEF FinishEffect
  <2>2. CASE rp.saved # {}
    <3>1. Bounded(rp.saved) /\ rp.saved \in SUBSET Nat
      BY <1>5, RepairerFields DEF CopyInv, Copying, FinishEffect
    <3>2. /\ Finished(rp.saved) \in [writes : SUBSET Nat, state : States]
          /\ WellFormed(Finished(rp.saved))
      BY Zenon, <2>2, <3>1, NewTablesType
    <3>3. Adds(table, table', rp.copy, Finished(rp.saved))
      BY Zenon, <1>5, <2>2 DEF FinishEffect
    <3>4. QED
      BY Zenon, <1>0, <3>2, <3>3, TableAdded
  <2>3. QED
    BY Zenon, <2>1, <2>2
<1>6. CASE RenameEffect
  <2>1. rp.copy \in DOMAIN table
    BY <1>6 DEF CopyInv, Copying, RenameEffect
  <2>2. /\ DOMAIN table' = (DOMAIN table \ {rp.copy}) \cup {rp.at}
        /\ table'[rp.at] = table[rp.copy] /\ IsFun(table')
        /\ \A x \in DOMAIN table \ {rp.copy, rp.at} : table'[x] = table[x]
    BY Zenon, <1>6 DEF RenameEffect
  <2>3. DOMAIN table' \subseteq Nat /\ DOMAIN table' \subseteq DOMAIN table \cup {rp.at}
    BY Zenon, <1>0, <2>2 DEF TablesType
  <2>4. Bounded(DOMAIN table')
    <3>1. DOMAIN table \in SUBSET Nat /\ Bounded(DOMAIN table)
      BY Zenon, <1>0 DEF TablesType
    <3>2. Bounded(DOMAIN table \cup {rp.at})
      BY Zenon, <1>0, <3>1, BoundedAdd
    <3>3. QED
      BY Zenon, <2>3, <3>2 DEF Bounded
  <2>5. ASSUME NEW x \in DOMAIN table'
        PROVE  table'[x] \in [writes : SUBSET Nat, state : States] /\ WellFormed(table'[x])
    <3>1. CASE x = rp.at
      BY Zenon, <1>0, <2>1, <2>2, <3>1 DEF TablesType
    <3>2. CASE x # rp.at
      BY Zenon, <1>0, <2>2, <3>2 DEF TablesType
    <3>3. QED
      BY Zenon, <3>1, <3>2
  <2>6. QED
    BY Zenon, <2>2, <2>3, <2>4, <2>5 DEF TablesType, IsFun
<1>7. ASSUME NEW n \in rp.logs, ConvertEffect(n) PROVE TablesType(table')
  BY Zenon, <1>1, <1>3, <1>7 DEF ConvertEffect
<1>8. CASE FindEffect \/ (\E n \in rp.logs : OpenFailsEffect(n)) \/ ArchiveLogEffect
  BY Zenon, <1>1, <1>8 DEF FindEffect, OpenFailsEffect, ArchiveLogEffect
<1>9. CASE BuildFailsEffect \/ RepairFailsEffect \/ ArchiveSourceEffect
  BY Zenon, <1>1, <1>2, <1>9 DEF BuildFailsEffect, RepairFailsEffect, ArchiveSourceEffect
<1>10. ASSUME NEW n \in rp.numbers,
              KeepEffect(n) \/ CopyEffect(n) \/ SizeFailsEffect(n) \/ CopyFailsEffect(n)
       PROVE  TablesType(table')
  BY Zenon, <1>1, <1>2, <1>3, <1>10
     DEF KeepEffect, CopyEffect, SizeFailsEffect, CopyFailsEffect
<1>11. CASE DescriptorEffect \/ EndEffect \/ UNCHANGED vars
  BY Zenon, <1>1, <1>11 DEF DescriptorEffect, EndEffect, vars, disk
<1>12. QED
  BY Zenon, <1>4, <1>5, <1>6, <1>7, <1>8, <1>9, <1>10, <1>11 DEF Step

\* Only ArchiveLog touches a log, and takes it away.
LEMMA LogsStep ==
  ASSUME TypeOK, Step
  PROVE  \/ UNCHANGED log
         \/ ArchiveLogEffect /\ Loses(log, log', rp.at)
<1>1. CASE UNCHANGED archived \/ UNCHANGED log
  BY Zenon, <1>1 DEF archived
<1>2. CASE \/ FindEffect \/ BuiltEffect \/ BuildFailsEffect
           \/ \E n \in rp.logs : ConvertEffect(n) \/ OpenFailsEffect(n)
  BY Zenon, <1>1, <1>2 DEF FindEffect, ConvertEffect, OpenFailsEffect, BuiltEffect,
                     BuildFailsEffect
<1>3. CASE ArchiveLogEffect
  BY Zenon, <1>1, <1>3 DEF ArchiveLogEffect
<1>4. CASE \E n \in rp.numbers :
             KeepEffect(n) \/ CopyEffect(n) \/ SizeFailsEffect(n) \/ CopyFailsEffect(n)
  BY Zenon, <1>1, <1>4 DEF KeepEffect, CopyEffect, SizeFailsEffect, CopyFailsEffect
<1>5. CASE ArchiveSourceEffect \/ FinishEffect \/ RenameEffect \/ RepairFailsEffect
  BY Zenon, <1>1, <1>5 DEF ArchiveSourceEffect, FinishEffect, RenameEffect, RepairFailsEffect
<1>6. CASE DescriptorEffect \/ EndEffect \/ UNCHANGED vars
  BY Zenon, <1>1, <1>6 DEF DescriptorEffect, EndEffect, vars, disk
<1>7. QED
  BY Zenon, <1>2, <1>3, <1>4, <1>5, <1>6 DEF Step

\* Types are kept.
LEMMA TypeStep ==
  ASSUME TypeOK, WorkInv, CopyInv, [Next]_vars
  PROVE  TypeOK'
<1>1. Step /\ RpType'
  BY Zenon, StepCases
<1>2. TablesType(table')
  BY Zenon, <1>1, TablesStep
<1>3. DOMAIN log' \subseteq DOMAIN Logs /\ \A n \in DOMAIN log' : log'[n] = Logs[n]
  <2>1. DOMAIN log \subseteq DOMAIN Logs /\ \A n \in DOMAIN log : log[n] = Logs[n]
    BY Zenon DEF TypeOK
  <2>2. UNCHANGED log \/ Loses(log, log', rp.at)
    BY Zenon, <1>1, LogsStep
  <2>3. QED
    BY Zenon, <2>1, <2>2 DEF Loses
<1>4. QED
  BY Zenon, <1>1, <1>2, <1>3, OtherTypes DEF TypeOK, RpType, TablesType

-----------------------------------------------------------------------------
(* Numbers, and what is still to do.                                       *)

\* A step that takes a number at most and adds a file at most with that number
LEMMA FreshKept ==
  ASSUME TypeOK, FreshInv, Active, DOMAIN log' \subseteq DOMAIN log,
         \/ rp'.next = rp.next /\ DOMAIN table' \subseteq DOMAIN table
         \/ rp'.next = rp.next + 1 /\ DOMAIN table' \subseteq DOMAIN table \cup {rp.next}
  PROVE  FreshInv'
<1>1. /\ DOMAIN log \in SUBSET Nat /\ DOMAIN table \in SUBSET Nat /\ rp.next \in Nat
  BY Zenon, LogsBounded, RepairerFields DEF TypeOK
<1>2. \A n \in DOMAIN log \cup DOMAIN table : n < rp.next
  BY Zenon DEF FreshInv
<1>3. \A n \in DOMAIN log' \cup DOMAIN table' : n < rp'.next
  BY <1>1, <1>2
<1>4. QED
  BY Zenon, <1>3 DEF FreshInv

\* A repair never gives out the number of a file that is in the directory.
LEMMA FreshStep ==
  ASSUME TypeOK, FreshInv, WorkInv, CopyInv, Step
  PROVE  FreshInv'
<1>0. DOMAIN log' \subseteq DOMAIN log
  BY Zenon, LogsStep DEF Loses
<1>1. CASE FindEffect
  <2>1. UNCHANGED <<log, table>>
    BY Zenon, <1>1 DEF FindEffect, archived
  <2>2. QED
    BY Zenon, <1>1, <2>1 DEF FindEffect, FreshInv
<1>2. ASSUME NEW n \in rp.logs, ConvertEffect(n) PROVE FreshInv'
  <2>1. rp'.next = rp.next + 1 /\ rp.pc = "logs"
    BY Zenon, <1>2 DEF ConvertEffect, RpIs
  <2>2. DOMAIN table' \subseteq DOMAIN table \cup {rp.next}
    BY Zenon, <1>2 DEF ConvertEffect, Adds
  <2>3. QED
    BY <1>0, <2>1, <2>2, FreshKept DEF Active
<1>3. ASSUME NEW n \in rp.logs, OpenFailsEffect(n) PROVE FreshInv'
  BY <1>0, <1>3, FreshKept DEF OpenFailsEffect, RpIs, Active
<1>4. CASE BuiltEffect
  <2>1. rp'.next = rp.next /\ rp.pc = "build"
    BY Zenon, <1>4 DEF BuiltEffect, RpIs
  <2>2. DOMAIN table' \subseteq DOMAIN table
    BY <1>4 DEF BuiltEffect, Adds, WorkInv, Active, Partial
  <2>3. QED
    BY <1>0, <2>1, <2>2, FreshKept DEF Active
<1>5. CASE BuildFailsEffect
  BY <1>0, <1>5, FreshKept DEF BuildFailsEffect, RpIs, Active, Loses
<1>6. CASE ArchiveLogEffect
  BY <1>0, <1>6, FreshKept DEF ArchiveLogEffect, RpIs, Active
<1>7. ASSUME NEW n \in rp.numbers, KeepEffect(n) PROVE FreshInv'
  BY <1>0, <1>7, FreshKept DEF KeepEffect, RpIs, Active
<1>8. ASSUME NEW n \in rp.numbers, CopyEffect(n) PROVE FreshInv'
  BY <1>0, <1>8, FreshKept DEF CopyEffect, RpIs, Active, Adds
<1>9. ASSUME NEW n \in rp.numbers, SizeFailsEffect(n) PROVE FreshInv'
  BY <1>0, <1>9, FreshKept DEF SizeFailsEffect, RpIs, Active, Loses
<1>10. ASSUME NEW n \in rp.numbers, CopyFailsEffect(n) PROVE FreshInv'
  BY <1>0, <1>10, FreshKept DEF CopyFailsEffect, RpIs, Active
<1>11. CASE ArchiveSourceEffect
  BY <1>0, <1>11, FreshKept DEF ArchiveSourceEffect, RpIs, Active, Loses
<1>12. CASE FinishEffect
  <2>1. rp'.next = rp.next /\ rp.pc = "finish"
    BY Zenon, <1>12 DEF FinishEffect, RpIs
  <2>2. DOMAIN table' \subseteq DOMAIN table
    BY <1>12 DEF FinishEffect, Adds, CopyInv, Copying
  <2>3. QED
    BY <1>0, <2>1, <2>2, FreshKept DEF Active
<1>13. CASE RenameEffect
  <2>1. rp'.next = rp.next /\ rp.pc = "rename"
    BY Zenon, <1>13 DEF RenameEffect, RpIs
  <2>2. /\ DOMAIN log \in SUBSET Nat /\ DOMAIN table \in SUBSET Nat /\ rp.next \in Nat
        /\ rp.at \in Nat
    BY Zenon, LogsBounded, RepairerFields DEF TypeOK
  <2>3. \A n \in DOMAIN log \cup DOMAIN table : n < rp.next
    BY <2>1 DEF FreshInv, Active
  <2>4. rp.at < rp.copy /\ rp.copy \in DOMAIN table
    BY <2>1 DEF CopyInv, Copying
  <2>5. DOMAIN table' \subseteq DOMAIN table \cup {rp.at}
    BY Zenon, <1>13 DEF RenameEffect
  <2>6. \A n \in DOMAIN log' \cup DOMAIN table' : n < rp'.next
    BY <1>0, <2>1, <2>2, <2>3, <2>4, <2>5
  <2>7. QED
    BY Zenon, <2>6 DEF FreshInv
<1>14. CASE RepairFailsEffect
  BY <1>0, <1>14, FreshKept DEF RepairFailsEffect, RpIs, Active, Loses
<1>15. CASE DescriptorEffect
  BY <1>0, <1>15, FreshKept DEF DescriptorEffect, RpIs, Active
<1>16. CASE EndEffect
  BY Zenon, <1>16 DEF EndEffect, FreshInv, Active
<1>17. CASE UNCHANGED vars
  BY Zenon, <1>17 DEF FreshInv, Active, vars, disk
<1>18. QED
  BY Zenon, <1>1, <1>2, <1>3, <1>4, <1>5, <1>6, <1>7, <1>8, <1>9, <1>10, <1>11, <1>12,
     <1>13, <1>14, <1>15, <1>16, <1>17 DEF Step

\* What is listed, or going to be, is in the directory.
LEMMA WorkStep ==
  ASSUME TypeOK, FreshInv, WorkInv, CopyInv, ListInv, Step
  PROVE  WorkInv'
<1>0. ASSUME Active
      PROVE  /\ rp.next \notin DOMAIN log \cup DOMAIN table
             /\ rp.next \notin rp.numbers \cup DOMAIN rp.tables
             /\ rp.logs \subseteq DOMAIN log /\ rp.numbers \subseteq DOMAIN table
  <2>1. rp.next \notin DOMAIN log \cup DOMAIN table
    BY <1>0, RepairerFields DEF FreshInv
  <2>2. QED
    BY Zenon, <1>0, <2>1 DEF WorkInv, ListInv
<1>1. CASE FindEffect
  BY <1>1 DEF FindEffect, RpIs, archived, WorkInv
<1>2. ASSUME NEW n \in rp.logs, ConvertEffect(n) PROVE WorkInv'
  <2>1. rp.pc = "logs" /\ Active /\ UNCHANGED log /\ rp'.tables = rp.tables
    BY <1>2 DEF ConvertEffect, archived, Active
  <2>2. RpIs("build", rp.next + 1, rp.logs \ {n}, rp.numbers, n, rp.next, rp.saved)
    BY Zenon, <1>2 DEF ConvertEffect
  <2>3. /\ rp'.numbers \subseteq DOMAIN table'
        /\ log[n] # {} => rp.next \in DOMAIN table' /\ table'[rp.next] = NewTable
    BY Zenon, <1>0, <1>2, <2>1, <2>2 DEF ConvertEffect, Adds, RpIs
  <2>4. n \in DOMAIN log
    BY Zenon, <1>0, <2>1
  <2>5. QED
    BY <1>0, <2>1, <2>2, <2>3, <2>4 DEF WorkInv, RpIs, Partial, NewTable
<1>3. ASSUME NEW n \in rp.logs, OpenFailsEffect(n) PROVE WorkInv'
  BY <1>0, <1>3 DEF OpenFailsEffect, RpIs, Active, archived, WorkInv
<1>4. CASE BuiltEffect
  BY <1>0, <1>4 DEF BuiltEffect, RpIs, Active, archived, WorkInv, Partial, Adds
<1>5. CASE BuildFailsEffect
  BY <1>0, <1>5 DEF BuildFailsEffect, RpIs, Active, archived, WorkInv, Loses
<1>6. CASE ArchiveLogEffect
  BY <1>0, <1>6 DEF ArchiveLogEffect, RpIs, Active, archived, WorkInv, Loses
<1>7. ASSUME NEW n \in rp.numbers, KeepEffect(n) PROVE WorkInv'
  BY <1>0, <1>7 DEF KeepEffect, RpIs, Active, archived, WorkInv
<1>8. ASSUME NEW n \in rp.numbers, CopyEffect(n) PROVE WorkInv'
  BY <1>0, <1>8 DEF CopyEffect, RpIs, Active, archived, WorkInv, Adds
<1>9. ASSUME NEW n \in rp.numbers, SizeFailsEffect(n) PROVE WorkInv'
  BY <1>0, <1>9 DEF SizeFailsEffect, RpIs, Active, WorkInv, Loses
<1>10. ASSUME NEW n \in rp.numbers, CopyFailsEffect(n) PROVE WorkInv'
  BY <1>0, <1>10 DEF CopyFailsEffect, RpIs, Active, archived, WorkInv
<1>11. CASE ArchiveSourceEffect
  BY SMTT(30), <1>0, <1>11 DEF ArchiveSourceEffect, RpIs, Active, archived, WorkInv, Loses,
                     CopyInv, Copying
<1>12. CASE FinishEffect
  BY SMTT(30), <1>0, <1>12 DEF FinishEffect, RpIs, Active, archived, WorkInv, Adds
<1>13. CASE RenameEffect
  BY SMTT(30), <1>0, <1>13 DEF RenameEffect, RpIs, Active, archived, WorkInv, CopyInv, Copying
<1>14. CASE RepairFailsEffect
  BY SMTT(30), <1>0, <1>14 DEF RepairFailsEffect, RpIs, Active, archived, WorkInv, Loses,
                     CopyInv, Copying
<1>15. CASE DescriptorEffect
  BY SMTT(30), <1>0, <1>15 DEF DescriptorEffect, RpIs, Active, archived, WorkInv
<1>16. CASE EndEffect
  BY Zenon, <1>16 DEF EndEffect, WorkInv, Active
<1>17. CASE UNCHANGED vars
  BY Zenon, <1>17 DEF WorkInv, Active, Partial, vars, disk
<1>18. QED
  BY Zenon, <1>1, <1>2, <1>3, <1>4, <1>5, <1>6, <1>7, <1>8, <1>9, <1>10, <1>11, <1>12,
     <1>13, <1>14, <1>15, <1>16, <1>17 DEF Step

\* The copy and its source stay as they are while RepairTable works on them.
LEMMA CopyStep ==
  ASSUME TypeOK, FreshInv, WorkInv, CopyInv, ListInv, Step
  PROVE  CopyInv'
<1>1. ASSUME ~Copying' PROVE CopyInv'
  BY Zenon, <1>1 DEF CopyInv
<1>2. CASE FindEffect \/ \E n \in rp.logs : ConvertEffect(n) \/ OpenFailsEffect(n)
  BY <1>1, <1>2 DEF FindEffect, ConvertEffect, OpenFailsEffect, RpIs, Copying
<1>3. CASE BuiltEffect \/ BuildFailsEffect \/ ArchiveLogEffect
  BY SMTT(30), <1>1, <1>3 DEF BuiltEffect, BuildFailsEffect, ArchiveLogEffect, RpIs, Copying
<1>4. CASE \E n \in rp.numbers : KeepEffect(n) \/ SizeFailsEffect(n) \/ CopyFailsEffect(n)
  BY SMTT(30), <1>1, <1>4 DEF KeepEffect, SizeFailsEffect, CopyFailsEffect, RpIs, Copying
<1>5. CASE RenameEffect \/ RepairFailsEffect \/ DescriptorEffect \/ EndEffect
  BY SMTT(30), <1>1, <1>5 DEF RenameEffect, RepairFailsEffect, DescriptorEffect, EndEffect, RpIs, Copying
<1>6. ASSUME NEW n \in rp.numbers, CopyEffect(n) PROVE CopyInv'
  <2>1. rp.pc = "logs" /\ rp.logs = {} /\ table[n].state # "good" /\ rp'.tables = rp.tables
    BY Zenon, <1>6 DEF CopyEffect
  <2>2. RpIs("copy", rp.next + 1, rp.logs, rp.numbers \ {n}, n, rp.next, rp.saved)
    BY Zenon, <1>6 DEF CopyEffect
  <2>3. /\ n \in DOMAIN table /\ rp.numbers \subseteq DOMAIN table
        /\ DOMAIN rp.tables \subseteq DOMAIN table /\ n \notin DOMAIN rp.tables
    BY <2>1 DEF WorkInv, ListInv, Active
  <2>4. /\ n \in Nat /\ rp.next \in Nat /\ n < rp.next /\ n # rp.next
        /\ rp.next \notin DOMAIN table
    BY <2>1, <2>3, RepairerFields DEF FreshInv, Active
  <2>5. /\ DOMAIN table' = DOMAIN table \cup {rp.next} /\ table'[rp.next] = NewTable
        /\ table'[n] = table[n]
    BY Zenon, <1>6, <2>3, <2>4 DEF CopyEffect, Adds
  <2>6. /\ rp'.pc = "copy" /\ rp'.logs = {} /\ rp'.numbers = rp.numbers \ {n}
        /\ rp'.at = n /\ rp'.copy = rp.next
    BY Zenon, <2>1, <2>2 DEF RpIs
  <2>7. {n, rp.next} \cap ((rp.numbers \ {n}) \cup DOMAIN rp.tables) = {}
    BY Zenon, <2>3, <2>4
  <2>8. QED
    BY SMTT(30), <2>1, <2>3, <2>4, <2>5, <2>6, <2>7 DEF CopyInv, NewTable
<1>7. CASE ArchiveSourceEffect
  <2>1. /\ rp.pc = "copy" /\ rp'.tables = rp.tables
        /\ rp'.pc = "finish" /\ rp'.logs = rp.logs /\ rp'.numbers = rp.numbers
        /\ rp'.at = rp.at /\ rp'.copy = rp.copy /\ rp'.saved = table[rp.at].writes
    BY Zenon, <1>7 DEF ArchiveSourceEffect, RpIs
  <2>2. /\ rp.logs = {} /\ rp.at < rp.copy /\ rp.copy \in DOMAIN table
        /\ {rp.at, rp.copy} \cap (rp.numbers \cup DOMAIN rp.tables) = {}
        /\ rp.at \in DOMAIN table /\ table[rp.copy].state = "partial"
    BY SMTT(30), <2>1 DEF CopyInv, Copying
  <2>3. rp.at # rp.copy
    BY <2>2, RepairerFields
  <2>4. Bounded(table[rp.at].writes)
    BY Zenon, <2>2, TableFields DEF WellFormed
  <2>5. /\ rp.copy \in DOMAIN table' /\ table'[rp.copy] = table[rp.copy]
        /\ IF rp.at \in DOMAIN table' THEN table'[rp.at].writes = table[rp.at].writes
           ELSE /\ <<"table", rp.at>> \in DOMAIN lost'
                /\ lost'[<<"table", rp.at>>] = table[rp.at].writes
    <3>1. CASE Loses(table, table', rp.at) /\ Archives("table", rp.at, table[rp.at].writes)
      BY Zenon, <2>2, <2>3, <3>1 DEF Loses, Archives, Adds
    <3>2. CASE UNCHANGED table
      BY Zenon, <2>2, <3>2
    <3>3. QED
      BY Zenon, <1>7, <3>1, <3>2 DEF ArchiveSourceEffect
  <2>6. QED
    BY SMTT(30), <2>1, <2>2, <2>4, <2>5 DEF CopyInv
<1>8. CASE FinishEffect
  <2>1. CASE rp.saved = {}
    BY <1>1, <1>8, <2>1 DEF FinishEffect, RpIs, Copying
  <2>2. CASE rp.saved # {}
    <3>1. /\ rp.pc = "finish" /\ rp'.tables = rp.tables /\ UNCHANGED lost
          /\ rp'.pc = "rename" /\ rp'.logs = rp.logs /\ rp'.numbers = rp.numbers
          /\ rp'.at = rp.at /\ rp'.copy = rp.copy /\ rp'.saved = rp.saved
          /\ Adds(table, table', rp.copy, Finished(rp.saved))
      BY Zenon, <1>8, <2>2 DEF FinishEffect, RpIs, archived
    <3>2. /\ rp.logs = {} /\ rp.at < rp.copy /\ rp.copy \in DOMAIN table
          /\ {rp.at, rp.copy} \cap (rp.numbers \cup DOMAIN rp.tables) = {}
          /\ Bounded(rp.saved)
          /\ IF rp.at \in DOMAIN table THEN table[rp.at].writes = rp.saved
             ELSE <<"table", rp.at>> \in DOMAIN lost /\ lost[<<"table", rp.at>>] = rp.saved
      BY SMTT(30), <3>1 DEF CopyInv, Copying
    <3>3. rp.at # rp.copy
      BY <3>2, RepairerFields
    <3>4. /\ rp.copy \in DOMAIN table' /\ table'[rp.copy] = Finished(rp.saved)
          /\ rp.at \in DOMAIN table' <=> rp.at \in DOMAIN table
          /\ rp.at \in DOMAIN table => table'[rp.at] = table[rp.at]
      BY Zenon, <3>1, <3>3 DEF Adds
    <3>5. QED
      BY SMTT(30), <2>2, <3>1, <3>2, <3>4 DEF CopyInv, Finished
  <2>3. QED
    BY Zenon, <2>1, <2>2
<1>9. CASE UNCHANGED vars
  BY Zenon, <1>9 DEF CopyInv, Copying, vars, disk, archive
<1>10. QED
  BY Zenon, <1>2, <1>3, <1>4, <1>5, <1>6, <1>7, <1>8, <1>9 DEF Step

-----------------------------------------------------------------------------
(* What is listed.                                                         *)

\* A step that leaves the listed tables alone
LEMMA ListKept ==
  ASSUME ListInv, Active, rp'.tables = rp.tables,
         DOMAIN rp.tables \cap rp'.numbers = {},
         \A n \in DOMAIN rp.tables : n \in DOMAIN table' /\ table'[n] = table[n]
  PROVE  ListInv'
BY Zenon DEF ListInv

\* A step that lists one more table, with its largest write
LEMMA ListGrows ==
  ASSUME ListInv, Active, NEW n, NEW v, Adds(rp.tables, rp'.tables, n, v),
         DOMAIN rp.tables \cap rp'.numbers = {}, n \notin rp'.numbers,
         n \in DOMAIN table', table'[n].state = "good",
         \A w \in table'[n].writes : w <= v,
         \A m \in DOMAIN rp.tables : m # n => m \in DOMAIN table' /\ table'[m] = table[m]
  PROVE  ListInv'
<1>1. DOMAIN rp'.tables \cap rp'.numbers = {}
  BY Zenon DEF Adds
<1>2. ASSUME NEW m \in DOMAIN rp'.tables
      PROVE  /\ m \in DOMAIN table' /\ table'[m].state = "good"
             /\ \A w \in table'[m].writes : w <= rp'.tables[m]
  <2>1. CASE m = n
    BY Zenon, <2>1 DEF Adds
  <2>2. CASE m # n
    BY Zenon, <2>2 DEF Adds, ListInv
  <2>3. QED
    BY Zenon, <2>1, <2>2
<1>3. QED
  BY Zenon, <1>1, <1>2 DEF ListInv

\* Listed tables stay, and are good.
LEMMA ListStep ==
  ASSUME TypeOK, FreshInv, WorkInv, CopyInv, ListInv, Step
  PROVE  ListInv'
<1>0. ASSUME Active
      PROVE  /\ rp.next \notin DOMAIN rp.tables /\ DOMAIN rp.tables \subseteq DOMAIN table
             /\ DOMAIN rp.tables \cap rp.numbers = {}
  <2>1. rp.next \notin DOMAIN log \cup DOMAIN table
    BY <1>0, RepairerFields DEF FreshInv
  <2>2. QED
    BY Zenon, <1>0, <2>1 DEF ListInv
<1>1. CASE FindEffect
  BY Zenon, <1>1 DEF FindEffect, ListInv
<1>2. ASSUME NEW n \in rp.logs, ConvertEffect(n) PROVE ListInv'
  <2>1. Active /\ rp'.numbers = rp.numbers /\ rp'.tables = rp.tables
    BY <1>2 DEF ConvertEffect, RpIs, Active
  <2>2. \A m \in DOMAIN rp.tables : m \in DOMAIN table' /\ table'[m] = table[m]
    BY Zenon, <1>0, <1>2, <2>1 DEF ConvertEffect, Adds
  <2>3. QED
    BY Zenon, <1>0, <2>1, <2>2, ListKept
<1>3. ASSUME NEW n \in rp.logs, OpenFailsEffect(n) PROVE ListInv'
  BY <1>0, <1>3, ListKept DEF OpenFailsEffect, RpIs, Active
<1>4. CASE BuiltEffect
  <2>1. Active /\ rp.pc = "build" /\ rp'.tables = rp.tables
    BY <1>4 DEF BuiltEffect, Active
  <2>2. rp.copy \notin rp.numbers \cup DOMAIN rp.tables
    BY Zenon, <2>1 DEF WorkInv
  <2>3. DOMAIN rp.tables \cap rp'.numbers = {}
    BY SMTT(30), <1>0, <1>4, <2>1, <2>2 DEF BuiltEffect, RpIs
  <2>4. \A m \in DOMAIN rp.tables : m \in DOMAIN table' /\ table'[m] = table[m]
    BY Zenon, <1>0, <1>4, <2>1, <2>2 DEF BuiltEffect, Adds
  <2>5. QED
    BY Zenon, <2>1, <2>3, <2>4, ListKept
<1>5. CASE BuildFailsEffect
  <2>1. Active /\ rp.pc = "build" /\ rp'.tables = rp.tables /\ rp'.numbers = rp.numbers
    BY <1>5 DEF BuildFailsEffect, Active, RpIs
  <2>2. rp.copy \notin rp.numbers \cup DOMAIN rp.tables
    BY Zenon, <2>1 DEF WorkInv
  <2>3. \A m \in DOMAIN rp.tables : m \in DOMAIN table' /\ table'[m] = table[m]
    BY Zenon, <1>0, <1>5, <2>1, <2>2 DEF BuildFailsEffect, Loses
  <2>4. QED
    BY Zenon, <1>0, <2>1, <2>3, ListKept
<1>6. CASE ArchiveLogEffect
  BY <1>0, <1>6, ListKept DEF ArchiveLogEffect, RpIs, Active
<1>7. ASSUME NEW n \in rp.numbers, KeepEffect(n) PROVE ListInv'
  <2>1. /\ Active /\ table[n].state = "good" /\ UNCHANGED table
        /\ rp'.numbers = rp.numbers \ {n}
        /\ Adds(rp.tables, rp'.tables, n, Max(table[n].writes))
    BY <1>7 DEF KeepEffect, RpIs, Active
  <2>2. n \in DOMAIN table
    BY Zenon, <2>1 DEF WorkInv
  <2>3. /\ table[n].writes \in SUBSET Nat /\ table[n].writes # {}
        /\ Bounded(table[n].writes)
    BY Zenon, <2>1, <2>2, TableFields DEF WellFormed
  <2>4. \A w \in table[n].writes : w <= Max(table[n].writes)
    BY Zenon, <2>3, MaxOf
  <2>5. /\ DOMAIN rp.tables \cap rp'.numbers = {} /\ n \notin rp'.numbers
        /\ n \in DOMAIN table' /\ table'[n].state = "good"
        /\ \A w \in table'[n].writes : w <= Max(table[n].writes)
        /\ \A m \in DOMAIN rp.tables : m # n => m \in DOMAIN table' /\ table'[m] = table[m]
    BY Zenon, <1>0, <2>1, <2>2, <2>4
  <2>6. QED
    BY Zenon, <2>1, <2>5, ListGrows
<1>8. ASSUME NEW n \in rp.numbers, CopyEffect(n) PROVE ListInv'
  <2>1. /\ Active /\ rp'.numbers = rp.numbers \ {n} /\ rp'.tables = rp.tables
        /\ Adds(table, table', rp.next, NewTable)
    BY <1>8 DEF CopyEffect, RpIs, Active
  <2>2. \A m \in DOMAIN rp.tables : m \in DOMAIN table' /\ table'[m] = table[m]
    BY Zenon, <1>0, <2>1 DEF Adds
  <2>3. DOMAIN rp.tables \cap rp'.numbers = {}
    BY Zenon, <1>0, <2>1
  <2>4. QED
    BY Zenon, <2>1, <2>2, <2>3, ListKept
<1>9. ASSUME NEW n \in rp.numbers, SizeFailsEffect(n) PROVE ListInv'
  <2>1. /\ Active /\ rp'.numbers = rp.numbers \ {n} /\ rp'.tables = rp.tables
        /\ Loses(table, table', n)
    BY <1>9 DEF SizeFailsEffect, RpIs, Active
  <2>2. \A m \in DOMAIN rp.tables : m \in DOMAIN table' /\ table'[m] = table[m]
    BY Zenon, <1>0, <2>1 DEF Loses
  <2>3. DOMAIN rp.tables \cap rp'.numbers = {}
    BY Zenon, <1>0, <2>1
  <2>4. QED
    BY Zenon, <2>1, <2>2, <2>3, ListKept
<1>10. ASSUME NEW n \in rp.numbers, CopyFailsEffect(n) PROVE ListInv'
  BY <1>0, <1>10, ListKept DEF CopyFailsEffect, RpIs, Active
<1>11. ASSUME Copying PROVE Active /\ {rp.at, rp.copy} \cap DOMAIN rp.tables = {}
  BY <1>11 DEF CopyInv, Copying, Active
<1>12. CASE ArchiveSourceEffect
  <2>1. /\ Copying /\ rp'.numbers = rp.numbers /\ rp'.tables = rp.tables
        /\ Loses(table, table', rp.at) \/ UNCHANGED table
    BY <1>12 DEF ArchiveSourceEffect, RpIs, Copying
  <2>2. \A m \in DOMAIN rp.tables : m \in DOMAIN table' /\ table'[m] = table[m]
    BY Zenon, <1>0, <1>11, <2>1 DEF Loses
  <2>3. QED
    BY Zenon, <1>0, <1>11, <2>1, <2>2, ListKept
<1>13. CASE FinishEffect
  <2>1. /\ Copying /\ rp'.numbers = rp.numbers /\ rp'.tables = rp.tables
        /\ Adds(table, table', rp.copy, Finished(rp.saved)) \/ UNCHANGED table
    BY <1>13 DEF FinishEffect, RpIs, Copying
  <2>2. \A m \in DOMAIN rp.tables : m \in DOMAIN table' /\ table'[m] = table[m]
    BY Zenon, <1>0, <1>11, <2>1 DEF Adds
  <2>3. QED
    BY Zenon, <1>0, <1>11, <2>1, <2>2, ListKept
<1>14. CASE RenameEffect
  <2>1. /\ Copying /\ rp.pc = "rename" /\ rp'.numbers = rp.numbers
        /\ Adds(rp.tables, rp'.tables, rp.at, Max(rp.saved))
    BY <1>14 DEF RenameEffect, RpIs, Copying
  <2>2. /\ rp.saved # {} /\ Bounded(rp.saved) /\ rp.saved \in SUBSET Nat
        /\ table[rp.copy] = Finished(rp.saved) /\ rp.at \notin rp.numbers
    BY SMTT(30), <2>1, RepairerFields DEF CopyInv, Finished
  <2>3. \A w \in rp.saved : w <= Max(rp.saved)
    BY Zenon, <2>2, MaxOf
  <2>4. /\ rp.at \in DOMAIN table' /\ table'[rp.at] = Finished(rp.saved)
        /\ \A m \in DOMAIN rp.tables :
             m # rp.at => m \in DOMAIN table' /\ table'[m] = table[m]
    BY Zenon, <1>0, <1>11, <1>14, <2>1, <2>2 DEF RenameEffect
  <2>5. table'[rp.at].state = "good" /\ table'[rp.at].writes = rp.saved
    BY <2>4 DEF Finished
  <2>6. QED
    BY Zenon, <1>0, <1>11, <2>1, <2>2, <2>3, <2>4, <2>5, ListGrows
<1>15. CASE RepairFailsEffect
  <2>1. /\ Copying /\ rp'.numbers = rp.numbers /\ rp'.tables = rp.tables
        /\ Loses(table, table', rp.copy)
    BY <1>15 DEF RepairFailsEffect, RpIs, Copying
  <2>2. \A m \in DOMAIN rp.tables : m \in DOMAIN table' /\ table'[m] = table[m]
    BY Zenon, <1>0, <1>11, <2>1 DEF Loses
  <2>3. QED
    BY Zenon, <1>0, <1>11, <2>1, <2>2, ListKept
<1>16. CASE DescriptorEffect
  BY <1>0, <1>16, ListKept DEF DescriptorEffect, RpIs, Active
<1>17. CASE EndEffect
  BY Zenon, <1>17 DEF EndEffect, ListInv, Active
<1>18. CASE UNCHANGED vars
  BY Zenon, <1>18 DEF ListInv, Active, vars, disk
<1>19. QED
  BY Zenon, <1>1, <1>2, <1>3, <1>4, <1>5, <1>6, <1>7, <1>8, <1>9, <1>10, <1>12,
     <1>13, <1>14, <1>15, <1>16, <1>17, <1>18 DEF Step

\* The installed descriptor is that of the listed tables.
LEMMA ManifestStep ==
  ASSUME ManifestInv, Step
  PROVE  ManifestInv'
<1>1. ASSUME rp'.pc # "current" PROVE ManifestInv'
  BY Zenon, <1>1 DEF ManifestInv
<1>2. CASE \/ FindEffect \/ BuiltEffect \/ BuildFailsEffect \/ ArchiveLogEffect
           \/ \E n \in rp.logs : ConvertEffect(n) \/ OpenFailsEffect(n)
  BY SMTT(30), <1>1, <1>2 DEF FindEffect, ConvertEffect, OpenFailsEffect, BuiltEffect,
                    BuildFailsEffect, ArchiveLogEffect, RpIs
<1>3. CASE \E n \in rp.numbers :
             KeepEffect(n) \/ CopyEffect(n) \/ SizeFailsEffect(n) \/ CopyFailsEffect(n)
  BY SMTT(30), <1>1, <1>3 DEF KeepEffect, CopyEffect, SizeFailsEffect, CopyFailsEffect, RpIs
<1>4. CASE ArchiveSourceEffect \/ FinishEffect \/ RenameEffect \/ RepairFailsEffect
  BY SMTT(30), <1>1, <1>4 DEF ArchiveSourceEffect, FinishEffect, RenameEffect, RepairFailsEffect, RpIs
<1>5. CASE DescriptorEffect
  <2>1. rp'.tables = rp.tables /\ rp'.next = rp.next
    BY Zenon, <1>5 DEF DescriptorEffect, RpIs
  <2>2. Descriptor' = Descriptor
    BY Zenon, <2>1 DEF Descriptor
  <2>3. QED
    BY Zenon, <1>5, <2>2 DEF DescriptorEffect, ManifestInv
<1>6. CASE EndEffect
  BY <1>1, <1>6 DEF EndEffect
<1>7. CASE UNCHANGED vars
  BY Zenon, <1>7 DEF ManifestInv, Descriptor, vars, disk
<1>8. QED
  BY Zenon, <1>2, <1>3, <1>4, <1>5, <1>6, <1>7 DEF Step

-----------------------------------------------------------------------------
(* No file of lost/ is replaced.                                           *)

\* The numbers of tables
LEMMA PresentNat ==
  ASSUME TypeOK, TypeOK'
  PROVE  Present \in SUBSET Nat /\ Present' \in SUBSET Nat
<1>1. /\ DOMAIN table \in SUBSET Nat /\ DOMAIN table' \in SUBSET Nat
      /\ rp \in Repairer /\ rp' \in Repairer
  BY Zenon DEF TypeOK
<1>2. rp.at \in Nat /\ rp'.at \in Nat
  BY <1>1 DEF Repairer
<1>3. QED
  BY <1>1, <1>2 DEF Present

\* A step that archives nothing, after which the tables in lost/ still have a
\* number above their own in the directory
LEMMA OnceKept ==
  ASSUME TypeOK, TypeOK', OnceInv, Same, UNCHANGED archived,
         \A n \in DOMAIN table' :
           \/ table'[n].state = "good"
           \/ n \in DOMAIN table /\ table'[n] = table[n]
           \/ faults = 0 => <<"table", n>> \notin DOMAIN lost,
         \A m \in Present : m \in Present' \/ \E k \in Present' : m < k
  PROVE  OnceInv'
<1>1. SUFFICES ASSUME faults = 0 PROVE OnceInv'
  BY Zenon DEF OnceInv, Same
<1>2. /\ ~replaced /\ \A n \in DOMAIN log : <<"log", n>> \notin DOMAIN lost
      /\ \A n \in Nat : <<"table", n>> \in DOMAIN lost =>
           /\ n \in DOMAIN table => table[n].state = "good"
           /\ \E m \in Present : n <= m
  BY Zenon, <1>1 DEF OnceInv
<1>3. lost' = lost /\ log' = log /\ replaced' = replaced
  BY Zenon DEF archived
<1>4. ASSUME NEW n \in Nat, <<"table", n>> \in DOMAIN lost
      PROVE  /\ n \in DOMAIN table' => table'[n].state = "good"
             /\ \E m \in Present' : n <= m
  <2>1. n \in DOMAIN table' => table'[n].state = "good"
    BY Zenon, <1>1, <1>2, <1>4
  <2>2. PICK m \in Present : n <= m
    BY Zenon, <1>2, <1>4
  <2>3. PICK k \in Present' : k = m \/ m < k
    BY Zenon
  <2>4. m \in Nat /\ k \in Nat
    BY Zenon, PresentNat
  <2>5. n <= k
    BY <2>2, <2>3, <2>4
  <2>6. QED
    BY Zenon, <2>1, <2>5
<1>5. QED
  BY Zenon, <1>2, <1>3, <1>4 DEF OnceInv

\* While nothing fails, no file is archived over another.
LEMMA OnceStep ==
  ASSUME TypeOK, TypeOK', FreshInv, WorkInv, CopyInv, OnceInv, Step
  PROVE  OnceInv'
<1>1. ASSUME Faulted PROVE OnceInv'
  BY Zenon, <1>1 DEF OnceInv, Faulted
<1>2. ASSUME ~Copying PROVE Present = DOMAIN table
  BY <1>2 DEF Present, Copying
<1>3. ASSUME ~Copying' PROVE Present' = DOMAIN table'
  BY <1>3 DEF Present, Copying
<1>4. ASSUME rp.pc = "logs", faults = 0 PROVE <<"table", rp.next>> \notin DOMAIN lost
  <2>1. SUFFICES ASSUME <<"table", rp.next>> \in DOMAIN lost PROVE FALSE
    BY Zenon
  <2>2. rp.next \in Nat /\ DOMAIN table \in SUBSET Nat
    BY Zenon, RepairerFields DEF TypeOK
  <2>3. PICK m \in Present : rp.next <= m
    BY Zenon, <1>4, <2>1, <2>2 DEF OnceInv
  <2>4. m \in DOMAIN table
    BY <1>2, <1>4 DEF Copying
  <2>5. m < rp.next
    BY <1>4, <2>4 DEF FreshInv, Active
  <2>6. QED
    BY <2>2, <2>3, <2>4, <2>5
<1>5. CASE FindEffect
  <2>1. ~Copying /\ ~Copying' /\ UNCHANGED <<archived, table>> /\ Same
    BY <1>5 DEF FindEffect, RpIs, Copying
  <2>2. QED
    BY Zenon, <1>2, <1>3, <2>1, OnceKept
<1>6. ASSUME NEW n \in rp.logs, ConvertEffect(n) PROVE OnceInv'
  <2>1. ~Copying /\ ~Copying' /\ UNCHANGED archived /\ Same /\ rp.pc = "logs"
    BY <1>6 DEF ConvertEffect, RpIs, Copying
  <2>2. Adds(table, table', rp.next, NewTable) \/ UNCHANGED table
    BY Zenon, <1>6 DEF ConvertEffect
  <2>3. \A m \in DOMAIN table' : m = rp.next \/ (m \in DOMAIN table /\ table'[m] = table[m])
    BY Zenon, <2>2 DEF Adds
  <2>4. DOMAIN table \subseteq DOMAIN table'
    BY Zenon, <2>2 DEF Adds
  <2>5. QED
    BY Zenon, <1>2, <1>3, <1>4, <2>1, <2>3, <2>4, OnceKept
<1>7. CASE BuiltEffect
  <2>1. ~Copying /\ ~Copying' /\ UNCHANGED archived /\ Same /\ rp.pc = "build"
    BY <1>7 DEF BuiltEffect, RpIs, Copying
  <2>2. Adds(table, table', rp.copy, Finished(log[rp.at])) \/ UNCHANGED table
    BY Zenon, <1>7 DEF BuiltEffect
  <2>3. Finished(log[rp.at]).state = "good"
    BY DEF Finished
  <2>4. \A m \in DOMAIN table' :
          table'[m].state = "good" \/ (m \in DOMAIN table /\ table'[m] = table[m])
    BY Zenon, <2>2, <2>3 DEF Adds
  <2>5. DOMAIN table \subseteq DOMAIN table'
    BY Zenon, <2>2 DEF Adds
  <2>6. QED
    BY Zenon, <1>2, <1>3, <2>1, <2>4, <2>5, OnceKept
<1>8. CASE ArchiveLogEffect
  <2>1. /\ ~Copying /\ ~Copying' /\ rp.at \in DOMAIN log /\ UNCHANGED table
        /\ \/ Loses(log, log', rp.at) /\ Archives("log", rp.at, log[rp.at]) /\ Same
           \/ Faulted
    BY SMTT(30), <1>8 DEF ArchiveLogEffect, RpIs, Copying, WorkInv, Active
  <2>2. CASE Faulted
    BY Zenon, <1>1, <2>2
  <2>3. CASE Loses(log, log', rp.at) /\ Archives("log", rp.at, log[rp.at]) /\ Same
    <3>1. SUFFICES ASSUME faults = 0 PROVE OnceInv'
      BY Zenon, <2>3 DEF OnceInv, Same
    <3>2. <<"log", rp.at>> \notin DOMAIN lost /\ ~replaced
      BY Zenon, <2>1, <3>1 DEF OnceInv
    <3>3. ~replaced' /\ DOMAIN lost' = DOMAIN lost \cup {<<"log", rp.at>>}
      BY Zenon, <2>3, <3>2 DEF Archives, Adds
    <3>4. \A n \in DOMAIN log' : n \in DOMAIN log /\ n # rp.at
      BY Zenon, <2>3 DEF Loses
    <3>5. \A n : /\ <<"log", n>> = <<"log", rp.at>> => n = rp.at
                 /\ <<"table", n>> # <<"log", rp.at>>
      OBVIOUS
    <3>6. \A n \in DOMAIN log' : <<"log", n>> \notin DOMAIN lost'
      BY Zenon, <3>1, <3>3, <3>4, <3>5 DEF OnceInv
    <3>7. \A n \in Nat : <<"table", n>> \in DOMAIN lost' =>
            /\ n \in DOMAIN table' => table'[n].state = "good"
            /\ \E m \in Present' : n <= m
      BY Zenon, <1>2, <1>3, <2>1, <3>1, <3>3, <3>5 DEF OnceInv
    <3>8. QED
      BY Zenon, <3>3, <3>6, <3>7 DEF OnceInv
  <2>4. QED
    BY Zenon, <2>1, <2>2, <2>3
<1>9. ASSUME NEW n \in rp.numbers, KeepEffect(n) PROVE OnceInv'
  <2>1. ~Copying /\ ~Copying' /\ UNCHANGED <<archived, table>> /\ Same
    BY <1>9 DEF KeepEffect, RpIs, Copying
  <2>2. QED
    BY Zenon, <1>2, <1>3, <2>1, OnceKept
<1>10. ASSUME NEW n \in rp.numbers, CopyEffect(n) PROVE OnceInv'
  <2>1. /\ ~Copying /\ UNCHANGED archived /\ Same /\ rp.pc = "logs"
        /\ rp'.pc = "copy" /\ rp'.copy = rp.next
        /\ Adds(table, table', rp.next, NewTable)
    BY <1>10 DEF CopyEffect, RpIs, Copying
  <2>2. rp.next \notin DOMAIN table
    BY <2>1, RepairerFields DEF FreshInv, Active
  <2>3. \A m \in DOMAIN table' : m = rp.next \/ (m \in DOMAIN table /\ table'[m] = table[m])
    BY Zenon, <2>1 DEF Adds
  <2>4. Present' = DOMAIN table' \ {rp.next}
    BY <2>1 DEF Present, Copying
  <2>5. Present' = DOMAIN table
    BY Zenon, <2>1, <2>2, <2>4 DEF Adds
  <2>6. QED
    BY Zenon, <1>2, <1>4, <2>1, <2>3, <2>5, OnceKept
<1>11. CASE ArchiveSourceEffect
  <2>1. /\ rp.pc = "copy" /\ rp'.pc = "finish" /\ rp'.at = rp.at /\ rp'.copy = rp.copy
        /\ \/ /\ Loses(table, table', rp.at) /\ UNCHANGED log /\ Same
              /\ Archives("table", rp.at, table[rp.at].writes)
           \/ Faulted
    BY Zenon, <1>11 DEF ArchiveSourceEffect, RpIs
  <2>2. CASE Faulted
    BY Zenon, <1>1, <2>2
  <2>3. CASE /\ Loses(table, table', rp.at) /\ UNCHANGED log /\ Same
             /\ Archives("table", rp.at, table[rp.at].writes)
    <3>1. SUFFICES ASSUME faults = 0 PROVE OnceInv'
      BY Zenon, <2>3 DEF OnceInv, Same
    <3>2. /\ rp.at \in DOMAIN table /\ table[rp.at].state # "good" /\ rp.at < rp.copy
          /\ rp.at \in Nat /\ rp.copy \in Nat
      BY SMTT(30), <2>1, RepairerFields DEF CopyInv, Copying
    <3>3. <<"table", rp.at>> \notin DOMAIN lost /\ ~replaced
      BY Zenon, <3>1, <3>2 DEF OnceInv
    <3>4. ~replaced' /\ DOMAIN lost' = DOMAIN lost \cup {<<"table", rp.at>>}
      BY Zenon, <2>3, <3>3 DEF Archives, Adds
    <3>5. Present' = (DOMAIN table' \cup {rp.at}) \ {rp.copy}
      BY <2>1 DEF Present, Copying
    <3>6. Present = DOMAIN table \ {rp.copy}
      BY <2>1 DEF Present, Copying
    <3>7. Present \subseteq Present' /\ rp.at \in Present'
      <4>1. rp.at # rp.copy
        BY <3>2
      <4>2. QED
        BY Zenon, <2>3, <3>5, <3>6, <4>1 DEF Loses
    <3>8. \A n : /\ <<"table", n>> = <<"table", rp.at>> => n = rp.at
                 /\ <<"log", n>> # <<"table", rp.at>>
      OBVIOUS
    <3>9. \A n \in DOMAIN log' : <<"log", n>> \notin DOMAIN lost'
      BY Zenon, <2>3, <3>1, <3>4, <3>8 DEF OnceInv
    <3>10. ASSUME NEW n \in Nat, <<"table", n>> \in DOMAIN lost'
           PROVE  /\ n \in DOMAIN table' => table'[n].state = "good"
                  /\ \E m \in Present' : n <= m
      <4>1. CASE n = rp.at
        <5>1. n \notin DOMAIN table'
          BY Zenon, <2>3, <4>1 DEF Loses
        <5>2. n <= rp.at
          BY <3>2, <4>1
        <5>3. QED
          BY Zenon, <3>7, <5>1, <5>2
      <4>2. CASE n # rp.at
        <5>1. <<"table", n>> \in DOMAIN lost
          <6>1. <<"table", n>> # <<"table", rp.at>>
            BY Zenon, <3>8, <4>2
          <6>2. QED
            BY Zenon, <3>4, <3>10, <6>1
        <5>2. n \in DOMAIN table' => table'[n] = table[n] /\ n \in DOMAIN table
          BY Zenon, <2>3, <4>2 DEF Loses
        <5>3. QED
          BY Zenon, <3>1, <3>7, <5>1, <5>2 DEF OnceInv
      <4>3. QED
        BY Zenon, <4>1, <4>2
    <3>11. QED
      BY Zenon, <3>4, <3>9, <3>10 DEF OnceInv
  <2>4. QED
    BY Zenon, <2>1, <2>2, <2>3
<1>12. CASE FinishEffect
  <2>1. /\ rp.pc = "finish" /\ rp'.at = rp.at /\ rp'.copy = rp.copy
        /\ UNCHANGED archived /\ Same
    BY Zenon, <1>12 DEF FinishEffect, RpIs
  <2>2. rp.at < rp.copy /\ rp.copy \in DOMAIN table
    BY <2>1 DEF CopyInv, Copying
  <2>3. Present = (DOMAIN table \cup {rp.at}) \ {rp.copy}
    BY <2>1 DEF Present, Copying
  <2>4. CASE rp.saved = {}
    <3>1. UNCHANGED table /\ ~Copying'
      BY <1>12, <2>4 DEF FinishEffect, RpIs, Copying
    <3>2. \A m \in Present : m \in Present' \/ \E k \in Present' : m < k
      BY Zenon, <1>3, <2>2, <2>3, <3>1
    <3>3. QED
      BY Zenon, <2>1, <3>1, <3>2, OnceKept
  <2>5. CASE rp.saved # {}
    <3>1. Adds(table, table', rp.copy, Finished(rp.saved)) /\ rp'.pc = "rename"
      BY <1>12, <2>5 DEF FinishEffect, RpIs
    <3>2. Finished(rp.saved).state = "good"
      BY DEF Finished
    <3>3. Present' = (DOMAIN table' \cup {rp.at}) \ {rp.copy}
      BY <2>1, <3>1 DEF Present, Copying
    <3>4. Present \subseteq Present'
      BY Zenon, <2>3, <3>1, <3>3 DEF Adds
    <3>5. \A m \in DOMAIN table' :
            table'[m].state = "good" \/ (m \in DOMAIN table /\ table'[m] = table[m])
      BY Zenon, <3>1, <3>2 DEF Adds
    <3>6. QED
      BY Zenon, <2>1, <3>4, <3>5, OnceKept
  <2>6. QED
    BY Zenon, <2>4, <2>5
<1>13. CASE RenameEffect
  <2>1. /\ rp.pc = "rename" /\ ~Copying' /\ UNCHANGED archived /\ Same
        /\ DOMAIN table' = (DOMAIN table \ {rp.copy}) \cup {rp.at}
        /\ table'[rp.at] = table[rp.copy]
        /\ \A x \in DOMAIN table \ {rp.copy, rp.at} : table'[x] = table[x]
    BY SMTT(30), <1>13 DEF RenameEffect, RpIs, Copying
  <2>2. table[rp.copy].state = "good"
    BY SMTT(30), <2>1 DEF CopyInv, Copying
  <2>3. Present = (DOMAIN table \cup {rp.at}) \ {rp.copy}
    BY <2>1 DEF Present, Copying
  <2>4. Present \subseteq Present'
    BY Zenon, <1>3, <2>1, <2>3
  <2>5. \A m \in DOMAIN table' :
          table'[m].state = "good" \/ (m \in DOMAIN table /\ table'[m] = table[m])
    BY Zenon, <2>1, <2>2
  <2>6. QED
    BY Zenon, <2>1, <2>4, <2>5, OnceKept
<1>14. CASE DescriptorEffect
  <2>1. ~Copying /\ ~Copying' /\ UNCHANGED <<archived, table>> /\ (Same \/ Faulted)
    BY <1>14 DEF DescriptorEffect, RpIs, Copying
  <2>2. QED
    BY Zenon, <1>1, <1>2, <1>3, <2>1, OnceKept
<1>15. CASE EndEffect
  <2>1. /\ UNCHANGED <<archived, table>> /\ rp'.pc = "idle" /\ ~Copying'
        /\ faults' = faults \/ Faulted
    BY <1>15 DEF EndEffect, Copying, Same
  <2>2. CASE Faulted
    BY Zenon, <1>1, <2>2
  <2>3. CASE faults' = faults
    <3>1. SUFFICES ASSUME faults = 0 PROVE OnceInv'
      BY Zenon, <2>3 DEF OnceInv
    <3>2. lost' = lost /\ log' = log /\ replaced' = replaced /\ table' = table
      BY Zenon, <2>1 DEF archived
    <3>3. ASSUME NEW m \in Present PROVE \E k \in Present' : m <= k
      <4>1. Present' = DOMAIN table /\ DOMAIN table \in SUBSET Nat
        BY Zenon, <1>3, <2>1, <3>2 DEF TypeOK
      <4>2. CASE m \in DOMAIN table
        <5>1. m <= m
          BY <4>1, <4>2
        <5>2. QED
          BY Zenon, <4>1, <4>2, <5>1
      <4>3. CASE m \notin DOMAIN table
        <5>1. m = rp.at /\ rp.pc \in {"finish", "rename"}
          BY <4>3 DEF Present
        <5>2. rp.at < rp.copy /\ rp.copy \in DOMAIN table
          BY SMTT(30), <5>1 DEF CopyInv, Copying
        <5>3. m <= rp.copy
          BY <5>1, <5>2, RepairerFields
        <5>4. QED
          BY Zenon, <4>1, <5>2, <5>3
      <4>4. QED
        BY Zenon, <4>2, <4>3
    <3>4. ASSUME NEW n \in Nat, <<"table", n>> \in DOMAIN lost
          PROVE  \E k \in Present' : n <= k
      <4>1. PICK m \in Present : n <= m
        BY Zenon, <3>1, <3>4 DEF OnceInv
      <4>2. PICK k \in Present' : m <= k
        BY Zenon, <3>3
      <4>3. m \in Nat /\ k \in Nat
        BY Zenon, PresentNat
      <4>4. n <= k
        BY <4>1, <4>2, <4>3
      <4>5. QED
        BY Zenon, <4>4
    <3>5. QED
      BY Zenon, <3>1, <3>2, <3>4 DEF OnceInv
  <2>4. QED
    BY Zenon, <2>1, <2>2, <2>3
<1>16. CASE \/ (\E n \in rp.logs : OpenFailsEffect(n)) \/ BuildFailsEffect \/ RepairFailsEffect
            \/ \E n \in rp.numbers : SizeFailsEffect(n) \/ CopyFailsEffect(n)
  BY Zenon, <1>1, <1>16 DEF OpenFailsEffect, BuildFailsEffect, RepairFailsEffect,
                      SizeFailsEffect, CopyFailsEffect
<1>17. CASE UNCHANGED vars
  BY Zenon, <1>17 DEF OnceInv, Present, Copying, vars, disk, archive
<1>18. QED
  BY Zenon, <1>5, <1>6, <1>7, <1>8, <1>9, <1>10, <1>11, <1>12, <1>13, <1>14, <1>15, <1>16,
     <1>17 DEF Step

-----------------------------------------------------------------------------
(* Nothing is destroyed.                                                   *)

\* The write can be read in the directory or in lost/.
Readable(w) ==
  \/ \E n \in DOMAIN log : w \in log[n]
  \/ \E n \in DOMAIN table : w \in table[n].writes
  \/ \E k \in DOMAIN lost : w \in lost[k]

\* NothingGone, write by write
LEMMA GoneReadable ==
  /\ NothingGone <=> \A w \in salvageable : Readable(w)
  /\ NothingGone' <=> \A w \in salvageable' : Readable(w)'
BY Zenon DEF NothingGone, Readable, Kept, Writes

\* A step that takes nothing out of the directory or out of lost/
LEMMA ReadableKept ==
  ASSUME NEW w, Readable(w), UNCHANGED archived,
         \A n \in DOMAIN table : w \in table[n].writes =>
           \/ n \in DOMAIN table' /\ w \in table'[n].writes
           \/ Readable(w)'
  PROVE  Readable(w)'
BY Zenon DEF Readable, archived

\* What could be read at first is settled, and no fault, no exposure and no
\* replacement in lost/ is forgotten.
LEMMA HistoryStep ==
  ASSUME Step
  PROVE  /\ salvageable' = salvageable /\ (replaced => replaced')
         /\ (exposed => exposed') /\ (faults' = 0 => faults = 0)
<1>1. /\ Same \/ Faulted =>
           salvageable' = salvageable /\ (exposed => exposed') /\ (faults' = 0 => faults = 0)
      /\ UNCHANGED archived => (replaced => replaced')
  <2>1. ASSUME Same
        PROVE  salvageable' = salvageable /\ (exposed => exposed') /\ faults' = faults
    BY Zenon, <2>1 DEF Same
  <2>2. ASSUME Faulted
        PROVE  salvageable' = salvageable /\ (exposed => exposed') /\ faults' # 0
    BY Zenon, <2>2 DEF Faulted
  <2>3. UNCHANGED archived => (replaced => replaced')
    BY Zenon DEF archived
  <2>4. QED
    BY Zenon, <2>1, <2>2, <2>3
<1>2. ASSUME NEW k, NEW n, NEW v, Archives(k, n, v) PROVE replaced => replaced'
  BY Zenon, <1>2 DEF Archives
<1>3. CASE FindEffect
  BY Zenon, <1>1, <1>3 DEF FindEffect
<1>4. CASE \E n \in rp.logs : ConvertEffect(n) \/ OpenFailsEffect(n)
  BY Zenon, <1>1, <1>4 DEF ConvertEffect, OpenFailsEffect
<1>5. CASE BuiltEffect
  BY Zenon, <1>1, <1>5 DEF BuiltEffect
<1>6. CASE BuildFailsEffect
  BY Zenon, <1>1, <1>6 DEF BuildFailsEffect
<1>7. CASE ArchiveLogEffect
  BY Zenon, <1>1, <1>2, <1>7 DEF ArchiveLogEffect
<1>8. CASE \E n \in rp.numbers : KeepEffect(n) \/ CopyEffect(n)
  BY Zenon, <1>1, <1>8 DEF KeepEffect, CopyEffect
<1>9. CASE \E n \in rp.numbers : SizeFailsEffect(n) \/ CopyFailsEffect(n)
  BY Zenon, <1>1, <1>2, <1>9 DEF SizeFailsEffect, CopyFailsEffect
<1>10. CASE ArchiveSourceEffect
  BY Zenon, <1>1, <1>2, <1>10 DEF ArchiveSourceEffect
<1>11. CASE FinishEffect
  BY Zenon, <1>1, <1>11 DEF FinishEffect
<1>12. CASE RenameEffect
  BY Zenon, <1>1, <1>12 DEF RenameEffect
<1>13. CASE RepairFailsEffect
  BY Zenon, <1>1, <1>13 DEF RepairFailsEffect
<1>14. CASE DescriptorEffect
  BY Zenon, <1>1, <1>14 DEF DescriptorEffect
<1>15. CASE EndEffect
  <2>1. UNCHANGED archived /\ UNCHANGED salvageable
    BY Zenon, <1>15 DEF EndEffect
  <2>2. (exposed => exposed') /\ (faults' = 0 => faults = 0)
    BY Zenon, <1>1, <1>15 DEF EndEffect
  <2>3. QED
    BY Zenon, <1>1, <2>1, <2>2
<1>16. CASE UNCHANGED vars
  BY Zenon, <1>16 DEF vars, disk, archive
<1>17. QED
  BY Zenon, <1>3, <1>4, <1>5, <1>6, <1>7, <1>8, <1>9, <1>10, <1>11, <1>12, <1>13,
     <1>14, <1>15, <1>16 DEF Step

\* While no archived file is replaced, what could be read can be read.
LEMMA GoneStep ==
  ASSUME TypeOK, FreshInv, WorkInv, CopyInv, GoneInv, Step
  PROVE  GoneInv'
<1>1. SUFFICES ASSUME ~replaced', ~replaced, NEW w \in salvageable, Readable(w),
                      salvageable' = salvageable
               PROVE  Readable(w)'
  <2>1. salvageable' = salvageable /\ (replaced => replaced')
    BY Zenon, HistoryStep
  <2>2. QED
    BY Zenon, <2>1, GoneReadable DEF GoneInv
<1>2. CASE UNCHANGED <<archived, table>>
  BY Zenon, <1>1, <1>2, ReadableKept
<1>3. CASE \/ FindEffect \/ (\E n \in rp.logs : OpenFailsEffect(n)) \/ DescriptorEffect
           \/ EndEffect
           \/ \E n \in rp.numbers : KeepEffect(n) \/ CopyFailsEffect(n)
  BY Zenon, <1>2, <1>3 DEF FindEffect, OpenFailsEffect, KeepEffect, CopyFailsEffect,
                     DescriptorEffect, EndEffect
<1>4. ASSUME Active, UNCHANGED archived, Adds(table, table', rp.next, NewTable)
      PROVE  Readable(w)'
  <2>1. rp.next \notin DOMAIN table
    BY <1>4, RepairerFields DEF FreshInv
  <2>2. QED
    BY Zenon, <1>1, <1>4, <2>1, ReadableKept DEF Adds
<1>5. ASSUME NEW n \in rp.logs, ConvertEffect(n) PROVE Readable(w)'
  <2>1. Active
    BY <1>5 DEF ConvertEffect, Active
  <2>2. QED
    BY Zenon, <1>2, <1>4, <1>5, <2>1 DEF ConvertEffect
<1>6. ASSUME NEW n \in rp.numbers, CopyEffect(n) PROVE Readable(w)'
  <2>1. Active
    BY <1>6 DEF CopyEffect, Active
  <2>2. QED
    BY Zenon, <1>4, <1>6, <2>1 DEF CopyEffect
<1>7. ASSUME NEW n, Partial(n) PROVE w \notin table[n].writes
  BY Zenon, <1>7, TableFields DEF Partial, WellFormed
<1>8. CASE BuiltEffect
  <2>1. CASE log[rp.at] = {}
    BY Zenon, <1>2, <1>8, <2>1 DEF BuiltEffect
  <2>2. CASE log[rp.at] # {}
    <3>1. Partial(rp.copy)
      BY SMTT(30), <1>8, <2>2 DEF BuiltEffect, WorkInv, Active
    <3>2. QED
      BY Zenon, <1>1, <1>7, <1>8, <2>2, <3>1, ReadableKept DEF BuiltEffect, Adds
  <2>3. QED
    BY Zenon, <2>1, <2>2
<1>9. CASE BuildFailsEffect
  <2>1. Partial(rp.copy)
    BY <1>9 DEF BuildFailsEffect, WorkInv, Active
  <2>2. QED
    BY Zenon, <1>1, <1>7, <1>9, <2>1, ReadableKept DEF BuildFailsEffect, Loses
<1>10. CASE ArchiveLogEffect
  <2>1. CASE UNCHANGED archived
    BY Zenon, <1>2, <1>10, <2>1 DEF ArchiveLogEffect
  <2>2. CASE Loses(log, log', rp.at) /\ Archives("log", rp.at, log[rp.at])
    <3>1. UNCHANGED table /\ <<"log", rp.at>> \notin DOMAIN lost
      BY Zenon, <1>1, <1>10, <2>2 DEF ArchiveLogEffect, Archives
    <3>2. QED
      BY Zenon, <1>1, <2>2, <3>1 DEF Readable, Loses, Archives, Adds
  <2>3. QED
    BY Zenon, <1>10, <2>1, <2>2 DEF ArchiveLogEffect
<1>11. ASSUME NEW n, UNCHANGED log, Loses(table, table', n),
              Archives("table", n, table[n].writes)
       PROVE  Readable(w)'
  <2>1. <<"table", n>> \notin DOMAIN lost
    BY Zenon, <1>1, <1>11 DEF Archives
  <2>2. QED
    BY Zenon, <1>1, <1>11, <2>1 DEF Readable, Loses, Archives, Adds
<1>12. CASE \E n \in rp.numbers : SizeFailsEffect(n)
  BY Zenon, <1>11, <1>12 DEF SizeFailsEffect
<1>13. CASE ArchiveSourceEffect
  BY Zenon, <1>2, <1>11, <1>13 DEF ArchiveSourceEffect
<1>14. CASE FinishEffect
  <2>1. CASE rp.saved = {}
    BY Zenon, <1>2, <1>14, <2>1 DEF FinishEffect
  <2>2. CASE rp.saved # {}
    <3>1. Partial(rp.copy)
      BY SMTT(30), <1>14, <2>2 DEF FinishEffect, CopyInv, Copying, Partial
    <3>2. QED
      BY Zenon, <1>1, <1>7, <1>14, <2>2, <3>1, ReadableKept DEF FinishEffect, Adds
  <2>3. QED
    BY Zenon, <2>1, <2>2
<1>15. CASE RenameEffect
  <2>1. /\ rp.copy \in DOMAIN table /\ table[rp.copy] = Finished(rp.saved)
        /\ rp.at \in DOMAIN table => table[rp.at].writes = rp.saved
    BY SMTT(30), <1>15 DEF RenameEffect, CopyInv, Copying, Finished
  <2>2. Finished(rp.saved).writes = rp.saved
    BY DEF Finished
  <2>3. /\ UNCHANGED archived /\ DOMAIN table' = (DOMAIN table \ {rp.copy}) \cup {rp.at}
        /\ table'[rp.at] = table[rp.copy]
        /\ \A x \in DOMAIN table \ {rp.copy, rp.at} : table'[x] = table[x]
    BY Zenon, <1>15 DEF RenameEffect
  <2>4. w \in rp.saved => Readable(w)'
    BY ZenonT(60), <2>1, <2>2, <2>3 DEF Readable
  <2>5. ASSUME NEW n \in DOMAIN table, w \in table[n].writes
        PROVE  (n \in DOMAIN table' /\ w \in table'[n].writes) \/ Readable(w)'
    <3>1. CASE n \in {rp.copy, rp.at}
      BY Zenon, <2>1, <2>2, <2>4, <2>5, <3>1
    <3>2. CASE n \notin {rp.copy, rp.at}
      BY Zenon, <2>3, <2>5, <3>2
    <3>3. QED
      BY Zenon, <3>1, <3>2
  <2>6. QED
    BY Zenon, <1>1, <2>3, <2>5, ReadableKept
<1>16. CASE RepairFailsEffect
  <2>1. /\ UNCHANGED archived /\ Loses(table, table', rp.copy)
        /\ rp.pc \in {"finish", "rename"}
    BY Zenon, <1>16 DEF RepairFailsEffect
  <2>2. /\ rp.at < rp.copy
        /\ Partial(rp.copy) \/ table[rp.copy] = Finished(rp.saved)
        /\ IF rp.at \in DOMAIN table THEN table[rp.at].writes = rp.saved
           ELSE <<"table", rp.at>> \in DOMAIN lost /\ lost[<<"table", rp.at>>] = rp.saved
    BY SMTT(30), <2>1 DEF CopyInv, Copying, Partial, Finished
  <2>3. rp.at # rp.copy /\ Finished(rp.saved).writes = rp.saved
    BY SMTT(30), <2>2, RepairerFields DEF Finished
  <2>4. w \in table[rp.copy].writes => w \in rp.saved
    BY Zenon, <1>7, <2>2, <2>3
  <2>5. w \in rp.saved => Readable(w)'
    <3>1. CASE rp.at \in DOMAIN table
      BY Zenon, <2>1, <2>2, <2>3, <3>1 DEF Readable, Loses
    <3>2. CASE rp.at \notin DOMAIN table
      BY Zenon, <2>1, <2>2, <3>2 DEF Readable, archived
    <3>3. QED
      BY Zenon, <3>1, <3>2
  <2>6. ASSUME NEW n \in DOMAIN table, w \in table[n].writes
        PROVE  (n \in DOMAIN table' /\ w \in table'[n].writes) \/ Readable(w)'
    BY Zenon, <2>1, <2>4, <2>5, <2>6 DEF Loses
  <2>7. QED
    BY Zenon, <1>1, <2>1, <2>6, ReadableKept
<1>17. CASE UNCHANGED vars
  BY Zenon, <1>2, <1>17 DEF vars, disk, archive, archived
<1>18. QED
  BY Zenon, <1>3, <1>5, <1>6, <1>8, <1>9, <1>10, <1>12, <1>13, <1>14, <1>15, <1>16, <1>17
     DEF Step

-----------------------------------------------------------------------------
(* Nothing is missing.                                                     *)

\* A step that takes no write out of the directory
LEMMA StoredKept ==
  ASSUME AllStored, UNCHANGED <<log, salvageable>>, rp.pc # "finish",
         \A n \in DOMAIN table : \A w \in table[n].writes :
           n \in DOMAIN table' /\ w \in table'[n].writes
  PROVE  AllStored'
BY Zenon DEF AllStored, Stored

\* A table more, with a new number or in place of one that held nothing
LEMMA StoredGrows ==
  ASSUME AllStored, UNCHANGED <<log, salvageable>>, rp.pc # "finish",
         NEW n, NEW t, Adds(table, table', n, t),
         n \in DOMAIN table => table[n].writes = {}
  PROVE  AllStored'
<1>1. \A x \in DOMAIN table : \A w \in table[x].writes :
        x \in DOMAIN table' /\ w \in table'[x].writes
  BY Zenon DEF Adds
<1>2. QED
  BY Zenon, <1>1, StoredKept

\* While nothing fails and no repair is killed at the wrong moment, every write
\* stays in the directory and in the repair's lists.
LEMMA DataStep ==
  ASSUME TypeOK, FreshInv, WorkInv, CopyInv, DataInv, Step
  PROVE  DataInv'
<1>1. SUFFICES ASSUME faults' = 0, ~exposed', ~Faulted, UNCHANGED salvageable,
                      AllStored, LogsPending, LogBuilt, SourceAway, TablesPending
               PROVE  /\ AllStored' /\ LogsPending' /\ LogBuilt' /\ SourceAway'
                      /\ TablesPending'
  BY Zenon, HistoryStep DEF DataInv, Faulted
<1>2. ASSUME Active PROVE rp.next \notin DOMAIN table
  BY SMTT(30), <1>2, RepairerFields DEF FreshInv
<1>3. NewTable.writes = {} /\ \A w : Finished(w).writes = w
  BY DEF NewTable, Finished
<1>4. ASSUME rp'.pc \notin {"finish", "rename", "archive_log"} PROVE LogBuilt' /\ SourceAway'
  BY Zenon, <1>4 DEF LogBuilt, SourceAway
<1>5. CASE FindEffect
  <2>1. /\ rp.pc # "finish" /\ rp'.pc = "logs" /\ rp'.logs = DOMAIN log
        /\ rp'.numbers = DOMAIN table /\ log' = log /\ table' = table
    BY <1>5 DEF FindEffect, RpIs, archived
  <2>2. AllStored'
    BY Zenon, <1>1, <2>1, StoredKept
  <2>3. LogsPending' /\ TablesPending'
    BY Zenon, <2>1 DEF LogsPending, TablesPending
  <2>4. LogBuilt' /\ SourceAway'
    BY <1>4, <2>1
  <2>5. QED
    BY Zenon, <2>2, <2>3, <2>4
<1>6. ASSUME NEW n \in rp.logs, ConvertEffect(n)
      PROVE  AllStored' /\ LogsPending' /\ LogBuilt' /\ SourceAway' /\ TablesPending'
  <2>1. /\ rp.pc = "logs" /\ rp'.pc = "build" /\ rp'.logs = rp.logs \ {n} /\ rp'.at = n
        /\ rp'.numbers = rp.numbers /\ rp'.tables = rp.tables /\ log' = log
    BY Zenon, <1>6 DEF ConvertEffect, RpIs, archived
  <2>2. /\ rp.pc # "finish" /\ Active /\ rp.pc \notin {"build", "archive_log", "copy", "rename"}
        /\ rp'.pc \in {"build", "archive_log"}
    BY <2>1 DEF Active
  <2>3. Adds(table, table', rp.next, NewTable) \/ table' = table
    BY Zenon, <1>6 DEF ConvertEffect
  <2>4. AllStored'
    BY Zenon, <1>1, <1>2, <2>1, <2>2, <2>3, StoredKept, StoredGrows
  <2>5. LogsPending'
    BY Zenon, <1>1, <2>1, <2>2 DEF LogsPending
  <2>6. TablesPending'
    BY ZenonT(60), <1>1, <1>3, <2>1, <2>2, <2>3 DEF TablesPending, Adds
  <2>7. LogBuilt' /\ SourceAway'
    BY <1>4, <2>1
  <2>8. QED
    BY Zenon, <2>4, <2>5, <2>6, <2>7
<1>7. CASE BuiltEffect
  <2>1. /\ rp.pc = "build" /\ rp'.pc = "archive_log" /\ rp'.logs = rp.logs
        /\ rp'.at = rp.at /\ rp'.copy = rp.copy /\ rp'.tables = rp.tables /\ log' = log
        /\ rp'.numbers = IF log[rp.at] = {} THEN rp.numbers ELSE rp.numbers \cup {rp.copy}
    BY Zenon, <1>7 DEF BuiltEffect, RpIs, archived
  <2>2. /\ rp.pc # "finish" /\ Active /\ rp.pc \notin {"copy", "rename"}
        /\ rp'.pc \in {"build", "archive_log"} /\ rp'.pc \notin {"finish", "rename"}
    BY <2>1 DEF Active
  <2>3. SourceAway'
    BY Zenon, <2>2 DEF SourceAway
  <2>4. LogsPending'
    BY Zenon, <1>1, <2>1, <2>2 DEF LogsPending
  <2>5. CASE log[rp.at] = {}
    <3>1. table' = table
      BY Zenon, <1>7, <2>5 DEF BuiltEffect
    <3>2. AllStored'
      BY Zenon, <1>1, <2>1, <2>2, <3>1, StoredKept
    <3>3. LogBuilt'
      BY Zenon, <2>1, <2>5 DEF LogBuilt
    <3>4. TablesPending'
      BY Zenon, <1>1, <2>1, <2>2, <2>5, <3>1 DEF TablesPending
    <3>5. QED
      BY Zenon, <2>3, <2>4, <3>2, <3>3, <3>4
  <2>6. CASE log[rp.at] # {}
    <3>1. Adds(table, table', rp.copy, Finished(log[rp.at]))
      BY Zenon, <1>7, <2>6 DEF BuiltEffect
    <3>2. Partial(rp.copy)
      BY SMTT(30), <2>1, <2>6 DEF WorkInv, Active
    <3>3. table[rp.copy].writes = {}
      BY Zenon, <3>2, TableFields DEF Partial, WellFormed
    <3>4. AllStored'
      BY Zenon, <1>1, <2>1, <2>2, <3>1, <3>3, StoredGrows
    <3>5. LogBuilt'
      <4>1. rp.copy \in DOMAIN table' /\ table'[rp.copy].writes = log[rp.at]
        BY Zenon, <1>3, <3>1 DEF Adds
      <4>2. QED
        BY Zenon, <2>1, <4>1 DEF LogBuilt
    <3>6. rp.copy \in rp'.numbers /\ rp.numbers \subseteq rp'.numbers
      BY Zenon, <2>1, <2>6
    <3>7. TablesPending'
      BY Zenon, <1>1, <2>1, <2>2, <3>1, <3>6 DEF TablesPending, Adds
    <3>8. QED
      BY Zenon, <2>3, <2>4, <3>4, <3>5, <3>7
  <2>7. QED
    BY Zenon, <2>5, <2>6
<1>8. CASE ArchiveLogEffect
  <2>1. /\ rp.pc = "archive_log" /\ rp'.pc = "logs" /\ rp'.logs = rp.logs
        /\ rp'.numbers = rp.numbers /\ rp'.tables = rp.tables /\ table' = table
        /\ Loses(log, log', rp.at)
    BY Zenon, <1>1, <1>8 DEF ArchiveLogEffect, RpIs
  <2>2. /\ rp.pc \notin {"finish", "copy", "rename"} /\ Active
    BY <2>1 DEF Active
  <2>3. rp.at \in DOMAIN log
    BY <2>1 DEF WorkInv, Active
  <2>4. AllStored'
    <3>1. ASSUME NEW w \in salvageable PROVE Stored(w)'
      <4>1. Stored(w)
        BY Zenon, <1>1 DEF AllStored
      <4>2. w \in log[rp.at] => \E n \in DOMAIN table : w \in table[n].writes
        BY Zenon, <1>1, <2>1 DEF LogBuilt
      <4>3. \/ \E n \in DOMAIN log : n # rp.at /\ w \in log[n]
            \/ \E n \in DOMAIN table : w \in table[n].writes
        BY Zenon, <2>2, <4>1, <4>2 DEF Stored
      <4>4. QED
        BY Zenon, <2>1, <4>3 DEF Stored, Loses
    <3>2. QED
      BY Zenon, <1>1, <3>1 DEF AllStored
  <2>5. LogsPending'
    BY Zenon, <1>1, <2>1, <2>2 DEF LogsPending, Loses
  <2>6. TablesPending'
    BY Zenon, <1>1, <2>1, <2>2 DEF TablesPending
  <2>7. LogBuilt' /\ SourceAway'
    BY <1>4, <2>1
  <2>8. QED
    BY Zenon, <2>4, <2>5, <2>6, <2>7
<1>9. ASSUME NEW n \in rp.numbers, KeepEffect(n)
      PROVE  AllStored' /\ LogsPending' /\ LogBuilt' /\ SourceAway' /\ TablesPending'
  <2>1. /\ rp.pc = "logs" /\ rp'.pc = "logs" /\ rp'.logs = rp.logs
        /\ rp'.numbers = rp.numbers \ {n} /\ DOMAIN rp'.tables = DOMAIN rp.tables \cup {n}
        /\ log' = log /\ table' = table
    BY Zenon, <1>9 DEF KeepEffect, RpIs, archived, Adds
  <2>2. rp.pc \notin {"finish", "copy", "rename", "build", "archive_log"} /\ Active
    BY <2>1 DEF Active
  <2>3. AllStored'
    BY Zenon, <1>1, <2>1, <2>2, StoredKept
  <2>4. LogsPending'
    BY Zenon, <1>1, <2>1, <2>2 DEF LogsPending
  <2>5. TablesPending'
    BY Zenon, <1>1, <2>1, <2>2 DEF TablesPending
  <2>6. LogBuilt' /\ SourceAway'
    BY SMTT(30), <1>4, <2>1
  <2>7. QED
    BY Zenon, <2>3, <2>4, <2>5, <2>6
<1>10. ASSUME NEW n \in rp.numbers, CopyEffect(n)
       PROVE  AllStored' /\ LogsPending' /\ LogBuilt' /\ SourceAway' /\ TablesPending'
  <2>1. /\ rp.pc = "logs" /\ rp'.pc = "copy" /\ rp'.logs = rp.logs /\ rp'.at = n
        /\ rp'.numbers = rp.numbers \ {n} /\ rp'.tables = rp.tables
        /\ log' = log /\ Adds(table, table', rp.next, NewTable)
    BY Zenon, <1>10 DEF CopyEffect, RpIs, archived
  <2>2. rp.pc \notin {"finish", "copy", "rename", "build", "archive_log"} /\ Active
    BY <2>1 DEF Active
  <2>3. AllStored'
    BY Zenon, <1>1, <1>2, <2>1, <2>2, StoredGrows
  <2>4. LogsPending'
    BY Zenon, <1>1, <2>1, <2>2 DEF LogsPending
  <2>5. TablesPending'
    BY Zenon, <1>1, <1>3, <2>1, <2>2 DEF TablesPending, Adds
  <2>6. LogBuilt' /\ SourceAway'
    BY <1>4, <2>1
  <2>7. QED
    BY Zenon, <2>3, <2>4, <2>5, <2>6
<1>11. CASE ArchiveSourceEffect
  <2>1. /\ rp.pc = "copy" /\ rp'.pc = "finish" /\ rp'.logs = rp.logs /\ rp'.at = rp.at
        /\ rp'.numbers = rp.numbers /\ rp'.tables = rp.tables
        /\ rp'.saved = table[rp.at].writes
        /\ log' = log /\ Loses(table, table', rp.at)
    BY Zenon, <1>1, <1>11 DEF ArchiveSourceEffect, RpIs
  <2>2. rp.pc \notin {"finish", "rename", "build", "archive_log"} /\ Active
    BY <2>1 DEF Active
  <2>3. ASSUME NEW w \in salvageable PROVE Stored(w)'
    <3>1. Stored(w)
      BY Zenon, <1>1 DEF AllStored
    <3>2. QED
      BY Zenon, <2>1, <2>2, <3>1 DEF Stored, Loses
  <2>4. AllStored'
    BY Zenon, <1>1, <2>3 DEF AllStored
  <2>5. LogsPending'
    BY Zenon, <1>1, <2>1, <2>2 DEF LogsPending
  <2>6. TablesPending'
    BY Zenon, <1>1, <2>1, <2>2 DEF TablesPending, Loses
  <2>7. SourceAway'
    BY Zenon, <2>1 DEF SourceAway, Loses
  <2>8. LogBuilt'
    BY <2>1 DEF LogBuilt
  <2>9. QED
    BY Zenon, <2>4, <2>5, <2>6, <2>7, <2>8
<1>12. CASE FinishEffect
  <2>1. /\ rp.pc = "finish" /\ rp'.logs = rp.logs /\ rp'.at = rp.at /\ rp'.copy = rp.copy
        /\ rp'.numbers = rp.numbers /\ rp'.tables = rp.tables /\ log' = log
        /\ rp'.pc = IF rp.saved = {} THEN "logs" ELSE "rename"
    BY Zenon, <1>12 DEF FinishEffect, RpIs, archived
  <2>2. /\ rp.pc \notin {"copy", "rename", "build", "archive_log"} /\ Active
        /\ rp.pc \in {"finish", "rename"} /\ rp'.pc # "archive_log"
    BY <2>1 DEF Active
  <2>3. LogsPending' /\ LogBuilt'
    BY Zenon, <1>1, <2>1, <2>2 DEF LogsPending, LogBuilt
  <2>4. CASE rp.saved = {}
    <3>1. table' = table /\ rp'.pc = "logs"
      BY Zenon, <1>12, <2>1, <2>4 DEF FinishEffect
    <3>2. AllStored'
      BY Zenon, <1>1, <2>1, <2>4, <3>1 DEF AllStored, Stored
    <3>3. TablesPending'
      BY Zenon, <1>1, <2>1, <2>2, <3>1 DEF TablesPending
    <3>4. SourceAway'
      BY SMTT(30), <3>1 DEF SourceAway
    <3>5. QED
      BY Zenon, <2>3, <3>2, <3>3, <3>4
  <2>5. CASE rp.saved # {}
    <3>1. Adds(table, table', rp.copy, Finished(rp.saved)) /\ rp'.pc = "rename"
      BY Zenon, <1>12, <2>1, <2>5 DEF FinishEffect
    <3>2. Partial(rp.copy) /\ rp.at < rp.copy
      BY SMTT(30), <2>1 DEF CopyInv, Copying, Partial
    <3>3. table[rp.copy].writes = {} /\ rp.copy \in DOMAIN table
      BY Zenon, <3>2, TableFields DEF Partial, WellFormed
    <3>4. rp.at # rp.copy
      BY <3>2, RepairerFields
    <3>5. ASSUME NEW w \in salvageable PROVE Stored(w)'
      <4>1. Stored(w)
        BY Zenon, <1>1 DEF AllStored
      <4>2. CASE w \in rp.saved
        <5>1. rp.copy \in DOMAIN table' /\ table'[rp.copy].writes = rp.saved
          BY Zenon, <1>3, <3>1 DEF Adds
        <5>2. QED
          BY Zenon, <4>2, <5>1 DEF Stored
      <4>3. CASE w \notin rp.saved
        BY Zenon, <2>1, <3>1, <3>3, <4>1, <4>3 DEF Stored, Adds
      <4>4. QED
        BY Zenon, <4>2, <4>3
    <3>6. AllStored'
      BY Zenon, <1>1, <3>5 DEF AllStored
    <3>7. TablesPending'
      BY Zenon, <1>1, <2>1, <2>2, <3>1 DEF TablesPending, Adds
    <3>8. SourceAway'
      BY Zenon, <1>1, <2>1, <2>2, <3>1, <3>4 DEF SourceAway, Adds
    <3>9. QED
      BY Zenon, <2>3, <3>6, <3>7, <3>8
  <2>6. QED
    BY Zenon, <2>4, <2>5
<1>13. CASE RenameEffect
  <2>1. /\ rp.pc = "rename" /\ rp'.pc = "logs" /\ rp'.logs = rp.logs
        /\ rp'.numbers = rp.numbers /\ DOMAIN rp'.tables = DOMAIN rp.tables \cup {rp.at}
        /\ DOMAIN table' = (DOMAIN table \ {rp.copy}) \cup {rp.at}
        /\ table'[rp.at] = table[rp.copy]
        /\ \A x \in DOMAIN table \ {rp.copy, rp.at} : table'[x] = table[x]
        /\ log' = log
    BY Zenon, <1>13 DEF RenameEffect, RpIs, archived, Adds
  <2>2. /\ rp.pc \notin {"finish", "copy", "build", "archive_log"} /\ Active
        /\ rp.pc \in {"finish", "rename"}
    BY <2>1 DEF Active
  <2>3. rp.at \notin DOMAIN table
    BY Zenon, <1>1, <2>2 DEF SourceAway
  <2>4. ASSUME NEW w \in salvageable PROVE Stored(w)'
    <3>1. \/ \E n \in DOMAIN log : w \in log[n]
          \/ \E n \in DOMAIN table : w \in table[n].writes
      BY Zenon, <1>1, <2>2 DEF AllStored, Stored
    <3>2. CASE \E n \in DOMAIN log : w \in log[n]
      BY Zenon, <2>1, <3>2 DEF Stored
    <3>3. ASSUME NEW n \in DOMAIN table, w \in table[n].writes PROVE Stored(w)'
      <4>1. CASE n = rp.copy
        BY Zenon, <2>1, <3>3, <4>1 DEF Stored
      <4>2. CASE n # rp.copy
        <5>1. n \in DOMAIN table' /\ table'[n] = table[n]
          BY Zenon, <2>1, <2>3, <3>3, <4>2
        <5>2. QED
          BY Zenon, <3>3, <5>1 DEF Stored
      <4>3. QED
        BY Zenon, <4>1, <4>2
    <3>4. QED
      BY Zenon, <3>1, <3>2, <3>3
  <2>5. AllStored'
    BY Zenon, <1>1, <2>4 DEF AllStored
  <2>6. LogsPending'
    BY Zenon, <1>1, <2>1, <2>2 DEF LogsPending
  <2>7. TablesPending'
    <3>1. ASSUME NEW n \in DOMAIN table', n # rp.at
          PROVE  table'[n].writes = {} \/ n \in rp'.numbers \/ n \in DOMAIN rp'.tables
      BY Zenon, <1>1, <2>1, <2>2, <3>1 DEF TablesPending
    <3>2. QED
      BY Zenon, <2>1, <3>1 DEF TablesPending
  <2>8. LogBuilt' /\ SourceAway'
    BY SMTT(30), <1>4, <2>1
  <2>9. QED
    BY Zenon, <2>5, <2>6, <2>7, <2>8
<1>14. CASE DescriptorEffect
  <2>1. /\ rp.pc \in {"logs", "manifests"} /\ rp'.pc \in {"manifests", "current"}
        /\ rp'.logs = rp.logs /\ rp'.numbers = rp.numbers /\ rp'.tables = rp.tables
        /\ log' = log /\ table' = table
    BY Zenon, <1>14 DEF DescriptorEffect, RpIs, archived
  <2>2. /\ rp.pc \notin {"finish", "copy", "rename", "build", "archive_log"} /\ Active
        /\ rp'.pc \notin {"finish", "rename", "archive_log"}
    BY SMTT(30), <2>1 DEF Active
  <2>3. AllStored'
    BY Zenon, <1>1, <2>1, <2>2, StoredKept
  <2>4. LogsPending'
    BY Zenon, <1>1, <2>1, <2>2 DEF LogsPending
  <2>5. TablesPending'
    BY Zenon, <1>1, <2>1, <2>2 DEF TablesPending
  <2>6. QED
    BY Zenon, <1>4, <2>2, <2>3, <2>4, <2>5
<1>15. CASE EndEffect
  <2>1. Active /\ rp'.pc = "idle" /\ log' = log /\ table' = table
    BY Zenon, <1>15 DEF EndEffect, archived
  <2>2. rp.pc = "finish" => rp.saved = {}
    <3>1. \/ rp.pc = "current"
          \/ ~(rp.pc = "finish" /\ rp.at \notin DOMAIN table /\ rp.saved # {})
      BY Zenon, <1>1, <1>15 DEF EndEffect
    <3>2. rp.pc = "finish" => rp.at \notin DOMAIN table /\ rp.pc # "current"
      BY <1>1 DEF SourceAway
    <3>3. QED
      BY Zenon, <3>1, <3>2
  <2>3. ASSUME NEW w \in salvageable PROVE Stored(w)'
    BY Zenon, <1>1, <2>1, <2>2 DEF AllStored, Stored
  <2>4. AllStored'
    BY Zenon, <1>1, <2>3 DEF AllStored
  <2>5. LogsPending' /\ TablesPending'
    BY Zenon, <2>1 DEF LogsPending, TablesPending, Active
  <2>6. LogBuilt' /\ SourceAway'
    BY <1>4, <2>1
  <2>7. QED
    BY Zenon, <2>4, <2>5, <2>6
<1>16. CASE \/ (\E n \in rp.logs : OpenFailsEffect(n)) \/ BuildFailsEffect \/ RepairFailsEffect
            \/ \E n \in rp.numbers : SizeFailsEffect(n) \/ CopyFailsEffect(n)
  BY Zenon, <1>1, <1>16 DEF OpenFailsEffect, BuildFailsEffect, RepairFailsEffect,
                      SizeFailsEffect, CopyFailsEffect
<1>17. CASE UNCHANGED vars
  <2>1. UNCHANGED <<rp, log, table, salvageable>>
    BY Zenon, <1>17 DEF vars, disk
  <2>2. AllStored' /\ LogBuilt' /\ SourceAway'
    BY Zenon, <1>1, <2>1 DEF AllStored, Stored, LogBuilt, SourceAway
  <2>3. LogsPending' /\ TablesPending'
    BY Zenon, <1>1, <2>1 DEF LogsPending, TablesPending, Active
  <2>4. QED
    BY Zenon, <2>2, <2>3
<1>18. QED
  BY Zenon, <1>5, <1>6, <1>7, <1>8, <1>9, <1>10, <1>11, <1>12, <1>13, <1>14, <1>15, <1>16,
     <1>17 DEF Step

-----------------------------------------------------------------------------
(* A repair that returned OK.                                              *)

\* The descriptor lists the tables that were kept.
LEMMA DescriptorFields ==
  /\ Descriptor.files = DOMAIN rp.tables /\ Descriptor.next = rp.next
  /\ Descriptor.last = Largest({rp.tables[n] : n \in DOMAIN rp.tables})
BY SMTT(30) DEF Descriptor

\* The writes of some of the tables
LEMMA WritesOf ==
  ASSUME NEW S, NEW w
  PROVE  /\ w \in Writes(Restrict(table, S)) <=> \E n \in S : w \in table[n].writes
         /\ w \in Writes(Restrict(table', S)) <=> \E n \in S : w \in table'[n].writes
BY Zenon DEF Writes, Restrict

\* RepairDB has returned OK only by SetCurrentFile, and then nothing happens.
LEMMA DoneCases ==
  ASSUME Step, Done'
  PROVE  \/ UNCHANGED vars
         \/ /\ rp.pc = "current" /\ current' = 1
            /\ UNCHANGED <<log, table, manifest, salvageable, faults, exposed>>
<1>1. rp'.pc = "idle" /\ rp'.status = "ok"
  BY Zenon DEF Done
<1>2. ~(\/ FindEffect \/ BuiltEffect \/ BuildFailsEffect \/ ArchiveLogEffect
        \/ \E n \in rp.logs : ConvertEffect(n) \/ OpenFailsEffect(n))
  BY SMTT(30), <1>1 DEF FindEffect, ConvertEffect, OpenFailsEffect, BuiltEffect, BuildFailsEffect,
              ArchiveLogEffect, RpIs
<1>3. ~(\E n \in rp.numbers :
          KeepEffect(n) \/ CopyEffect(n) \/ SizeFailsEffect(n) \/ CopyFailsEffect(n))
  BY SMTT(30), <1>1 DEF KeepEffect, CopyEffect, SizeFailsEffect, CopyFailsEffect, RpIs
<1>4. ~(ArchiveSourceEffect \/ FinishEffect \/ RenameEffect \/ RepairFailsEffect)
  BY SMTT(30), <1>1 DEF ArchiveSourceEffect, FinishEffect, RenameEffect, RepairFailsEffect, RpIs
<1>5. ~DescriptorEffect
  BY <1>1 DEF DescriptorEffect
<1>6. CASE EndEffect
  <2>1. UNCHANGED <<log, table, manifest>>
    BY Zenon, <1>6 DEF EndEffect, archived
  <2>2. rp.pc = "current" /\ current' = 1 /\ Same
    BY <1>1, <1>6 DEF EndEffect
  <2>3. QED
    BY Zenon, <2>1, <2>2 DEF Same
<1>7. QED
  BY Zenon, <1>2, <1>3, <1>4, <1>5, <1>6 DEF Step

\* The descriptor of a repair that returned OK can be opened.
LEMMA OpensStep ==
  ASSUME TypeOK, FreshInv, ListInv, ManifestInv, RepairedOpens, Step
  PROVE  RepairedOpens'
<1>1. SUFFICES ASSUME Done' PROVE RepairedOpens'
  BY Zenon DEF RepairedOpens
<1>2. CASE UNCHANGED vars
  BY Zenon, <1>2 DEF RepairedOpens, Done, vars, disk
<1>3. CASE /\ rp.pc = "current" /\ current' = 1
           /\ UNCHANGED <<log, table, manifest, salvageable, faults, exposed>>
  <2>1. /\ 1 \in DOMAIN manifest /\ manifest[1] = Descriptor /\ Active
        /\ current' = 1 /\ log' = log /\ table' = table /\ manifest' = manifest
    BY <1>3 DEF ManifestInv, Active
  <2>2. /\ \A n \in DOMAIN rp.tables : n \in DOMAIN table /\ table[n].state = "good"
        /\ \A n \in DOMAIN table \cup DOMAIN log : n < rp.next
    BY Zenon, <2>1 DEF ListInv, FreshInv
  <2>. DEFINE S == {rp.tables[n] : n \in DOMAIN rp.tables}
  <2>3. S \in SUBSET Nat /\ Bounded(S)
    <3>1. \A n \in DOMAIN rp.tables : rp.tables[n] \in Nat
      BY RepairerFields DEF Listing
    <3>2. QED
      BY Zenon, <3>1 DEF TypeOK
  <2>4. Largest(S) \in Nat /\ \A x \in S : x <= Largest(S)
    BY Zenon, <2>3, LargestOf
  <2>. HIDE DEF S
  <2>5. ASSUME NEW w \in Writes(Restrict(table, DOMAIN rp.tables)) PROVE w <= Largest(S)
    <3>1. PICK n \in DOMAIN rp.tables : w \in table[n].writes
      BY Zenon, WritesOf
    <3>2. w \in Nat
      BY Zenon, <2>2, <3>1, TableFields
    <3>3. w <= rp.tables[n] /\ rp.tables[n] \in S
      BY Zenon, <2>1, <3>1 DEF ListInv, S
    <3>4. rp.tables[n] \in Nat /\ rp.tables[n] <= Largest(S)
      BY Zenon, <2>3, <2>4, <3>3
    <3>5. QED
      BY <2>4, <3>2, <3>3, <3>4
  <2>6. QED
    BY Zenon, <2>1, <2>2, <2>5, DescriptorFields DEF RepairedOpens, S
<1>4. QED
  BY Zenon, <1>1, <1>2, <1>3, DoneCases

\* A repair that returned OK kept everything that could be read at first.
LEMMA KeepsStep ==
  ASSUME TypeOK, WorkInv, ManifestInv, DataInv, RepairKeepsData, Step
  PROVE  RepairKeepsData'
<1>1. SUFFICES ASSUME Done', faults' = 0, ~exposed' PROVE RepairKeepsData'
  BY Zenon DEF RepairKeepsData
<1>2. CASE UNCHANGED vars
  BY Zenon, <1>2 DEF RepairKeepsData, Done, vars, disk
<1>3. CASE /\ rp.pc = "current" /\ current' = 1
           /\ UNCHANGED <<log, table, manifest, salvageable, faults, exposed>>
  <2>1. manifest[1] = Descriptor /\ Active /\ rp.logs = {} /\ rp.numbers = {}
    BY SMTT(30), <1>3 DEF ManifestInv, WorkInv, Active
  <2>2. rp.pc \notin {"build", "archive_log", "copy", "finish", "rename"}
    BY <1>3
  <2>3. AllStored /\ LogsPending /\ TablesPending
    BY Zenon, <1>1, <1>3 DEF DataInv
  <2>4. DOMAIN log = {}
    BY Zenon, <2>1, <2>2, <2>3 DEF LogsPending
  <2>5. ASSUME NEW w \in salvageable
        PROVE  w \in Writes(Restrict(table', DOMAIN rp.tables))
    <3>1. PICK n \in DOMAIN table : w \in table[n].writes
      BY Zenon, <2>2, <2>3, <2>4 DEF AllStored, Stored
    <3>2. n \in DOMAIN rp.tables
      BY Zenon, <2>1, <2>2, <2>3, <3>1 DEF TablesPending
    <3>3. QED
      BY Zenon, <1>3, <3>1, <3>2, WritesOf
  <2>6. QED
    BY Zenon, <1>3, <2>1, <2>5, DescriptorFields DEF RepairKeepsData
<1>4. QED
  BY Zenon, <1>1, <1>2, <1>3, DoneCases

-----------------------------------------------------------------------------
(* The theorems.                                                           *)

\* What a repair finds is well formed.
LEMMA InitTables ==
  ASSUME Init
  PROVE  /\ DOMAIN table = DOMAIN Tables /\ DOMAIN table \subseteq Nat
         /\ Bounded(DOMAIN table)
         /\ table \in [DOMAIN table -> [writes : SUBSET Nat, state : States]]
         /\ \A n \in DOMAIN table : WellFormed(table[n])
<1>1. PICK s \in [DOMAIN Tables -> {"good", "damaged", "partial"}] :
        table = [n \in DOMAIN Tables |->
                  [writes |-> IF s[n] = "partial" THEN {} ELSE Tables[n], state |-> s[n]]]
  BY Zenon DEF Init
<1>2. /\ DOMAIN table = DOMAIN Tables /\ DOMAIN table \in SUBSET Nat
      /\ IsFiniteSet(DOMAIN table)
  BY Zenon, <1>1, RepairAssumption
<1>3. ASSUME NEW n \in DOMAIN Tables
      PROVE  /\ Tables[n] \in SUBSET Nat /\ Tables[n] # {} /\ Bounded(Tables[n])
             /\ Bounded({})
  <2>1. Tables[n] \in SUBSET Nat /\ Tables[n] # {} /\ IsFiniteSet(Tables[n])
    BY Zenon, RepairAssumption
  <2>2. 0 \in Nat
    OBVIOUS
  <2>3. QED
    BY Zenon, <2>1, <2>2, FiniteIsBounded DEF Bounded
<1>4. ASSUME NEW n \in DOMAIN Tables
      PROVE  table[n] \in [writes : SUBSET Nat, state : States] /\ WellFormed(table[n])
  <2>. DEFINE v == IF s[n] = "partial" THEN {} ELSE Tables[n]
  <2>1. table[n] = [writes |-> v, state |-> s[n]]
    BY Zenon, <1>1
  <2>2. /\ v \in SUBSET Nat /\ Bounded(v) /\ s[n] \in {"good", "damaged", "partial"}
        /\ s[n] = "good" => v # {}
        /\ s[n] = "partial" => v = {}
    <3>1. CASE s[n] = "partial"
      BY <1>3, <3>1
    <3>2. CASE s[n] # "partial"
      BY SMTT(30), <1>3, <3>2
    <3>3. QED
      BY Zenon, <3>1, <3>2
  <2>. HIDE DEF v
  <2>3. table[n].writes = v /\ table[n].state = s[n]
    BY <2>1
  <2>4. table[n] \in [writes : SUBSET Nat, state : States]
    BY <2>1, <2>2 DEF States
  <2>5. QED
    BY Zenon, <2>2, <2>3, <2>4 DEF WellFormed
<1>5. table \in [DOMAIN table -> [writes : SUBSET Nat, state : States]]
  BY Zenon, <1>1, <1>2, <1>4
<1>6. QED
  BY Zenon, <1>2, <1>4, <1>5, FiniteIsBounded

\* The directory that RepairDB is called on satisfies the invariant.
LEMMA InitInv ==
  ASSUME Init
  PROVE  IInv
<1>1. /\ log = Logs /\ manifest = [n \in Manifests |-> Old] /\ tmp = FALSE
      /\ lost = Restrict([n \in {<<"log", 0>>} |-> {}], {}) /\ replaced = FALSE
      /\ rp = Idle("none") /\ faults = 0 /\ crashes = 0 /\ exposed = FALSE
      /\ salvageable =
           UNION ({log[n] : n \in DOMAIN log} \cup {table[n].writes : n \in DOMAIN table})
  BY Zenon DEF Init
<1>2. /\ rp \in Repairer /\ rp.pc = "idle" /\ rp.status = "none"
      /\ Bounded({rp.tables[n] : n \in DOMAIN rp.tables})
  BY Zenon, <1>1, IdleFields
<1>3. TypeOK
  <2>1. DOMAIN manifest \subseteq Nat
    BY Zenon, <1>1, RepairAssumption
  <2>2. tmp \in BOOLEAN /\ replaced \in BOOLEAN /\ exposed \in BOOLEAN
    BY Zenon, <1>1
  <2>3. faults \in Nat /\ crashes \in Nat
    BY <1>1
  <2>4. QED
    BY Zenon, <1>1, <1>2, <2>1, <2>2, <2>3, InitTables DEF TypeOK
<1>4. ~Active /\ ~Copying /\ rp.pc # "current" /\ ~Done
  BY <1>2 DEF Active, Copying, Done
<1>5. FreshInv /\ WorkInv /\ CopyInv /\ ListInv /\ ManifestInv
  BY Zenon, <1>4 DEF FreshInv, WorkInv, CopyInv, ListInv, ManifestInv
<1>6. OnceInv
  <2>1. DOMAIN lost = {}
    BY Zenon, <1>1 DEF Restrict
  <2>2. QED
    BY Zenon, <1>1, <2>1 DEF OnceInv
<1>7. ASSUME NEW w \in salvageable
      PROVE  \/ \E n \in DOMAIN log : w \in log[n]
             \/ \E n \in DOMAIN table : w \in table[n].writes
  BY Zenon, <1>1
<1>8. GoneInv
  BY Zenon, <1>7, GoneReadable DEF GoneInv, Readable
<1>9. DataInv
  <2>1. AllStored
    BY Zenon, <1>7 DEF AllStored, Stored
  <2>2. LogsPending /\ TablesPending
    BY Zenon, <1>4 DEF LogsPending, TablesPending
  <2>3. LogBuilt /\ SourceAway
    BY <1>2 DEF LogBuilt, SourceAway
  <2>4. QED
    BY Zenon, <2>1, <2>2, <2>3 DEF DataInv
<1>10. RepairedOpens /\ RepairKeepsData
  BY Zenon, <1>4 DEF RepairedOpens, RepairKeepsData
<1>11. QED
  BY Zenon, <1>3, <1>5, <1>6, <1>8, <1>9, <1>10 DEF IInv

\* Every step keeps the invariant.
LEMMA InvStep ==
  ASSUME IInv, [Next]_vars
  PROVE  IInv'
<1>1. Step
  BY Zenon, StepCases DEF IInv
<1>2. TypeOK'
  BY Zenon, TypeStep DEF IInv
<1>3. FreshInv' /\ WorkInv' /\ CopyInv' /\ ListInv' /\ ManifestInv'
  BY Zenon, <1>1, FreshStep, WorkStep, CopyStep, ListStep, ManifestStep DEF IInv
<1>4. OnceInv' /\ GoneInv' /\ DataInv'
  BY Zenon, <1>1, <1>2, OnceStep, GoneStep, DataStep DEF IInv
<1>5. RepairedOpens' /\ RepairKeepsData'
  BY Zenon, <1>1, OpensStep, KeepsStep DEF IInv
<1>6. QED
  BY Zenon, <1>2, <1>3, <1>4, <1>5 DEF IInv

\* The invariant holds in every repair of every directory.
LEMMA Invariant == Spec => []IInv
<1>1. Init => IInv
  BY Zenon, InitInv
<1>2. IInv /\ [Next]_vars => IInv'
  BY Zenon, InvStep
<1>3. QED
  BY <1>1, <1>2, PTL DEF Spec

\* RepairDB destroys nothing that could be read, however often it fails or is
\* killed, as long as no archived file is replaced by another of its name; and none
\* is while no file operation fails.
THEOREM DestroysNothing == Spec => []NothingDestroyed
<1>1. IInv => NothingDestroyed
  BY Zenon DEF IInv, OnceInv, GoneInv, NothingDestroyed
<1>2. QED
  BY <1>1, Invariant, PTL

\* The descriptor that RepairDB leaves when it returns OK names readable tables
\* only, and its counters are above everything in the directory, after any kills
\* and failures.
THEOREM Opens == Spec => []RepairedOpens
<1>1. IInv => RepairedOpens
  BY Zenon DEF IInv
<1>2. QED
  BY <1>1, Invariant, PTL

\* RepairDB that returned OK lists everything that could be read at first, unless a
\* file operation failed or a kill hit between ArchiveFile and the builder's Finish.
THEOREM KeepsData == Spec => []RepairKeepsData
<1>1. IInv => RepairKeepsData
  BY Zenon DEF IInv
<1>2. QED
  BY <1>1, Invariant, PTL
=============================================================================
