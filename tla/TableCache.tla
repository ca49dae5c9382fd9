----------------------------- MODULE TableCache -----------------------------
(***************************************************************************)
(* The LRU cache (util/cache.cc) as the table cache uses it                *)
(* (db/table_cache.cc), with the limits on memory maps and file            *)
(* descriptors of the environment (util/env_posix.cc).  Threads find       *)
(* tables, use them through a handle and release it, while entries are     *)
(* erased and pruned.                                                      *)
(*                                                                         *)
(* One action is one critical section of the cache, or one operation on an *)
(* atomic counter of a Limiter.  Keys of the cache are table numbers; the  *)
(* hash table is a function, and the shards of the cache, which never      *)
(* interact, are one.  An entry is known by its address; addresses are     *)
(* used again once they are freed.                                         *)
(***************************************************************************)
EXTENDS Integers, Sequences, FiniteSets, SequencesExt

CONSTANTS
  Threads,
  Tables,      \* table numbers
  Addresses,   \* where entries are allocated, positive integers
  Capacities,  \* values of capacity_ to consider
  MaxMmaps,    \* MaxMmaps()
  MaxFds       \* MaxOpenFiles()

Nil == 0

ASSUME CacheAssumption ==
  /\ Addresses \subseteq Nat \ {Nil}
  /\ Capacities \subseteq Nat
  /\ MaxMmaps \in Nat /\ MaxFds \in Nat

VARIABLES
  capacity,  \* capacity_
  c,         \* the cache, and the counters its deleter changes
  thread     \* thread[t]: what the thread is doing

vars == <<capacity, c, thread>>

\* entries[a]: the LRUHandle at a, Free if there is none.  held says which limit
\* its file counts against.
Free == [table |-> Nil, refs |-> 0, in_cache |-> FALSE, held |-> "none"]

Allocated == {a \in Addresses : c.entries[a] # Free}

\* The locals of FindTable and its callers; old: the name with .sst is tried.
Idle == [pc |-> "idle", table |-> Nil, handle |-> Nil, held |-> "none", old |-> FALSE]

-----------------------------------------------------------------------------
(* The operations of LRUCache, as functions of the cache *)

Drop(list, a) == SelectSeq(list, LAMBDA b : b # a)

\* The destructors of PosixMmapReadableFile and PosixRandomAccessFile
GiveBack(cc, held) ==
  IF held = "none" THEN cc ELSE [cc EXCEPT !.allowed[held] = @ + 1]

\* Mutant: a cached entry that is used again stays in lru_.
RefKeepsInLru(cc, a) == [cc EXCEPT !.entries[a].refs = @ + 1, !.in_use = @ \cup {a}]

Ref(cc, a) ==
  LET e == cc.entries[a]
      moves == e.refs = 1 /\ e.in_cache
  IN [cc EXCEPT !.entries[a].refs = @ + 1,
                !.lru = IF moves THEN Drop(@, a) ELSE @,
                !.in_use = IF moves THEN @ \cup {a} ELSE @]

\* Mutant: an entry that left the cache is freed although it is referenced.
UnrefFreesErased(cc, a) ==
  LET e == cc.entries[a]
  IN IF e.refs = 1 \/ ~e.in_cache
     THEN GiveBack([cc EXCEPT !.entries[a] = Free], e.held)
     ELSE [cc EXCEPT !.entries[a].refs = @ - 1,
                     !.lru = IF e.refs = 2 THEN Append(@, a) ELSE @,
                     !.in_use = IF e.refs = 2 THEN @ \ {a} ELSE @]

\* Unref, with DeleteEntry as the deleter
Unref(cc, a) ==
  LET e == cc.entries[a]
  IN IF e.refs = 1
     THEN GiveBack([cc EXCEPT !.entries[a] = Free], e.held)
     ELSE [cc EXCEPT !.entries[a].refs = @ - 1,
                     !.lru = IF e.in_cache /\ e.refs = 2 THEN Append(@, a) ELSE @,
                     !.in_use = IF e.in_cache /\ e.refs = 2 THEN @ \ {a} ELSE @]

\* FinishErase of what table_.Remove, or table_.Insert, took from the hash table
FinishErase(cc, a) ==
  IF a = Nil THEN cc
  ELSE Unref([cc EXCEPT !.entries[a].in_cache = FALSE,
                        !.lru = Drop(@, a), !.in_use = @ \ {a},
                        !.usage = @ - 1],
             a)

EraseKey(cc, k) == FinishErase([cc EXCEPT !.hash[k] = Nil], cc.hash[k])

\* Mutant: the loop leaves the last of the entries it should erase.
EraseOldestStopsEarly(cc, n) ==
  FoldLeft(LAMBDA d, a : EraseKey(d, d.entries[a].table), cc, SubSeq(cc.lru, 1, n - 1))

\* The loops of Insert and Prune: erase the oldest n entries of lru_.
EraseOldest(cc, n) ==
  FoldLeft(LAMBDA d, a : EraseKey(d, d.entries[a].table), cc, SubSeq(cc.lru, 1, n))

\* Insert, with the new entry at address a.
InsertEntry(cc, a, k, held) ==
  LET cached == capacity > 0
      placed == [cc EXCEPT
        !.entries[a] = [table |-> k, refs |-> IF cached THEN 2 ELSE 1,
                        in_cache |-> cached, held |-> held],
        !.in_use = IF cached THEN @ \cup {a} ELSE @,
        !.usage = IF cached THEN @ + 1 ELSE @,
        !.hash[k] = IF cached THEN a ELSE @]
      replaced == IF cached THEN FinishErase(placed, cc.hash[k]) ELSE placed
      excess == Max({0, replaced.usage - capacity})
  IN EraseOldest(replaced, Min({excess, Len(replaced.lru)}))

-----------------------------------------------------------------------------
(* The steps of FindTable and of its callers *)

\* Lookup; a miss goes on to open the file.
FindTable(t, k) ==
  LET a == c.hash[k]
  IN /\ thread[t] = Idle
     /\ c' = IF a = Nil THEN c ELSE Ref(c, a)
     /\ thread' = [thread EXCEPT ![t] =
          [Idle EXCEPT !.pc = IF a = Nil THEN "mmap" ELSE "use", !.table = k, !.handle = a]]
     /\ UNCHANGED capacity

\* Acquire of mmap_limiter_ or fd_limiter_: the fetch_sub ...
Acquire(t) ==
  LET kind == thread[t].pc
      got == c.allowed[kind] > 0
  IN /\ kind \in {"mmap", "fd"}
     /\ c' = [c EXCEPT !.allowed[kind] = @ - 1]
     /\ thread' = [thread EXCEPT ![t].pc = IF got THEN "open" ELSE "undo_" \o kind,
                                 ![t].held = IF got THEN kind ELSE @]
     /\ UNCHANGED capacity

\* ... and the fetch_add when there was nothing to take.  Without a memory map a
\* file uses a descriptor, without that it is opened for every read.
AcquireFails(t) ==
  /\ thread[t].pc \in {"undo_mmap", "undo_fd"}
  /\ c' = [c EXCEPT !.allowed[IF thread[t].pc = "undo_mmap" THEN "mmap" ELSE "fd"] = @ + 1]
  /\ thread' = [thread EXCEPT ![t].pc = IF @ = "undo_mmap" THEN "fd" ELSE "open"]
  /\ UNCHANGED capacity

\* Mutant: a file that is not a table is dropped without its destructor.
OpenFailsLeaks(t) ==
  /\ thread[t].pc = "open"
  /\ thread' = [thread EXCEPT ![t] = Idle]
  /\ UNCHANGED <<capacity, c>>

\* NewRandomAccessFile fails, in open(2) or in mmap: FindTable tries the old name
\* of the file, and returns the error if that fails too.
FileFails(t) ==
  /\ thread[t].pc = "mmap" \/ (thread[t].pc = "open" /\ thread[t].held = "mmap")
  /\ c' = GiveBack(c, thread[t].held)
  /\ thread' = [thread EXCEPT ![t] =
       IF @.old THEN Idle ELSE [@ EXCEPT !.pc = "mmap", !.held = "none", !.old = TRUE]]
  /\ UNCHANGED capacity

\* Table::Open fails: the file is closed and the error returned.
OpenFails(t) ==
  /\ thread[t].pc = "open"
  /\ c' = GiveBack(c, thread[t].held)
  /\ thread' = [thread EXCEPT ![t] = Idle]
  /\ UNCHANGED capacity

Insert(t) ==
  /\ thread[t].pc = "open"
  /\ \E a \in Addresses \ Allocated :
       /\ \A b \in Addresses \ Allocated : a <= b
       /\ c' = InsertEntry(c, a, thread[t].table, thread[t].held)
       /\ thread' = [thread EXCEPT ![t].pc = "use", ![t].handle = a, ![t].held = "none",
                                   ![t].old = FALSE]
  /\ UNCHANGED capacity

\* The end of TableCache::Get, or UnrefEntry of an iterator.
Release(t) ==
  /\ thread[t].pc = "use"
  /\ c' = Unref(c, thread[t].handle)
  /\ thread' = [thread EXCEPT ![t] = Idle]
  /\ UNCHANGED capacity

\* Erase, which Evict calls.
Erase(k) ==
  /\ c' = EraseKey(c, k)
  /\ UNCHANGED <<capacity, thread>>

Prune ==
  /\ c' = EraseOldest(c, Len(c.lru))
  /\ UNCHANGED <<capacity, thread>>

Init ==
  /\ capacity \in Capacities
  /\ c = [entries |-> [a \in Addresses |-> Free], hash |-> [k \in Tables |-> Nil],
          lru |-> << >>, in_use |-> {}, usage |-> 0,
          allowed |-> [mmap |-> MaxMmaps, fd |-> MaxFds]]
  /\ thread = [t \in Threads |-> Idle]

Next ==
  \/ \E t \in Threads, k \in Tables : FindTable(t, k)
  \/ \E t \in Threads : Acquire(t) \/ AcquireFails(t) \/ FileFails(t) \/ OpenFails(t)
                            \/ Insert(t) \/ Release(t)
  \/ \E k \in Tables : Erase(k)
  \/ Prune

Spec == Init /\ [][Next]_vars

-----------------------------------------------------------------------------
(* Properties *)

Holders(a) == {t \in Threads : thread[t].handle = a}
Uses(kind) == Cardinality({a \in Allocated : c.entries[a].held = kind})
              + Cardinality({t \in Threads : thread[t].held = kind})

\* The comments on LRUHandle and LRUCache: references are those of clients and
\* that of the cache, an entry is in the hash table and in exactly one list as
\* long as it is in the cache, in lru_ if nobody uses it and in in_use_ otherwise,
\* and usage_ is what is in the cache.
EntriesExact ==
  /\ \A a \in Allocated :
       LET e == c.entries[a]
       IN /\ e.refs = Cardinality(Holders(a)) + (IF e.in_cache THEN 1 ELSE 0)
          /\ e.in_cache <=> c.hash[e.table] = a
          /\ (a \in ToSet(c.lru)) <=> (e.in_cache /\ e.refs = 1)
          /\ (a \in c.in_use) <=> (e.in_cache /\ e.refs >= 2)
  /\ c.usage = Cardinality({a \in Allocated : c.entries[a].in_cache})
  /\ \A k \in Tables : c.hash[k] # Nil => c.entries[c.hash[k]].table = k
  /\ ToSet(c.lru) \cup c.in_use \subseteq Allocated

\* A handle stays valid until it is released, whatever is inserted, erased,
\* replaced by a thread that missed at the same time, evicted or pruned.
HandlesStayValid ==
  \A t \in Threads : thread[t].pc = "use" =>
    c.entries[thread[t].handle].table = thread[t].table

\* The cache grows beyond capacity_ only by what clients hold at one time,
\* although Release does not evict.
CacheBounded == c.usage <= Max({capacity, Cardinality(Threads)})

\* The counter of a Limiter, the files that count against it and the threads
\* that are about to undo a failed fetch_sub add up to the limit, and no more
\* than that many files are mapped or open: nothing leaks on any path.
LimitsExact ==
  LET Undoing(kind) == Cardinality({t \in Threads : thread[t].pc = "undo_" \o kind})
  IN /\ c.allowed.mmap + Uses("mmap") + Undoing("mmap") = MaxMmaps
     /\ c.allowed.fd + Uses("fd") + Undoing("fd") = MaxFds
     /\ Uses("mmap") <= MaxMmaps /\ Uses("fd") <= MaxFds
=============================================================================
