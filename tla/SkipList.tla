------------------------------- MODULE SkipList -------------------------------
(***************************************************************************)
(* The skip list under a memtable (db/skiplist.h): one writer that inserts *)
(* and a reader that searches and iterates without a lock, over atomics    *)
(* that the writer stores with release or relaxed order and the reader     *)
(* loads with acquire order (relaxed for max_height_).                     *)
(*                                                                         *)
(* Writers are serialised (DBImpl::Write), so all stores form one          *)
(* sequence, log.  What a reader must have seen is a prefix of it, up to   *)
(* index view: a load returns the last store of its location in that       *)
(* prefix or any later one.  A load-acquire of a store-release extends     *)
(* view up to that store.  A location with no store in the prefix may also *)
(* hold Garbage: the arena does not clear memory.  Nodes are their keys.   *)
(***************************************************************************)
EXTENDS Integers, Sequences, FiniteSets, FiniteSetsExt

CONSTANTS
  Keys,        \* keys to insert, a set of positive integers
  MaxHeight,   \* kMaxHeight
  MaxOps       \* bound: operations of the reader

HeadNode == 0
Null == -1
Garbage == -2
Nodes == Keys \cup {HeadNode}
Lvls == 0..MaxHeight - 1

ASSUME SkipListAssumption ==
  /\ Keys \subseteq Nat \ {0} /\ IsFiniteSet(Keys)
  /\ MaxHeight \in Nat \ {0}

\* Locations: next_[l] of a node, its key, and max_height_.
NextOf(n, l) == <<"next", n, l>>
KeyOf(n) == <<"key", n, 0>>
HeightLoc == <<"height", HeadNode, 0>>

VARIABLES
  log,      \* the stores, in order
  inserted, \* keys whose Insert has returned
  synced,   \* length of log when the last Insert returned
  writer,   \* the Insert that is running
  reader    \* an iterator and the operation it is in

vars == <<log, inserted, synced, writer, reader>>

Release(loc, v) == [loc |-> loc, val |-> v, release |-> TRUE]
Relaxed(loc, v) == [loc |-> loc, val |-> v, release |-> FALSE]

StoresTo(loc) == {i \in DOMAIN log : log[i].loc = loc}
Last(loc) == log[Max(StoresTo(loc))].val

-----------------------------------------------------------------------------
(* The writer *)

\* FindGreaterOrEqual as Insert calls it, on what the writer itself stored:
\* the node at which the search leaves each level.
FindPrev(key) ==
  LET Down[n \in Nodes, l \in Lvls] ==
        LET next == Last(NextOf(n, l))
        IN IF next # Null /\ next < key THEN Down[next, l]
           ELSE {<<l, n>>} \cup IF l = 0 THEN {} ELSE Down[n, l - 1]
  IN Down[HeadNode, Last(HeightLoc) - 1]

\* prev[l]; above the height of the list it is head_.
PrevAt(prev, l) ==
  IF \E p \in prev : p[1] = l THEN (CHOOSE p \in prev : p[1] = l)[2] ELSE HeadNode

NoInsert == [key |-> Null, height |-> 0, level |-> 0, prev |-> {}]

\* Insert up to its loop: search, RandomHeight, max_height_, NewNode.
InsertBegins(key, height) ==
  /\ writer = NoInsert
  /\ key \notin inserted
  /\ writer' = [key |-> key, height |-> height, level |-> 0, prev |-> FindPrev(key)]
  /\ log' = log \o (IF height > Last(HeightLoc) THEN <<Relaxed(HeightLoc, height)>> ELSE << >>)
                \o <<Relaxed(KeyOf(key), key)>>
  /\ UNCHANGED <<inserted, synced, reader>>

\* Mutant: the node is published without a barrier.
InsertLinksNoBarrier ==
  LET x == writer.key
      l == writer.level
      p == PrevAt(writer.prev, l)
      last == l + 1 = writer.height
  IN /\ writer # NoInsert
     /\ log' = log \o <<Relaxed(NextOf(x, l), Last(NextOf(p, l))), Relaxed(NextOf(p, l), x)>>
     /\ writer' = IF last THEN NoInsert ELSE [writer EXCEPT !.level = l + 1]
     /\ inserted' = IF last THEN inserted \cup {x} ELSE inserted
     /\ synced' = IF last THEN Len(log') ELSE synced
     /\ UNCHANGED reader

\* One turn of the loop, and the return after the last.
InsertLinks ==
  LET x == writer.key
      l == writer.level
      p == PrevAt(writer.prev, l)
      last == l + 1 = writer.height
  IN /\ writer # NoInsert
     /\ log' = log \o <<Relaxed(NextOf(x, l), Last(NextOf(p, l))), Release(NextOf(p, l), x)>>
     /\ writer' = IF last THEN NoInsert ELSE [writer EXCEPT !.level = l + 1]
     /\ inserted' = IF last THEN inserted \cup {x} ELSE inserted
     /\ synced' = IF last THEN Len(log') ELSE synced
     /\ UNCHANGED reader

-----------------------------------------------------------------------------
(* The reader *)

\* The stores a load of loc may return to a reader with this view; 0 stands for
\* what was in the memory before.
Loadable(loc, view) ==
  LET past == {i \in StoresTo(loc) : i <= view}
  IN IF past = {} THEN {0} \cup StoresTo(loc)
     ELSE {i \in StoresTo(loc) : i >= Max(past)}

ValueAt(i) == IF i = 0 THEN Garbage ELSE log[i].val

Acquired(i, view) == IF i # 0 /\ log[i].release THEN Max({view, i}) ELSE view

\* The key of a node as this reader sees it.
KeySeen(n, view) == ValueAt(Min(Loadable(KeyOf(n), view)))

NoOp == [op |-> "none", target |-> Null, x |-> HeadNode, level |-> 0, node |-> Null,
         from |-> 0, view |-> 0, height |-> 1, done |-> TRUE, ops |-> 0]

\* A thread that has just held mutex_ makes a new iterator.
NewIterator ==
  /\ reader.done
  /\ reader.view < synced
  /\ reader' = [reader EXCEPT !.op = "none", !.node = Null, !.view = synced]
  /\ UNCHANGED <<log, inserted, synced, writer>>

\* Seek, SeekToLast and Prev load max_height_ and search from the head.
Search(op, target) ==
  /\ reader.done
  /\ reader.ops < MaxOps
  /\ \E i \in Loadable(HeightLoc, reader.view) :
       /\ ValueAt(i) >= reader.height
       /\ reader' = [reader EXCEPT
            !.op = op, !.target = target, !.x = HeadNode, !.level = ValueAt(i) - 1,
            !.height = ValueAt(i), !.from = reader.view, !.done = FALSE, !.ops = @ + 1]
  /\ UNCHANGED <<log, inserted, synced, writer>>

Seek(target) == Search("seek", target)
SeekToLast == Search("last", Null)
Prev == reader.node \in Keys /\ Search("prev", reader.node)

\* Mutant: the search stops on the level where it meets the end of the list.
SearchStepStops ==
  \E i \in Loadable(NextOf(reader.x, reader.level), reader.view) :
    LET next == ValueAt(i)
        view == Acquired(i, reader.view)
        ahead == next # Null /\ (reader.op = "last" \/ next < reader.target)
        found == IF reader.op = "seek" THEN next ELSE IF reader.x = HeadNode THEN Null ELSE reader.x
    IN /\ ~reader.done
       /\ reader' = [reader EXCEPT
            !.view = view,
            !.x = IF ahead THEN next ELSE @,
            !.level = IF ahead \/ @ = 0 THEN @ ELSE @ - 1,
            !.done = ~ahead /\ (reader.level = 0 \/ next = Null),
            !.node = IF ~ahead /\ (reader.level = 0 \/ next = Null) THEN found ELSE @]
       /\ UNCHANGED <<log, inserted, synced, writer>>

\* Mutant: the search does not go down to the next list.
SearchStepStays ==
  \E i \in Loadable(NextOf(reader.x, reader.level), reader.view) :
    LET next == ValueAt(i)
        ahead == next # Null /\ (reader.op = "last" \/ next < reader.target)
        found == IF reader.op = "seek" THEN next ELSE IF reader.x = HeadNode THEN Null ELSE reader.x
    IN /\ ~reader.done
       /\ reader' = [reader EXCEPT
            !.view = Acquired(i, reader.view),
            !.x = IF ahead THEN next ELSE @,
            !.done = ~ahead /\ reader.level = 0,
            !.node = IF ~ahead /\ reader.level = 0 THEN found ELSE @]
       /\ UNCHANGED <<log, inserted, synced, writer>>

\* One turn of FindGreaterOrEqual, FindLessThan or FindLast.
SearchStep ==
  \E i \in Loadable(NextOf(reader.x, reader.level), reader.view) :
    LET next == ValueAt(i)
        view == Acquired(i, reader.view)
        key == IF next \in Keys THEN KeySeen(next, view) ELSE next
        ahead == next # Null /\ (reader.op = "last" \/ key < reader.target)
        found == IF reader.op = "seek" THEN next ELSE IF reader.x = HeadNode THEN Null ELSE reader.x
    IN /\ ~reader.done
       /\ reader' = [reader EXCEPT
            !.view = view,
            !.x = IF key = Garbage THEN Garbage ELSE IF ahead THEN next ELSE @,
            !.level = IF ahead \/ @ = 0 THEN @ ELSE @ - 1,
            !.done = key = Garbage \/ (~ahead /\ reader.level = 0),
            !.node = IF key # Garbage /\ ~ahead /\ reader.level = 0 THEN found ELSE @]
       /\ UNCHANGED <<log, inserted, synced, writer>>

\* Next and SeekToFirst load one link.
Step(op, from) ==
  \E i \in Loadable(NextOf(from, 0), reader.view) :
    /\ reader.done
    /\ reader.ops < MaxOps
    /\ reader' = [reader EXCEPT
         !.op = op, !.target = from, !.x = IF ValueAt(i) = Garbage THEN Garbage ELSE HeadNode,
         !.node = ValueAt(i), !.view = Acquired(i, @), !.from = reader.view, !.ops = @ + 1]
    /\ UNCHANGED <<log, inserted, synced, writer>>

SeekToFirst == Step("next", HeadNode)
NextNode == reader.node \in Keys /\ Step("next", reader.node)

-----------------------------------------------------------------------------
(* The specification *)

\* The constructor clears the links of the head.
Init ==
  /\ log = [l \in 1..MaxHeight |-> Release(NextOf(HeadNode, l - 1), Null)]
           \o <<Relaxed(HeightLoc, 1)>>
  /\ inserted = {}
  /\ synced = Len(log)
  /\ writer = NoInsert
  /\ reader = [NoOp EXCEPT !.view = Len(log)]

Next ==
  \/ \E key \in Keys, height \in 1..MaxHeight : InsertBegins(key, height)
  \/ InsertLinks
  \/ NewIterator
  \/ \E target \in Keys : Seek(target)
  \/ SeekToLast
  \/ Prev
  \/ SearchStep
  \/ SeekToFirst
  \/ NextNode

\* A thread in a search goes on with it.
Spec == Init /\ [][Next]_vars /\ WF_vars(SearchStep)

-----------------------------------------------------------------------------
(* Properties *)

\* A search never follows a link, or compares a key, that the reader may see
\* uninitialised: the release stores of Insert publish a node, with the links
\* up to that level, before it can be reached ("observes a fully initialized
\* version").
NoGarbage == reader.x # Garbage /\ reader.node # Garbage

\* The keys a reader with this view must find.
MustSee(view) ==
  {k \in Keys : \E i \in 1..view : log[i].loc[1] = "next" /\ log[i].loc[3] = 0 /\ log[i].val = k}

\* An operation that returned skipped no key that its reader had to see when it
\* began, and went in the right direction, however the inserts in between and
\* stale values of max_height_ and of the links mix.
SearchFindsAll ==
  LET n == reader.node
      t == reader.target
      must == MustSee(reader.from)
  IN reader.done /\ reader.op # "none" /\ NoGarbage =>
       CASE reader.op = "seek" -> /\ n # Null => n >= t
                                  /\ \A k \in must : k >= t => n # Null /\ n <= k
         [] reader.op = "next" -> /\ n # Null => n > t
                                  /\ \A k \in must : k > t => n # Null /\ n <= k
         [] reader.op = "prev" -> /\ n < t
                                  /\ \A k \in must : k < t => n >= k
         [] reader.op = "last" -> \A k \in must : n >= k

\* Every search ends: no interleaving with Insert makes it run in circles.
SearchReturns == ~reader.done ~> reader.done
=============================================================================
