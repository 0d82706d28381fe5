-------------------------------- MODULE SkipList --------------------------------
(***************************************************************************)
(* The skip list of the memtable (db/skiplist.h, db/memtable.cc): one      *)
(* writer inserts while readers search without a lock.                     *)
(*                                                                         *)
(* Memory is that of C++ atomics: log has the writer's stores in order.  A *)
(* release store carries everything stored before it, so what a reader has *)
(* acquired is known by one number, seen: of each link it may read the     *)
(* last store up to seen or any later one.  max_height_ is relaxed: any    *)
(* value it ever had may be read.                                          *)
(***************************************************************************)
EXTENDS Integers, Sequences, FiniteSets, FiniteSetsExt

CONSTANTS
  MaxKey,      \* keys are 1..MaxKey
  kMaxHeight,
  MaxOps,      \* bound: operations of the reader
  None

Keys == 1..MaxKey
Head_ == 0             \* head_
Nil == MaxKey + 1      \* nullptr, after all keys
Garbage == -1          \* an uninitialised link
Levels == 0..kMaxHeight - 1

(* An Insert under way. *)
Insertion ==
  [key : Keys, height : 1..kMaxHeight, prev : UNION {[0..h - 1 -> 0..MaxKey] : h \in 1..kMaxHeight},
   level : Levels, linked : BOOLEAN]

SkipListAssumption ==
  MaxKey \in Nat /\ kMaxHeight \in Nat \ {0} /\ MaxOps \in Nat /\ None \notin Insertion

VARIABLES
  log,         \* stores to links: [node, level, value]
  max_height_,
  writer,      \* Insert: None, or [key, height, prev, level, linked]
  inserted,    \* keys whose Insert has returned
  reader,      \* an iterator: [node, op, target, x, level, seen, from]
  ops

vars == <<log, max_height_, writer, inserted, reader, ops>>

StoresTo(node, level) == {i \in DOMAIN log : log[i].node = node /\ log[i].level = level}
ValueAt(node, level, i) ==
  IF i = 0 THEN IF node = Head_ THEN Nil ELSE Garbage ELSE log[i].value
(* What the writer, who stored it, reads. *)
Link(node, level) == ValueAt(node, level, Max({0} \cup StoresTo(node, level)))

Init ==
  /\ log = <<>>
  /\ max_height_ = 1
  /\ writer = None
  /\ inserted = {}
  /\ reader = [node |-> Nil, op |-> "idle", target |-> 0, x |-> Head_, level |-> 0, seen |-> 0,
               from |-> {}]
  /\ ops = 0

-------------------------------------------------------------------------------
(* Insert, by the one writer. *)

(* FindGreaterOrEqual's prev[level].  Links lead to greater keys, and a node
   is on all levels below its highest (WellLinked): it does not matter that
   the code enters a level at the node where it left the one above. *)
Prev(key, level) ==
  LET walk[x \in 0..MaxKey] ==
        IF Link(x, level) \in x + 1..key - 1 THEN walk[Link(x, level)] ELSE x
  IN walk[Head_]

(* A new maximum is stored before the node is linked. *)
BeginInsert(key, height) ==
  /\ writer = None /\ key \notin inserted
  /\ writer' = [key |-> key, height |-> height,
                prev |-> [l \in 0..height - 1 |->
                            IF l < max_height_ THEN Prev(key, l) ELSE Head_],
                level |-> 0, linked |-> FALSE]
  /\ max_height_' = Max({max_height_, height})
  /\ UNCHANGED <<log, inserted, reader, ops>>

Store(node, level, value) == log' = Append(log, [node |-> node, level |-> level, value |-> value])

(* Level by level the node's own link first. *)
SetOwnLink ==     \* x->NoBarrier_SetNext(i, prev[i]->NoBarrier_Next(i))
  /\ writer # None /\ ~writer.linked
  /\ Store(writer.key, writer.level, Link(writer.prev[writer.level], writer.level))
  /\ writer' = [writer EXCEPT !.linked = TRUE]
  /\ UNCHANGED <<max_height_, inserted, reader, ops>>

Publish ==        \* prev[i]->SetNext(i, x)
  /\ writer # None /\ writer.linked
  /\ Store(writer.prev[writer.level], writer.level, writer.key)
  /\ IF writer.level + 1 < writer.height
     THEN /\ writer' = [writer EXCEPT !.level = @ + 1, !.linked = FALSE]
          /\ UNCHANGED inserted
     ELSE /\ writer' = None
          /\ inserted' = inserted \cup {writer.key}
  /\ UNCHANGED <<max_height_, reader, ops>>

-------------------------------------------------------------------------------
(* The reader. *)

(* Keys it must find: those at level 0 in what it has acquired. *)
KnownAt(seen) == {k \in Keys : \E i \in 1..seen : log[i].level = 0 /\ log[i].value = k}

(* An operation starts; when the reader has held the database's mutex in
   between, it has seen all that was inserted. *)
Begin(op, target, x, level, mutex) ==
  /\ reader.op \in {"idle", "ge", "lt"} /\ ops < MaxOps
  /\ ops' = ops + 1
  /\ LET seen == IF mutex THEN Len(log) ELSE reader.seen IN
     reader' = [reader EXCEPT !.op = op, !.target = target, !.x = x, !.level = level,
                              !.seen = seen, !.from = KnownAt(seen)]
  /\ UNCHANGED <<log, max_height_, writer, inserted>>

Heights == 1..max_height_   \* may be stale
Seek(target, mutex) ==
  \E h \in Heights : Begin("searching_ge", target, Head_, h - 1, mutex)
SeekToFirst(mutex) == Begin("searching_ge", 1, Head_, 0, mutex)
SeekToLast(mutex) == \E h \in Heights : Begin("searching_lt", Nil, Head_, h - 1, mutex)
NextEntry == reader.node \in Keys /\ Begin("stepping", reader.node + 1, reader.node, 0, FALSE)
PrevEntry ==
  /\ reader.node \in Keys
  /\ \E h \in Heights : Begin("searching_lt", reader.node, Head_, h - 1, FALSE)

(* An acquire load of a link: which store is read. *)
Readable(node, level) ==
  LET stores == {0} \cup StoresTo(node, level)
      floor == Max({i \in stores : i <= reader.seen})
  IN {i \in stores : i >= floor}
Acquire(i) == Max({reader.seen, i})

KeyIsAfterNode(key, n) == n # Nil /\ n < key

(* The node before, if it is one.  A slip to rule out is to show head_. *)
BeforeOrHead(x) == x
Before(x) == IF x = Head_ THEN Nil ELSE x

(* One turn of the loop of FindGreaterOrEqual, FindLessThan or FindLast. *)
SearchStep ==
  /\ reader.op \in {"searching_ge", "searching_lt"}
  /\ \E i \in Readable(reader.x, reader.level) :
       LET next == ValueAt(reader.x, reader.level, i)
           r == [reader EXCEPT !.seen = Acquire(i)]
       IN reader' =
            IF next = Garbage THEN [r EXCEPT !.op = "garbage"]
            ELSE IF KeyIsAfterNode(reader.target, next) THEN [r EXCEPT !.x = next]
            ELSE IF reader.level > 0 THEN [r EXCEPT !.level = @ - 1]
            ELSE IF reader.op = "searching_ge" THEN [r EXCEPT !.op = "ge", !.node = next]
            ELSE [r EXCEPT !.op = "lt", !.node = Before(r.x)]
  /\ UNCHANGED <<log, max_height_, writer, inserted, ops>>

(* Iterator::Next is one load. *)
StepNext ==
  /\ reader.op = "stepping"
  /\ \E i \in Readable(reader.x, 0) :
       LET next == ValueAt(reader.x, 0, i) IN
       reader' = [reader EXCEPT !.seen = Acquire(i), !.node = next,
                                !.op = IF next = Garbage THEN "garbage" ELSE "ge"]
  /\ UNCHANGED <<log, max_height_, writer, inserted, ops>>

Next ==
  \/ \E key \in Keys, height \in 1..kMaxHeight : BeginInsert(key, height)
  \/ SetOwnLink \/ Publish
  \/ \E target \in Keys, mutex \in BOOLEAN : Seek(target, mutex)
  \/ \E mutex \in BOOLEAN : SeekToFirst(mutex) \/ SeekToLast(mutex)
  \/ NextEntry \/ PrevEntry \/ SearchStep \/ StepNext

Spec == Init /\ [][Next]_vars

-------------------------------------------------------------------------------
(* Properties. *)

(* No reader follows a link that was not initialised. *)
NoGarbage == reader.op # "garbage"

(* Searching forwards finds a key at or after the target and passes over none
   that the reader knew of when it began. *)
GreaterOrEqualIsRight ==
  reader.op = "ge" =>
    /\ reader.node >= reader.target
    /\ \A k \in reader.from : k >= reader.target => reader.node <= k

(* The same backwards; the end is reached only when nothing known is before. *)
LessThanIsRight ==
  reader.op = "lt" =>
    LET node == IF reader.node = Nil THEN Head_ ELSE reader.node IN
    /\ reader.node # Head_ /\ node < reader.target
    /\ \A k \in reader.from : k < reader.target => k <= node

(* Between inserts every level is sorted, level 0 has all keys, and what is on
   a level is on the one below. *)
OnLevel(l) ==
  LET reach[x \in 0..Nil] == IF x = Nil THEN {} ELSE {x} \cup
        (IF Link(x, l) > x THEN reach[Link(x, l)] ELSE {Garbage})
  IN reach[Head_] \ {Head_}
WellLinked ==
  writer = None =>
    /\ OnLevel(0) = inserted
    /\ \A l \in Levels \ {0} : OnLevel(l) \subseteq OnLevel(l - 1)

(* A reader beside a writer, without a lock, sees no uninitialised link and
   misses no key it could know of, and inserts leave the list well linked. *)
ReadersAreSafe ==
  NoGarbage /\ GreaterOrEqualIsRight /\ LessThanIsRight /\ WellLinked
===============================================================================
