------------------------------- MODULE LRUCache -------------------------------
(***************************************************************************)
(* LevelDB's cache (util/cache.cc) and its use for open tables             *)
(* (db/table_cache.cc).  One shard: its hash table with chains, its two    *)
(* lists, reference counts and charges, each operation under the mutex.    *)
(* Several threads look tables up; one that misses opens the file without  *)
(* the mutex and then inserts it, and tables are evicted meanwhile.        *)
(***************************************************************************)
EXTENDS Integers, Sequences, SequencesExt, FiniteSets, FiniteSetsExt

CONSTANTS
  Threads,
  Keys,          \* numbers of tables
  Hash(_),       \* of a key
  Charges,       \* charges of entries; a table's is 1
  capacity,      \* of the whole cache
  kNumShards,
  kInitialLength, \* buckets of a new hash table
  MaxInserts,    \* bound: entries made
  None

LRUCacheAssumption ==
  /\ Keys \subseteq Nat /\ \A k \in Keys : Hash(k) \in Nat
  /\ Charges \subseteq Nat /\ {capacity, MaxInserts} \subseteq Nat
  /\ {kNumShards, kInitialLength} \subseteq Nat \ {0}

VARIABLES
  cache,   \* [handles, lru, in_use, list, length, elems, usage]
  freed,   \* handles passed to their deleter
  thread,  \* what each thread does: [pc, key, handle]
  open     \* the cache was not destroyed

vars == <<cache, freed, thread, open>>

capacity_ == (capacity + kNumShards - 1) \div kNumShards   \* of a shard

Handles == DOMAIN cache.handles
EmptyTable(length) == [b \in 0..(length - 1) |-> <<>>]

-------------------------------------------------------------------------------
(* The hash table: chains of handles. *)

Bucket(c, key) == Hash(key) % c.length
FindPointer(c, key) ==
  SelectInSeq(c.list[Bucket(c, key)], LAMBDA h : c.handles[h].key = key)

LookupInTable(c, key) ==
  LET i == FindPointer(c, key) IN IF i = 0 THEN None ELSE c.list[Bucket(c, key)][i]

(* Resize moves the chains over one by one, each entry to the front. *)
Resize(c, length) ==
  LET moved == FlattenSeq([i \in 1..c.length |-> c.list[i - 1]])
      Into(b) == SelectSeq(moved, LAMBDA h : Hash(c.handles[h].key) % length = b)
  IN [c EXCEPT !.length = length,
               !.list = [b \in 0..(length - 1) |-> Reverse(Into(b))]]

NewLength(elems) ==
  LET Doubled(i) == kInitialLength * 2^i
  IN Doubled(Min({i \in 0..elems : Doubled(i) >= elems}))

(* An entry of the same key is replaced where it is, or the new one comes last. *)
InsertInTable(c, h) ==
  LET key == c.handles[h].key
      b == Bucket(c, key)
      i == FindPointer(c, key)
      d == [c EXCEPT !.list[b] = IF i = 0 THEN Append(@, h) ELSE ReplaceAt(@, i, h),
                     !.elems = IF i = 0 THEN @ + 1 ELSE @]
  IN IF i = 0 /\ d.elems > d.length THEN Resize(d, NewLength(d.elems)) ELSE d

RemoveFromTable(c, key) ==
  LET i == FindPointer(c, key) IN
  IF i = 0 THEN c
  ELSE [c EXCEPT !.list[Bucket(c, key)] = RemoveAt(@, i), !.elems = @ - 1]

-------------------------------------------------------------------------------
(* The lists and the references. *)

LRU_Remove(c, h) ==
  [c EXCEPT !.lru = SelectSeq(@, LAMBDA g : g # h), !.in_use = @ \ {h}]

(* A slip to rule out: an entry in use may be evicted. *)
RefInPlace(c, h) == [c EXCEPT !.handles[h].refs = @ + 1]

Ref(c, h) ==
  LET e == c.handles[h]
      d == IF e.refs = 1 /\ e.in_cache
           THEN [LRU_Remove(c, h) EXCEPT !.in_use = @ \cup {h}] ELSE c
  IN [d EXCEPT !.handles[h].refs = @ + 1]

Unref(c, h) ==
  LET d == [c EXCEPT !.handles[h].refs = @ - 1]
      e == d.handles[h]
  IN IF e.in_cache /\ e.refs = 1
     THEN [LRU_Remove(d, h) EXCEPT !.lru = Append(@, h)] ELSE d

FinishErase(c, h) ==
  IF h = None THEN c
  ELSE Unref([LRU_Remove(c, h) EXCEPT !.handles[h].in_cache = FALSE,
                                      !.usage = @ - c.handles[h].charge], h)

EraseKey(c, key) == FinishErase(RemoveFromTable(c, key), LookupInTable(c, key))

Evict(c) ==
  FoldLeft(LAMBDA d, h : IF d.usage > capacity_ THEN EraseKey(d, d.handles[h].key) ELSE d,
           c, c.lru)

(* References of a new entry: the caller's and the cache's. *)
NewRefs == IF capacity_ > 0 THEN 2 ELSE 1

NewHandle(c, key, charge, h) ==
  [c EXCEPT !.handles = [g \in DOMAIN @ \cup {h} |->
                           IF g = h
                           THEN [key |-> key, charge |-> charge, in_cache |-> capacity_ > 0,
                                 refs |-> NewRefs]
                           ELSE @[g]]]

(* Insert, with the handle that the caller gets. *)
InsertHandle(c, key, charge, h) ==
  LET d == NewHandle(c, key, charge, h) IN
  IF capacity_ = 0 THEN Evict(d)
  ELSE LET e == [d EXCEPT !.in_use = @ \cup {h}, !.usage = @ + charge]
       IN Evict(FinishErase(InsertInTable(e, h), LookupInTable(e, key)))

(* Entries that an operation brought down to no reference go to their
   deleter. *)
Deallocated(c) == {h \in DOMAIN c.handles : c.handles[h].refs = 0}
Install(c) ==
  /\ cache' = c
  /\ freed' = freed \cup Deallocated(c)

-------------------------------------------------------------------------------
Idle == [pc |-> "idle", key |-> None, handle |-> None]
Has(t, h) == [thread EXCEPT ![t] = [pc |-> "has", key |-> None, handle |-> h]]

Init ==
  /\ cache = [handles |-> <<>>, lru |-> <<>>, in_use |-> {}, length |-> kInitialLength,
              list |-> EmptyTable(kInitialLength), elems |-> 0, usage |-> 0]
  /\ freed = {}
  /\ thread = [t \in Threads |-> Idle]
  /\ open = TRUE

(* TableCache::FindTable: a hit, or a miss after which the file is opened. *)
FindTable(t, key) ==
  /\ open /\ thread[t].pc = "idle"
  /\ LET h == LookupInTable(cache, key) IN
     IF h # None THEN Install(Ref(cache, h)) /\ thread' = Has(t, h)
     ELSE /\ thread' = [thread EXCEPT ![t] = [pc |-> "opening", key |-> key, handle |-> None]]
          /\ UNCHANGED <<cache, freed>>
  /\ UNCHANGED open

TableOpened(t, charge) ==
  /\ thread[t].pc = "opening"
  /\ Cardinality(Handles) < MaxInserts
  /\ LET h == Cardinality(Handles) + 1 IN
     /\ Install(InsertHandle(cache, thread[t].key, charge, h))
     /\ thread' = Has(t, h)
  /\ UNCHANGED open

TableNotOpened(t) ==
  /\ thread[t].pc = "opening"
  /\ thread' = [thread EXCEPT ![t] = Idle]
  /\ UNCHANGED <<cache, freed, open>>

(* The end of a Get or of an iterator. *)
Release(t) ==
  /\ thread[t].pc = "has"
  /\ Install(Unref(cache, thread[t].handle))
  /\ thread' = [thread EXCEPT ![t] = Idle]
  /\ UNCHANGED open

(* TableCache::Evict, for a file that is deleted. *)
Erase(key) ==
  /\ open
  /\ Install(EraseKey(cache, key))
  /\ UNCHANGED <<thread, open>>

Prune ==
  /\ open
  /\ Install(FoldLeft(LAMBDA c, h : EraseKey(c, c.handles[h].key), cache, cache.lru))
  /\ UNCHANGED <<thread, open>>

(* The destructor, when no thread is at work. *)

Destroy ==
  /\ open /\ \A t \in Threads : thread[t].pc = "idle"
  /\ open' = FALSE
  /\ LET Drop(c, h) == Unref([c EXCEPT !.handles[h].in_cache = FALSE], h) IN
     Install(FoldLeft(Drop, cache, cache.lru))
  /\ UNCHANGED thread

Next ==
  \/ \E t \in Threads, key \in Keys : FindTable(t, key)
  \/ \E t \in Threads, charge \in Charges : TableOpened(t, charge)
  \/ \E t \in Threads : TableNotOpened(t)
  \/ \E t \in Threads : Release(t)
  \/ \E key \in Keys : Erase(key)
  \/ Prune
  \/ Destroy

Spec == Init /\ [][Next]_vars

-------------------------------------------------------------------------------
(* Properties. *)

InCache == {h \in Handles : cache.handles[h].in_cache}
Holders(h) == {t \in Threads : thread[t].handle = h}

TypeOK ==
  /\ \A h \in Handles : /\ cache.handles[h].key \in Keys
                        /\ cache.handles[h].charge \in Charges
                        /\ cache.handles[h].refs \in Nat
                        /\ cache.handles[h].in_cache \in BOOLEAN
  /\ cache.lru \in Seq(Handles) /\ cache.in_use \subseteq Handles
  /\ cache.usage \in Nat /\ cache.elems \in Nat
  /\ DOMAIN cache.list = 0..(cache.length - 1)
  /\ \A t \in Threads : thread[t].pc \in {"idle", "opening", "has"}

(* An entry is referenced by the threads that hold it and by the cache, no
   more and no less, also when two threads missed the same key and both
   inserted it: nothing in use is freed, and nothing unused is kept. *)
RefsAreExact ==
  open => \A h \in Handles :
    /\ cache.handles[h].refs = Cardinality(Holders(h)) + (IF h \in InCache THEN 1 ELSE 0)
    /\ h \in freed <=> cache.handles[h].refs = 0

(* Every entry of the cache is in the list it belongs to: only those that
   nobody uses can be evicted. *)
ListsAreRight ==
  open => /\ ToSet(cache.lru) = {h \in InCache : cache.handles[h].refs = 1}
          /\ cache.in_use = {h \in InCache : cache.handles[h].refs > 1}
          /\ IsInjective(cache.lru)

(* The table finds the entries of the cache and no others, after any sequence
   of insertions, removals and resizes. *)
TableIsRight ==
  open => /\ \A key \in Keys : LET h == LookupInTable(cache, key) IN
               IF h = None THEN \A g \in InCache : cache.handles[g].key # key
               ELSE h \in InCache
          /\ cache.elems = Cardinality(InCache)
          /\ \A g, h \in InCache : cache.handles[g].key = cache.handles[h].key => g = h

(* The usage is what the entries are charged with. *)
UsageIsRight ==
  cache.usage = MapThenSumSet(LAMBDA h : cache.handles[h].charge, InCache) \/ ~open

(* After the destructor every entry was freed. *)
AllFreed == ~open => freed = Handles

===============================================================================
