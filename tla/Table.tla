--------------------------------- MODULE Table ---------------------------------
(***************************************************************************)
(* The tables of LevelDB: BlockBuilder, FilterBlockBuilder and             *)
(* TableBuilder write one (table/*_builder.cc, table/filter_block.cc),     *)
(* Block::Iter, FilterBlockReader and Table read it (table/block.cc,       *)
(* table/table.cc, table/format.cc), with the separators and filters of    *)
(* db/dbformat.cc, util/comparator.cc and util/bloom.cc.                   *)
(*                                                                         *)
(* An internal key is a sequence of bytes, the last of which stands for    *)
(* the eight of sequence number and type.                                  *)
(***************************************************************************)
EXTENDS Integers, Sequences, SequencesExt, FiniteSets, FiniteSetsExt, TLC

CONSTANTS
  UserKeys,        \* of the entries: sequences of bytes
  Tags,            \* of the entries
  MaxByte,         \* 0xff
  MaxTag,          \* kMaxSequenceNumber with kValueTypeForSeek
  MaxEntries,      \* bound: entries of a table
  RestartInterval, \* options.block_restart_interval
  BlockBytes,      \* options.block_size
  FilterBase,      \* kFilterBase, 0 for no filter policy
  Hash(_),         \* BloomHash
  FilterBits,      \* the size of a bloom filter
  Probes,          \* BloomFilterPolicy::k_
  Appends,         \* bounds: the calls of the file before one fails
  MaxDamage,       \* bound: blocks damaged later
  None

TableAssumption ==
  /\ {MaxByte, MaxTag, MaxEntries, FilterBase, MaxDamage} \subseteq Nat
  /\ {RestartInterval, BlockBytes, FilterBits, Probes} \subseteq Nat \ {0}
  /\ UserKeys \subseteq Seq(0..MaxByte) /\ Tags \subseteq 0..MaxTag
  /\ Appends \subseteq Nat

VARIABLES
  rep,      \* TableBuilder::Rep
  added,    \* the entries given to Add
  damaged   \* blocks whose contents have changed since

vars == <<rep, added, damaged>>

kBlockTrailerSize == 5
IntervalOfIndex == 1

-------------------------------------------------------------------------------
(* Keys and their order. *)

UserKey(key) == Front(key)
Tag(key) == Last(key)
Common(a, b) ==
  Max({n \in 0..Min({Len(a), Len(b)}) : SubSeq(a, 1, n) = SubSeq(b, 1, n)})
Below(a, b) ==     \* BytewiseComparator
  LET n == Common(a, b) IN
  IF n = Len(a) THEN n < Len(b) ELSE n < Len(b) /\ a[n + 1] < b[n + 1]
Compare(a, b) ==   \* InternalKeyComparator: a is before b
  \/ Below(UserKey(a), UserKey(b))
  \/ UserKey(a) = UserKey(b) /\ Tag(a) > Tag(b)

UserSeparator(start, limit) ==
  LET n == Common(start, limit) + 1 IN
  IF n <= Len(start) /\ n <= Len(limit) /\ start[n] < MaxByte /\ start[n] + 1 < limit[n]
  THEN Append(SubSeq(start, 1, n - 1), start[n] + 1) ELSE start
UserSuccessor(key) ==
  LET low == {i \in DOMAIN key : key[i] # MaxByte} IN
  IF low = {} THEN key ELSE Append(SubSeq(key, 1, Min(low) - 1), key[Min(low)] + 1)

Shortened(key, user) ==
  IF Len(user) < Len(UserKey(key)) /\ Below(UserKey(key), user)
  THEN Append(user, MaxTag) ELSE key
(* A slip to rule out: the separator of whole keys, with their tags. *)
FindShortestSeparatorWhole(start, limit) == UserSeparator(start, limit)
FindShortestSeparator(start, limit) ==
  Shortened(start, UserSeparator(UserKey(start), UserKey(limit)))
FindShortSuccessor(key) == Shortened(key, UserSuccessor(UserKey(key)))

-------------------------------------------------------------------------------
(* BlockBuilder.  buffer has the entries by their offset. *)

NewBlock ==
  [buffer |-> <<>>, size |-> 0, restarts |-> <<0>>, counter |-> 0, last_key |-> <<>>]
Reset(b) == NewBlock
CurrentSizeEstimate(b) == b.size + 4 * Len(b.restarts) + 4
Empty(b) == b.size = 0

Shared(b, interval, key) ==
  IF b.counter < interval THEN Common(b.last_key, key) ELSE 0

AddToBlock(b, interval, key, value) ==
  LET restart == b.counter >= interval
      shared == Shared(b, interval, key)
      delta == SubSeq(key, shared + 1, Len(key))
      n == 3 + Len(delta) + 1
  IN [buffer |-> b.buffer @@ (b.size :> [shared |-> shared, delta |-> delta, value |-> value,
                                         size |-> n]),
      size |-> b.size + n,
      restarts |-> IF restart THEN Append(b.restarts, b.size) ELSE b.restarts,
      counter |-> (IF restart THEN 0 ELSE b.counter) + 1,
      last_key |-> key]
FinishBlock(b) == [buffer |-> b.buffer, restarts |-> b.restarts, end |-> b.size]

-------------------------------------------------------------------------------
(* Block::Iter.  next is the end of the current entry; places count from 0. *)

NewIter(b) ==
  [current |-> b.end, restart_index |-> Len(b.restarts), key |-> <<>>, value |-> None,
   next |-> 0, status |-> "ok"]
IterValid(b, x) == x.current < b.end
GetRestartPoint(b, i) == b.restarts[i + 1]
SeekToRestartPoint(b, x, i) ==
  [x EXCEPT !.key = <<>>, !.restart_index = i, !.next = GetRestartPoint(b, i)]

CorruptionError(b, x) ==
  [x EXCEPT !.current = b.end, !.restart_index = Len(b.restarts), !.status = "corruption",
            !.key = <<>>, !.next = 0]

ParseNextKey(b, x) ==
  IF x.next >= b.end
  THEN [x EXCEPT !.current = b.end, !.restart_index = Len(b.restarts)]
  ELSE IF x.next \notin DOMAIN b.buffer \/ b.buffer[x.next].shared > Len(x.key)
  THEN CorruptionError(b, x)
  ELSE LET e == b.buffer[x.next] IN
       [x EXCEPT !.current = x.next, !.key = SubSeq(@, 1, e.shared) \o e.delta,
                 !.value = e.value, !.next = @ + e.size,
                 !.restart_index = Max({@} \cup {i \in @ + 1 .. Len(b.restarts) - 1 :
                                                 GetRestartPoint(b, i) < x.next})]

BlockFirst(b, x) == ParseNextKey(b, SeekToRestartPoint(b, x, 0))
BlockNext(b, x) == ParseNextKey(b, x)

RECURSIVE ParseUntil(_, _, _)
ParseUntil(b, x, limit) ==   \* until the end of the entry hits limit
  LET y == ParseNextKey(b, x)
  IN IF IterValid(b, y) /\ y.next < limit THEN ParseUntil(b, y, limit) ELSE y

BlockLast(b, x) == ParseUntil(b, SeekToRestartPoint(b, x, Len(b.restarts) - 1), b.end)

BeforeCurrent(b, x) == {i \in 0..x.restart_index : GetRestartPoint(b, i) < x.current}

BlockPrev(b, x) ==
  LET before == BeforeCurrent(b, x)
  IN IF before = {} THEN [x EXCEPT !.current = b.end, !.restart_index = Len(b.restarts)]
     ELSE ParseUntil(b, SeekToRestartPoint(b, x, Max(before)), x.current)

RECURSIVE BinarySearch(_, _, _, _)
BinarySearch(b, target, left, right) ==   \* the last restart point with a key < target
  IF left >= right THEN left
  ELSE LET mid == (left + right + 1) \div 2
           e == b.buffer[GetRestartPoint(b, mid)]
       IN IF e.shared # 0 THEN None
          ELSE IF Compare(e.delta, target) THEN BinarySearch(b, target, mid, right)
               ELSE BinarySearch(b, target, left, mid - 1)

RECURSIVE LinearSearch(_, _, _)
LinearSearch(b, x, target) ==
  LET y == ParseNextKey(b, x)
  IN IF IterValid(b, y) /\ Compare(y.key, target) THEN LinearSearch(b, y, target) ELSE y

BlockSeek(b, x, target) ==
  LET left == BinarySearch(b, target, 0, Len(b.restarts) - 1)
  IN IF left = None THEN CorruptionError(b, x)
     ELSE LinearSearch(b, SeekToRestartPoint(b, x, left), target)

-------------------------------------------------------------------------------
(* Bloom filters and the filter block. *)

CreateFilter(keys) ==
  [bits |-> {(Hash(UserKey(k))[1] + j * Hash(UserKey(k))[2]) % FilterBits :
             k \in ToSet(keys), j \in 0..Probes - 1},
   k |-> Probes]
BloomMayMatch(key, filter) ==
  \A j \in 0..filter.k - 1 :
    (Hash(UserKey(key))[1] + j * Hash(UserKey(key))[2]) % FilterBits \in filter.bits

(* filters is filter_offsets_ with the filters; keys those of the next one. *)
NewFilter == [filters |-> <<>>, keys |-> <<>>]
GenerateFilter(f) ==
  [filters |-> Append(f.filters, IF f.keys = <<>> THEN None ELSE CreateFilter(f.keys)),
   keys |-> <<>>]
(* A slip to rule out: one filter too many. *)
RECURSIVE StartBlockBeyond(_, _)
StartBlockBeyond(f, offset) ==
  IF offset \div FilterBase >= Len(f.filters) THEN StartBlockBeyond(GenerateFilter(f), offset)
  ELSE f
RECURSIVE StartBlock(_, _)
StartBlock(f, offset) ==
  IF offset \div FilterBase > Len(f.filters) THEN StartBlock(GenerateFilter(f), offset) ELSE f
AddKey(f, key) == [f EXCEPT !.keys = Append(@, key)]
FinishFilter(f) == IF f.keys = <<>> THEN f.filters ELSE GenerateFilter(f).filters

(* An empty filter matches nothing; what is outside the array may match. *)
KeyMayMatch(filters, offset, key) ==
  LET index == offset \div FilterBase IN
  index < Len(filters) =>
    filters[index + 1] # None /\ BloomMayMatch(key, filters[index + 1])

-------------------------------------------------------------------------------
(* TableBuilder.  file has the blocks by their offset, and the footer; left
   counts the calls of the file before the one that fails. *)

Ok(r) == r.status = "ok"
FileCall(r) ==
  [r EXCEPT !.left = @ - 1, !.status = IF r.left = 0 THEN "error" ELSE @]

NewRep(left) ==
  [data_block |-> NewBlock, index_block |-> NewBlock, filter |-> NewFilter, offset |-> 0,
   last_key |-> <<>>, pending_index_entry |-> FALSE, pending_handle |-> 0, num_entries |-> 0,
   status |-> "ok", closed |-> "no", file |-> <<>>, footer |-> None, left |-> left]

WriteRawBlock(r, contents, n) ==
  LET a == FileCall(r)
      b == FileCall(a)
  IN IF ~Ok(a) THEN a
     ELSE IF ~Ok(b) THEN b
     ELSE [b EXCEPT !.file = @ @@ (r.offset :> contents), !.offset = @ + n + kBlockTrailerSize]
WriteBlock(r, block) == WriteRawBlock(r, FinishBlock(block), CurrentSizeEstimate(block))

Flush(r) ==
  IF ~Ok(r) \/ Empty(r.data_block) THEN r
  ELSE LET w == [WriteBlock(r, r.data_block) EXCEPT !.data_block = Reset(r.data_block),
                                                    !.pending_handle = r.offset]
           p == IF Ok(w) THEN [FileCall(w) EXCEPT !.pending_index_entry = TRUE] ELSE w
       IN IF FilterBase = 0 THEN p ELSE [p EXCEPT !.filter = StartBlock(@, p.offset)]

AddIndexEntry(r, key) ==
  IF ~r.pending_index_entry THEN r
  ELSE [r EXCEPT !.index_block = AddToBlock(@, IntervalOfIndex, key, r.pending_handle),
                 !.pending_index_entry = FALSE]

Add(r, key, value) ==
  IF ~Ok(r) THEN r
  ELSE LET i == IF r.pending_index_entry
                THEN AddIndexEntry(r, FindShortestSeparator(r.last_key, key)) ELSE r
           f == IF FilterBase = 0 THEN i ELSE [i EXCEPT !.filter = AddKey(@, key)]
           d == [f EXCEPT !.last_key = key, !.num_entries = @ + 1,
                          !.data_block = AddToBlock(@, RestartInterval, key, value)]
       IN IF CurrentSizeEstimate(d.data_block) >= BlockBytes THEN Flush(d) ELSE d

(* Finish: filter block, metaindex block, index block, footer; each only while
   nothing has failed. *)
WriteFilter(r) ==
  IF ~Ok(r) \/ FilterBase = 0 THEN r ELSE WriteRawBlock(r, FinishFilter(r.filter), 1)
WriteMeta(r, filter) ==
  IF ~Ok(r) THEN r ELSE WriteRawBlock(r, [filter |-> filter], 1)
WriteIndex(r) ==
  IF ~Ok(r) THEN r
  ELSE LET i == IF r.pending_index_entry
                THEN AddIndexEntry(r, FindShortSuccessor(r.last_key)) ELSE r
       IN WriteBlock(i, i.index_block)
WriteFooter(r, metaindex, index) ==
  IF ~Ok(r) THEN r
  ELSE LET w == FileCall(r) IN
       IF Ok(w) THEN [w EXCEPT !.footer = [metaindex |-> metaindex, index |-> index]] ELSE w
Finish(r) ==
  LET c == [Flush(r) EXCEPT !.closed = "finished"]
      f == WriteFilter(c)
      m == WriteMeta(f, IF FilterBase = 0 THEN None ELSE c.offset)
      i == WriteIndex(m)
  IN WriteFooter(i, f.offset, m.offset)

-------------------------------------------------------------------------------
(* Table, opened with paranoid_checks and read with verify_checksums. *)

ReadBlock(offset) == IF offset \in damaged THEN None ELSE rep.file[offset]
Open == rep.footer # None /\ ReadBlock(rep.footer.index) # None
IndexBlock == rep.file[rep.footer.index]
(* What goes wrong with the filter leaves the table without one. *)
Filters ==
  LET meta == ReadBlock(rep.footer.metaindex) IN
  IF meta = None \/ FilterBase = 0 THEN None ELSE ReadBlock(meta.filter)

(* NewErrorIterator: what a block that cannot be read gives. *)
BlockReaderFailed == [status |-> "corruption", key |-> None]

InternalGet(k) ==
  LET index == BlockSeek(IndexBlock, NewIter(IndexBlock), k)
      block == ReadBlock(index.value)
      x == BlockSeek(block, NewIter(block), k)
  IN IF ~IterValid(IndexBlock, index) THEN [status |-> index.status, key |-> None]
     ELSE IF Filters # None /\ ~KeyMayMatch(Filters, index.value, k)
          THEN [status |-> index.status, key |-> None]
     ELSE IF block = None THEN BlockReaderFailed
     ELSE [status |-> x.status, key |-> IF IterValid(block, x) THEN x.key ELSE None]

ApproximateOffsetOf(k) ==
  LET index == BlockSeek(IndexBlock, NewIter(IndexBlock), k) IN
  IF IterValid(IndexBlock, index) THEN index.value ELSE rep.footer.metaindex

-------------------------------------------------------------------------------
Init ==
  /\ \E left \in Appends : rep = NewRep(left)
  /\ added = <<>>
  /\ damaged = {}

InternalKeys == {Append(u, t) : u \in UserKeys, t \in Tags}

(* Keys come in order: the caller's iterator is sorted. *)
AddEntry(key) ==
  /\ rep.closed = "no"
  /\ Len(added) < MaxEntries
  /\ added # <<>> => Compare(Last(added), key)
  /\ added' = Append(added, key)
  /\ rep' = Add(rep, key, None)
  /\ UNCHANGED damaged

FinishTable ==
  /\ rep.closed = "no" /\ added # <<>>
  /\ rep' = Finish(rep)
  /\ UNCHANGED <<added, damaged>>

Abandon ==
  /\ rep.closed = "no"
  /\ rep' = [rep EXCEPT !.closed = "abandoned"]
  /\ UNCHANGED <<added, damaged>>

Damage(offset) ==
  /\ rep.footer # None
  /\ Cardinality(damaged) < MaxDamage
  /\ damaged' = damaged \cup {offset}
  /\ UNCHANGED <<rep, added>>

Next ==
  \/ \E key \in InternalKeys : AddEntry(key)
  \/ FinishTable \/ Abandon
  \/ \E offset \in DOMAIN rep.file : Damage(offset)

Spec == Init /\ [][Next]_vars

-------------------------------------------------------------------------------
(* Properties. *)

Finished == rep.closed = "finished" /\ Ok(rep)

RECURSIVE Walk(_, _)
Walk(b, x) == IF IterValid(b, x) THEN <<x>> \o Walk(b, BlockNext(b, x)) ELSE <<>>
Entries(b) == Walk(b, BlockFirst(b, NewIter(b)))
KeysOf(b) == [i \in DOMAIN Entries(b) |-> Entries(b)[i].key]
DataBlocks == [i \in DOMAIN Entries(IndexBlock) |-> rep.file[Entries(IndexBlock)[i].value]]

(* TableBuilder's own comment: an index entry is pending only while the data
   block is empty. *)
TypeOK ==
  /\ rep.pending_index_entry => Empty(rep.data_block)
  /\ rep.data_block.counter \in 0..RestartInterval
  /\ rep.status \in {"ok", "error"}
  /\ Len(rep.filter.filters) <= rep.offset

(* A table that Finish calls good has every entry it was given, in order,
   whatever was flushed when and whichever write failed before. *)
ReadsBack ==
  Finished =>
    /\ rep.footer # None
    /\ {rep.footer.metaindex, rep.footer.index} \subseteq DOMAIN rep.file
    /\ {x.value : x \in ToSet(Entries(IndexBlock))} \subseteq DOMAIN rep.file
    /\ added = FlattenSeq([i \in DOMAIN DataBlocks |-> KeysOf(DataBlocks[i])])

(* In every block Prev goes back by one entry, SeekToLast finds the last, and
   Seek from anywhere the first that is not before the target. *)
MovesAreRight ==
  Finished /\ damaged = {} =>
    \A b \in ToSet(DataBlocks) \cup {IndexBlock} :
      LET e == Entries(b)
          n == Len(e)
      IN /\ \A i \in 1..n : LET p == BlockPrev(b, e[i]) IN
              IF i = 1 THEN ~IterValid(b, p) ELSE IterValid(b, p) /\ p.key = e[i - 1].key
         /\ BlockLast(b, NewIter(b)).key = e[n].key
         /\ \A t \in InternalKeys :
              LET s == BlockSeek(b, e[n], t)
                  from == {i \in 1..n : ~Compare(e[i].key, t)}
              IN IF from = {} THEN ~IterValid(b, s) /\ s.status = "ok"
                 ELSE IterValid(b, s) /\ s.key = e[Min(from)].key

(* The answer to a lookup: the first entry at or after the target when it is
   of the target's user key. *)
Reference(k) ==
  LET from == {i \in DOMAIN added : ~Compare(added[i], k)} IN
  IF from # {} /\ UserKey(added[Min(from)]) = UserKey(k) THEN added[Min(from)] ELSE None
Right(k, get) ==
  /\ get.status = "ok"
  /\ Reference(k) # None => get.key = Reference(k)
  /\ get.key # None => get.key = added[Min({i \in DOMAIN added : ~Compare(added[i], k)})]

(* Get finds what was added, through shortened index keys, filters and
   restart points: the filter hides nothing, and a target that falls between
   two blocks is looked for where it would be. *)
GetIsRight ==
  Finished /\ damaged = {} => Open /\ \A k \in InternalKeys : Right(k, InternalGet(k))

(* With damaged blocks Get is right or fails; damage to the filter or the
   metaindex alone is not even noticed. *)
DamageIsSafe ==
  Finished /\ Open =>
    \A k \in InternalKeys :
      \/ Right(k, InternalGet(k))
      \/ InternalGet(k).status = "corruption" /\ damaged \cap {Entries(IndexBlock)[i].value :
                                                   i \in DOMAIN Entries(IndexBlock)} # {}

(* Offsets grow with keys, so the size of a range is never negative. *)
OffsetsOrdered ==
  Finished /\ damaged = {} =>
    \A j, k \in InternalKeys : Compare(j, k) => ApproximateOffsetOf(j) <= ApproximateOffsetOf(k)
===============================================================================
