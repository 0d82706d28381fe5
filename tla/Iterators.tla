------------------------------- MODULE Iterators -------------------------------
(***************************************************************************)
(* The iterators of LevelDB, one upon the other: DBIter (db/db_iter.cc)    *)
(* over a MergingIterator (table/merger.cc) over the memtable and tables,  *)
(* each table a TwoLevelIterator (table/two_level_iterator.cc) over its    *)
(* blocks.  They move in both directions and turn round; blocks may be     *)
(* unreadable; and entries are added to the memtable between the steps.    *)
(***************************************************************************)
EXTENDS Integers, Sequences, SequencesExt, FiniteSets, FiniteSetsExt

CONSTANTS
  Keys,        \* user keys
  MaxSeq,      \* entries at the start have the sequence numbers 1..MaxSeq
  Tables,      \* 1..n
  BlockSize,   \* entries of a block
  BadBlocks,   \* bound: unreadable blocks
  MaxInserts,  \* bound: entries added to the memtable meanwhile
  None

IteratorsAssumption ==
  /\ Keys \subseteq Nat /\ {MaxSeq, BadBlocks, MaxInserts} \subseteq Nat
  /\ BlockSize \in Nat \ {0} /\ Tables = 1..Cardinality(Tables)

VARIABLES
  mem,       \* entries of the memtable
  blocks,    \* for each table its blocks, sequences of entries
  bad,       \* the unreadable ones: <<table, block>>
  sequence,  \* DBIter::sequence_
  iter,      \* the state of all iterators: see NewIterator
  list,      \* what a reader should see
  op         \* the last operation

vars == <<mem, blocks, bad, sequence, iter, list, op>>

Children == {0} \cup Tables    \* the memtable is child 0
Precedes(a, b) == a.key < b.key \/ (a.key = b.key /\ a.seq > b.seq)
Sorted(s) == SetToSortSeq(s, Precedes)
LessEq(a, b) == a = b \/ Precedes(a, b)

-------------------------------------------------------------------------------
(* The memtable's iterator stands at an entry. *)

Least(s) == IF s = {} THEN None ELSE Sorted(s)[1]
Greatest(s) == IF s = {} THEN None ELSE Last(Sorted(s))

(* A block iterator stands at a place, 0 when it is not valid. *)
SeekInBlock(block, target) ==
  LET from == {i \in DOMAIN block : ~Precedes(block[i], target)} IN
  IF from = {} THEN 0 ELSE Min(from)
Moved(block, place, step) == IF place + step \in DOMAIN block THEN place + step ELSE 0

-------------------------------------------------------------------------------
(* TwoLevelIterator: index is the place in the index block; data is the data
   iterator's [block, place], or None.  A table's index has the last key of
   each block. *)

Index(t) == [b \in DOMAIN blocks[t] |-> Last(blocks[t][b])]
Readable(t, b) == <<t, b>> \notin bad
DataValid(x) == x.data # None /\ x.data.place # 0
DataError(t, x) == x.data # None /\ ~Readable(t, x.data.block)

(* SetDataIterator remembers the error of the one it replaces. *)
SetDataIterator(t, x, data) ==
  [x EXCEPT !.data = data, !.error = @ \/ DataError(t, x)]

InitDataBlock(t, x) ==
  IF x.index = 0 THEN SetDataIterator(t, x, None)
  ELSE IF x.data # None /\ x.data.block = x.index THEN x
  ELSE SetDataIterator(t, x, [block |-> x.index, place |-> 0])

(* Places the data iterator; that of an unreadable block is never valid. *)
Place(t, x, place) ==
  IF x.data = None THEN x
  ELSE [x EXCEPT !.data.place = IF Readable(t, x.data.block) THEN place ELSE 0]
First(t, x) == Place(t, x, 1)
End(t, x) == IF x.data = None THEN x ELSE Place(t, x, Len(blocks[t][x.data.block]))

RECURSIVE SkipEmptyDataBlocks(_, _, _)
SkipEmptyDataBlocks(t, x, step) ==
  IF DataValid(x) THEN x
  ELSE IF x.index = 0 THEN SetDataIterator(t, x, None)
  ELSE LET y == InitDataBlock(t, [x EXCEPT !.index = Moved(Index(t), @, step)])
       IN SkipEmptyDataBlocks(t, IF step = 1 THEN First(t, y) ELSE End(t, y), step)

TableSeek(t, x, target) ==
  LET y == InitDataBlock(t, [x EXCEPT !.index = SeekInBlock(Index(t), target)])
      z == IF y.data = None THEN y ELSE Place(t, y, SeekInBlock(blocks[t][y.data.block], target))
  IN SkipEmptyDataBlocks(t, z, 1)
TableFirst(t, x) ==
  SkipEmptyDataBlocks(t, First(t, InitDataBlock(t,
    [x EXCEPT !.index = IF blocks[t] = <<>> THEN 0 ELSE 1])), 1)
TableLast(t, x) ==
  SkipEmptyDataBlocks(t, End(t, InitDataBlock(t, [x EXCEPT !.index = Len(blocks[t])])), -1)
TableMove(t, x, step) ==
  SkipEmptyDataBlocks(t, Place(t, x, Moved(blocks[t][x.data.block], x.data.place, step)), step)

-------------------------------------------------------------------------------
(* The children of the MergingIterator. *)

ChildKey(s, c) ==
  IF c = 0 THEN s.mem
  ELSE IF DataValid(s.table[c])
       THEN blocks[c][s.table[c].data.block][s.table[c].data.place] ELSE None
ChildSeek(s, c, target) ==
  IF c = 0 THEN [s EXCEPT !.mem = Least({e \in mem : ~Precedes(e, target)})]
  ELSE [s EXCEPT !.table[c] = TableSeek(c, @, target)]
ChildFirst(s, c) ==
  IF c = 0 THEN [s EXCEPT !.mem = Least(mem)] ELSE [s EXCEPT !.table[c] = TableFirst(c, @)]
ChildLast(s, c) ==
  IF c = 0 THEN [s EXCEPT !.mem = Greatest(mem)] ELSE [s EXCEPT !.table[c] = TableLast(c, @)]
ChildNext(s, c) ==
  IF c = 0 THEN [s EXCEPT !.mem = Least({e \in mem : Precedes(s.mem, e)})]
  ELSE [s EXCEPT !.table[c] = TableMove(c, @, 1)]
ChildPrev(s, c) ==
  IF c = 0 THEN [s EXCEPT !.mem = Greatest({e \in mem : Precedes(e, s.mem)})]
  ELSE [s EXCEPT !.table[c] = TableMove(c, @, -1)]

ForAll(s, cs, Do(_, _)) == FoldLeft(Do, s, SetToSortSeq(cs, <))

ValidChildren(s) == {c \in Children : ChildKey(s, c) # None}
FindSmallest(s) ==
  [s EXCEPT !.current = IF ValidChildren(s) = {} THEN None
     ELSE CHOOSE c \in ValidChildren(s) :
            \A d \in ValidChildren(s) : LessEq(ChildKey(s, c), ChildKey(s, d))]
FindLargest(s) ==
  [s EXCEPT !.current = IF ValidChildren(s) = {} THEN None
     ELSE CHOOSE c \in ValidChildren(s) :
            \A d \in ValidChildren(s) : LessEq(ChildKey(s, d), ChildKey(s, c))]

Valid(s) == s.current # None
At(s) == ChildKey(s, s.current)

MergeFirst(s) == [FindSmallest(ForAll(s, Children, ChildFirst)) EXCEPT !.merging = "forward"]
MergeLast(s) == [FindLargest(ForAll(s, Children, ChildLast)) EXCEPT !.merging = "reverse"]
MergeSeek(s, target) ==
  LET Do(r, c) == ChildSeek(r, c, target)
  IN [FindSmallest(ForAll(s, Children, Do)) EXCEPT !.merging = "forward"]

(* Turning round: the other children are sought for the current key. *)
TurnForward(s) ==
  LET Do(r, c) == LET q == ChildSeek(r, c, At(s))
                  IN IF ChildKey(q, c) = At(s) THEN ChildNext(q, c) ELSE q
  IN ForAll(s, Children \ {s.current}, Do)
(* A slip to rule out: a child that has nothing more stays where it is. *)
TurnReverseShort(s) ==
  LET Do(r, c) == LET q == ChildSeek(r, c, At(s))
                  IN IF ChildKey(q, c) # None THEN ChildPrev(q, c) ELSE q
  IN ForAll(s, Children \ {s.current}, Do)
TurnReverse(s) ==
  LET Do(r, c) == LET q == ChildSeek(r, c, At(s))
                  IN IF ChildKey(q, c) # None THEN ChildPrev(q, c) ELSE ChildLast(q, c)
  IN ForAll(s, Children \ {s.current}, Do)

MergeNext(s) ==
  LET r == IF s.merging = "forward" THEN s ELSE [TurnForward(s) EXCEPT !.merging = "forward"]
  IN FindSmallest(ChildNext(r, s.current))
MergePrev(s) ==
  LET r == IF s.merging = "reverse" THEN s ELSE [TurnReverse(s) EXCEPT !.merging = "reverse"]
  IN FindLargest(ChildPrev(r, s.current))

-------------------------------------------------------------------------------
(* DBIter: one entry for each user key. *)

Invalid(s) == [s EXCEPT !.valid = FALSE, !.saved_key = None]

RECURSIVE FindNextUserEntry(_, _)
FindNextUserEntry(s, skip) ==   \* skip is None when nothing is skipped
  IF ~Valid(s) THEN Invalid(s)
  ELSE LET e == At(s) IN
       IF e.seq > sequence THEN FindNextUserEntry(MergeNext(s), skip)
       ELSE IF e.type = "del" THEN FindNextUserEntry(MergeNext(s), e.key)
       ELSE IF skip # None /\ e.key <= skip THEN FindNextUserEntry(MergeNext(s), skip)
       ELSE [s EXCEPT !.valid = TRUE, !.saved_key = None]

(* Entries of a key come newest first, so going back the last one that is seen
   counts, and the search stops at the next key. *)
RECURSIVE FindPrevUserEntry(_, _)
FindPrevUserEntry(s, type) ==
  IF ~Valid(s) \/ (At(s).seq <= sequence /\ type # "del" /\ At(s).key < s.saved_key)
  THEN IF type = "del" THEN [Invalid(s) EXCEPT !.saved_value = None, !.direction = "forward"]
       ELSE [s EXCEPT !.valid = TRUE]
  ELSE LET e == At(s) IN
       IF e.seq > sequence THEN FindPrevUserEntry(MergePrev(s), type)
       ELSE FindPrevUserEntry(
              MergePrev([s EXCEPT !.saved_key = IF e.type = "del" THEN None ELSE e.key,
                                  !.saved_value = IF e.type = "del" THEN None ELSE e.seq]),
              e.type)

RECURSIVE BeforeKey(_, _)
BeforeKey(s, key) == IF Valid(s) /\ At(s).key >= key THEN BeforeKey(MergePrev(s), key) ELSE s

Key(s) == IF s.direction = "forward" THEN At(s).key ELSE s.saved_key
Value(s) == IF s.direction = "forward" THEN At(s).seq ELSE s.saved_value

IterFirst(s) ==
  FindNextUserEntry(MergeFirst([s EXCEPT !.direction = "forward", !.saved_value = None]), None)
IterLast(s) ==
  FindPrevUserEntry(MergeLast([s EXCEPT !.direction = "reverse", !.saved_value = None]), "del")
IterSeek(s, target) ==
  FindNextUserEntry(MergeSeek([s EXCEPT !.direction = "forward", !.saved_value = None],
                              [key |-> target, seq |-> sequence]), None)

IterNext(s) ==
  IF s.direction = "reverse"
  THEN LET r == [s EXCEPT !.direction = "forward"]
       IN FindNextUserEntry(IF Valid(r) THEN MergeNext(r) ELSE MergeFirst(r), s.saved_key)
  ELSE FindNextUserEntry(s, At(s).key)
IterPrev(s) ==
  IF s.direction = "forward"
  THEN LET r == BeforeKey(s, At(s).key) IN
       IF Valid(r)
       THEN FindPrevUserEntry([r EXCEPT !.direction = "reverse", !.saved_key = Key(s)], "del")
       ELSE [Invalid(r) EXCEPT !.saved_value = None]
  ELSE FindPrevUserEntry(s, "del")

Status(s) == \E t \in Tables : s.table[t].error \/ DataError(t, s.table[t])

-------------------------------------------------------------------------------
NewTable == [index |-> 0, data |-> None, error |-> FALSE]
NewIterator ==
  [mem |-> None, table |-> [t \in Tables |-> NewTable], current |-> None,
   merging |-> "forward", direction |-> "forward", valid |-> FALSE, saved_key |-> None,
   saved_value |-> None]

(* The live entries of a snapshot. *)
Reference(entries, snapshot) ==
  LET newest(k) == {e \in entries : e.key = k /\ e.seq <= snapshot
                      /\ \A d \in entries : d.key = k /\ d.seq <= snapshot => d.seq <= e.seq}
  IN Sorted({e \in UNION {newest(k) : k \in Keys} : e.type = "put"})

Blocks(entries) ==
  LET s == Sorted(entries)
      n == (Len(s) + BlockSize - 1) \div BlockSize
  IN [b \in 1..n |-> SubSeq(s, (b - 1) * BlockSize + 1, Min({b * BlockSize, Len(s)}))]

(* The memtable has the newest entries; of one key newer entries are above. *)
Init ==
  /\ \E key \in [1..MaxSeq -> Keys], type \in [1..MaxSeq -> {"put", "del"}],
        place \in [1..MaxSeq -> Children] :
       LET e(i) == [key |-> key[i], seq |-> i, type |-> type[i]]
           in(c) == {e(i) : i \in {j \in 1..MaxSeq : place[j] = c}}
       IN /\ \A i, j \in 1..MaxSeq : i < j =>
               /\ place[i] = 0 => place[j] = 0
               /\ key[i] = key[j] => place[j] <= place[i]
          /\ mem = in(0)
          /\ blocks = [t \in Tables |-> Blocks(in(t))]
          /\ sequence \in {MaxSeq - 1, MaxSeq}
          /\ list = Reference({e(i) : i \in 1..MaxSeq}, sequence)
  /\ bad \in {b \in SUBSET {<<t, i>> : t \in Tables, i \in 1..MaxSeq} :
              /\ Cardinality(b) <= BadBlocks
              /\ \A x \in b : x[2] \in DOMAIN blocks[x[1]]}
  /\ iter = NewIterator
  /\ op = <<"new">>

Do(name, s) ==
  /\ op' = name
  /\ iter' = s
  /\ UNCHANGED <<mem, blocks, bad, sequence, list>>

SeekToFirst == Do(<<"first">>, IterFirst(iter))
SeekToLast == Do(<<"last">>, IterLast(iter))
Seek(target) == Do(<<"seek", target>>, IterSeek(iter, target))
NextEntry == iter.valid /\ Do(<<"next">>, IterNext(iter))
PrevEntry == iter.valid /\ Do(<<"prev">>, IterPrev(iter))

(* A write goes into the memtable while the iterator stands somewhere. *)
Insert(key) ==
  /\ Cardinality(mem) + FoldFunction(+, 0, [t \in Tables |-> FoldFunction(+, 0,
       [b \in DOMAIN blocks[t] |-> Len(blocks[t][b])])]) < MaxSeq + MaxInserts
  /\ LET seqs == {e.seq : e \in mem} \cup {MaxSeq} IN
     mem' = mem \cup {[key |-> key, seq |-> Max(seqs) + 1, type |-> "put"]}
  /\ UNCHANGED <<blocks, bad, sequence, iter, list, op>>

Next ==
  \/ SeekToFirst \/ SeekToLast
  \/ \E target \in Keys : Seek(target)
  \/ NextEntry \/ PrevEntry
  \/ \E key \in Keys : Insert(key)

Spec == Init /\ [][Next]_vars

-------------------------------------------------------------------------------
(* Properties. *)

TypeOK ==
  /\ iter.current \in {None} \cup Children
  /\ iter.valid /\ iter.direction = "forward" => Valid(iter)
  /\ iter.valid /\ iter.direction = "reverse" => iter.saved_key \in Keys
  /\ {iter.merging, iter.direction} \subseteq {"forward", "reverse"}

(* Where the iterator is in the list. *)
Position ==
  IF ~iter.valid THEN 0
  ELSE SelectInSeq(list, LAMBDA e : e.key = Key(iter) /\ e.seq = Value(iter))

(* The iterators together are a cursor over the live keys, whatever order
   they are moved in and whatever is written meanwhile. *)
Abstract == INSTANCE Cursor WITH
  Targets <- Keys, list <- list, pos <- Position, op <- op

(* With blocks that cannot be read every step is still a step of the cursor,
   or the iterator says by its status that it may not be: no live key is
   passed over, no deleted or overwritten one shown, without a word. *)
CursorStep ==
  [Abstract!Step]_<<list, Position, op>> \/ (bad # {} /\ Status(iter'))
===============================================================================
