-------------------------------- MODULE Cursor --------------------------------
(***************************************************************************)
(* What an iterator over a LevelDB database promises                       *)
(* (include/leveldb/iterator.h): a position in the sorted list of the      *)
(* live keys of one snapshot, each with its newest value.                  *)
(***************************************************************************)
EXTENDS Integers, Sequences

CONSTANT Targets     \* what may be sought
VARIABLES list,      \* the live entries, by key
          pos,       \* the place in it, 0 when the iterator is not valid
          op         \* the last operation, and its target

vars == <<list, pos, op>>

Init == pos = 0 /\ op = <<"new">>

SeekToFirst == op' = <<"first">> /\ pos' = IF list = <<>> THEN 0 ELSE 1
SeekToLast == op' = <<"last">> /\ pos' = Len(list)
Seek(t) ==
  /\ op' = <<"seek", t>>
  /\ LET from == {i \in DOMAIN list : list[i].key >= t} IN
     pos' = IF from = {} THEN 0 ELSE CHOOSE i \in from : \A j \in from : i <= j
Next_ == pos # 0 /\ op' = <<"next">> /\ pos' = IF pos = Len(list) THEN 0 ELSE pos + 1
Prev == pos # 0 /\ op' = <<"prev">> /\ pos' = pos - 1

Step ==
  /\ UNCHANGED list
  /\ SeekToFirst \/ SeekToLast \/ (\E t \in Targets : Seek(t)) \/ Next_ \/ Prev

Spec == Init /\ [][Step]_vars
===============================================================================
