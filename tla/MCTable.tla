-------------------------------- MODULE MCTable --------------------------------
(***************************************************************************)
(* LevelDB's tables on two instances, one of which a behaviour starts in    *)
(* and stays in: tables of which a block is damaged after they were         *)
(* written, and tables of which a write fails, the n-th call of the file.   *)
(***************************************************************************)
EXTENDS Table

VARIABLE instance

Damaged == INSTANCE Table WITH MaxEntries <- 4, Appends <- {30}, MaxDamage <- 1
Failing == INSTANCE Table WITH MaxEntries <- 3, Appends <- 0..14, MaxDamage <- 0

MCInit ==
  \/ instance = "damaged" /\ Damaged!Init
  \/ instance = "failing" /\ Failing!Init
MCNext ==
  /\ \/ instance = "damaged" /\ Damaged!Next
     \/ instance = "failing" /\ Failing!Next
  /\ UNCHANGED instance
MCSpec == MCInit /\ [][MCNext]_<<vars, instance>>

TablesAreRight ==
  /\ ReadsBack
  /\ instance = "damaged" => MovesAreRight /\ GetIsRight /\ DamageIsSafe /\ OffsetsOrdered
===============================================================================
