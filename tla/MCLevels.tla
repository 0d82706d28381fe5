------------------------------- MODULE MCLevels -------------------------------
(* The levels of a LevelDB database on a small instance. *)
EXTENDS Levels

(* Manual compactions of everything at the first levels and of a part. *)
MCRanges == {<<0, 0, MaxKey + 1>>, <<1, 0, MaxKey + 1>>, <<1, 2, 2>>}

(* Bounds.  A behaviour has deletes, or snapshots and seek compactions, or
   manual compactions. *)
PutsOnly == \A e \in history : e.type = "put"
WithDeletes == taken.snapshots = 0 /\ taken.seeks = 0 /\ taken.manual = 0
WithSnapshots == PutsOnly /\ taken.manual = 0
WithManual == PutsOnly /\ taken.snapshots = 0 /\ taken.seeks = 0

MCNext == Next /\ (WithDeletes \/ WithSnapshots \/ WithManual)'
MCSpec == Init /\ [][MCNext]_vars
===============================================================================
