------------------------------ MODULE MCDBWrite -------------------------------
(***************************************************************************)
(* The threads of a LevelDB database on three small instances, one of which *)
(* a behaviour starts in and stays in: writers of large and small batches   *)
(* whose log may fail, threads that flush and close a database whose other  *)
(* files may fail, and manual compactions beside writers.                   *)
(***************************************************************************)
EXTENDS DBWrite

VARIABLE instance

Queue == INSTANCE DBWrite WITH
  Ops <- {"write", "syncWrite"}, Sizes <- {1, 3}, Faults <- {"sync"},
  MaxFaults <- 1, MaxRounds <- 0
Closing == INSTANCE DBWrite WITH
  Ops <- {"write", "flush", "close"}, Sizes <- {1},
  Faults <- {"append", "newLog", "table", "manifest", "compaction"},
  MaxFaults <- 1, MaxRounds <- 0
Manual == INSTANCE DBWrite WITH
  Ops <- {"write", "compact", "close"}, Sizes <- {1}, Faults <- {}, MaxFaults <- 0,
  MaxRounds <- 1

StepOf(t) ==
  /\ \/ instance = "queue" /\ Queue!Step(t)
     \/ instance = "closing" /\ Closing!Step(t)
     \/ instance = "manual" /\ Manual!Step(t)
  /\ UNCHANGED instance

BackgroundOf ==
  /\ \/ instance = "queue" /\ Queue!Background
     \/ instance = "closing" /\ Closing!Background
     \/ instance = "manual" /\ Manual!Background
  /\ UNCHANGED instance

(* Threads are numbered in the order of their first calls. *)
CalledOf(t) ==
  /\ \A s \in Threads : s < t => local[s].op # "none"
  /\ \/ instance = "queue" /\ Queue!Called(t)
     \/ instance = "closing" /\ Closing!Called(t)
     \/ instance = "manual" /\ Manual!Called(t)
  /\ UNCHANGED instance

MCInit == Init /\ instance \in {"queue", "closing", "manual"}
MCNext == (\E t \in Threads : CalledOf(t) \/ StepOf(t)) \/ BackgroundOf
MCSpec ==
  /\ MCInit /\ [][MCNext]_<<vars, instance>>
  /\ \A t \in Threads : WF_<<vars, instance>>(StepOf(t))
  /\ WF_<<vars, instance>>(BackgroundOf)
===============================================================================
