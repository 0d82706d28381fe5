----------------------------- MODULE MCLogFormat ------------------------------
(***************************************************************************)
(* LevelDB's log files on three instances, one of which a behaviour starts  *)
(* in and stays in: crashes and unreadable files, read from any offset; a   *)
(* process that dies again and again and appends to the log it finds;       *)
(* writes that fail, after which the writer goes on.                        *)
(***************************************************************************)
EXTENDS LogFormat

VARIABLE instance

Crash == INSTANCE LogFormat WITH
  Sizes <- {0, 1, 2, 5}, MaxRecords <- 3, Offsets <- {0, 1, 5, 6, 7},
  Faults <- {"kill", "powerFail", "readError"}, MaxFaults <- 2, reuse_logs <- FALSE
Reused == INSTANCE LogFormat WITH
  Sizes <- {1, 2, 5}, MaxRecords <- 4, Offsets <- {0}, Faults <- {"kill"},
  MaxFaults <- 3, reuse_logs <- TRUE
Errors == INSTANCE LogFormat WITH
  Sizes <- {1, 2, 5}, MaxRecords <- 3, Offsets <- {0}, Faults <- {"writeError"},
  MaxFaults <- 2, reuse_logs <- FALSE

MCInit == Init /\ instance \in {"crash", "reused", "errors"}
MCNext ==
  /\ \/ instance = "crash" /\ Crash!Next
     \/ instance = "reused" /\ Reused!Next
     \/ instance = "errors" /\ Errors!Next
  /\ UNCHANGED instance
MCSpec == MCInit /\ [][MCNext]_<<vars, instance>>

LogIsRight ==
  /\ NoInvention
  /\ instance = "crash" => CompleteRecords /\ TornTailIsSilent
  /\ instance = "reused" => AcknowledgedAreRead
===============================================================================
