------------------------------- MODULE MCStorage ------------------------------
(***************************************************************************)
(* The files of a LevelDB database on small instances, one of which a       *)
(* behaviour starts in and stays in: the process dies at any step; the      *)
(* machine fails too, and file operations fail; logs and MANIFEST are       *)
(* reused; errors of a recovery are passed over.                            *)
(***************************************************************************)
EXTENDS Storage

VARIABLE instance

Killed == INSTANCE Storage WITH
  MaxWrites <- 2, MaxCrashes <- 1, MaxErrors <- 0, PowerFails <- FALSE, reuse_logs <- FALSE,
  paranoid_checks <- FALSE
Power == INSTANCE Storage WITH
  MaxWrites <- 2, MaxErrors <- 0, MaxCompactions <- 0, PowerFails <- TRUE, reuse_logs <- FALSE,
  paranoid_checks <- FALSE
Errors == INSTANCE Storage WITH
  MaxWrites <- 2, MaxCrashes <- 1, PowerFails <- TRUE, reuse_logs <- FALSE, paranoid_checks <- TRUE
Reuse == INSTANCE Storage WITH
  MaxWrites <- 2, MaxErrors <- 0, MaxCompactions <- 0, PowerFails <- FALSE, reuse_logs <- TRUE,
  paranoid_checks <- FALSE
Lenient == INSTANCE Storage WITH
  MaxCrashes <- 1, MaxCompactions <- 0, PowerFails <- FALSE, reuse_logs <- FALSE,
  paranoid_checks <- FALSE

MCInit == Init /\ instance \in {"killed", "power", "errors", "reuse", "lenient"}
MCNext ==
  /\ \/ instance = "killed" /\ Killed!Next
     \/ instance = "power" /\ Power!Next
     \/ instance = "errors" /\ Errors!Next
     \/ instance = "reuse" /\ Reuse!Next
     \/ instance = "lenient" /\ Lenient!Next
  /\ UNCHANGED instance
MCSpec == MCInit /\ [][MCNext]_<<vars, instance>>
===============================================================================
