\* Bounds; MCStorage lowers them and sets the options per instance.
CONSTANTS
  MaxWrites = 3
  MaxCrashes = 2
  MaxErrors = 1
  MaxCompactions = 1
  write_buffer_size = 1
  reuse_logs = FALSE
  paranoid_checks = FALSE
  PowerFails = FALSE
  FailsWhenNew = FALSE
  None = None
SPECIFICATION MCSpec
INVARIANTS FilesAreKept LaterWins WritesSurvive
PROPERTY ImplementsStore
CHECK_DEADLOCK FALSE
