\* Bounds: one write fails, the process dies; see NoWriteLost.
CONSTANTS
  MaxWrites = 2
  MaxCrashes = 1
  MaxErrors = 1
  MaxCompactions = 0
  write_buffer_size = 2
  reuse_logs = FALSE
  paranoid_checks = FALSE
  PowerFails = FALSE
  FailsWhenNew = FALSE
  None = None
SPECIFICATION Spec
INVARIANT NoWriteLost
CHECK_DEADLOCK FALSE
