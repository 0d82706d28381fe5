\* Three threads; the constants that MCDBWrite gives per instance are bounds.
CONSTANTS
  Threads = {1, 2, 3}
  Ops = {"write", "syncWrite", "flush", "compact", "close"}
  Sizes = {1, 3}
  MaxCalls = 3
  Faults = {"append", "sync", "newLog", "table", "manifest", "compaction"}
  MaxFaults = 1
  MaxRounds = 1
  write_buffer_size = 0
  kMaxGroup = 4
  kSmall = 2
  kL0_CompactionTrigger = 1
  kL0_SlowdownWritesTrigger = 1
  kL0_StopWritesTrigger = 1
  None = None
SPECIFICATION MCSpec
INVARIANTS ThreadsAreSafe AckedVisible SyncedDurable
PROPERTIES NoWriteAfterSyncError CallsReturn
CHECK_DEADLOCK FALSE
