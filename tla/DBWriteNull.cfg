\* A manual compaction that is called off while the background thread works on it.
CONSTANTS
  t1 = t1
  t2 = t2
  t3 = t3
  Threads = {t1, t2}
  Ops = {"syncWrite", "compact"}
  Sizes = {1}
  MaxCalls = 4
  Faults = {"sync", "table"}
  MaxFaults = 1
  MaxRounds = 1
  write_buffer_size = 0
  kMaxGroup = 4
  kSmall = 2
  kL0_CompactionTrigger = 1
  kL0_SlowdownWritesTrigger = 1
  kL0_StopWritesTrigger = 1
  None = None
SPECIFICATION Spec
INVARIANT SafeForThreads
CHECK_DEADLOCK FALSE
