\* Deletes and snapshots.
CONSTANTS
  Keys = {1, 2}
  Types = {"put", "del"}
  MaxWrites = 4
  write_buffer_size = 2
  MaxSnapshots = 1
  MaxSeeks = 0
  Ranges = {}
  MaxManual = 0
  FlushDuring = {"auto"}
  kNumLevels = 3
  kL0_CompactionTrigger = 1
  kMaxMemCompactLevel = 1
  max_file_size = 2
  kLevel1Size = 10
  kGrowth = 2
  kGrandParentOverlap = 1
  kExpandedCompaction = 8
  kAllowedSeeks = 1
  None = None
SPECIFICATION Spec
INVARIANT ReadsAreRight
CHECK_DEADLOCK FALSE
