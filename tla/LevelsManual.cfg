\* Memtables that are flushed during a manual compaction.
CONSTANTS
  Keys = {1, 2, 3}
  Types = {"put"}
  MaxWrites = 5
  write_buffer_size = 1
  MaxSnapshots = 0
  MaxSeeks = 0
  Ranges <- MCRanges
  MaxManual = 1
  FlushDuring = {"manual"}
  kNumLevels = 4
  kL0_CompactionTrigger = 4
  kMaxMemCompactLevel = 2
  max_file_size = 2
  kLevel1Size = 10
  kGrowth = 2
  kGrandParentOverlap = 1
  kExpandedCompaction = 8
  kAllowedSeeks = 1
  None = None
SPECIFICATION MCSpec
INVARIANT LevelsDisjoint
CHECK_DEADLOCK FALSE
