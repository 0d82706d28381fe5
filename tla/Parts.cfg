CONSTANTS
  None = None
SPECIFICATION Spec
INVARIANTS
  LogsAreRight
  FilesAreRight
  TablesAreRight
  ReadersAreSafe
  LevelsAreOrdered
  LookupsAreRight
  CacheIsConsistent
  EnvironmentIsSafe
PROPERTIES
  IteratorsAreCursors
  ManualsAreComplete
CHECK_DEADLOCK FALSE
