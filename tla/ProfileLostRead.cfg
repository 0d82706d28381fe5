CONSTANTS
  u1 = u1
  u2 = u2
  name = name
  None = None
  Users <- MCUsers
  Paths <- MCUsers
  LongNames <- MCLongNames
  Values <- MCLongNames
  MaxPuts = 1
  MaxGets = 2
  MaxEvents = 1
SPECIFICATION PSpec
PROPERTY
  ReadsAreAnswered
CHECK_DEADLOCK FALSE
