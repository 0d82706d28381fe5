CONSTANTS
  u1 = u1
  u2 = u2
  name = name
  None = None
  Users <- MCUsers
  Paths <- MCUsers
  LongNames <- MCLongNames
  Values <- MCLongNames
  MaxPuts = 2
  MaxGets = 2
  MaxEvents = 1
SPECIFICATION PSpec
INVARIANTS
  ConnectionIsTended
  AckedIsNotUndone
PROPERTY
  AnswersCome
CHECK_DEADLOCK FALSE
