CONSTANTS
  u1 = u1
  u2 = u2
  p1 = p1
  p2 = p2
  w = w
  None = None
  Users <- MCUsers
  Objects <- MCObjects
  Words <- MCWords
  Images = {photo}
  Segments = {1, 2, 3}
  MaxTime = 3
  MaxFailures = 1
  MaxReminders = 1
SPECIFICATION MCSpec
SYMMETRY MCSymmetry
INVARIANTS
  WTypeOK
  FrequencyHasInterval
  AlertHasItsPlant
  TimestampsUnique
  UnsavedOnlyAfterFailure
  TableFresh
  TrapOnlyAfterFailure
PROPERTIES
  EditLands
  EditTouchesOnlyItsPlant
  OwnerNeverChanges
  NoLateDelete
