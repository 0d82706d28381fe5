CONSTANTS
  u1 = u1
  u2 = u2
  p1 = p1
  p2 = p2
  w = w
  None = None
  Users <- MCUsers
  Objects <- MCObjects
  Words <- MCWords
  Images = {}
  Segments = {1, 2, 3}
  MaxTime = 2
  MaxFailures = 1
  MaxReminders = 2
SPECIFICATION MCSpec
SYMMETRY MCSymmetry
INVARIANTS
  AlertTellsTheTime
