SPECIFICATION FairSpec
CONSTANTS
  Chans = {a, b, c}
  Slots = {1, 2, 3, 4, 5}
  None = None
  Parts <- ContentAfterOverrides
  Courses <- AllCourses
  Faults <- AllFaults
INVARIANTS
  ShownHeard
  NoMix
PROPERTIES
  UpKept
  Revives
CHECK_DEADLOCK FALSE
