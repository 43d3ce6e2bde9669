SPECIFICATION FairSpec
CONSTANTS
  s1 = s1
  s2 = s2
  NoOne = NoOne
  Seeders = {s1, s2}
  PieceCount = 3
  WindowStart = 2
  WindowMin = 2
  WindowMax = 3
  MaxPieceFailures = 2
  MaxStrikes = 2
  MaxRequests = 2
  Ticks = 2
  CursorPeriod = 2
  Courses <- PassCourses
INVARIANTS
  DeliveredWhole
  HonestKept
PROPERTIES
  DownloadSettles
CHECK_DEADLOCK FALSE
