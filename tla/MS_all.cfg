SPECIFICATION TimelineFairSpec
CONSTANTS
  d1 = d1
  d2 = d2
  Devices = {d1}
  Others = {d2}
  MaxStamp = 4
  Window = 2
  Reads = 2
  Retries = 1
  TimelineCourses <- PassCourses
INVARIANTS
  OverridesKept
  HistoryWhole
  
PROPERTIES
  AllSettles
CHECK_DEADLOCK FALSE
