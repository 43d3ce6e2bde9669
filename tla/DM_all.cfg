SPECIFICATION FairSpec
CONSTANTS
  Texts = {1, 2, 3}
  Owns = {7}
  MaxTime = 4
  ReplayRows = 1
  Widths = {2}
  Courses <- PassCourses

  
PROPERTIES
  StoredIsShown
CHECK_DEADLOCK FALSE
