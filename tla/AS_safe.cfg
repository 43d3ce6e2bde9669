SPECIFICATION Spec
CONSTANTS
  d1 = d1
  d2 = d2
  s1 = s1
  s2 = s2
  Devices = {d1, d2}
  Slots = {s1, s2}
  Fields = {name}
  name = name
  word = word
  blank = blank
  Values = {word, blank}
  Blank = blank
  Epochs = {0, 1}
  KeyIds = {}
  Ids = {1, 2}
  Courses <- SafeCourses
INVARIANTS
  AppliedIsHeld
  NothingStranded
PROPERTIES
  EntriesKept
SYMMETRY Perms
CHECK_DEADLOCK FALSE
