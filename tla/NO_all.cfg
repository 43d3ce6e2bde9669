SPECIFICATION CreationFairSpec
CONSTANTS
  g1 = g1
  g2 = g2
  p1 = p1
  Creations = {g1, g2, p1}
  Gated = {g1, g2}
  Mode <- ModeOf
  Streams = {"message", "ephemeral", "admin", "keys"}
  Rounds = 2
  CreationCourses <- PassCourses
INVARIANTS
  
  PaidOnce
  RepairHeals
PROPERTIES
  FinishLands
CHECK_DEADLOCK FALSE
