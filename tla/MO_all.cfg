SPECIFICATION FairSpec
CONSTANTS
  o1 = o1
  o2 = o2
  m1 = m1
  i1 = i1
  bans = bans
  pins = pins
  Owners = {o1, o2}
  Mods = {m1}
  Lists = {bans, pins}
  Delegated = {bans}
  Items = {i1}
  Tries = 1
  Republishes = 1
  Courses <- SafetyCourses
INVARIANTS
  LaterWins
  AbsorbRatifies
  SeenToStorage
PROPERTIES
  PublishLands
CHECK_DEADLOCK FALSE
