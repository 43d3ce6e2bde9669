SPECIFICATION FairSpec
CONSTANTS
  a1 = a1
  a2 = a2
  m = m
  owner = owner
  member = member
  Devices = {a1, m}
  Accounts = {owner, member}
  AccountOf <- AccountOfDevice
  Owner = owner
  Keys = {k1}
  Junk = junk
  RequestIds = {r1, r2}
  MaxEpoch = 1
  Courses <- LiveCourses
  ParkCap = 1
  None = None
PROPERTIES
  MembersCatchUp
CHECK_DEADLOCK FALSE
