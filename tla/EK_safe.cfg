SPECIFICATION Spec
CONSTANTS
  a1 = a1
  a2 = a2
  m = m
  owner = owner
  member = member
  Devices = {a1, a2, m}
  Accounts = {owner, member}
  AccountOf <- AccountOfDevice
  Owner = owner
  Keys = {k1, k2, k3}
  Junk = junk
  RequestIds = {r1}
  MaxEpoch = 2
  Courses <- SafetyCourses
  ParkCap = 1
  None = None
INVARIANTS
  KeyIntegrity
  
PROPERTIES
  Implements
  MembersFollowOldest
  
SYMMETRY Perms
CHECK_DEADLOCK FALSE
