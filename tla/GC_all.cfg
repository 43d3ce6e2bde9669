SPECIFICATION FairSpec
CONSTANTS
  Users = {u1}
  Urls = {1, 2, 3}
  Calls = {c1, c2}
  GrantTtl = 2
  DenialTtl = 1
  None = None
  Courses <- AllCourses
INVARIANTS
  GrantFresh
  CutGetsNoKey
  RoundRight
PROPERTIES
  AnswersCatchUp
