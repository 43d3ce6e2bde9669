SPECIFICATION FairSpec
CONSTANTS
  m1 = m1
  m2 = m2
  Members = {m1, m2}
  Sends = {"text"}
  Courses <- AllCourses
INVARIANTS
  NoDebtForgotten
  SendsKeepOut
PROPERTIES
  CoverSound
  DebtIsPaid
  LossEndsReading
CHECK_DEADLOCK FALSE
