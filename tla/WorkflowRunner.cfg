SPECIFICATION FairSpec
CONSTANTS
  Sessions = {s1, s2}
  Passes = {p1, p2}
  Jobs = {j1, j2}
  NoPass = NoPass
  MaxFailures = 2
  MaxEvents = 3
INVARIANTS
  OneResumePerSession
  FailedSessionGivesUp
PROPERTIES
  PendingSettles
CHECK_DEADLOCK FALSE
