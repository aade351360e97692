SPECIFICATION FairSpec
CONSTANTS
  Ticks = {k1, k2}
  Stale = 1
  Period = 1
  MaxTime = 5
  MaxCalls = 2
  MaxCrashes = 1
INVARIANTS
  FiresOncePerDue
  OneShotNotEarly
  
PROPERTIES
  OneShotSettles
CHECK_DEADLOCK FALSE
