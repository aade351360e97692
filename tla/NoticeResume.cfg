SPECIFICATION FairSpec
CONSTANTS
  Jobs = {j1, j2}
  Refired = {j1}
  MaxFires = 2
  LedgerCap = 2
  MaxFailures = 2
  MaxStimuli = 3
INVARIANTS
  NoticeNeverLost
  OneWakePerJob
PROPERTIES
  IdleParentSeesNotice
CHECK_DEADLOCK FALSE
