SPECIFICATION FairSpec
CONSTANTS
  Tasks = {t1, t2}
  None = None
  PoolMax = 1
  MaxSpawns = 2
  MaxTrouble = 1
INVARIANTS
  AwaitedIsCurrent
  SettledByOwnRun
PROPERTIES
  DispatchedEnds
  CallEnds
CHECK_DEADLOCK FALSE
