CONSTANTS
    t1 = t1
    Tasks = {t1}
    MaxConcurrent = 1
    MaxStarts = 1
    MaxSignals = 1
    MaxForeign = 0
    MaxRegistry = 0
SPECIFICATION FairSpec
CHECK_DEADLOCK FALSE
PROPERTIES RestartEnds
