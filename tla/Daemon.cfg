CONSTANTS
    t1 = t1
    t2 = t2
    t3 = t3
    Tasks = {t1, t2, t3}
    MaxConcurrent = 1
    MaxStarts = 1
    MaxSignals = 2
    MaxForeign = 1
    MaxRegistry = 1
SPECIFICATION FairSpec
CHECK_DEADLOCK FALSE
INVARIANTS CapPerGeneration Fifo GracefulDrain
PROPERTIES ForeignLockKept StaleNeverResolves EveryTaskSettles ShutdownEnds
