CONSTANTS
    c1 = c1
    c2 = c2
    c3 = c3
    s1 = s1
    Calls = {c1, c2, c3, s1}
    Shells = {s1}
    NoRun = NoRun
    MaxWaits = 2
    MaxDispose = 1
SPECIFICATION FairSpec
INVARIANTS SingleLiveRun NoStrandedWaiter QuietMeansIdle
PROPERTIES SlotHandover PromptGetsRun
