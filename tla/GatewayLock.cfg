CONSTANTS
    p1 = p1
    p2 = p2
    p3 = p3
    NoPid = NoPid
    Procs = {p1, p2, p3}
SPECIFICATION LockSpec
CHECK_DEADLOCK FALSE
INVARIANTS HolderNamed
