CONSTANTS
    a = a
    b = b
    c = c
    d = d
    o1 = o1
    o2 = o2
    NoObj = NoObj
    Clients = {a, b, c, d}
    Objs = {o1, o2}
SPECIFICATION FairSpec
INVARIANTS NoLostWakeup
PROPERTIES Implements WriterServed
