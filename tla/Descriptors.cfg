SPECIFICATION RunSpec
CONSTANTS
    t1 = t1  t2 = t2
    Threads = {t1}
    Waiters = {w1, w2}
    NSOCK_FD_MAX = 1
    MaxSockets = 2
    MaxPollers = 1
    Interests = {TRUE, FALSE}
    MaxEvents = 1
    EventMasks = {"read"}
    Null = Null
SYMMETRY Symmetric
INVARIANTS NoLeakedDescriptor PollerMemory NothingMissed
PROPERTY NumbersReused
