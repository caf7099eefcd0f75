SPECIFICATION Spec

CONSTANTS
    p1 = p1
    p2 = p2
    c1 = c1
    c2 = c2
    k1 = k1
    k2 = k2
    Caches = {p1, p2}
    Sweepers = {p1}
    Clients = {c1, c2}
    CacheOf <- TwoProcesses
    Keys = {k1}
    Ops = {"get", "getmany", "set", "add", "replace", "expire", "persist", "incr", "getset", "delete"}
    TTLs <- OneTick
    IntMax = 1
    SweepBatch = 1
    MaxCalls = 3
    MaxTime = 2

INVARIANTS
    SwapsTakeEachValueOnce

PROPERTIES
    SweepRemovesOnlyExpired
    RevivedOnlyByEarlierCall
    LiveRowsLeaveOnRequest

\* Once MaxCalls calls are made and MaxTime is reached, everyone may rest.
CHECK_DEADLOCK FALSE
