SPECIFICATION FairSpec

CONSTANTS
    p1 = p1
    p2 = p2
    c1 = c1
    c2 = c2
    k1 = k1
    k2 = k2
    Caches = {p1, p2}
    Sweepers = {p1, p2}
    Clients = {c1, c2}
    CacheOf <- TwoProcesses
    Keys = {k1, k2}
    Ops = {"setmany", "flush", "exists", "ttlof", "inspect", "expire"}
    TTLs <- OneTick
    IntMax = 9
    SweepBatch = 1
    MaxCalls = 2
    MaxTime = 2

PROPERTIES
    ExpiredRowsAreRemoved

\* Once MaxCalls calls are made and MaxTime is reached, everyone may rest.
CHECK_DEADLOCK FALSE
