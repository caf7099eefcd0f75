SPECIFICATION Spec

CONSTANTS
    p1 = p1
    c1 = c1
    c2 = c2
    k1 = k1
    k2 = k2
    k3 = k3
    Caches = {p1}
    Clients = {c1}
    CacheOf <- OneClient
    Keys = {k1, k2, k3}
    Ops = {"get", "set"}
    Policy = "lru"
    MaxKeys = 2
    MaxBytes = 0
    Sizes = {1}
    TTLs <- NoTTLs
    FlushEvery = 100
    MaxCalls = 6
    MaxTime = 4
    MaxFails = 0

PROPERTIES
    EvictsLeastRecentlyUsed

\* Once MaxCalls calls are made, everyone may rest.
CHECK_DEADLOCK FALSE
