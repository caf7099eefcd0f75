SPECIFICATION FairSpec

CONSTANTS
    p1 = p1
    c1 = c1
    c2 = c2
    k1 = k1
    k2 = k2
    k3 = k3
    Caches = {p1}
    Clients = {c1, c2}
    CacheOf <- OneProcess
    Keys = {k1, k2}
    Ops = {"set", "add", "setmany", "replace", "getset", "incr", "get", "delete", "maintain"}
    Policy = "lru"
    MaxKeys = 1
    MaxBytes = 0
    Sizes = {1}
    TTLs = {1}
    FlushEvery = 2
    MaxCalls = 3
    MaxTime = 1
    MaxFails = 1

INVARIANTS
    TypeOK
    WithinLimitsAtRest
    OverEvictionIsBounded

PROPERTIES
    LimitsAreRestored

\* Once MaxCalls calls are made, everyone may rest.
CHECK_DEADLOCK FALSE
