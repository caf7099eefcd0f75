SPECIFICATION FairSpec

CONSTANTS
    c1 = c1
    c2 = c2
    Clients = {c1, c2}
    Timeout = 1
    Policy = "lru"
    MaxKeys = 1
    Others = 1
    Env = {"set", "touch", "read", "flush"}
    MaxLocks = 3
    MaxOthers = 1
    MaxTime = 4

INVARIANTS
    ExclusiveUnlessRemoved

PROPERTIES
    NeverWedged

\* Once MaxLocks calls are made and MaxTime is reached, everyone may rest.
CHECK_DEADLOCK FALSE
