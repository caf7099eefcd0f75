SPECIFICATION Spec

CONSTANTS
    c1 = c1
    c2 = c2
    k1 = k1
    k2 = k2
    f1 = f1
    f2 = f2
    Clients = {c1, c2}
    Native = {c1}
    Keys = {k1, k2}
    Called = {k1}
    Fields = {f1, f2}
    Ops = {"hset", "hsetmany", "hdel"}
    MaxKeys = 1
    TTLs <- OneTick
    IntMax = 1
    PerStatement = 1
    MaxCalls = 2
    MaxForeign = 1
    MaxTime = 1
    MaxFails = 1

PROPERTIES
    OneAccessPerCall
