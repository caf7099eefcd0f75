SPECIFICATION Spec

CONSTANTS
    c1 = c1
    c2 = c2
    Clients = {c1, c2}
    p = p
    q = q
    Passwords = {p, q}
    Default = "admin"
    Idle = 1
    Lifetime = 2
    Free = 1
    Width = 1
    MaxBackoff = 2
    Stale = 1
    Mixes <- Combined
    MaxTime <- TimeFor
    MaxSessions = 2
    MaxFailures = 5
    MaxStarts = 2
    MaxCommands = 1

SYMMETRY Symmetry

INVARIANTS
    FailuresAreSlowed
    ConfigIsSaved

PROPERTIES
    SessionsEnd

\* The clock is bounded, and a server may be idle.
CHECK_DEADLOCK FALSE
