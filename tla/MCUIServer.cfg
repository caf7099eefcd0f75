SPECIFICATION Spec

CONSTANTS
    r1 = r1
    r2 = r2
    main = main
    Requests = {r1, r2}
    Main = main
    p1 = p1
    p2 = p2
    Paths = {p1, p2}
    NameOf <- SameName
    Sources <- NoneOrOne
    Kinds = {"page", "mutation", "dashboard", "search", "metrics", "events"}
    MaxKinds = 1
    MaxFiles = 2
    MaxSteps = 2
    MaxFails = 1

INVARIANTS
    HandlesAreShared
    ClosesAfterDraining

PROPERTIES
    NothingIsReplaced
    LostCursorsAreReal
    ShutdownCompletes

\* Nothing happens after the process has ended.
CHECK_DEADLOCK FALSE
