CONSTANTS
    MaxServiceCommands = 5
    MaxFails = 2
    MaxCrashes = 1
    MaxForeground = 1
    MaxReboots = 1
SPECIFICATION ServiceSpec
INVARIANTS
    StatusIsTrue
    CommandsReachTheInstall
PROPERTIES
    WantedIsServed
CHECK_DEADLOCK FALSE
