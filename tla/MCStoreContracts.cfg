SPECIFICATION SpecStore
CONSTANTS
    c1 = c1
    c2 = c2
    WatchedId = {1, 2}
    Window = {1, 2}
    Deployed = {c1,c2}
    MaxCrashes = 1
    MaxCommands = 1
    NoEntry = NoEntry
INVARIANT OnlyCompletedFiltered
CHECK_DEADLOCK FALSE
