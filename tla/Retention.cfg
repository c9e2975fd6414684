\* Two runs that may be created again, one keeper, and a host that keeps the log.
CONSTANTS
    Run = {1, 2}
    Keeper = {k}
    KeepLast = 1
    Age = 0
    Truncates = FALSE
    MaxTime = 1
    MaxBirths = 2
    MaxVersion = 4
SPECIFICATION RetentionSpec
INVARIANTS PlanIsLive PublishedWhole
PROPERTIES DeletesOldTerminal KeepsNewest
CHECK_DEADLOCK FALSE
