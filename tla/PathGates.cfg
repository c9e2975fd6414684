\* Two callers create a run, persist its plan and drive it; they also answer and
\* rearm the homeostat of the first process.
CONSTANTS
    Size = 2
    Upstream <- Pair
    When <- NoCondition
    Manual = {1}
    Caller = {c1, c2}
    Nobody = Nobody
    MaxAttempts = 2
    MaxTicks = 1
    MaxCrashes = 0
    Persisted = FALSE
    Realtime = TRUE
    OwnKeys = FALSE
SPECIFICATION FairPathSpec
INVARIANTS
    GateFollowsProcess
PROPERTIES
    PathEnds
\* A run stops when it has ended and its callers have returned.
CHECK_DEADLOCK FALSE
