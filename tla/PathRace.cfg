\* Two callers drive one persisted plan, and one call may die; the second process
\* has a condition.
CONSTANTS
    Size = 3
    Upstream <- Steps
    When <- OnReview
    Manual = {}
    Caller = {c1, c2}
    Nobody = Nobody
    MaxAttempts = 2
    MaxTicks = 3
    MaxCrashes = 1
    Persisted = TRUE
    Realtime = TRUE
    OwnKeys = FALSE
SYMMETRY CallerSymmetry
SPECIFICATION PathSpec
INVARIANTS
    ConductedInOrder ConditionDecides RunFollowsRows
PROPERTIES
    EndIsFinal
\* A run stops when it has ended and its callers have returned.
CHECK_DEADLOCK FALSE
