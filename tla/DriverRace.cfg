\* Two drivers with names of their own race for one process that may be cancelled; one may die.
CONSTANTS
    Process = {1}
    Actor = {d1, d2, op}
    NoActor = NoActor
    Client = {d1, d2, op}
    Datum <- Documents
    NoDatum = NoDatum
    LeaseExpired = LeaseExpired
    ClientKey = {}
    MaxAttempts <- ThreeAttempts
    Priority <- EqualPriority
    Asked = {"succeeded", "failed", "retry_wait", "cancelled", "cancel_requested", "timed_out"}
    MaxTime = 2
    MaxAge = 2
    MaxLease = 1
    MaxDelay = 0
    Driver = {d1, d2}
    Operator = op
    WorkerId <- OwnName
    Realtime = TRUE
    LeaseLen = 1
    Subprocess = {1}
    RetryAllowed = {1}
    Backoff <- NoBackoff
    MaxBackoff = 2
    Outcome = {"success", "invalid", "breach"}
    Cancellable = {1}
    EffectorError = EffectorError
    ContractError = ContractError
    ExpiryError = ExpiryError
    CancelError = CancelError
    MaxCrashes = 1
SYMMETRY DriverSymmetry
SPECIFICATION DriverSpec
INVARIANTS
    ResultOfOwnAttempt ContractErrorsAttributed
\* A run stops when its process is terminal and the drivers find nothing to do.
CHECK_DEADLOCK FALSE
