\* Two drivers, three attempts, one second of backoff doubled to two.
CONSTANTS
    Process = {1}
    Actor = {d1, d2, op}
    NoActor = NoActor
    Client = {d1, d2, op}
    Datum <- Documents
    NoDatum = NoDatum
    LeaseExpired = LeaseExpired
    ClientKey = {}
    MaxAttempts <- ThreeAttempts
    Priority <- EqualPriority
    Asked = {"succeeded", "failed", "retry_wait", "cancelled", "cancel_requested", "timed_out"}
    MaxTime = 7
    MaxAge = 7
    MaxLease = 1
    MaxDelay = 2
    Driver = {d1, d2}
    Operator = op
    WorkerId <- OwnName
    Realtime = TRUE
    LeaseLen = 1
    Subprocess = {}
    RetryAllowed = {1}
    Backoff <- OneSecond
    MaxBackoff = 2
    Outcome = {"success", "failure", "timeout"}
    Cancellable = {}
    EffectorError = EffectorError
    ContractError = ContractError
    ExpiryError = ExpiryError
    CancelError = CancelError
    MaxCrashes = 1
SPECIFICATION FairDriverSpec
INVARIANTS
    AttemptEnds
PROPERTIES
    EventuallyTerminal
\* A run stops when its process is terminal and the drivers find nothing to do.
CHECK_DEADLOCK FALSE
