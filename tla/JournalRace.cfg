\* One process of two attempts: its claims, leases and settlements by two workers
\* through two clients, whose reads, writes and clocks interleave.
CONSTANTS
    Process = {1}
    Actor = {w1, w2}
    NoActor = NoActor
    Client = {c1, c2}
    Datum = {}
    NoDatum = NoDatum
    LeaseExpired = LeaseExpired
    ClientKey = {}
    MaxAttempts <- TwoAttempts
    Priority <- EqualPriority
    Asked = {"succeeded", "failed", "retry_wait", "cancelled"}
    MaxTime = 2
    MaxAge = 1
    MaxLease = 1
    MaxDelay = 0
SYMMETRY Symmetry
SPECIFICATION Spec
INVARIANTS
     AttemptsAreClaims ResultsFromClaimant TurnsDoNotOverlap

    
\* Once every process is terminal and the clock at its bound, nothing is left to do.
CHECK_DEADLOCK FALSE
