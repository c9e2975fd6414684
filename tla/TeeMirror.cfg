\* Two runs, whose rows are claimed together and reaped in one batch.
CONSTANTS
    r1 = r1
    r2 = r2
    k1 = k1
    k2 = k2
    p1 = p1
    p2 = p2
    Run = {r1, r2}
    NoRun = NoRun
    Worker = {w1, w2}
    NoWorker = NoWorker
    CallerKey = {k1, k2}
    Process = {p1, p2}
    RunOf <- InOwnRuns
    MaxAttempts <- TwoAttempts
    Batches <- DistinctKeys
    MaxTime = 2
    Lease = 1
SPECIFICATION TeeSpec
INVARIANTS
    SecondaryMirrors
\* When every key is used and every row failed, no call changes anything.
CHECK_DEADLOCK FALSE
