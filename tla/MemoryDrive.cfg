\* A path of three processes, driven by two workers in turn, with effectors that raise.
CONSTANTS
    r1 = r1
    p1 = p1
    p2 = p2
    p3 = p3
    Run = {r1}
    NoRun = NoRun
    NoWorker = NoWorker
    CallerKey <- RuntimeKey
    Process = {p1, p2, p3}
    RunOf <- InFirstRun
    MaxAttempts <- RootTwice
    Upstream <- Diamond
    Worker = {w1, w2}
    Lease = 2
    MaxTicks = 4
    MaxTime = 5
    MaxMoves = 2
SPECIFICATION RuntimeSpec
INVARIANTS
     ConductedInOrder
PROPERTIES
     DriveReturnsIdle
\* Once every row is terminal and the clock at its bound, nothing is left to do.
CHECK_DEADLOCK FALSE
