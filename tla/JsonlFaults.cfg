\* Claims that are lost, crashes in and between the writes, and a write that fails.
CONSTANTS
    r1 = r1
    r2 = r2
    k1 = k1
    k2 = k2
    Run = {r1, r2}
    NoRun = NoRun
    Worker = {w1}
    NoWorker = NoWorker
    CallerKey = {k1, k2}
    Process = {p1}
    RunOf <- InFirstRun
    MaxAttempts <- OneAttempt
    Batches <- SmallBatches
    MaxTime = 1
    Lease = 1
    MaxErrors = 1
SPECIFICATION JsonlSpec
INVARIANTS
    FileKeysOnce FileInOrder IndexKnowsFile CrashesNeverRefuse
\* When every key is used and every row claimed, no call changes anything.
CHECK_DEADLOCK FALSE
