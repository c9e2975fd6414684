\* Two processes of one attempt each: order of the queue, reaping of several
\* rows in the claim of another, commands under keys of their callers.
CONSTANTS
    Process = {1, 2}
    Actor = {w1, w2}
    NoActor = NoActor
    Client = {c1}
    Datum = {}
    NoDatum = NoDatum
    LeaseExpired = LeaseExpired
    ClientKey = {k1}
    MaxAttempts <- OneAttempt
    Priority <- SecondFirst
    Asked = {"ready", "succeeded"}
    MaxTime = 2
    MaxAge = 0
    MaxLease = 1
    MaxDelay = 0
SYMMETRY Symmetry
SPECIFICATION Spec
INVARIANTS
    QueueKeysFree
\* Once every process is terminal and the clock at its bound, nothing is left to do.
CHECK_DEADLOCK FALSE
