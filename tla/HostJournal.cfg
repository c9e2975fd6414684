\* One run that may be deleted and created again, one process.
CONSTANTS
    Run = {r}
    Process = {p}
    A = A
    B = B
    a1 = a1
    a2 = a2
    b1 = b1
    Home = {A, B}
    Thread = {a1, a2, b1}
    HomeOf <- ThreadHomes
    Worker = {w}
    Doc = {d}
    NoDoc = NoDoc
    Nobody = Nobody
    Budget = 2
    RunAsked = {"active", "failed"}
    Asked = {"ready", "cancelled"}
    MaxTime = 1
    MaxLease = 1
    MaxBirths = 2
SYMMETRY Symmetry
SPECIFICATION HostSpec
INVARIANTS CallbackOnce CallbackEnds  
PROPERTIES  RecoveryForetold
CHECK_DEADLOCK FALSE
