CONSTANTS
    A = A
    B = B
    a = a
    b = b
    Home = {A, B}
    Caller = {a, b}
    Settings <- TwoSettings
    Nobody = Nobody
    MayFail = TRUE
    MaxEdition = 2
    MaxTime = 1
SPECIFICATION RunSpec
INVARIANTS ArtifactsWhole  StampsFollowTurns
PROPERTIES LosersNeverRebuild EveryCallReturns
CHECK_DEADLOCK FALSE
