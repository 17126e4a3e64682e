SPECIFICATION Spec
CONSTANTS
    a1 = a1
    a2 = a2
    p1 = p1
    p10 = p10
    i1 = i1
    i2 = i2
    NoAgent = NoAgent
    NoReport = NoReport
    Agent = {a1, a2}
    IP = {p1}
    Within <- Distinct
    CmdId = {i1, i2}
    MaxCopies = 1
    MaxSyncs = 0
    MaxExternal = 1
    Flaky = FALSE
    TTL = TRUE
SYMMETRY CommandSymmetry
INVARIANTS
    TypeOK
    SettledWasRun
    FirstRunsInOrder
    LastCommandDecides
    OnlyWhatWasAsked
PROPERTY
    DeliversAtLeastOnce
CHECK_DEADLOCK FALSE
