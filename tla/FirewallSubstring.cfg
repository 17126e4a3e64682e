SPECIFICATION Spec
CONSTANTS
    a1 = a1
    a2 = a2
    p1 = p1
    p10 = p10
    i1 = i1
    i2 = i2
    Agent = {a1}
    NoAgent = NoAgent
    NoReport = NoReport
    IP = {p1, p10}
    Within <- Overlapping
    CmdId = {i1, i2}
    MaxCopies = 1
    MaxSyncs = 0
    MaxExternal = 1
    Flaky = FALSE
    TTL = FALSE
CHECK_DEADLOCK FALSE
PROPERTY
    UnblockSparesOthers
