SPECIFICATION FairSpec
CONSTANTS
    a1 = a1
    a2 = a2
    p1 = p1
    p10 = p10
    i1 = i1
    i2 = i2
    NoAgent = NoAgent
    NoReport = NoReport
    Agent = {a1}
    IP = {p1}
    Within <- Distinct
    CmdId = {i1}
    MaxCopies = 1
    MaxSyncs = 1
    MaxExternal = 2
    Flaky = TRUE
    TTL = FALSE
PROPERTIES
    ListMatchesReality
    CommandsSettle
