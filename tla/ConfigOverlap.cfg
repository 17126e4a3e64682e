SPECIFICATION RetentionSpec
CONSTANTS
    c1 = c1
    c2 = c2
    Client = {c1, c2}
    Requests <- RetentionRequests
    InitialFiles <- FreshOrOld
    Null = Null
    SaveFails = TRUE
    ReadFails = TRUE
    Torn = TRUE
    MaxCrashes = 1
    MaxRequests = 3
    Tables = 2
    Days <- MCDays
    StartupDays = 7
    AlterMayFail = TRUE
INVARIANT
    TypeOK
INVARIANT
    RegistrationNeverPanics
INVARIANT
    QuietMeansStored
INVARIANT
    RetentionInForce
PROPERTY
    AgentsNotForgotten
CHECK_DEADLOCK FALSE
