SPECIFICATION Spec
CONSTANTS
    c1 = c1
    c2 = c2
    Client = {c1}
    Requests <- AllRequests
    InitialFiles <- FreshOrOld
    Null = Null
    SaveFails = TRUE
    ReadFails = TRUE
    Torn = TRUE
    MaxCrashes = 1
    MaxRequests = 3
PROPERTY
    OneAtATimeIsAtomic
CHECK_DEADLOCK FALSE
