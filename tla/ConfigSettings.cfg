SPECIFICATION Spec
CONSTANTS
    c1 = c1
    c2 = c2
    Client = {c1, c2}
    Requests <- SettingsAndHosts
    InitialFiles <- Stored
    Null = Null
    SaveFails = FALSE
    ReadFails = FALSE
    Torn = FALSE
    MaxCrashes = 0
    MaxRequests = 2
PROPERTY
    SettingsOnly
CHECK_DEADLOCK FALSE
