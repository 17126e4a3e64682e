SPECIFICATION Spec
CONSTANTS
    None = None
    Width = 8
    RefreshEvery = 2
    FloodLimit = 1
    MaxTraffic = 3
    MaxClock = 2
    MaxTicks = 3
    MaxEvents = 1
INVARIANTS
    TypeOK
    CountedOnce
    StoredInOrder
    HistoryCountedOnce
PROPERTIES
    NoFalseAlarm
CHECK_DEADLOCK FALSE
