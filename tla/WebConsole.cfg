SPECIFICATION FairSpec
CONSTANTS
    pbx = pbx
    web = web
    addr1 = addr1
    addr2 = addr2
    Host = {pbx, web}
    Preferred = pbx
    All = All
    NoList = NoList
    Tours <- MCTours
    Keep = 1
    NoTimer = NoTimer
    Ip = {addr1, addr2}
    LinePages <- MCLinePages
    NoIp = NoIp
    Nothing = Nothing
    MaxSearches = 2
    MaxLists = 2
    Field = {retention, emails}
    AtZero = {retention, emails}
    AsStored = {emails}
    Star = Star
    Unread = Unread
    Idle = Idle
    MaxWrites = 2
    MaxReloads = 2
INVARIANTS
    TypeOK
    TimersFollowSelection
    CalmPagesInOrder
    RightsAsShown
    ChoicesSurvive
    AcceptedIsListed
    ToastComesTrue
PROPERTIES
    SavesWhatIsMeant
    ExpiryNoticed
    SettlesOnSelection
CHECK_DEADLOCK FALSE
