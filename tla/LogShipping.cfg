SPECIFICATION FairSpec
CONSTANTS
    file = file
    link = link
    hidden = hidden
    c1 = c1
    s1 = s1
    s2 = s2
    None = None
    Path = {file, link, hidden}
    Resolved = {file, link}
    Readable = {file, link}
    RealPath <- Real
    Globs <- GlobsOf
    Hints <- HintsOf
    Core = {}
    Opened = {file}
    Scanned = {file, link}
    Container = {c1}
    Stream = {s1, s2}
    Config <- Configs
    Cap = 1
    Kinds = {"stderr", "overlong"}
    MaxLines = 3
    MaxStreamed = 2
    MaxChanges = 2
    MaxRestarts = 1
INVARIANTS
    TypeOK
    AtMostOnce
    WebLinesRecognised
PROPERTIES
    PostedInOrder
    Drains
    FollowsContainers
CHECK_DEADLOCK FALSE
