SPECIFICATION FairSpec
CONSTANTS
    file = file
    link = link
    hidden = hidden
    c1 = c1
    s1 = s1
    s2 = s2
    None = None
    Path = {file, link, hidden}
    Resolved = {file, link}
    Readable = {file, link}
    RealPath <- Real
    Globs <- GlobsOf
    Hints <- HintsOf
    Core = {}
    Opened = {file}
    Scanned = {file, link}
    Container = {c1}
    Stream = {s1, s2}
    Config <- Docker
    Cap = 1
    Kinds = {"stdout"}
    MaxLines = 1
    MaxStreamed = 1
    MaxChanges = 2
    MaxRestarts = 0
PROPERTY
    StreamLogsEnds
CHECK_DEADLOCK FALSE
