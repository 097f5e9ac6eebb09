SPECIFICATION FairSpec
CONSTANTS
    a = a
    b = b
    c = c
    b2 = b2
    v1 = v1
    v2 = v2
    w1 = w1
    w2 = w2
    Empty = Empty
    None = None
    Name <- MCName
    Path <- MCPath
    Value = {v1}
    Watcher = {w1}
    BufLen = 1
    CleanCap = 1
    Bulks <- MCBulks
    MaxVersion = 2
CHECK_DEADLOCK FALSE
PROPERTIES
    GarbageCollected
    HiddenValueReturns
