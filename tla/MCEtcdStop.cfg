SPECIFICATION FairSpec
CONSTANTS
    a = a
    b = b
    c = c
    v1 = v1
    None = None
    Name <- MCName
    Path <- MCPath
    Value = {v1}
    Key <- LeafKeys
    Bulks <- NoBulks
    Requester = {r1}
    MaxOpsPerTxn = 1
    MaxRev = 1
    MaxBreaks = 1
    Compacts = FALSE
CHECK_DEADLOCK FALSE
PROPERTIES
    StopEnds
