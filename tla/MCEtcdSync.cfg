SPECIFICATION FairSpec
CONSTANTS
    a = a
    b = b
    c = c
    v1 = v1
    None = None
    Name <- MCName
    Path <- MCPath
    Value = {v1}
    Key <- LeafKeys
    Bulks <- MCBulks
    Requester = {r1}
    MaxOpsPerTxn = 1
    MaxRev = 3
    MaxBreaks = 1
    Compacts = TRUE
CHECK_DEADLOCK FALSE
INVARIANTS
    TypeOK
    InSyncWithoutGap
    InitSignalledOnce
PROPERTIES
    CatchesUp
    StopEndsFirstWatch
