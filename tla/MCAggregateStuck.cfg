SPECIFICATION FairSpec
CONSTANTS
    Sub = {s1, s2}
    SubBuf = 2
    AggPerSub = 1
    MaxEvents = 2
    User = {reader, other}
    Reader = reader
    Timer = {t1, t2}
    NoTimer = NoTimer
CHECK_DEADLOCK FALSE
PROPERTIES
    RemoveReturns
