SPECIFICATION FairSpec
CONSTANTS
    a = a
    b = b
    c = c
    Name <- MCName
    Path <- MCPath
    Value = {v1, v2}
    Empty = Empty
    BufLen = 4
    MaxWrites = 5
CHECK_DEADLOCK FALSE
INVARIANTS
    InStep
PROPERTIES
    StopsInStep
