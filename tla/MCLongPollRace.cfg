SPECIFICATION Spec
CONSTANTS
    Client = {c1}
    DataPath = {p, q}
    RootPath = p
    Content = {x, y}
    NoReply = NoReply
    Missing = Missing
    Unmapped = Unmapped
    BufLen = 2
    AggLen = 1
    MaxVersion = 3
    MaxMappings = 0
    MaxRestarts = 0
INVARIANTS
    NoLostChange
