SPECIFICATION FairSpec
CONSTANTS
    Client = {c1}
    DataPath = {p, q}
    RootPath = p
    Content = {x}
    NoReply = NoReply
    Missing = Missing
    Unmapped = Unmapped
    BufLen = 1
    AggLen = 1
    MaxVersion = 3
    MaxMappings = 1
    MaxRestarts = 1
INVARIANTS
    TypeOK
    VersionNotAhead
    WatchesMapped
PROPERTIES
    EventsWake
    Converges
