SPECIFICATION Spec
CONSTANTS
    x = x
    xs = xs
    a = a
    b = b
    u = u
    ip = ip
    k = k
    w = w
    link = link
    i0 = i0
    i1 = i1
    Metad = Metad
    MappingDir = MappingDir
    RuleDir = RuleDir
    EmptyKey = EmptyKey
    Dot = Dot
    DotDot = DotDot
    Nil = Nil
    Name <- MCName
    Path <- MCPath
    Value = {w, link}
    Link = {link}
    Word = w
    Ip = {ip}
    IndexName <- MCIndex
    Begins <- MCBegins
    DataPut <- MCDataPut
    DataDelete <- MCDataDelete
    MappingPut <- MCMappingPut
    MappingDelete <- MCMappingDelete
    MaxRequests = 5
INVARIANTS
    FlatMapRoundTrip
    PostReplaces
    RestartAgrees
    MappingsAreLinks
PROPERTIES
    ConfigKept
    DeleteExact
