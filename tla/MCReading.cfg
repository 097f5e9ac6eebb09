SPECIFICATION Spec
CONSTANTS
    clusters = clusters
    cl1 = cl1
    cl2 = cl2
    env = env
    v1 = v1
    Wild = Wild
    NoNode = NoNode
    NoRules = NoRules
    NoMapping = NoMapping
    Empty = Empty
    Name <- MCName
    Path <- MCPath
    Value = {v1}
    Host = {h}
    RuleLists <- MCRuleLists
    InitialRules <- MCInitialRules
    InitialTrees <- MCInitialTrees
    Mappings <- MCMappings
    MaxChanges = 1
INVARIANTS
    TypeOK
    TravellerInStep
    LinksFromRoot
    ServesByRules
