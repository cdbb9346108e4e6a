SPECIFICATION MCSpec
CONSTANTS
    Conns = {c1, c2}
    Paths <- MCPaths
    Ignored <- MCIgnored
    MaxChanges = 2
    MaxAsks = 2
    NoTree = NoTree
    NoPath = NoPath
INVARIANTS
    TypeOK
    CopyKeepsUp
PROPERTIES
    NavigationShowsTree
CHECK_DEADLOCK FALSE
