SPECIFICATION Spec
CONSTANTS
    Conns = {c1, c2}
    Paths <- MCPaths
    Ignored <- MCIgnored
    MaxChanges = 2
    MaxAsks = 2
    NoTree = NoTree
    NoPath = NoPath
INVARIANTS
    PlaceholderFilled
CHECK_DEADLOCK FALSE
