SPECIFICATION CtlFairSpec
CONSTANTS
    Sessions = {s1, s2}
    Hosts = {h1}
    Paths = {}
    Conns = {c1, c2}
    MaxReconnectAttempts = 1
    SilentDrops = TRUE
    None = None
PROPERTIES
    ProbesEnd
    ReconnectingEnds
    ClosedLeavesNothing
CHECK_DEADLOCK FALSE
