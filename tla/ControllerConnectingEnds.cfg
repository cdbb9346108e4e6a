SPECIFICATION CtlFairSpec
CONSTANTS
    Sessions = {s1}
    Hosts = {h1}
    Paths = {}
    Conns = {c1, c2}
    MaxReconnectAttempts = 1
    SilentDrops = FALSE
    None = None
PROPERTIES
    ConnectingEnds
CHECK_DEADLOCK FALSE
