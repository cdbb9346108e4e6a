SPECIFICATION Spec
CONSTANTS
    Sessions = {s1, s2}
    Hosts = {h1, h2}
    Paths = {p1}
    Conns = {c1, c2, c3}
    MaxReconnectAttempts = 2
    None = None
SYMMETRY Symmetry
INVARIANTS
    TypeOK
    HostIndexExact
    OneAttemptPerSession
    ClosedStaysGone
    CachesAreOfThisClient
    ReposOnlyOfConnectedHosts
PROPERTIES
    HostEventsFollowIndex
    ImplementsHostPresence
CHECK_DEADLOCK FALSE
