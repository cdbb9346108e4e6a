SPECIFICATION Spec
CONSTANTS
    Proxies = {p1, p2}
    None = None
INVARIANTS
    OneDaemon
CHECK_DEADLOCK FALSE
