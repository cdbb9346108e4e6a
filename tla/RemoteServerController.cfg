SPECIFICATION CtlSpec
CONSTANTS
    Sessions = {s1, s2, s3}
    Hosts = {h1}
    Paths = {}
    Conns = {c1, c2}
    MaxReconnectAttempts = 1
    SilentDrops = TRUE
    None = None
SYMMETRY Symmetry
INVARIANTS
    CtlTypeOK
    ManagerUsedAsSpecified
    BootstrapHeldWhileConnecting
    OneScriptPerShell
    StashNeverLost
CHECK_DEADLOCK FALSE
