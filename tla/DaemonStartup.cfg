SPECIFICATION FairSpec
CONSTANTS
    Proxies = {p1, p2}
    None = None
INVARIANTS
    TypeOK
    TwoStartersNeedAnUnlink
PROPERTIES
    LoneProxyMeetsItsDaemon
    EveryProxyDecides
    IdleDaemonsEnd
CHECK_DEADLOCK FALSE
