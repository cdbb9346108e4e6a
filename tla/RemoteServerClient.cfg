SPECIFICATION FairSpec
CONSTANTS
    Requests = {r1, r2}
    MaxPushes = 1
    None = None
INVARIANTS
    TypeOK
    NoCallOutlivesConnection
    EntriesEndWithCalls
PROPERTIES
    TimeoutsOnlyWhileAlive
    DeadConnectionEndsCalls
CHECK_DEADLOCK FALSE
