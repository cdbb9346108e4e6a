SPECIFICATION FairSpec
CONSTANTS
    Conns = {c1}
    Requests = {r1}
    None = None
PROPERTIES
    WriterEnds
CHECK_DEADLOCK FALSE
