SPECIFICATION FairSpec
CONSTANTS
    Conns = {c1, c2}
    Requests = {r1}
    None = None
INVARIANTS
    TypeOK
    AnsweredOnceToItsAsker
    MapsMatchTasks
    TimedExactlyWhileIdle
PROPERTIES
    TeardownGetsThrough
    AnswersArrive
    DeadDaemonIsNoticed
CHECK_DEADLOCK FALSE
