SPECIFICATION FairSpec
CONSTANTS
    Callers = {g1, g2}
    Closers = {g2, g3}
    Workers = {w1, w2}
    QueueSize = 1
    MaxCalls = 3
INVARIANTS
    TypeOK
    DeliveredIsComplete
    DeliveredOnce
PROPERTIES
    CloseReturns
CHECK_DEADLOCK FALSE
