SPECIFICATION FairSpec
CONSTANTS
    n1 = n1
    n2 = n2
    n3 = n3
    Nodes = {n1, n2, n3}
    Links <- SomeLinks
    Stoppers = {n1, n2}
    Victims = {n1, n2}
    ConsumeCap = 1
    Pipelines <- SomePipelines
    QueueSize = 1
INVARIANTS
    NothingUsesClosedTransport
PROPERTIES
    ShutdownCompletesOrCircle
    RpcReturns
CHECK_DEADLOCK FALSE
