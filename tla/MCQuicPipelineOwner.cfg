SPECIFICATION FairSpec
CONSTANTS
    Callers = {g1}
    Closers = {g1}
    Workers = {w1, w2}
    QueueSize = 2
    MaxCalls = 6
INVARIANTS
    CompletedOnce
    OvertakingBounded
    ClosedLeavesNonePending
PROPERTIES
    OutcomeIsFinal
    AppendReturns
    KeepsPromise
CHECK_DEADLOCK FALSE
