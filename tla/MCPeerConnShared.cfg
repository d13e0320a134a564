SPECIFICATION FairSpec
CONSTANTS
    Senders = {s1, s2}
    MaxConns = 4
    StreamsRunOut = TRUE
INVARIANTS
    OneDeathIsMasked
    LeaksBounded
PROPERTIES
    CloseLeavesOnlyLeaks
    CallsReturn
CHECK_DEADLOCK FALSE
