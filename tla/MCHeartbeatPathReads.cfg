SPECIFICATION Spec
CONSTANTS
    Streams = {s1, s2}
    MaxIndex = 3
    MaxSends = 5
INVARIANTS
    ReadConsistency
CHECK_DEADLOCK FALSE
