SPECIFICATION Spec
CONSTANTS
    Streams = {s1, s2}
    MaxIndex = 3
    MaxSends = 4
INVARIANTS
    NothingSkipped
CHECK_DEADLOCK FALSE
