SPECIFICATION Spec
CONSTANTS
    Nodes = {n1, n2, n3}
    Boot = n1
    Restartable = {n1}
    JoinRetries = 1
    MaxTerm = 4
    MaxWrites = 1
    MaxCrashes = 1
INVARIANTS
    ConsistentData
CHECK_DEADLOCK FALSE
