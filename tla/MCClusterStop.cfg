SPECIFICATION Spec
CONSTANTS
    Nodes = {n1, n2, n3}
    Boot = n1
    Restartable = {}
    JoinRetries = 2
    MaxTerm = 3
    MaxWrites = 1
    MaxCrashes = 1
SYMMETRY Symmetry
INVARIANTS
    ConsistentData
    AckedWritesSurvive
    ServingIsMember
CHECK_DEADLOCK FALSE
