SPECIFICATION FairSpec
CONSTANTS
    n1 = n1
    n2 = n2
    n3 = n3
    NodeList <- ThreeNodes
    NoNode = NoNode
    Rounds = 1
    Writes = 2
    Ticks = 1
    Reads = 1
    MaxChanges = 2
    MaxFaults = 1
INVARIANTS
    CountersAddUp
    CountedWritesApplied
    CalmWritesOnce
PROPERTIES
    BenchmarkEnds
