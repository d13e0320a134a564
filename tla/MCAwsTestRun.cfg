SPECIFICATION LifecycleSpec
CONSTANTS
    c1 = c1
    c2 = c2
    c3 = c3
    r1 = r1
    r2 = r2
    CaseList <- ThreeCases
    RegionsOf <- TwoRegions
    RegionList <- RegionOrder
    MaxParallel = 2
    MaxFaults = 1
INVARIANTS
    EndedLeavesNothing
    
    ReportIsComplete
    CompletedMeansClean
PROPERTIES
    RunEnds
CHECK_DEADLOCK FALSE
