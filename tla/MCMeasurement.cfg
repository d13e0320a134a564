SPECIFICATION MeasurementSpec
CONSTANTS
    c3 = c3
    c5 = c5
    x3 = x3
    x5 = x5
    n1 = n1
    n2 = n2
    n3 = n3
    r1 = r1
    r2 = r2
    NoNode = NoNode
    CaseList <- FourCases
    RegionsOf <- CaseRegions
    MaxParallel = 1
    MaxFaults = 20
    NodeList <- ThreeNodes
    SsmPolls = 2
    CommandPolls = 2
    ReadyRounds = 2
    MaxTrouble = 1
    Plans <- ThePlans
    SizeOf <- CaseSizes
    ScenarioOf <- CaseScenarios
    Rates <- CaseRates
    WatchList <- TwoNodes
    Kinds <- AllKinds
    MaxPolls = 2
    MaxRounds = 2
    MaxFailing = 1
INVARIANTS
    MeasuredClusterIsWhole
    NothingMeasuredIsLost
    EvaluationsAgree
    CleanRunIsEvaluated
    SavedIsWhole
PROPERTIES
    ImplementsTestRun
    ProcessEnds
    CollectorEnds
CHECK_DEADLOCK FALSE
