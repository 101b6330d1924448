SPECIFICATION Spec
CONSTANTS
    s1 = s1
    d1 = d1
    d2 = d2
    Shas <- OneSha
    Digests <- TwoBuilds
    SourceOf <- SameSource
    None = None
    MaxJobs = 2
    MaxDeploys = 3
SYMMETRY BuildSymmetry
CHECK_DEADLOCK FALSE
INVARIANTS
    ReleasedIsTested
    ProductionGated
    StagingIsTested
    StagingFailureRestores
    FailureRestoresLive
