SPECIFICATION Spec
CONSTANTS
    p1 = p1
    p2 = p2
    b1 = b1
    b2 = b2
    m1 = m1
    m2 = m2
    f1 = f1
    v1 = v1
    v2 = v2
    Pids <- OnePid
    Builders <- TwoBuilders
    Models <- TwoModels
    Parts <- OnePart
    Files <- ModelFiles
    Revisions <- TwoRevisions
    Corrupt = Corrupt
    Absent = Absent
    MaxRuns = 2
CHECK_DEADLOCK FALSE
INVARIANTS
    EveryModelAtHand
    OneModelAtRisk
PROPERTIES
    OnlyVerifiedModelsAdded
