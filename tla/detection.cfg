SPECIFICATION DetectionSpec
CONSTANTS
    Images <- SmallImages
    OutputHeight = 4
    OutputWidth = 6
    Rows <- SomeRows
    ConfidenceThreshold = 1
    NmsThreshold <- OneThird
    MaxDetections = 2
    MaxRows = 3
CHECK_DEADLOCK FALSE
INVARIANTS NoDuplicates NothingMissed RecoveryInvertsLetterbox
