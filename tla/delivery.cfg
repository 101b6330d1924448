SPECIFICATION Spec
CONSTANTS
    c1 = c1
    c2 = c2
    o1 = o1
    o2 = o2
    v1 = v1
    v2 = v2
    Converters <- TwoConverters
    Rechecked = {c1}
    Inputs <- TwoInputs
    Pinned <- Pins
    Unpinned = Unpinned
    NoFile = NoFile
    Operators <- TwoOperators
    Script <- Scripts
    MaxPolls = 1
CHECK_DEADLOCK FALSE
INVARIANTS OnlyVettedModels NoSilentOutage
PROPERTIES OkMeansCurrent ScriptsEnd
