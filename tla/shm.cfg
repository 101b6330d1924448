SPECIFICATION Spec
CONSTANTS
    a = a
    b = b
    c = c
    Callers <- TwoCallers
    Closers <- OneCloser
    Calls = 1
    MaxInside = 2
    Inputs = 1
    Outputs = 1
INVARIANTS
    NoRegionLeaks
    NoStaleRegistration
PROPERTY
    CallsReturn
