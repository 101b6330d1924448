SPECIFICATION FairSpec
CONSTANTS
    a1 = a1
    s1 = s1
    c1 = c1
    NoOne = NoOne
    Async <- OneAsync
    Sync <- OneSync
    Closers <- OneCloser
    MaxTokens = 1
PROPERTIES
    WorkersFinish
    FutureSettlesUnlessClosed
    CancelStopsStream
