SPECIFICATION Spec
CONSTANTS
    t1 = t1
    j2 = j2
    h1 = h1
    k1 = k1
    j1 = j1
    Requests <- Callers
    Tasks <- OneTask
    Threads <- OneThread
    AsyncClosers = {k1}
    SyncClosers = {j1, j2}
    EndsCalls = TRUE
    Services <- SomeServices
    MaxBatch = 2
    NoAnswer = NoAnswer
INVARIANTS FailuresStayAlone ChannelsNotLost
PROPERTIES EveryRequestAnswered ImplementsRequestReply
CHECK_DEADLOCK FALSE
