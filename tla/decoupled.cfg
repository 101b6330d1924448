SPECIFICATION Spec
CONSTANTS
    Batch = 2
    MaxTokens = 3
INVARIANTS
    TokensWithoutGap
    CancelStopsGeneration
    EveryRequestCompleted
PROPERTIES
    ExecuteReturns
    ImplementsResponseStreams
