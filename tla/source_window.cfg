SPECIFICATION FairSpec
CONSTANTS
    NumSources = 3
    NumVersions = 2
    SizeOf <- MCSizeOf
    Mutable <- MCMutable
    WorkerLimit = 2
    FetchLimit = 1
    MaxAttempts = 2
    MaxRuns = 3
    Room = 11
    Estimate <- MCEstimate
    SelectsGeneration = TRUE
    NoFile = NoFile
INVARIANTS
    TypeOK
    OneInput
    StagingBounded
    VisibleExact
    LedgerExact
PROPERTIES
    Refines
    Completes
CHECK_DEADLOCK FALSE
