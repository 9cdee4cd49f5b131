SPECIFICATION FairSpec
CONSTANTS
    NumSources = 1
    NumVersions = 1
    SizeOf <- MCOneBlock
    Mutable = {}
    WorkerLimit = 1
    FetchLimit = 1
    MaxAttempts = 1
    MaxRuns = 2
    Room = 2
    Estimate <- MCEstimate
    SelectsGeneration = TRUE
    NoFile = NoFile
PROPERTIES
    SourcesRecoverable
CHECK_DEADLOCK FALSE
