SPECIFICATION Spec
CONSTANTS
    MaxRuns = 5
    MaxAlive = 2
    MaxFaults = 1
    MaxAttempts = 2
    KindsOf <- MCPipelines
    Recurring = {}
    Compute <- MCCompute
    StageLimit = 2
    RecheckValues = {TRUE, FALSE}
INVARIANTS
    TypeOK
    ModesExclude
    StageExclusive
    JoinCoherent
    StrandedOnlyUnrecorded
CHECK_DEADLOCK FALSE
