SPECIFICATION FairSpec
CONSTANTS
    MaxRuns = 2
    MaxAlive = 2
    MaxFaults = 1
    MaxAttempts = 3
    KindsOf <- MCStageAndFull
    Recurring = {2}
    Compute <- MCCompute
    StageLimit = 2
    RecheckValues = {FALSE}
PROPERTIES
    CrossJobLockRecovered
CHECK_DEADLOCK FALSE
