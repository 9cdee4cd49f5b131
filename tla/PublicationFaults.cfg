CONSTANTS
    NumWikis = 2
    NumCands = 2
    SnapshotOf <- MCTwo
    MaxRuns = 6
    FaultKinds = {"crash", "fail", "receipt"}
    MaxFaults = 3
    None = None
SPECIFICATION FairSpec
INVARIANTS OnlyTwoBlindWindows RollbackPossible LiveDataKept
PROPERTIES Converges
