CONSTANTS
    NumWikis = 1
    NumCands = 3
    SnapshotOf <- MCRebuild
    MaxRuns = 6
    FaultKinds = {"crash", "fail", "damage", "upgrade"}
    MaxFaults = 3
    None = None
SPECIFICATION FairSpec
INVARIANTS TypeOK CommittedIsServed Settled
PROPERTIES ServesForward Converges
