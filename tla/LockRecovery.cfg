CONSTANTS
    Procs = {p1, p2}
    MaxFaults = 2
    None = None
SPECIFICATION FairSpec
INVARIANTS TypeOK HeldUnlessStolen
PROPERTIES Recovered
