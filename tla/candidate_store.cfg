SPECIFICATION Spec
CONSTANTS
    MaxCands = 3
    MaxSnap = 2
    MaxAlg = 3
    MaxEvents = 3
    Limit <- EarlyLimit
INVARIANTS
    TypeOK
    LiveAuthenticated
    LiveIntact
    SelectionPossible
    LineageUnbroken
CHECK_DEADLOCK FALSE
