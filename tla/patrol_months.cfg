SPECIFICATION FairSpec
CONSTANTS
    NumMonths = 3
    FirstSnap = 1
    YearEnds = {1}
    Users = {"u"}
    Revs = {"r1", "r2"}
    MonthOf <- MCMonthOf
    TimeOf <- MCTimeOf
    Author <- MCAuthor
    Kinds = {"a"}
    LogEdits <- MCLogEdits
    RightsLogs <- MCRightsLogs
    GroupSets = {{"g"}, {"h"}, {}}
    NumParts = 2
    PartOf <- MCPartOf
    Worlds <- MCWorlds
    MaxEdits = 1
    MaxFaults = 1
INVARIANTS
    TypeOK
    OutputExact
    CheckpointsAgree
    OneVersion
PROPERTIES
    Delivers
CHECK_DEADLOCK FALSE
