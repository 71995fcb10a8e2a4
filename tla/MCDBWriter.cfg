CONSTANTS
    Order <- MCOrder
    Entities = {"Soldiers"}
    Parent <- MCParent
    Objs = {7}
    MaxMissions = 2
    MaxRows = 3
    MaxFailures = 1
SPECIFICATION FairSpec
INVARIANTS
    RowsOnceInOrder
    StampIsItsMission
PROPERTY
    AllWritten
CHECK_DEADLOCK FALSE
