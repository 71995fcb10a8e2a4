CONSTANTS
    IdMax = 2
    Names <- MCNames
    PlacedIds <- MCPlacedIds
    EventSlices <- MCEventSlices
    Shots <- MCShots
    MaxFrame = 3
    MaxCalls = 4
SPECIFICATION Spec
INVARIANTS
    StreamMatchesBuild
    PositionsFollowStates
    EntitiesAtTheirIndex
    EventsInOrder
CONSTRAINT
    OneConcern
CHECK_DEADLOCK FALSE
