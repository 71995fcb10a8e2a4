SPECIFICATION Spec
CONSTANTS
    None = None
    Default = Default
    Error = Error
    Soldiers = {33}
    Vehicles = {37}
    Placed = {39}
    Markers = {41}
    Wide = {65569}
    Players = {33}
    Sizes = {0, 300}
INVARIANTS
    RowsAreTheGames
    NothingIsLost
    ReferencesResolve
CHECK_DEADLOCK FALSE
