CONSTANTS
    m1 = m1
    m2 = m2
    d = d
    o = o
    alpha = alpha
    bravo = bravo
    Missions = {m1, m2}
    ObjIds = {o}
    Names = {alpha, bravo}
    Data = {d}
    Samples = {3}
    FrameOf <- MCFrameOf
    DeleteFrames = {2}
    EventKinds = {"kill"}
    MaxFrame = 3
    MaxSamples = 1
    MaxMarkers = 3
    MaxRanges = 2
    MaxFiles = 1
    None = None
SPECIFICATION BSpec
INVARIANTS
    MarkerTablesAgree
    FocusOrdered
    PathMatchesMetadata
PROPERTIES
    RecordsPersist
CONSTRAINT
    OneConcern
CHECK_DEADLOCK FALSE
