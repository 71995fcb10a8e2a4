CONSTANTS
    m1 = m1
    m2 = m2
    o = o
    alpha = alpha
    bravo = bravo
    Missions = {m1, m2}
    ObjIds = {o}
    Names = {alpha, bravo}
    Data = {m1, m2}
    Samples <- MCSamples
    FrameOf <- MCFrameOf
    DeleteFrames = {1}
    EventKinds = {"ace3"}
    SoldierEvents = {"ace3"}
    MaxFrame = 1
    MaxSamples = 9
    MaxMarkers = 9
    MaxRanges = 0
    MaxFiles = 2
    None = None
    ActiveKinds = {"soldier", "placed"}
    WaitsForOk = TRUE
    MaxSent = 4
    MaxSaves = 1
SPECIFICATION RSpec
INVARIANTS
    NoSampleLost
    CachesMatchBackend
    MissionIsolation
    DrainedCacheIsCurrent
CHECK_DEADLOCK FALSE
PROPERTY
    ImplementsRecording
