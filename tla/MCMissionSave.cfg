CONSTANTS
    m1 = m1
    m2 = m2
    d = d
    Missions = {m1, m2}
    ObjIds = {7}
    Names = {}
    Data = {d}
    Samples = {1}
    FrameOf <- MCFrameOf
    DeleteFrames = {}
    EventKinds = {}
    MaxFrame = 1
    MaxSamples = 1
    MaxMarkers = 0
    MaxRanges = 0
    MaxFiles = 2
    MaxSaves = 2
    MaxStarts = 3
    None = None
SPECIFICATION SFairSpec
INVARIANTS
    ReportedOnceInOrder
    QuietUploadMatchesFile
PROPERTIES
    SavesAreReported
CHECK_DEADLOCK FALSE
