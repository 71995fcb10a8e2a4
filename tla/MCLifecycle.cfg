CONSTANTS
    RecordingCommands = {"create", "state"}
    SerialInits = TRUE
    MaxInits = 2
    MaxStarts = 3
    MaxSent = 3
SPECIFICATION LFairSpec
INVARIANTS
    OkMeansReady
    OneBackend
PROPERTY
    StartDoesNotHang
CHECK_DEADLOCK FALSE
