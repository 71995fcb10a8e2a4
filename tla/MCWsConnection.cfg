CONSTANTS
    SendChSize = 1
    AckChSize = 1
    MaxReconnect = 2
    MaxConns = 2
    MaxMsgs = 2
SPECIFICATION WsFairSpec
INVARIANTS
    AtMostOnce
    SendOrder
    ConnectionIsServed
    BreakIsNoticed
PROPERTIES
    CloseEnds
    AckMeansReceived
CHECK_DEADLOCK FALSE
