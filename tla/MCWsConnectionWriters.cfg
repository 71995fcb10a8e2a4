CONSTANTS
    SendChSize = 1
    AckChSize = 1
    MaxReconnect = 2
    MaxConns = 2
    MaxMsgs = 2
SPECIFICATION Spec
INVARIANTS
    OneWriteLoop
CHECK_DEADLOCK FALSE
