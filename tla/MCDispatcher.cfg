CONSTANTS
    state = state
    sync = sync
    r1 = r1
    r2 = r2
    r3 = r3
    NoReg = NoReg
    c1 = c1
    c2 = c2
    Commands = {state, sync}
    Regs = {r1, r2, r3}
    Callers = {c1, c2}
    MaxEvents = 2
    CmdOf <- MCCmdOf
    Cap <- MCCap
    BlockingRegs = {r1}
    GatedRegs = {r1, r3}
SPECIFICATION FairSpec
INVARIANTS
    TypeOK
    ExactlyOnceInOrder
    NothingBeforeGate
    CallOrder
    OneFate
PROPERTIES
    ImplementsOrderedDelivery
    QueuedIsHandled
    CallsReturn
CHECK_DEADLOCK FALSE
