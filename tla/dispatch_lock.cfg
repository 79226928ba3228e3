CONSTANTS
    a = a
    b = b
    Ctx = {a, b}
    Worker = {w1, w2}
    Helper = {h}
    Boot <- BootAB
    MonitorExit = None
    Harbor = b
    None = None
    MaxSend = 3
    MaxSession = 1
SPECIFICATION Spec
INVARIANTS NoLostWakeup Assertions
PROPERTY ImplementsActor
SYMMETRY WorkerSymmetry
CHECK_DEADLOCK FALSE
