CONSTANTS
    a = a
    b = b
    Ctx = {a, b}
    Worker = {w1, w2}
    Helper = {h}
    Boot <- BootA
    MonitorExit = a
    Harbor = None
    None = None
    MaxSend = 3
    MaxSession = 0
SPECIFICATION FairSpec
INVARIANTS TypeOK RefCount NoUseAfterFree SingleOwner Assertions CleanExit
PROPERTIES Drained Reclaimed
CHECK_DEADLOCK FALSE
