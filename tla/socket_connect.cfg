CONSTANTS
    MaxSocket = 2
    Length = 2
    MaxEvent = 2
    None = None
    MaxId = 2
    MaxAsk = 3
    MaxPipe = 1
SPECIFICATION Spec
INVARIANT OffWhenEmpty
CHECK_DEADLOCK FALSE
