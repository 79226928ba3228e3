CONSTANTS
    MaxSocket = 2
    Length = 2
    MaxEvent = 2
    None = None
    MaxId = 3
    MaxAsk = 3
    MaxPipe = 1
SPECIFICATION Spec
INVARIANTS Accounted WriteArmed Intact Assertions
PROPERTIES NothingAfterEnd
CHECK_DEADLOCK FALSE
