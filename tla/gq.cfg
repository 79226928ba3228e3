CONSTANTS
    Thread = {t1, t2}
    MQ = {q1, q2}
    None = None
    Size = 4
    Lap = FALSE
    MaxTail = 6
SPECIFICATION FairSpec
INVARIANTS InOnePlace EmptyIsEmpty
PROPERTIES ImplementsFifo Popped
CHECK_DEADLOCK FALSE
