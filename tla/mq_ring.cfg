CONSTANTS
    DefaultSize = 2
    Session = {0, 1}
    Junk = Junk
    MaxSend = 7
SPECIFICATION Spec
INVARIANTS NoGarbage GoesRoundOnce
PROPERTY ImplementsMailbox
CHECK_DEADLOCK FALSE
