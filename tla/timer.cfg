CONSTANTS
    Near = 2
    Level = 2
    Levels = 3
    Period = 6
    Delay <- Delays
    Mask <- Masks
    MaxEvent = 2
    MaxTime = 14
SPECIFICATION FairSpec
INVARIANT TicksMatchClock
PROPERTIES ExactTimer EventuallyFires
CHECK_DEADLOCK FALSE
