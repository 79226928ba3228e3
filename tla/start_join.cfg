CONSTANTS
    Worker = {w1, w2}
    Services = 1
    MaxPush = 1
    None = None
SPECIFICATION FairSpec
PROPERTY AllJoined
