CONSTANTS
    Worker = {w1, w2}
    Services = 2
    MaxPush = 3
    None = None
SPECIFICATION FairSpec
INVARIANTS SleepExact NobodyLeavesEarly
PROPERTIES WorkIsDone ServiceThreadsEnd
