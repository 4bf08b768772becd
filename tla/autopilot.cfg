\* Two starts, in turn or side by side, every fault, an operator who stops them.
SPECIFICATION FairSpec
CONSTANTS
    Loops = {l1, l2}
    Quota = 2
    Floor = 1
    EmptyLimit = 2
    Batch = 2
    Shown = 1
    MaxPending = 2
    Faults = {"raise", "busy", "db"}
INVARIANTS
    TypeOK
    FlagIsLoop
PROPERTIES
    StopEnds
    EmptyPoolEnds
