\* A second start clears the stop signal.
SPECIFICATION FairSpec
CONSTANTS
    Loops = {l1, l2}
    Quota = 1
    Floor = 1
    EmptyLimit = 1
    Batch = 1
    Shown = 1
    MaxPending = 1
    Faults = {"busy"}
PROPERTIES
    StopHonoured
