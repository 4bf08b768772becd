\* Two starts before either thread runs.
SPECIFICATION Spec
CONSTANTS
    Loops = {l1, l2}
    Quota = 1
    Floor = 1
    EmptyLimit = 1
    Batch = 1
    Shown = 1
    MaxPending = 1
    Faults = {}
INVARIANTS
    OneLoop
