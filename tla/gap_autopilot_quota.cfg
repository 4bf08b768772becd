\* Channels that were configured before.
SPECIFICATION Spec
CONSTANTS
    Loops = {l1}
    Quota = 1
    Floor = 1
    EmptyLimit = 1
    Batch = 1
    Shown = 1
    MaxPending = 1
    Faults = {}
INVARIANTS
    QuotaMet
