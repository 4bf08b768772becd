\* The reload flag outlives the reload.
SPECIFICATION Spec
CONSTANTS
    Values = {v1, v2}
    Default = v1
    Threshold = 3
    Supervised = TRUE
    Faults = {}
INVARIANTS
    ReloadOnce
