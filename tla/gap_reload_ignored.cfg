\* A reload request and a worker that goes on running.
SPECIFICATION FairSpec
CONSTANTS
    Values = {v1, v2}
    Default = v1
    Threshold = 3
    Supervised = TRUE
    Faults = {}
PROPERTIES
    ReloadHonoured
