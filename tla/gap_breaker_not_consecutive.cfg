\* Failures with idle iterations between them.
SPECIFICATION Spec
CONSTANTS
    Values = {v1, v2}
    Default = v1
    Threshold = 3
    Supervised = TRUE
    Faults = {"error"}
INVARIANTS
    TripsOnConsecutive
