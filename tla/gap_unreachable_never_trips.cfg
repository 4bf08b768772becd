\* A database that stays down.
SPECIFICATION FairSpec
CONSTANTS
    Values = {v1, v2}
    Default = v1
    Threshold = 3
    Supervised = TRUE
    Faults = {"db"}
PROPERTIES
    UnreachableTrips
