\* One supervised daemon, an unreliable database, kills, raising iterations.
SPECIFICATION FairSpec
CONSTANTS
    Values = {v1, v2}
    Default = v1
    Threshold = 3
    Supervised = TRUE
    Faults = {"db", "kill", "error"}
INVARIANTS
    LoopTypeOK
    HeartbeatTrue
PROPERTIES
    SignalStops
    MaintenanceRecurs
