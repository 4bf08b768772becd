\* Claim timeout of one minute (two ticks of 30 s), a run of 60 s to connect and 90 s of jitter.
SPECIFICATION Spec
CONSTANTS
    Workers = {w1, w2}
    Targets = {c1}
    MaxTasks = 1
    MaxRetries = 1
    BaseDelay = 1
    ClaimTimeout = 2
    MaxRun = 5
    Faults = {"error"}
SYMMETRY Symmetry
INVARIANTS
    StaleIsOrphaned
