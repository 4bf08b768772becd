\* Truncation restarts the ids under a live worker.
SPECIFICATION Spec
CONSTANTS
    Workers = {w1, w2}
    Targets = {c1}
    MaxTasks = 1
    MaxRetries = 1
    BaseDelay = 1
    ClaimTimeout = 2
    MaxRun = 2
    Faults = {"error", "purgeAll"}
SYMMETRY Symmetry
INVARIANTS
    CompletedWasDelivered
