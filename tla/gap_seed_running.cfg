\* A claim left by a crash does not block: RUNNING is not looked for.
SPECIFICATION SeedSpec
CONSTANTS
    Workers = {w1}
    Targets = {c1}
    Manual = {}
    EnvTargets = {}
    MaxTasks = 2
    MaxRetries = 1
    BaseDelay = 1
    ClaimTimeout = 1
    MaxRun = 1
    Faults = {"crash"}
SYMMETRY WorkerSymmetry
INVARIANTS
    NoDuplicateTask
