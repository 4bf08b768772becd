\* The passes of two workers overlap: check, then insert.
SPECIFICATION SeedSpec
CONSTANTS
    Workers = {w1, w2}
    Targets = {c1}
    Manual = {}
    EnvTargets = {}
    MaxTasks = 2
    MaxRetries = 1
    BaseDelay = 1
    ClaimTimeout = 1
    MaxRun = 1
    Faults = {}
SYMMETRY WorkerSymmetry
INVARIANTS
    NoDuplicateTask
