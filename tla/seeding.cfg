\* A worker whose calls raise beside a manual seeder, operators at tasks and
\* targets; one channel is in the environment.
SPECIFICATION SeedSpec
CONSTANTS
    Workers = {w1}
    Targets = {c1, c2}
    Manual = {m1}
    EnvTargets = {c2}
    MaxTasks = 2
    MaxRetries = 1
    BaseDelay = 1
    ClaimTimeout = 1
    MaxRun = 1
    Faults = {"error"}
INVARIANTS
    DuplicateHasCause
PROPERTIES
    PrunedStaysOut
