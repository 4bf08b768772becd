\* Every fault, runs that outlast the claim timeout, the truncation under live workers.
SPECIFICATION FairSpec
CONSTANTS
    Workers = {w1, w2}
    Targets = {c1}
    MaxTasks = 1
    MaxRetries = 2
    BaseDelay = 1
    ClaimTimeout = 1
    MaxRun = 2
    Faults = {"error", "crash", "db", "disconnect", "ambiguous", "purgeAll"}
INVARIANTS
    TypeOK
PROPERTIES
    ClaimEnds
    FailureRetried
