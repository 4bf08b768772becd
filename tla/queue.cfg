\* Crashes, swallowed database errors, lost answers; runs within the claim timeout.
SPECIFICATION Spec
CONSTANTS
    Workers = {w1, w2}
    Targets = {c1, c2}
    MaxTasks = 2
    MaxRetries = 2
    BaseDelay = 1
    ClaimTimeout = 2
    MaxRun = 2
    Faults = {"error", "crash", "db", "ambiguous"}
SYMMETRY Symmetry
INVARIANTS
    NoDoubleExecution
    StaleIsOrphaned
    RetryBound
    CompletedWasDelivered
    SkippedIsPruned
PROPERTIES
    LifeCycle
    ImplementsLedger
