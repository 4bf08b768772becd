\* A swept task is cancelled while its worker still runs.
SPECIFICATION Spec
CONSTANTS
    Workers = {w1}
    Targets = {c1}
    MaxTasks = 1
    MaxRetries = 1
    BaseDelay = 1
    ClaimTimeout = 1
    MaxRun = 2
    Faults = {"error"}
PROPERTIES
    CancelledIsFinal
