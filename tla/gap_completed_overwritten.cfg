\* client.disconnect() raises after the delivery.
SPECIFICATION Spec
CONSTANTS
    Workers = {w1}
    Targets = {c1}
    MaxTasks = 1
    MaxRetries = 1
    BaseDelay = 1
    ClaimTimeout = 2
    MaxRun = 2
    Faults = {"error", "disconnect"}
PROPERTIES
    CompletedIsFinal
