\* A task that fails while the health check restricts its account.
SPECIFICATION Spec
CONSTANTS
    N = 1
    Broken = {}
    Workers = {w1}
    Scripts = {s1}
    MaxFailures = 3
    Faults = {"error"}
PROPERTIES
    RestrictedStays
