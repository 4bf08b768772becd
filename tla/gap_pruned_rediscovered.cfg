\* A pruned channel that was never in the pool.
SPECIFICATION Spec
CONSTANTS
    Handles = {h1, h2}
    Poison = {}
    Validators = {v1}
    Crawlers = {k1}
    MaxRows = 2
    MaxAttempts = 1
    Batch = 1
    Operations = {"remove"}
    Faults = {}
SYMMETRY Symmetry
PROPERTIES
    RemovedStaysOut
