\* Two requests before either run starts.
SPECIFICATION Spec
CONSTANTS
    Handles = {h1, h2}
    Poison = {}
    Validators = {v1, v2}
    Crawlers = {k1}
    MaxRows = 1
    MaxAttempts = 1
    Batch = 1
    Operations = {"remove"}
    Faults = {}
SYMMETRY Symmetry
INVARIANTS
    OneRun
