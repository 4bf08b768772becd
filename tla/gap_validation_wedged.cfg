\* A session string create_client rejects.
SPECIFICATION Spec
CONSTANTS
    Handles = {h1, h2}
    Poison = {}
    Validators = {v1}
    Crawlers = {k1}
    MaxRows = 1
    MaxAttempts = 1
    Batch = 1
    Operations = {"remove"}
    Faults = {"session"}
SYMMETRY Symmetry
INVARIANTS
    FlagIsTrue
