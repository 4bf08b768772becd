\* Two validation runs that overlap, a crawl, every operator action and every fault.
SPECIFICATION Spec
CONSTANTS
    Handles = {h1, h2}
    Poison = {}
    Validators = {v1, v2}
    Crawlers = {k1}
    MaxRows = 2
    MaxAttempts = 0
    Batch = 1
    Operations = {"reprobe", "promote", "delete", "purge", "import", "remove"}
    Faults = {"crash", "session", "db", "flood", "account"}
SYMMETRY Symmetry
INVARIANTS
    TypeOK
    ValidatedWasPromoted
PROPERTIES
    SettledStaysOut
