\* A handle whose probe always raises, runs asked for again and again.
SPECIFICATION AutopilotSpec
CONSTANTS
    Handles = {h1, h2, p1}
    Poison = {p1}
    Validators = {v1}
    Crawlers = {k1}
    MaxRows = 3
    MaxAttempts = 2
    Batch = 1
    Operations = {}
    Faults = {}
PROPERTIES
    FlagFalls
    NoStarvation
