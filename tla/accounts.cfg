\* Two workers and a health check on two accounts, one with an unusable session string.
SPECIFICATION FairSpec
CONSTANTS
    N = 2
    Broken = {2}
    Workers = {w1, w2}
    Scripts = {s1}
    MaxFailures = 2
    Faults = {"error", "disconnect", "network"}
INVARIANTS
    TypeOK
    FailuresCounted
PROPERTIES
    DeadLeaves
    ReturnHasCause
