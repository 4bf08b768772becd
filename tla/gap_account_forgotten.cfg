\* A health check for a restricted account.
SPECIFICATION FairSpec
CONSTANTS
    N = 1
    Broken = {}
    Workers = {}
    Scripts = {s1}
    MaxFailures = 1
    Faults = {"network"}
PROPERTIES
    CleanReturns
