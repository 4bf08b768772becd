\* A save of two keys, the second of which fails.
SPECIFICATION Spec
CONSTANTS
    Keys = {k1, k2, flag}
    Flag = flag
    Values = {v1}
    Default = Default
    NoCache = NoCache
    Readers = {}
    Reloads = {}
    Faults = {"db"}
SYMMETRY ThreadSymmetry
INVARIANTS
    AllOrNothing
