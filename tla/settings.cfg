\* Two forms are read while one is saved and a reload is requested.
SPECIFICATION Spec
CONSTANTS
    Keys = {k1, k2, flag}
    Flag = flag
    Values = {v1}
    Default = Default
    NoCache = NoCache
    Readers = {r1, r2}
    Reloads = {u1}
    Faults = {"db"}
SYMMETRY ThreadSymmetry
INVARIANTS
    TypeOK
    StaleHasCause
