\* A form is read while another is saved.
SPECIFICATION Spec
CONSTANTS
    Keys = {k1, flag}
    Flag = flag
    Values = {v1}
    Default = Default
    NoCache = NoCache
    Readers = {r1}
    Reloads = {}
    Faults = {}
SYMMETRY ThreadSymmetry
INVARIANTS
    CacheFresh
