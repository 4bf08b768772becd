\* Quiet hours begin while the jitter of a claimed task passes.
SPECIFICATION Spec
CONSTANTS
    Broadcast = {b1}
    Groups = {}
    Numeric = {b1}
    Open = {1}
    Moods = {"open"}
    MaxFaults = 0
    Faults = {}
PROPERTIES
    QuietKept
