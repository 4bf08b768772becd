\* One FloodWait, on a channel named by its handle whose comments are open.
SPECIFICATION FairSpec
CONSTANTS
    Broadcast = {b1}
    Groups = {}
    Numeric = {}
    Open = {1}
    Moods = {"open"}
    MaxFaults = 1
    Faults = {"flood"}
PROPERTIES
    PruneIsTerminal
