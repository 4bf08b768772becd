\* Overlapping edits of two templates, deadlocks included.
SPECIFICATION FairSpec
CONSTANTS
    Rows = {t1, t2}
    Clients = {c1, c2}
    Inserting = {"on", "off"}
INVARIANTS
    TypeOK
    AtMostOneActive
PROPERTIES
    NoAccidentalSilence
    RequestEnds
