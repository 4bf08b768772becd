\* A channel and a group, every refusal and every fault, up to two of them.
SPECIFICATION FairSpec
CONSTANTS
    Broadcast = {b1}
    Groups = {g1}
    Numeric = {g1}
    Open = {3}
    Moods = {"open", "locked", "gated", "private", "closed"}
    MaxFaults = 2
    Faults = {"connection", "flood", "error", "db", "disconnect", "post", "answer"}
INVARIANTS
    TypeOK
    CommentsInThread
PROPERTIES
    PruneHasCause
    LeakIsFault
    OpenIsServed
