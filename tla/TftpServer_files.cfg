SPECIFICATION Spec
CONSTANTS
    Clients = {c1, c2}
    Files = {f1}
    Ops = {"RRQ", "WRQ", "OTHER"}
    Chunks = 2
    MaxChildren = 2
    MaxSends = 2
INVARIANTS
    KeptWrites
PROPERTIES
    OldFilesKept
    Reaped
CHECK_DEADLOCK FALSE
