SPECIFICATION Spec
CONSTANTS
    N = 3
    Wrap = 8
    MaxRetry = 2
    ClientRetry = 1
    Modes = {"octet", "netascii"}
    Cap = 2
    Lossy = TRUE
    Duplicating = TRUE
    Reordering = FALSE
    Prompt = FALSE
INVARIANTS
    SuccessMeansWhole
PROPERTIES
    ImplementsTransfer
CHECK_DEADLOCK FALSE
