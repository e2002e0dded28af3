SPECIFICATION FairSpec
CONSTANTS
    N = 6
    Wrap = 4
    MaxRetry = 2
    ClientRetry = 1
    Modes = {"octet", "netascii"}
    Cap = 2
    Lossy = FALSE
    Duplicating = FALSE
    Reordering = FALSE
    Prompt = TRUE
PROPERTIES
    ImplementsTransfer
    Transferred
CHECK_DEADLOCK FALSE
