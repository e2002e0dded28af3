SPECIFICATION Spec
CONSTANTS
    N = 6
    Wrap = 3
    MaxRetry = 2
    ClientRetry = 1
    Modes = {"octet", "mail"}
    Cap = 2
    Lossy = TRUE
    Duplicating = FALSE
    Reordering = FALSE
    Prompt = FALSE
INVARIANTS
    InOrder

    
CHECK_DEADLOCK FALSE
