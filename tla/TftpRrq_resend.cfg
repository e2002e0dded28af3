SPECIFICATION Spec
CONSTANTS
    N = 3
    Wrap = 8
    MaxRetry = 2
    ClientRetry = 1
    Modes = {"octet"}
    Cap = 2
    Lossy = FALSE
    Duplicating = FALSE
    Reordering = FALSE
    Prompt = FALSE
INVARIANTS
    ResendsSameBlock
CHECK_DEADLOCK FALSE
