SPECIFICATION Spec
CONSTANTS
    N = 3
    Wrap = 8
    MaxRetry = 2
    ClientRetry = 1
    Modes = {"octet", "mail"}
    Cap = 2
    Lossy = TRUE
    Duplicating = TRUE
    Reordering = TRUE
    Prompt = FALSE
INVARIANTS
    TypeOK
    InOrder
    LockStep
    LossBounded
    CleanTransfer
CHECK_DEADLOCK FALSE
