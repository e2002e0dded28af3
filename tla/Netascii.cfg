SPECIFICATION Spec
CONSTANTS
    MAXBUFLEN = 4
    Header = 3
    Bytes = {"a", "CR", "LF", "NUL", "FF"}
    MaxLen = 5
INVARIANTS
    
    ReadExactly
    
CHECK_DEADLOCK FALSE
