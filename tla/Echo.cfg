SPECIFICATION Spec
CONSTANTS
    Conns = {c1, c2, c3}
    Procs = {0, 1, 2}
    FdLimit = 2
    Size = 2
    Lines = 2
    Brief = {c2, c3}
    c1 = c1
    c2 = c2
    c3 = c3
INVARIANTS
    OneServer
    
    EchoExact
PROPERTIES
    Answered
CHECK_DEADLOCK FALSE
