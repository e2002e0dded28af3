SPECIFICATION Spec
CONSTANTS
    MaxConns = 4
    MaxOpen = 2
    MaxUrls = 3
    Slots = 2
    MaxChanges = 1
    Changing = {1}
    Leaving = {2}
    Refused = {2}
    Breaking = {2}
    Stuck = {4}
INVARIANTS
    TypeOK
    QueueSound
    ListSound
    
    
    FewPagesKept
PROPERTIES
    Served
CHECK_DEADLOCK FALSE
