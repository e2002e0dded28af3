SPECIFICATION Spec
CONSTANTS
    Clients = {c1, c2}
    Names = {ann, bob}
    NoName = NoName
    MaxClients = 2
    MsgLen = 1036
    ReadLen = 1499
    MaxLines = 1
    Idlers = {c1}
    Leavers = {c1, c2}
INVARIANTS
    TypeOK
    RemoveFinds
    LineForwarded
    OwnLines

    
CHECK_DEADLOCK FALSE
