SPECIFICATION Spec
CONSTANTS
    Clients = {c1, c2, c3}
    Names = {ann, bob, eve}
    NoName = NoName
    MaxClients = 2
    MsgLen = 1036
    ReadLen = 1499
    MaxLines = 0
    Idlers = {}
    Leavers = {c1, c2, c3}
SYMMETRY BothSymmetry
INVARIANTS
    JoinedBound
    UniqueNames
    ListOfOpen
    RosterKnown
CHECK_DEADLOCK FALSE
