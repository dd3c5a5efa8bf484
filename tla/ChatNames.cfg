INIT Init
NEXT Next
CONSTANTS
    c1 = c1
    c2 = c2
    n1 = n1
    n2 = n2
    r1 = r1
    a1 = a1
    f1 = f1
    f2 = f2
    NoConn = NoConn
    NoFile = NoFile
    Conn <- TwoConns
    Nick <- TwoNicks
    RoomName <- OneRoom
    RoomNode <- OneNode
    File <- OneFile
    Body <- FilesAndAddresses
    MaxUsers = 2
    MaxOffers = 2
    Commands <- FileCommands
    MaxQueue = 1
    MaxTyped = 3
    Habits = {"hasty", "rename", "resend", "spoil", "leave"}
SYMMETRY Symmetric
INVARIANTS NicknamesFollow PromptsAccounted ClientsAsAssumed
CHECK_DEADLOCK FALSE
