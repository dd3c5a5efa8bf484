SPECIFICATION Spec
CONSTANTS
    c1 = c1
    c2 = c2
    n1 = n1
    n2 = n2
    r1 = r1
    a1 = a1
    f1 = f1
    f2 = f2
    NoConn = NoConn
    NoFile = NoFile
    Conn <- TwoConns
    Nick <- TwoNicks
    RoomName <- OneRoom
    RoomNode <- OneNode
    File <- TwoFiles
    Body <- FilesAndAddresses
    MaxUsers = 2
    MaxOffers = 2
    Commands <- FileCommandsAndBroadcast
    MaxQueue = 1
    MaxTyped = 3
    Habits = {}
INVARIANTS TransfersAsAgreed
PROPERTIES AcceptEndsUnlessStuck ServedUnlessStopped
CHECK_DEADLOCK FALSE
