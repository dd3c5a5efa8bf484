INIT Init
NEXT Next
CONSTANTS
    c1 = c1
    c2 = c2
    c3 = c3
    n1 = n1
    n2 = n2
    n3 = n3
    r1 = r1
    a1 = a1
    a2 = a2
    m1 = m1
    NoConn = NoConn
    Conn <- ThreeConns
    Nick <- TwoNicks
    RoomName <- OneRoom
    RoomNode <- TwoNodes
    Body <- OneBody
    MaxUsers = 2
    MaxOffers = 1
    Failures = {"accept"}
    MaxIn = 1
    Commands <- RoomCommands
SYMMETRY Symmetric
INVARIANTS LoopTypeOK SlotsMatchUsers NeverBlocks WithinCapacity
PROPERTIES RemovalIsSafe
CHECK_DEADLOCK FALSE
