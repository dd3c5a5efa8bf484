SPECIFICATION Spec
CONSTANTS
    c1 = c1
    c2 = c2
    c3 = c3
    n1 = n1
    n2 = n2
    n3 = n3
    r1 = r1
    a1 = a1
    a2 = a2
    m1 = m1
    NoConn = NoConn
    Conn <- TwoConns
    Nick <- TwoNicks
    RoomName <- OneRoom
    RoomNode <- TwoNodes
    Body <- OneBody
    MaxUsers = 2
    MaxOffers = 1
    Failures = {}
    MaxIn = 1
    Commands <- BroadcastCommands
PROPERTIES BacklogDrains ServedUnlessCutOff
CHECK_DEADLOCK FALSE
