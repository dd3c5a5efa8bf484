SPECIFICATION RegSpec
CONSTANTS
    c1 = c1
    c2 = c2
    c3 = c3
    n1 = n1
    n2 = n2
    n3 = n3
    r1 = r1
    r2 = r2
    a1 = a1
    a2 = a2
    m1 = m1
    NoConn = NoConn
    Conn <- ThreeConns
    Nick <- ThreeNicks
    RoomName <- OneRoom
    RoomNode <- OneNode
    Body <- OneBody
    MaxUsers = 3
    MaxOffers = 1
    Commands <- FileCommands
SYMMETRY Symmetric
PROPERTIES AnswersReturnToRequester
CHECK_DEADLOCK FALSE
