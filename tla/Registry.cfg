SPECIFICATION RegSpec
CONSTANTS
    c1 = c1
    c2 = c2
    c3 = c3
    n1 = n1
    n2 = n2
    n3 = n3
    r1 = r1
    r2 = r2
    a1 = a1
    a2 = a2
    m1 = m1
    NoConn = NoConn
    Conn <- ThreeConns
    Nick <- ThreeNicks
    RoomName <- TwoRooms
    RoomNode <- TwoNodes
    Body <- OneBody
    MaxUsers = 3
    MaxOffers = 1
    Commands <- RequestTypes
SYMMETRY Symmetric
CONSTRAINT RoomsApartFromFiles
INVARIANTS TypeOK RoomsConsistent FlagMatchesMembership NicknamesUnique
PROPERTIES ArrivalsAnnounced DeparturesAnnouncedUnlessSwitching LastUserTold MessagesStayInTheRoom
PROPERTIES ImplementsRoomService
PROPERTIES BroadcastsReachOthersOnce AnswersReturnUnlessRenamed
CHECK_DEADLOCK FALSE
