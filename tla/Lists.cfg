SPECIFICATION Spec
CONSTANTS
    u1 = u1
    u2 = u2
    u3 = u3
    r1 = r1
    r2 = r2
    NULL = NULL
    UserNode <- ThreeUsers
    RoomNode <- TwoRooms
    MSG_LEN = 16
    Heading = 3
    NameLen = 3
INVARIANTS ListsSound ListedIfItFits
PROPERTIES ImplementsTables
