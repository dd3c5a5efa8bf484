SPECIFICATION Spec
CONSTANTS
    MSG_LEN = 2
    MaxSize = 5
    Faults = {"kill", "resize"}
INVARIANTS ConfirmedIsCopied Lockstep ReceivedAnnounced ConnectionClosed
PROPERTIES ImplementsDelivery EndsOnceConnected
CHECK_DEADLOCK FALSE
