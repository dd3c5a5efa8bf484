SPECIFICATION Spec
CONSTANTS
    Keyboards = {"terminal", "pipe"}
    Lines <- Commands
    Incoming = {"FILE_REQUEST", "FILE_ACCEPT", "DEFAULT"}
    MaxLines = 2
    MaxPackets = 2
INVARIANTS EveryLineInTurn RequestsWellFormed KeyboardNeverBlocks
PROPERTIES HeardUnlessAsking
CHECK_DEADLOCK FALSE
