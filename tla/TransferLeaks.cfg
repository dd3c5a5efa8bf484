SPECIFICATION Spec
CONSTANTS
    MSG_LEN = 2
    MaxSize = 5
    Faults = {}
INVARIANTS NothingLeftOpen
CHECK_DEADLOCK FALSE
