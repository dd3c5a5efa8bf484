SPECIFICATION PromptSpec
CONSTANTS
    c1 = c1
    c2 = c2
    NoConn = NoConn
    Conn <- TwoConns
    HeaderLen = 2
    Lengths <- NoneOrTwo
    MaxPackets = 2
    Faults = {"cut", "reset"}
INVARIANTS InStep
PROPERTIES ImplementsChannel EveryPacketHandled
CHECK_DEADLOCK FALSE
