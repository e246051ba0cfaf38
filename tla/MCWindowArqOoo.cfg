SPECIFICATION Spec
CONSTANTS
    N = 2
    AckCap = 2
    MaxRepairs = 1
    StoreCap = 1
    EmitBurst = 1
    SackDepth = 1
    NackDepth = 1
    MaxNackGaps = 1
    Packing = TRUE
    PacketCount = 3
    SymbolOf <- MCPacked
    ChanCap = 1
    WinCap = 0
    MaxSackRanges = 1
    Ooo = TRUE
    AckMerge = TRUE
PROPERTIES
    ImplementsStream
CHECK_DEADLOCK FALSE
