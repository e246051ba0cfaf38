SPECIFICATION FairSpec
CONSTANTS
    N = 2
    AckCap = 1
    MaxRepairs = 0
    StoreCap = 1
    EmitBurst = 1
    SackDepth = 1
    NackDepth = 1
    MaxNackGaps = 1
    Packing = FALSE
    PacketCount = 2
    SymbolOf <- MCOneEach
    ChanCap = 1
    WinCap = 0
    MaxSackRanges = 1
    Ooo = FALSE
    AckMerge = FALSE
PROPERTIES
    StoreDrains
CHECK_DEADLOCK FALSE
