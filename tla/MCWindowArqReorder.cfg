SPECIFICATION Spec
CONSTANTS
    N = 4
    AckCap = 1
    MaxRepairs = 0
    StoreCap = 2
    EmitBurst = 1
    SackDepth = 1
    NackDepth = 1
    MaxNackGaps = 1
    Packing = FALSE
    PacketCount = 4
    SymbolOf <- MCOneEach
    ChanCap = 1
    WinCap = 0
    MaxSackRanges = 1
    Ooo = FALSE
    AckMerge = TRUE
INVARIANT
    ReorderBounded
CHECK_DEADLOCK FALSE
