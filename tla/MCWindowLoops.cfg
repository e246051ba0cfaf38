SPECIFICATION LoopSpec
CONSTANTS
    N = 2
    AckCap = 1
    MaxRepairs = 0
    StoreCap = 2
    EmitBurst = 2
    SackDepth = 1
    NackDepth = 1
    MaxNackGaps = 1
    Packing = FALSE
    PacketCount = 2
    SymbolOf <- MCOneEach
    ChanCap = 1
    WinCap = 0
    MaxSackRanges = 1
    Ooo = FALSE
    AckMerge = TRUE
    GapCount = 2
    source_path_map <- MCOnePath
    GapThreshold = 1
    GapRanges = 1
    GapChan = 1
    GapAcks = 1
    GapRepairs = 1
PROPERTIES
    StoreDrains
    ConsumerServed
    HolesClose
CHECK_DEADLOCK FALSE
