SPECIFICATION Spec
CONSTANTS
    N = 3
    AckCap = 1
    MaxRepairs = 0
    StoreCap = 1
    EmitBurst = 1
    SackDepth = 1
    NackDepth = 1
    MaxNackGaps = 1
    Packing = TRUE
    PacketCount = 4
    SymbolOf <- MCPacked
    ChanCap = 1
    WinCap = 0
    MaxSackRanges = 1
    Ooo = FALSE
    AckMerge = TRUE
INVARIANTS
    TypeOK
    NothingLost
    InOrder
    GateSound
    MarksSound
    AboveExact
    AckTruthful
    OutstandingBounded
PROPERTIES
    ImplementsStream
CHECK_DEADLOCK FALSE
