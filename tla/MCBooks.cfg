SPECIFICATION BooksSpec
CONSTANTS
    None = None
    MaxBuffered = 2
    MaxOpen = 1
    MaxSpan = 2
    PendingMax = 2
    PendingSpanMax = 3
    Sent = 5
    WinCap = 1
    AbandonedTrackMax = 1
    MaxCascade = 1
    LedgerPaths = {1, 2}
    LastSeq = 4
    Placement <- MCPlacement
    WordBits = 2
    BitsSpan = 4
    LedgerWinCap = 0
    MaxSackRanges = 2
    SackChan = 1
    MaxReports = 2
    MaxPathSeq = 5
    MaxAcks = 2
    GapCount = 3
    source_path_map <- MCAlternate
    GapThreshold = 1
    GapRanges = 1
    GapChan = 1
    GapAcks = 1
    GapRepairs = 1
INVARIANTS
    HandedOnce
    OnceHolds
    FrontierAgrees
    HolesAccounted
    ParkedExact
    MemoExact
    AccountsExact
    BitsExact
    LossCounted
    FedExactly
    LedgerCloses
    EvidenceSound
PROPERTIES
    HealsTrue
CHECK_DEADLOCK FALSE
