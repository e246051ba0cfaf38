SPECIFICATION PathSpec
CONSTANTS
    MaxPathSeq = 4
    MaxAcks = 2
INVARIANTS
    MissingCounted
CHECK_DEADLOCK FALSE
