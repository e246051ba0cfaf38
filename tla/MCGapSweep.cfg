SPECIFICATION GapSpec
CONSTANTS
    GapCount = 2
    source_path_map <- MCAlternate
    GapThreshold = 1
    GapRanges = 1
    GapChan = 1
    GapAcks = 1
    GapRepairs = 1
INVARIANTS
    EvidenceProvable
CHECK_DEADLOCK FALSE
