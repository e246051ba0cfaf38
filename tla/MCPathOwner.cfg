SPECIFICATION FairTaskSpec
CONSTANTS
    Depth = 1
    BatchMax = 2
    QuinnCap = 2
    Loads <- MCLoads
INVARIANTS
    InboundOnce
    ControlAfterData
    KnownFirst
PROPERTIES
    NoWedge
CHECK_DEADLOCK FALSE
