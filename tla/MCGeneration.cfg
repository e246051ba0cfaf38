SPECIFICATION GenerationSpec
CONSTANTS
    N = 4
    G = 2
    MaxRepairs = 2
    MaxSources = 3
    Pipeline = 2
    Overhead = 50
    Nought = 0
    One = 1
    Field <- MCField
    Add <- MCAdd
    Mul <- MCMul
    Inv <- MCInv
    Coefficient <- MCCoefficient
    Gens = 2
    Width = 2
    Budget = 1
    ReactCap = TRUE
    DeficitChan = 1
    GenReports = 1
    GenFlight = 1
INVARIANTS
    PayloadsRetained
    DeficitHonest
PROPERTIES
    GenDecodes
CHECK_DEADLOCK FALSE
