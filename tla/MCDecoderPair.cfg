CONSTANTS
    N = 3
    MaxRepairs = 2
    Ordered = FALSE
    Nought = 0
    One = 1
    Field <- MCField
    Add <- MCAdd
    Mul <- MCMul
    Inv <- MCInv
    Coefficient <- MCCoefficient
SPECIFICATION FairPairSpec
INVARIANTS
    TypeOK
    PayloadsTrue
    ReducedEchelon
    OnlyOnce
    Superset
PROPERTIES
    ImplementsCode
    CallReturns
CHECK_DEADLOCK FALSE
