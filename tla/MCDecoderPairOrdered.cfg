CONSTANTS
    N = 3
    MaxRepairs = 3
    Ordered = TRUE
    Nought = 0
    One = 1
    Field <- MCField
    Add <- MCAdd
    Mul <- MCMul
    Inv <- MCInv
    Coefficient <- MCCoefficient
SPECIFICATION PairSpec
INVARIANTS
    SameInOrder
CHECK_DEADLOCK FALSE
