\* Every graph over four keys, and malformed lists of steps.
SPECIFICATION FairSpec
CONSTANTS
    a = a
    b = b
    c = c
    d = d
    Keys <- MCKeys
    Plans <- MCPlans
INVARIANTS
    TypeOK
    AcceptedOrder
    CyclesRefused
    PlanInv
PROPERTIES
    Terminates
CHECK_DEADLOCK FALSE
