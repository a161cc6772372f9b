\* Every search ends with the closest transaction.
CONSTANTS
    MaxLength = 6
    MaxHeight = 4
    Chains <- BoundedChains
    Queries <- BoundedQueries
SPECIFICATION Spec
CHECK_DEADLOCK FALSE
INVARIANTS
    TypeOK
    IndexIsInChain
    FoundIsClosest
PROPERTIES
    Terminates
