CONSTANTS
    Problems <- MCProblems
    Trains2 = TRUE
    Trains3 = TRUE
SPECIFICATION Spec
INVARIANTS
    TypeOK
    Acyclic
    NeverForced
    Feasible
    TwoTrainsOptimal
    OptimalIsALowerBound
