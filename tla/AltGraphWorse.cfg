CONSTANTS
    Problems <- MCProblems
    Trains2 = FALSE
    Trains3 = TRUE
SPECIFICATION Spec
INVARIANT AmccNeverWorse
