SPECIFICATION Spec
CONSTANT
    Scenarios <- ThirdTrain
PROPERTY
    NeverDeadlocks
