SPECIFICATION Spec
CONSTANT
    Scenarios <- MCScenarios
INVARIANTS
    TypeOK
    HoldsItsBlock
    OneFuture
    NoLostWakeup
    StuckIsCircular
    OnlyDeadlocksAreInconsistent
    DelayIsWaiting
    MeetsAreInTheLoop
PROPERTIES
    MeetCompletes
    ImplementsBlockSections
