SPECIFICATION Spec
CONSTANTS
    Never = Never
    Scenarios <- MCScenarios
INVARIANTS
    OccupancyIsReal
    HeadwayKept
    NoLostWakeup
    ConflictsForetellWaiting
PROPERTIES
    EveryTrainCompletes
