SPECIFICATION Spec
CONSTANTS
    None = None
    Partial = Partial
    Processes = {p1, p2}
    Paths = {"rail.json", "features.json"}
    Maps <- MCMaps
    Commands <- MCCommands
    ZoneBbox <- MCZoneBbox
    Margin = 2000
    MaxRuns = 2
    CorridorBuffer = 250
    HalfWidth = 80
    NSamples = 11
    ApproachLength = 5000
    Dx = 50
    TrainLength = 750
    TrainSpeed = 120
    Accel = 80
    Decel = 60
    Setup = 8000
    Release = 4000
SYMMETRY Interchangeable
INVARIANTS
    SegmentsAreOfTheMap
    DriveIsFastest
    FollowerKeepsClear
CHECK_DEADLOCK FALSE
