SPECIFICATION Experiment
CONSTANTS
    NoTime = NoTime
    HotspotTop = 2
    Stations <- MCStations
    Scenarios <- MCScenarios
INVARIANTS
    OneFuture
    NeverEarly
    ConnectionKept
    DelayHasACause
    PlaybackFollowsTheRun
    ReplicationsReproduce
    RecoveryIsTheSlack
PROPERTIES
    EveryTrainArrives
