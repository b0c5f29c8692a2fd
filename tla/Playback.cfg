SPECIFICATION Experiment
CONSTANTS
    NoTime = NoTime
    HotspotTop = 2
    Stations <- MCStations
    Scenarios <- ShortRun
INVARIANT
    TerminusAfterFinalArrival
