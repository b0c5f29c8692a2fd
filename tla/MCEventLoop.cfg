SPECIFICATION Spec
CONSTANTS
    tick = tick
    note = note
    Kinds <- MCKinds
    Registered <- MCRegistered
    NoLimit = NoLimit
    Horizon = 2
    MaxBatch = 2
    MaxEvents = 4
INVARIANTS
    TypeOK
    Causal
    LogOrdered
    NothingLost
PROPERTIES
    ImplementsCalendar
