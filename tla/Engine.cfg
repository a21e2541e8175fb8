CONSTANTS
    Clients = {c1, c2}
    Limit = 1
    MaxBatch = 2
    MaxRecoveries = 1
    Timers = {0, 1}
    MaxChanges = 1
SPECIFICATION Spec
INVARIANTS
    EngineSafe
    RoomForAll
PROPERTIES
    Answered
    StopEnds
CHECK_DEADLOCK FALSE
