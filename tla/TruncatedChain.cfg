CONSTANTS
    Writers = {w1}
    Events = {a}
    MaxEvents = 2
    MaxBatch = 1
SPECIFICATION ChainSpec
INVARIANTS
    RemovalIsLocated
CHECK_DEADLOCK FALSE
