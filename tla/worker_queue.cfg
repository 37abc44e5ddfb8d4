SPECIFICATION Spec
CONSTANTS
    Modules = {a}
    Analysed = {a}
    Faults = {"seed", "post"}
    Unseeded = TRUE
    MaxRequests = 3
    MaxChanges = 1
    MaxRecords = 1
INVARIANTS
    QueueServed
    NoReseedNeeded
PROPERTIES
    ServiceSpec
    EveryRequestSettles
CHECK_DEADLOCK FALSE
