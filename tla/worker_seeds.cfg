SPECIFICATION Spec
CONSTANTS
    Modules = {a, b}
    Analysed = {a}
    Faults = {}
    Unseeded = FALSE
    MaxRequests = 2
    MaxChanges = 2
    MaxRecords = 2
INVARIANTS
    CommandExact
    FreshTexts
CHECK_DEADLOCK FALSE
