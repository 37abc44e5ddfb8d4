CONSTANTS
    Writers = {w1, w2}
    Interrupts = {"write"}
    Lists = FALSE
    MaxWrites = 5
SPECIFICATION FairChangesSpec
INVARIANTS NothingHidden OwnWritesSilent
PROPERTIES EveryChangeReported
CHECK_DEADLOCK FALSE
