CONSTANTS
    NTests = 2
    MayCrash = TRUE
SPECIFICATION Spec
INVARIANTS TypeOK
PROPERTIES StartedTestsHaveResults VerdictsStand Settles TiedOfficeEnds
CHECK_DEADLOCK FALSE
