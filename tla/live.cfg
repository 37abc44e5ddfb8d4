SPECIFICATION Spec
CONSTANTS
    Races = {}
    MaxLives = 2
    MaxEvents = 2
    MaxFaults = 1
    MaxRetries = 1
INVARIANTS TypeOK QuietShowsWhatIs
PROPERTIES ProblemsGoForward ProblemsCatchUp
CHECK_DEADLOCK FALSE
