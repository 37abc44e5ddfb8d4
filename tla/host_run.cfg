CONSTANTS
    Writers = {w1, w2}
    w1 = w1
    w2 = w2
    Mode = "closeTracked"
    TrackOpenedFiles = TRUE
    ReopenAfterClose = TRUE
    RefreshAfterSave = TRUE
    ReopenMode = "lastState"
    Apps = {"excel", "word"}
    OpensFail = TRUE
    OthersLock = TRUE
    MaxUser = 4
    MaxRuns = 1
SPECIFICATION Spec
INVARIANTS RunsTheSavedText
PROPERTIES UnsavedSurvives NeverOpensUninvited
SYMMETRY MCSymmetry
CHECK_DEADLOCK FALSE
