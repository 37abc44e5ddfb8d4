CONSTANTS
    Writers = {w1, w2, w3}
    w1 = w1
    w2 = w2
    w3 = w3
    Mode = "block"
    TrackOpenedFiles = TRUE
    ReopenAfterClose = TRUE
    RefreshAfterSave = TRUE
    ReopenMode = "lastState"
    Apps = {"excel", "word"}
    OpensFail = FALSE
    OthersLock = FALSE
    MaxUser = 2
    MaxRuns = 0
SPECIFICATION FairSpec
PROPERTIES LastSaveShown ViewComesBack
CHECK_DEADLOCK FALSE
