CONSTANTS
    Modules = {m1, m2}
    Texts <- MCTexts
    Size <- Alike
    Stored <- MCStored
    NoText = NoText
    SizeAsRead = TRUE
    Slow = {"agent", "reload"}
    MaxStamp = 3
SPECIFICATION FairSpec
INVARIANTS TypeOK
PROPERTIES SavesKnowTheText ConflictsAreReal CleanDocumentsFollow
CHECK_DEADLOCK FALSE
