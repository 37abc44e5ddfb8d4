CONSTANTS
    Types = {}
    MaxTyped = 3
    MaxCrashes = 2
    MaxSteps = 6
SPECIFICATION Spec
INVARIANTS MirroredWhenQuiet CleanHasNone
PROPERTIES BackupsOutlive
CHECK_DEADLOCK FALSE
