CONSTANTS
    Keys = {"folder", "settings"}
    Calls <- MCCalls
    KeyOf <- MCKeyOf
    NoCall = NoCall
SPECIFICATION FairLockSpec
INVARIANTS InCallOrder EntryWhileActive
PROPERTIES EveryCallEnds
CHECK_DEADLOCK FALSE
