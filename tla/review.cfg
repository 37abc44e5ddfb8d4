CONSTANTS
    Modules = {m1, m2}
    m1 = m1
    m2 = m2
    Texts = {t0, t1}
    t0 = t0
    t1 = t1
    NoText = NoText
    AtOnce = {"call", "revert", "rename"}
    Fails = {"before"}
    MaxWrites = 2
    MaxUser = 4
SPECIFICATION Spec
INVARIANTS TypeOK   BurstEndsOnLatest
SYMMETRY MCSymmetry
CHECK_DEADLOCK FALSE
