CONSTANTS
    Modules = {m1, m2}
    m1 = m1
    m2 = m2
    FirstChunk = {m1}
    Edited = {m2}
    Texts = {t0, t1}
    t0 = t0
    t1 = t1
    Absent = Absent
    Unknown = Unknown
    Reads = {r1, r2}
    r1 = r1
    r2 = r2
    Loads = {l1, l2}
    l1 = l1
    l2 = l2
    NoRead = NoRead
    NoLoad = NoLoad
    Races = {}
    MaxWrites = 2
    MaxVersion = 2
SPECIFICATION Spec
INVARIANTS TypeOK IndexIsFresh WaitedForRuns
SYMMETRY MCSymmetry
CHECK_DEADLOCK FALSE
