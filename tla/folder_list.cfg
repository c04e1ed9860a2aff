SPECIFICATION Spec
CONSTANTS
    Ids = {i1, i2, i3}
    Names = {n1, n2}
    Absent = Absent
    NoKey = NoKey
    MaxEdits = 3
    Faults = {"status3", "askFails", "saveFails", "crash"}
INVARIANTS TypeOK KeyIsCovered NoGhosts
CHECK_DEADLOCK FALSE
