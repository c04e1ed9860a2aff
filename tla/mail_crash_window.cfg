SPECIFICATION Spec
CONSTANTS
    Folders = {inbox}
    Msgs = {m1, m2}
    NoFolder = NoFolder
    Window = 1
    MaxUID = 3
    MaxMoves = 0
    Slots = 1
    Faults = {"crash"}
INVARIANT CrashCostsOnlyUIDs
CHECK_DEADLOCK FALSE
