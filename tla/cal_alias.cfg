SPECIFICATION Spec
CONSTANTS
    IDs = {1, 2, 3}
    UIDs = {u1}
    NoUID = NoUID
    Bodies = {x, y}
    MaxStable = 1
    MaxAdded = 2
    PagesPerSave = 2
    Faults = {"pageError", "saveFails"}
VIEW AliasView
SYMMETRY AliasSymmetry
INVARIANTS TypeOK AliasesReachEvents BatchRestoresMemory
PROPERTIES DeleteSparesOthers ReplayShowsNothingNew
