SPECIFICATION Spec
CONSTANTS
    IDs = {e1, e2}
    Junk = Junk
    Values = {x}
    Absent = Absent
    MaxChanges = 3
    MaxRejections = 0
    PagesPerSave = 2
    MaxPages = 2
    MaxNoProgress = 2
    Faults = {"crash", "appendFails", "mainFails", "pageError", "mailSave", "caldav", "badJournal"}
SYMMETRY StoreSymmetry
INVARIANTS TypeOK SyncedStaysServed
PROPERTIES FilesKeepPromise
