SPECIFICATION FairSpec
CONSTANTS
    IDs = {e1, e2}
    Junk = Junk
    Values = {x}
    Absent = Absent
    MaxChanges = 3
    MaxRejections = 2
    PagesPerSave = 2
    MaxPages = 3
    MaxNoProgress = 2
    Faults = {"appendFails", "mainFails", "pageError"}
INVARIANTS NothingIsMissed
PROPERTIES EveryChangeArrives
