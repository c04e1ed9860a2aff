SPECIFICATION FairSpec
CONSTANTS
    Cells = {c1, c2}
    Sessions = {s1}
    MaxChanges = 2
    MaxStores = 1
    MaxTroubles = 2
    Faults = {"status3", "status5", "pageError", "saveFails", "clientGone", "pushFails", "pushback", "refused", "crash"}
INVARIANTS TypeOK FlagsAgree FileFollows
PROPERTIES OthersFlagsArrive
