SPECIFICATION FairSpec
CONSTANTS
    Folders = {inbox}
    Msgs = {m1, m2}
    NoFolder = NoFolder
    Window = 1
    MaxUID = 3
    MaxMoves = 0
    Slots = 1
    Faults = {"status3", "status5", "pageError", "lostReply", "mainFails"}
INVARIANTS NoMailLost
PROPERTIES EveryMailArrives
CHECK_DEADLOCK FALSE
