SPECIFICATION Spec
CONSTANTS
    Folders = {inbox, trash}
    Msgs = {m1, m2}
    NoFolder = NoFolder
    Window = 1
    MaxUID = 3
    MaxMoves = 1
    Slots = 1
    Faults = {"crash", "badShard", "shardFails", "moveLost"}
SYMMETRY MsgSymmetry
INVARIANTS TypeOK OneMessagePerUID DurableUIDFloor
PROPERTIES KeepsLedger
CHECK_DEADLOCK FALSE
