SPECIFICATION FairSpec
CONSTANTS
    Sessions = {s1, s2}
    Msgs = {m1, m2}
    QueueSize = 1
    Returning = {m1}
    Faults = {"refused", "moveLost"}
INVARIANTS TypeOK InStep MovedIsListed
PROPERTIES LeavesOnlyWhenGone IdleHears
