SPECIFICATION FairReadSpec
CONSTANTS
    Readers = {r1, r2}
    Workers = {w1, w2}
    Nobody = Nobody
    MaxTroubles = 2
    ReadFaults = {"skip", "fail", "status5", "secondFails", "stall", "cancel"}
INVARIANTS ReadTypeOK FreshMeansSynced
PROPERTIES ReadsAreAnswered StaleIsRefreshed
