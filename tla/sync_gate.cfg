SPECIFICATION FairSpec
CONSTANTS
    Folders = {inbox, sent}
    Readers = {r1}
    Nobody = Nobody
    Slots = 1
INVARIANTS BreakerSpares
PROPERTIES PassesAreGated EveryCallReturns FoldersKeepSyncing
