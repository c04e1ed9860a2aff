SPECIFICATION FairSpec
CONSTANTS
    Readers = {r1}
    MaxVer = 1
    MaxRef = 2
    MaxRestarts = 1
    Faults = {"raw", "rawCut"}
INVARIANTS TypeOK  StaleOnlyByRace
 
