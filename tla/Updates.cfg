SPECIFICATION FairSpec
CONSTANTS
    Ids = {1, 2}
    MaxUpdates = 3
    MaxFaults = 6
CHECK_DEADLOCK FALSE
INVARIANTS NoUpdateIsHalfDone
PROPERTIES InterruptedIsFinished
