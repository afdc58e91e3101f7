CONSTANTS
    c1 = c1
    c2 = c2
    k1 = k1
    k2 = k2
    Cameras = {c1, c2}
    Keys = {k1, k2}
    MaxBytes = 1
    Quota = 1
    MayFail = TRUE
    MaxRecordings = 2
SPECIFICATION FairSpec
INVARIANTS OneCapture ListedIsSound 
PROPERTIES JournalIsTrue ManualIsKept WorkEnds
CHECK_DEADLOCK FALSE
