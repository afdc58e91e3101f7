CONSTANTS
    n1 = n1
    r1 = r1
    r2 = r2
    t1 = t1
    t2 = t2
    Networks = {n1}
    Refreshes = {r1, r2}
    Toggles = {t1, t2}
    Attempts = 2
    MaxChanges = 2
    MaxFaults = 1
SPECIFICATION FairSpec
INVARIANTS StateTypeOK 
PROPERTY Converges
CHECK_DEADLOCK FALSE
