CONSTANTS
    n1 = n1
    r1 = r1
    r2 = r2
    t1 = t1
    t2 = t2
    Networks = {n1}
    Refreshes = {r1}
    Toggles = {t1}
    Attempts = 2
    MaxChanges = 2
    MaxFaults = 0
SPECIFICATION StateSpec
PROPERTY ToggleIsKept
CHECK_DEADLOCK FALSE
