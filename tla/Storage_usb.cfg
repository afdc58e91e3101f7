CONSTANTS
    Tasks = {t1, t2}
    Requests <- MCRequests
    Limit = 2
    MaxPageSize = 2
    Polls = 1
    MaxClips = 2
    MaxManifests = 3
    MaxCommands = 3
    MaxFaults = 1
SPECIFICATION Spec
INVARIANTS TypeOK  PagesAreRight
PROPERTY EveryRequestEnds
CHECK_DEADLOCK FALSE
