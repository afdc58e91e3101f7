CONSTANTS
    v1 = v1
    v2 = v2
    Viewers = {v1, v2}
    Stills = {still}
    Talkers = {talker}
    QueueDepth = 1
    Retries = 1
    MaxSessions = 2
SPECIFICATION FairSpec
INVARIANTS OneOwner SpliceIsBrief
PROPERTIES UnwatchedStops 
CHECK_DEADLOCK FALSE
