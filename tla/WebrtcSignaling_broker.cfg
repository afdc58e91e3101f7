CONSTANTS
    Sockets = {s1, s2, s3}
    SessionIds = {a, b}
    NoId = none
    MaxCandidates = 2
    MaxMissed = 2
SPECIFICATION Spec
INVARIANTS TypeOK LeaseCoversSession CommandsAreInOrder
 
