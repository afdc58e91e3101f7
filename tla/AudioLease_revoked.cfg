CONSTANTS
    s1 = s1
    s2 = s2
    Sockets = {s1, s2}
    Policies = {"yes"}
    Commands = {}
    QueueDepth = 1
    MaxGeneration = 1
    MaxEpoch = 5
SPECIFICATION FairSpec
PROPERTIES RevokedIsStopped RevokedIsTold
