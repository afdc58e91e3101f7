CONSTANTS
    s1 = s1
    s2 = s2
    Sockets = {s1, s2}
    Policies = {"yes", "no"}
    Commands = {"save", "discard"}
    QueueDepth = 1
    MaxGeneration = 2
    MaxEpoch = 6
SPECIFICATION Spec
SYMMETRY MCSymmetry
INVARIANTS OneTalker StartBracketsAac QuietAgrees
 
