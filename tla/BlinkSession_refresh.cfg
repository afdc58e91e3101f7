CONSTANTS
    c1 = c1
    c2 = c2
    Callers = {c1, c2}
    Importer = importer
    Enroller = enroller
    MaxGrant = 3
    MaxGeneration = 2
    Crashes = 1
    Imports = {}
    SaveMayFail = TRUE
    Disconnects = FALSE
SPECIFICATION Spec
SYMMETRY MCSymmetry
INVARIANTS RefreshIsSingle FileRecovers
PROPERTIES RefusalsAreTrue
