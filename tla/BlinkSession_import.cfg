CONSTANTS
    c1 = c1
    c2 = c2
    Callers = {c1}
    Importer = importer
    Enroller = enroller
    MaxGrant = 3
    MaxGeneration = 2
    Crashes = 0
    Imports = {"live", "dead"}
    SaveMayFail = FALSE
    Disconnects = TRUE
SPECIFICATION FairSpec
 
PROPERTIES  ContextReturns
