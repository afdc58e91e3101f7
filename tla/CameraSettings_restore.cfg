CONSTANTS
    Users = {u}
    Restorer = r
    Initials <- MCInitials
    Updates <- MCUpdates
    Backups <- MCBackups
    AppWrites <- MCAppWrites
    Missing = Missing
    Degrees = {0, 1, 2, 3}
    Gap = 2
    BasicRows = 2
    BasicColumns = 2
    MicroRows = 2
    MicroColumns = 3
    Attempts = 2
    MaxUpdates = 1
    MaxAppWrites = 1
    MaxFaults = 1
SPECIFICATION Spec
INVARIANTS TypeOK SettingsFit
PROPERTIES  EveryUpdateEnds
CHECK_DEADLOCK FALSE
