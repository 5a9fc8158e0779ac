CONSTANTS
    NumStarts = 2
    NumPids = 2
    MaxReinits = 0
    MaxTries = 100
    ForeignKeys = {0}
    Serial = FALSE
    StartupFails = TRUE
SPECIFICATION FairSpec
PROPERTIES
    DoubleServerEnds
    StartEnds
CHECK_DEADLOCK FALSE
