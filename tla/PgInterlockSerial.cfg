CONSTANTS
    NumStarts = 3
    NumPids = 2
    MaxReinits = 1
    MaxTries = 100
    ForeignKeys = {}
    Serial = TRUE
    StartupFails = FALSE
SPECIFICATION Spec
INVARIANTS
    OneServer

    
CHECK_DEADLOCK FALSE
