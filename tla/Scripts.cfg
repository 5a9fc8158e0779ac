CONSTANTS
    NumFiles = 2
    RowsPerFile = 2
    MaxRuns = 2
    Names <- MCNames
    NumScripts = 2
SPECIFICATION MCSpec
INVARIANTS
    NothingFromBroken
    
    CountedIsComplete
    FreshIsClean
    TempsRemoved
    InstalledOrTorn
    ParquetWhenArrow
    
    
CHECK_DEADLOCK FALSE
