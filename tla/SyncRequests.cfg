CONSTANTS
    f1 = f1
    f2 = f2
    b1 = b1
    First = f1
    Other <- MCOther
    Backend <- MCBackend
    MaxRequests = 2
    CycleMod = 2
    MaxVer = 2
SPECIFICATION Spec
INVARIANTS
    
    CheckpointIsDurable
    MissingIsCanceled
    UnlinkedByNextCheckpoint
PROPERTY UnlinkNotTooSoon
