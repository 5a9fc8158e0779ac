CONSTANTS
    b1 = b1
    b2 = b2
    Backend = {b1, b2}
    Half = 4
    FirstStarted = 7
    FirstFailed = 7
    MaxCalls = 2
    MaxOther = 1
SPECIFICATION FairSpec
INVARIANTS OkMeansCheckpoint
PROPERTIES RequestReturns RequestIsServed
CHECK_DEADLOCK FALSE
