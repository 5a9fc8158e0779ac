SPECIFICATION FairSpec
CONSTANTS
    Scripts = {}
    Starts = {2}
    Stops = {3, 4}
    Pid = {p1, p2}
    p1 = p1
    p2 = p2
    p3 = p3
    MaxWaits = 2
    Interrupts = TRUE
    MaxKills = 1
PROPERTIES CommandEnds InterruptAborts
CHECK_DEADLOCK FALSE
