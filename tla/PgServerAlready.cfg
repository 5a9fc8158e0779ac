SPECIFICATION Spec
CONSTANTS
    Scripts = {1}
    Starts = {}
    Stops = {}
    Pid = {p1, p2}
    p1 = p1
    p2 = p2
    p3 = p3
    MaxWaits = 2
    Interrupts = FALSE
    MaxKills = 0
PROPERTIES AlreadyRunningIsTrue
CHECK_DEADLOCK FALSE
