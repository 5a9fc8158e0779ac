SPECIFICATION Spec
CONSTANTS
    Scripts = {1}
    Starts = {2}
    Stops = {3}
    Pid = {p1, p2, p3}
    p1 = p1
    p2 = p2
    p3 = p3
    MaxWaits = 2
    Interrupts = TRUE
    MaxKills = 1
INVARIANTS StartReportsReady 
CHECK_DEADLOCK FALSE
SYMMETRY PidSymmetry
