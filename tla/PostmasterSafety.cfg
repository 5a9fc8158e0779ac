SPECIFICATION Spec
CONSTANTS
    Special = {"startup", "checkpointer", "walreceiver", "archiver"}
    s1 = s1
    s2 = s2
    Slot = {s1, s2}
    MaxCrashes = 1
    Stubborn = {}
    Settings <- BothSettings
INVARIANTS CheckpointIsLast AssertionsHold CleanExit
PROPERTIES ReinitAlone 
SYMMETRY SlotSymmetry
CHECK_DEADLOCK FALSE
