SPECIFICATION FairSpec
CONSTANTS
    Special = {"startup", "checkpointer"}
    s1 = s1
    s2 = s2
    Slot = {s1}
    MaxCrashes = 1
    Stubborn = {}
    Settings <- PrimarySettings
PROPERTIES EveryFastShutdownEnds
CHECK_DEADLOCK FALSE
