SPECIFICATION FairSpec
CONSTANTS
    Special = {"startup", "checkpointer"}
    s1 = s1
    s2 = s2
    Slot = {s1}
    MaxCrashes = 1
    Stubborn = {"startup", "checkpointer", s1}
    Settings <- PrimarySettings
PROPERTIES FastShutdownEnds SmartShutdownEventuallyEnds ImmediateShutdownEnds CrashIsHandled
CHECK_DEADLOCK FALSE
