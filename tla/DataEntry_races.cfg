SPECIFICATION FairSpec
CONSTANTS
    Sessions = {1, 2}
    Slots <- MCSlots
    Values = {"line", "arc"}
    Scrips <- MCScrips
    Inputs <- MCInputs
    Trail = 2
    MaxSaves = 5
INVARIANTS
    SavedIsRead
    EpsIsTrailing
PROPERTIES
    SaveEnds
CHECK_DEADLOCK FALSE
