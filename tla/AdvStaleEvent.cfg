SPECIFICATION FairSpec
CONSTANTS
    NumSlots = 2
    Boots <- BootsOne
    Writes <- WritesFew
    Overlap = "queued"
    MaxWrites = 0
    MaxPresses = 1
PROPERTIES ConnectableAdvEnds
CHECK_DEADLOCK FALSE
