SPECIFICATION Spec
CONSTANTS
    NumSlots = 3
    Boots <- BootsDef
    Writes <- WritesHard
    Overlap = "anywhere"
    MaxWrites = 1
    MaxPresses = 2
INVARIANTS TypeOK ChainAlive NeverStartedTwice
CHECK_DEADLOCK FALSE
