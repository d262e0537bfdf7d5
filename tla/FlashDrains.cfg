SPECIFICATION FairSpec
CONSTANTS
    NumSlots = 1
    QueueCap = 3
    Preempt = FALSE
    InitialFlash <- Used
    MaxWrites = 2
    MaxStores = 1
    MaxLosses = 1
PROPERTIES
    SavesLand
