SPECIFICATION Spec
CONSTANTS
    NumSlots = 2
    QueueCap = 5
    Preempt = FALSE
    InitialFlash <- Used
    MaxWrites = 2
    MaxStores = 1
    MaxLosses = 1
INVARIANTS
    TypeOK
    RestoresASave
    StoredPairMatches
    DrainedKeysStored
