SPECIFICATION FairSpec
CONSTANTS
    NumSlots = 2
    Preempt = TRUE
    Patient = TRUE
    MaxFresh = 6
INVARIANTS
    OfferedTokenUnlocks
    ExposedKeyIsSlotsKey
    KeyAsGiven
    NobodyLeavesItOpen
PROPERTIES
    LockedMeansFrozen
    ExchangesEnd
