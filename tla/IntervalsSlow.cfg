SPECIFICATION Spec
CONSTANTS
    MaxSlots = 5
    Requests <- SlowTurns
    InitialIntervals <- AnyInitial
INVARIANTS
    SlotsFit
    EtlmsFit
PROPERTIES
    IntervalInUse
