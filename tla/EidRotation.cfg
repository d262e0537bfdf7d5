SPECIFICATION Spec
CONSTANTS
    NumSlots = 2
    Scalers = {0, 1, 3}
    TkExponent = 3
    SecondsWidth = 5
    UsPerSecond = 4
    InitialSeconds = 6
    StoredSeconds <- AboutToRoll
    KeptSlots <- Zero
    MaxTicks = 10
INVARIANTS
    TypeOK
    EidIsCurrent
    FirstClockIsRight
CHECK_DEADLOCK FALSE
