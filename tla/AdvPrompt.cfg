SPECIFICATION FairSpec
CONSTANTS
    NumSlots = 3
    Boots <- BootsDef
    Writes <- WritesDef
    Overlap = "none"
    MaxWrites = 2
    MaxPresses = 2
INVARIANTS
    ConnectableOnAir
    OnAirIsConfigured
    EtlmPairsWithAnEid
PROPERTIES
    EverySlotOnAir
    ConnectableAdvEnds
