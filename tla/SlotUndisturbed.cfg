SPECIFICATION Spec
CONSTANTS
    NumSlots = 2
    QueueCap = 3
    Writes <- ProperWrites
    StackGarbage = {"UID", "URL", "TLM", "OTHER"}
    Preempt = FALSE
    MaxWrites = 3
    MaxTicks = 1
INVARIANTS
    ConfiguredEidIsLive
PROPERTIES
    ClearedStaysCleared
    ImplementsSlotTable
