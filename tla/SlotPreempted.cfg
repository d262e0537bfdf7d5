SPECIFICATION FairSpec
CONSTANTS
    NumSlots = 2
    QueueCap = 3
    Writes <- AllWrites
    StackGarbage = {"UID", "URL", "TLM", "EID", "OTHER"}
    Preempt = TRUE
    MaxWrites = 2
    MaxTicks = 1
INVARIANTS
    TypeOK
    KeysOnlyInEidSlots
    NoForgottenFrame
PROPERTIES
    WritesTakeEffect
