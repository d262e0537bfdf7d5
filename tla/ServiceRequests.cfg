SPECIFICATION FairSpec
CONSTANTS
    NumSlots = 2
    Powers = {"low", "high"}
    OtherPowers = {"odd"}
    Boots <- BootsFew
    StackGarbage = {"UID", "TLM", "EID"}
    Preempt = TRUE
    PrepareChars = {"rw_adv_slot"}
    CancelsAsked = FALSE
    MaxWrites = 2
INVARIANTS
    TypeOK
    OneReply
    
    RangingIsCalibrated
PROPERTIES
    LockedFreezesSlots
    EidRangingHeals
