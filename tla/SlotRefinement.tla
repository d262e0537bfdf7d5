--------------------------- MODULE SlotRefinement ---------------------------
(***************************************************************************)
(* SlotConfig implements SlotTable.  The mapping reads a slot the way the  *)
(* rest of the firmware does, through eddystone_adv_slot_is_configured and *)
(* the frame type byte, and takes a slot to be unchecked while a frame_set *)
(* for it is queued or running.                                            *)
(***************************************************************************)
EXTENDS SlotConfig

Content(t, n) == IF Configured(t, n) THEN t ELSE "EMPTY"

Table == INSTANCE SlotTable WITH
    table     <- [s \in Slots |-> Content(ftype[s], flen[s])],
    saved     <- [s \in Slots |->
                    IF nvm.factory /\ s = 0 THEN "URL"
                    ELSE Content(Restored(s).type, Restored(s).len)],
    unchecked <- {s \in Slots : SetPending(s)},
    restored  <- IF main.at = "boot" THEN main.slot ELSE NumSlots,
    requests  <- writes

\* The slots are a table only the client changes: a rotation, a late frame_set
\* or a store never changes what a slot is, and power loss brings back what was
\* stored (README.md:37).
ImplementsSlotTable == Table!Spec
=============================================================================
