-------------------------- MODULE MCConfigService --------------------------
(* What flash holds at power up, for ConfigService in TLC. *)
EXTENDS ConfigService

Boot(t, l) == [type |-> [s \in Slots |-> IF s = 0 THEN t ELSE "UID"],
               len |-> [s \in Slots |-> IF s = 0 THEN l ELSE "zero"],
               power |-> [s \in Slots |-> "low"]]

\* Slot 0 has the default frame or an EID, and the others are empty.
BootsFew == {Boot("UID", "right"), Boot("EID", "right")}
=============================================================================
