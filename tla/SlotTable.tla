----------------------------- MODULE SlotTable ------------------------------
(***************************************************************************)
(* What the beacon promises about its slots: a table of contents that only *)
(* its client changes and that survives loss of power as of the last time  *)
(* it was stored.  SlotConfig is shown to implement it (SlotRefinement).   *)
(*                                                                         *)
(* A slot the client has just written may still be refused, and then it is *)
(* empty.  Nothing else changes a slot: no timer, no key rotation and no   *)
(* store to flash.                                                         *)
(***************************************************************************)
EXTENDS Naturals

CONSTANTS NumSlots, FrameTypes

Slots == 0 .. NumSlots - 1
Contents == FrameTypes \cup {"EMPTY"}

VARIABLES
    table,      \* [Slots -> Contents]: what each slot broadcasts
    saved,      \* [Slots -> Contents]: what it will be after a power loss
    unchecked,  \* the slots whose contents may still be refused
    restored,   \* how many slots have been restored since power up
    requests    \* how many writes the client has made

vars == <<table, saved, unchecked, restored, requests>>

Up == restored = NumSlots

TypeOK ==
    /\ table \in [Slots -> Contents]
    /\ saved \in [Slots -> Contents]
    /\ unchecked \subseteq Slots
    /\ restored \in 0 .. NumSlots
    /\ requests \in Nat

\* A new beacon broadcasts a URL in slot 0.
Init ==
    /\ table = [s \in Slots |-> "EMPTY"]
    /\ saved = [s \in Slots |-> IF s = 0 THEN "URL" ELSE "EMPTY"]
    /\ unchecked = {}
    /\ restored = 0
    /\ requests = 0

\* A restored slot is checked again, for the beacon stores what was written.
Restore ==
    /\ ~Up
    /\ restored' = restored + 1
    /\ table' = [table EXCEPT ![restored] = saved[restored]]
    /\ unchecked' \in {unchecked, unchecked \cup {restored}}
    /\ UNCHANGED <<saved, requests>>

Write(s) ==
    /\ Up
    /\ requests' = requests + 1
    /\ \E c \in Contents : table' = [table EXCEPT ![s] = c]
    /\ unchecked' \in {unchecked, unchecked \cup {s}}
    /\ UNCHANGED <<saved, restored>>

\* An earlier write of the slot may still be waiting when one is decided.
Refuse(s) ==
    /\ s \in unchecked
    /\ table' = [table EXCEPT ![s] = "EMPTY"]
    /\ unchecked' \in {unchecked, unchecked \ {s}}
    /\ UNCHANGED <<saved, restored, requests>>

Accept(s) ==
    /\ s \in unchecked
    /\ unchecked' = unchecked \ {s}
    /\ UNCHANGED <<table, saved, restored, requests>>

Store(S) ==
    /\ Up
    /\ saved' = [s \in Slots |-> IF s \in S THEN table[s] ELSE saved[s]]
    /\ UNCHANGED <<table, unchecked, restored, requests>>

PowerLoss ==
    /\ table' = [s \in Slots |-> "EMPTY"]
    /\ unchecked' = {}
    /\ restored' = 0
    /\ UNCHANGED <<saved, requests>>

Next == \/ Restore
        \/ \E s \in Slots : Write(s) \/ Refuse(s) \/ Accept(s)
        \/ \E S \in SUBSET Slots : Store(S)
        \/ PowerLoss

Spec == Init /\ [][Next]_vars
=============================================================================
