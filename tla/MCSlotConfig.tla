---------------------------- MODULE MCSlotConfig ----------------------------
(* Inputs of SlotConfig for TLC. *)
EXTENDS SlotRefinement

W(t, n) == [type |-> t, len |-> n]

\* One write of each kind the handlers tell apart: each frame type valid and
\* invalid, both key exchanges, and both ways to clear a slot.
AllWrites == {W("UID", 17), W("UID", 1), W("UID", 0), W("UID", 34), W("URL", 19),
              W("TLM", 1), W("EID", 18), W("EID", 34), W("EID", 5), W("OTHER", 3)}

\* What a client sends that follows the protocol.
ProperWrites == {W("UID", 17), W("UID", 1), W("UID", 0), W("URL", 19), W("TLM", 1),
                 W("EID", 18), W("EID", 34)}
\* A slot is made an EID, cleared, or given an invalid EID frame.
EidWrites == {W("EID", 18), W("EID", 34), W("UID", 0), W("EID", 5)}
=============================================================================
