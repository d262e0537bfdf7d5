---------------------------- MODULE MCFlashStore ----------------------------
(* Inputs of FlashStore for TLC. *)
EXTENDS FlashStore

\* A chip that was just programmed.
Programmed == {Erased}

Eid == [frame |-> 1, eid |-> TRUE, interval |-> 1]
Configured == [Erased EXCEPT
    !.config = [s \in Slots |-> Eid],
    !.flags = [factory |-> FALSE, empty |-> [s \in Slots |-> FALSE]],
    !.lock = DefaultLockKey]

\* ... and a beacon whose slots were all configured as EIDs by shared key.
Used == {Erased, Configured}
FullOfEids == {Configured}
=============================================================================
