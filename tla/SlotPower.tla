----------------------------- MODULE SlotPower -----------------------------
(***************************************************************************)
(* The radio power of a slot and the ranging byte of its frame, which      *)
(* tells receivers the power at the antenna (eddystone_adv_slot.c).        *)
(*                                                                         *)
(* The byte is calibrated to the power when the client writes a power, in  *)
(* the interrupt, and when the frame is built or an EID rotates, in the    *)
(* main loop.  The main loop takes the power as an argument and stores the *)
(* byte later; interrupts fall between any two of its stores.  The frame   *)
(* is a union: the byte is the second of a UID, URL or EID frame, and the  *)
(* version of a TLM frame.                                                 *)
(*                                                                         *)
(* Abstractions: a ranging byte is the power it is calibrated for; URL is  *)
(* UID, which has the byte at the same place; the length of a write is     *)
(* right, wrong or zero, and read together with its type (SlotConfig takes *)
(* them apart); the queue is never full (SlotConfig fills it).             *)
(* ConfigService is the client of this module.                             *)
(***************************************************************************)
EXTENDS Integers, Sequences

CONSTANTS
    NumSlots,      \* APP_MAX_ADV_SLOTS and APP_MAX_EID_SLOTS, which are equal
    Powers,        \* ECS_SUPPORTED_TX_POWER
    OtherPowers,   \* powers a client may write that are not supported
    Boots,         \* what flash may hold at power up: a subset of PossibleBoots
    StackGarbage,  \* the frame types an uninitialised stack byte may hold
    Preempt        \* may an interrupt hit inside a main loop handler?

ASSUME NumSlotsAssumption == NumSlots \in Nat \ {0}
ASSUME PowersAssumption == Powers # {} /\ Powers \cap OtherPowers = {}
ASSUME PreemptAssumption == Preempt \in BOOLEAN

Slots == 0 .. NumSlots - 1
Types == {"UID", "TLM", "EID"}
Ranged == {"UID", "EID"}
Lengths == {"zero", "right", "wrong"}

ASSUME StackGarbageAssumption == StackGarbage \subseteq Types

VARIABLES
    type,       \* [Slots -> Types]: frame_write_buffer[0]
    len,        \* [Slots -> Lengths]: frame_write_length
    occupied,   \* [Slots -> BOOLEAN]: the security module has an EID for it
    power,      \* [Slots -> Powers]: radio_tx_pwr
    frame,      \* [Slots -> Types]: adv_frame's first byte
    second,     \* [Slots -> byte]: adv_frame's second byte
    queue,      \* the slots whose frame_set is in the scheduler's queue
    main,       \* the frame the main loop builds and how far it got
    overtaken,  \* ghost: slots whose power was written while main held the
                \* one before
    revived     \* ghost: slots emptied with the stack byte of a TLM that
                \* eid_ready then made configured

slotVars == <<type, len, occupied, power, frame, second, overtaken, revived>>
powerVars == <<slotVars, queue, main>>

\* The version byte of a TLM frame; a slot never built has zeroes.
Version == "version"
Bytes == Powers \cup {Version, "zero"}

IsConfigured(s) == len[s] # "zero"

\* "build": frame_set holds the power and is about to store the byte;
\* "occupy": it is in the exchange and about to occupy the slot; "exchange": an
\* EID is about to be ready; "typed", "framed", "sized": eid_ready has stored the
\* type, the frame, the length; "rotate": it holds the power.
Positions ==
    {"idle", "build", "occupy", "exchange", "typed", "framed", "sized", "rotate"}
Idle == [at |-> "idle", slot |-> 0, type |-> "UID", arg |-> CHOOSE p \in Powers : TRUE]
MainStates == [at : Positions, slot : Slots, type : Types, arg : Powers]

\* A frame_set of s is waiting, or main is building its frame.
Building(s) == \/ \E i \in 1 .. Len(queue) : queue[i] = s
               \/ main.at # "idle" /\ main.slot = s

-----------------------------------------------------------------------------
(* Power up *)

\* eddystone_adv_slots_init: an EID comes back complete, another frame is
\* queued to be built, and an empty slot has the power of slot 0.
PossibleBoots ==
    {b \in [type : [Slots -> Types], len : [Slots -> {"zero", "right"}],
            power : [Slots -> Powers]] :
        \A s \in Slots : b.len[s] = "zero"
                         => b.type[s] = "UID" /\ b.power[s] = b.power[0]}

ASSUME BootsAssumption == Boots \subseteq PossibleBoots

PowerInit ==
    /\ \E b \in Boots : type = b.type /\ len = b.len /\ power = b.power
    /\ occupied = [s \in Slots |-> IsConfigured(s) /\ type[s] = "EID"]
    /\ frame = [s \in Slots |-> IF occupied[s] THEN "EID" ELSE "UID"]
    /\ second = [s \in Slots |-> IF occupied[s] THEN power[s] ELSE "zero"]
    /\ queue \in UNION {[1 .. n -> Slots] : n \in 0 .. NumSlots}
    /\ \A s \in Slots : (\E i \in DOMAIN queue : queue[i] = s)
                        <=> IsConfigured(s) /\ ~occupied[s]
    /\ \A i, j \in DOMAIN queue : i < j => queue[i] < queue[j]
    /\ main = Idle
    /\ overtaken = [s \in Slots |-> FALSE]
    /\ revived = [s \in Slots |-> FALSE]

-----------------------------------------------------------------------------
(* eddystone_set_ranging_data *)

\* Its store: the type is read again here.
Ranging(s, p) == IF type[s] \in Ranged THEN [second EXCEPT ![s] = p] ELSE second

\* main is about to store the byte of another power than p.
Overtakes(s, p) == /\ main.at \in {"build", "rotate"} /\ main.slot = s
                   /\ main.arg # p

\* eid_ready has stored the type of s, and its length is to come.
InsideEidReady(s) == main.at \in {"typed", "framed"} /\ main.slot = s
\* The ghost of a write of a frame.
Revives(s, t, l) ==
    [revived EXCEPT ![s] = l = "zero" /\ t = "TLM" /\ InsideEidReady(s)]

-----------------------------------------------------------------------------
(* The client's writes, in the SoftDevice event interrupt *)

\* Mutant: the ranging byte is left for the next frame_set.
SetRadioTxPwrOnly(s, p) ==
    /\ power' = IF p \in Powers THEN [power EXCEPT ![s] = p] ELSE power
    /\ overtaken' = [overtaken EXCEPT ![s] = Overtakes(s, power'[s])]
    /\ UNCHANGED <<type, len, occupied, frame, second, queue, main, revived>>

\* eddystone_adv_slot_radio_tx_pwr_set for one slot: an unsupported power
\* leaves the power as it is.
SetRadioTxPwr(s, p) ==
    /\ power' = IF p \in Powers THEN [power EXCEPT ![s] = p] ELSE power
    /\ second' = Ranging(s, power'[s])
    /\ overtaken' = [overtaken EXCEPT ![s] = Overtakes(s, power'[s])]
    /\ UNCHANGED <<type, len, occupied, frame, queue, main, revived>>

\* Mutant: a frame that is there already is not built anew.
SetRwAdvDataOnce(s, t, l) ==
    /\ type' = [type EXCEPT ![s] = t]
    /\ len' = [len EXCEPT ![s] = l]
    /\ occupied' = [occupied EXCEPT ![s] = @ /\ t = "EID"]
    /\ queue' = IF l # "zero" /\ type[s] # t THEN Append(queue, s) ELSE queue
    /\ revived' = Revives(s, t, l)
    /\ UNCHANGED <<power, frame, second, main, overtaken>>

\* eddystone_adv_slot_rw_adv_data_set: the type of an empty write is a byte
\* of the stack.
SetRwAdvData(s, t, l) ==
    /\ type' = [type EXCEPT ![s] = t]
    /\ len' = [len EXCEPT ![s] = l]
    /\ occupied' = [occupied EXCEPT ![s] = @ /\ t = "EID"]
    /\ queue' = IF l # "zero" THEN Append(queue, s) ELSE queue
    /\ revived' = Revives(s, t, l)
    /\ UNCHANGED <<power, frame, second, main, overtaken>>

-----------------------------------------------------------------------------
(* The main loop: frame_set and eid_ready *)

\* main takes the power of s, to store its byte at position p.
TakePower(p, s, t) ==
    /\ main' = [at |-> p, slot |-> s, type |-> t, arg |-> power[s]]
    /\ overtaken' = [overtaken EXCEPT ![s] = FALSE]

\* frame_set of a TLM, of a frame of the wrong length but an EID, and of a slot
\* that was emptied: done at once.
BuildAtOnce ==
    /\ main.at = "idle" /\ queue # <<>>
    /\ LET s == Head(queue)
       IN  /\ type[s] = "TLM" \/ (type[s] = "UID" /\ len[s] # "right")
           /\ IF len[s] = "right"
              THEN /\ frame' = [frame EXCEPT ![s] = "TLM"]
                   /\ second' = [second EXCEPT ![s] = Version]
                   /\ UNCHANGED len
              ELSE /\ len' = [len EXCEPT ![s] = "zero"]
                   /\ UNCHANGED <<frame, second>>
    /\ queue' = Tail(queue)
    /\ UNCHANGED <<type, occupied, power, main, overtaken, revived>>

\* frame_set of a frame with a ranging byte; an EID's length comes later, and
\* a URL has no length that is too short.
BuildStart ==
    /\ main.at = "idle" /\ queue # <<>>
    /\ LET s == Head(queue)
       IN  /\ type[s] = "EID" \/ (type[s] = "UID" /\ len[s] # "wrong")
           /\ frame' = IF type[s] = "UID" THEN [frame EXCEPT ![s] = "UID"] ELSE frame
           /\ TakePower("build", s, type[s])
    /\ queue' = Tail(queue)
    /\ UNCHANGED <<type, len, occupied, power, second, revived>>

\* Is the length that of an EID?  A slot that was overwritten may hold a URL of
\* 18 bytes.
FitsEid(s) == IF len[s] # "right" \/ type[s] = "TLM" THEN {FALSE}
              ELSE IF type[s] = "EID" THEN {TRUE}
              ELSE BOOLEAN

\* The byte is stored; a UID is done, and an EID goes on if its length is that
\* of an exchange.
BuildStore ==
    /\ main.at = "build"
    /\ \E fits \in FitsEid(main.slot) :
       LET s == main.slot
           accepted == main.type = "EID" /\ fits
       IN  /\ second' = Ranging(s, main.arg)
           /\ frame' = IF accepted THEN [frame EXCEPT ![s] = "EID"] ELSE frame
           /\ len' = IF main.type = "EID" /\ ~accepted
                     THEN [len EXCEPT ![s] = "zero"] ELSE len
           /\ main' = IF accepted THEN [main EXCEPT !.at = "occupy"] ELSE Idle
    /\ UNCHANGED <<type, occupied, power, queue, overtaken, revived>>

\* client_pub_ecdh_receive and shared_ik_receive.
Occupy ==
    /\ main.at = "occupy"
    /\ occupied' = [occupied EXCEPT ![main.slot] = TRUE]
    /\ main' = [main EXCEPT !.at = "exchange"]
    /\ UNCHANGED <<type, len, power, frame, second, overtaken, revived, queue>>

\* update_time calls eid_ready when the EID of an occupied slot is due, as the
\* exchange does at its end.
Rotate(s) ==
    /\ main.at = "idle" /\ occupied[s]
    /\ main' = [main EXCEPT !.at = "exchange", !.slot = s, !.type = "EID"]
    /\ UNCHANGED <<slotVars, queue>>

\* eddystone_adv_slot_eid_ready, store by store.
EidReadyType ==
    /\ main.at = "exchange"
    /\ type' = [type EXCEPT ![main.slot] = "EID"]
    /\ main' = [main EXCEPT !.at = "typed"]
    /\ UNCHANGED <<len, occupied, power, frame, second, overtaken, revived, queue>>

EidReadyFrame ==
    /\ main.at = "typed"
    /\ frame' = [frame EXCEPT ![main.slot] = "EID"]
    /\ main' = [main EXCEPT !.at = "framed"]
    /\ UNCHANGED <<type, len, occupied, power, second, overtaken, revived, queue>>

EidReadyLength ==
    /\ main.at = "framed"
    /\ len' = [len EXCEPT ![main.slot] = "right"]
    /\ main' = [main EXCEPT !.at = "sized"]
    /\ UNCHANGED <<type, occupied, power, frame, second, overtaken, revived, queue>>

EidReadyPower ==
    /\ main.at = "sized"
    /\ TakePower("rotate", main.slot, "EID")
    /\ UNCHANGED <<type, len, occupied, power, frame, second, revived, queue>>

\* Mutant: eid_ready leaves the ranging byte alone.
RotateStoreNothing ==
    /\ main.at = "rotate"
    /\ main' = Idle
    /\ UNCHANGED <<slotVars, queue>>

RotateStore ==
    /\ main.at = "rotate"
    /\ second' = Ranging(main.slot, main.arg)
    /\ main' = Idle
    /\ UNCHANGED <<type, len, occupied, power, frame, overtaken, revived, queue>>

EidReady == EidReadyType \/ EidReadyFrame \/ EidReadyLength \/ EidReadyPower \/ RotateStore

Build == BuildAtOnce \/ BuildStart \/ BuildStore \/ Occupy \/ EidReady

-----------------------------------------------------------------------------
(* Properties *)

PowerTypeOK ==
    /\ type \in [Slots -> Types] /\ len \in [Slots -> Lengths]
    /\ occupied \in [Slots -> BOOLEAN] /\ power \in [Slots -> Powers]
    /\ frame \in [Slots -> Types] /\ second \in [Slots -> Bytes]
    /\ queue \in Seq(Slots) /\ main \in MainStates
    /\ overtaken \in [Slots -> BOOLEAN] /\ revived \in [Slots -> BOOLEAN]

\* A slot that broadcasts a UID, URL or EID with nothing left to build carries
\* the ranging byte of its own power, and a TLM its version: whatever order the
\* client's writes of frames and powers, the builds and the rotations come in.
\* Two orders break it: a power written between the halves of a build, until the
\* next power or rotation, and an empty write, whose type is the stack's and a
\* TLM's, between the stores of type and length of eid_ready, until the next frame.
RangingIsCalibrated ==
    \A s \in Slots :
        /\ IsConfigured(s) /\ ~Building(s) /\ ~overtaken[s] /\ ~revived[s]
        => second[s] = IF type[s] \in Ranged THEN power[s] ELSE Version

-----------------------------------------------------------------------------
(* Documented, and not so: TLC refutes these two with Preempt.               *)

\* The ranging byte is that of the power the slot is sent with
\* (eddystone_adv_slot.c:243, "the radio tx power to be calibrated to ranging
\* data").
ByteIsOfThePower ==
    \A s \in Slots :
        IsConfigured(s) /\ ~Building(s) /\ type[s] \in Ranged => second[s] = power[s]

\* A TLM slot broadcasts a TLM frame (ble_handler.c:530, "client is clearing a
\* slot with an empty array": the slot that was cleared is configured again, as
\* the TLM of a stack byte, and nothing builds its frame).
TlmHasItsVersion ==
    \A s \in Slots :
        IsConfigured(s) /\ ~Building(s) /\ type[s] = "TLM" => second[s] = Version
=============================================================================
