----------------------------- MODULE SlotConfig -----------------------------
(***************************************************************************)
(* The beacon's slots: what each is configured to broadcast                *)
(* (eddystone_adv_slot.c), the key material of the EID slots               *)
(* (eddystone_security.c) and the copy of both in flash, as the client's   *)
(* writes, the scheduler and the one second timer change them.             *)
(*                                                                         *)
(* Two contexts share this state.  The SoftDevice event interrupt applies  *)
(* a client's write to the slot at once and leaves the expensive part, the *)
(* key exchange, to a scheduler event that the main loop executes later.   *)
(* The main loop is interrupted anywhere, so its two handlers (frame_set   *)
(* and update_time) and the callback both end in (eid_ready) are split at  *)
(* the points where they read or write the shared slot; an interrupt       *)
(* handler is one action.                                                  *)
(*                                                                         *)
(* Abstractions: the payload of a frame is the length of the write it came *)
(* from, a key is the exchange that derived it, the EID clock is the       *)
(* choice of whether a rotation is due, and a flash operation completes at *)
(* once (FlashStore models its asynchrony).  Every client write here is    *)
(* one that the lock let through (LockService models the lock).            *)
(***************************************************************************)
EXTENDS Integers, Sequences, FiniteSets

CONSTANTS
    NumSlots,      \* APP_MAX_ADV_SLOTS and APP_MAX_EID_SLOTS, which are equal
    QueueCap,      \* SCHED_QUEUE_SIZE
    Writes,        \* the writes of characteristic 10: [type, len]
    StackGarbage,  \* the frame types an uninitialised stack byte may hold
    Preempt,       \* may an interrupt hit inside a main loop handler?
    MaxWrites,     \* bound: client writes in a behaviour
    MaxTicks       \* bound: one second ticks waiting in the queue

\* The first byte of a write.  "OTHER" is any byte that names no frame.
FrameTypes == {"UID", "URL", "TLM", "EID", "OTHER"}

ECS_UID_WRITE_LENGTH == 17
ECS_URL_WRITE_LENGTH == 19
ECS_TLM_WRITE_LENGTH == 1
ECS_EID_WRITE_IDK_LENGTH == 18
ECS_EID_WRITE_ECDH_LENGTH == 34
\* What flash holds of an EID slot: type, exponent, clock and identity key.
EidConfigLength == 22

ASSUME NumSlotsAssumption == NumSlots \in Nat \ {0}
ASSUME QueueCapAssumption == QueueCap \in Nat /\ QueueCap >= NumSlots
ASSUME WritesAssumption == Writes \subseteq [type : FrameTypes, len : Nat]
ASSUME StackGarbageAssumption == StackGarbage \subseteq FrameTypes
ASSUME PreemptAssumption == Preempt \in BOOLEAN
ASSUME BoundsAssumption == MaxWrites \in Nat /\ MaxTicks \in Nat

Slots == 0 .. NumSlots - 1

VARIABLES
    ftype,      \* [Slots -> type]: frame_write_buffer[0]
    flen,       \* [Slots -> Nat]: frame_write_length
    wrote,      \* [Slots -> Nat]: length of the write whose bytes the buffer holds
    frame,      \* [Slots -> type]: what adv_frame was last built as
    occupied,   \* [Slots -> BOOLEAN]: m_security_slot[s].is_occupied
    ik,         \* [Slots -> key]: m_security_slot[s].aes_ecb_ik.key
    queue,      \* the scheduler's event queue
    main,       \* the handler the main loop is in and how far it got
    connected,  \* a client holds a connection
    nvm,        \* what flash holds: slot configurations and flags
    failed,     \* APP_ERROR_CHECK has failed; the chip is about to reset
    overtaken,  \* ghost: [Slots -> BOOLEAN]: the slot was last written by being
                \* emptied between two of the stores of its eid_ready
    writes      \* client writes so far (only bounds the behaviour)

ram  == <<ftype, flen, wrote, frame, occupied, ik, overtaken>>
vars == <<ftype, flen, wrote, frame, occupied, ik, queue, main, connected,
          nvm, failed, overtaken, writes>>

-----------------------------------------------------------------------------
(* Keys, events and handler positions *)

\* A key is named by how it was derived: the length the key exchange took the
\* write to have, and the length the client had given it.
NoKey == [used |-> 0, given |-> 0]
Keys == [used : Nat, given : Nat]

SetEvent(s) == [kind |-> "set", slot |-> s]    \* adv_frame_set_scheduler_evt
TickEvent == [kind |-> "tick", slot |-> 0]     \* update_time, by APPSH
Events == [kind : {"set", "tick"}, slot : Slots]

\* Where the main loop is: restoring main.slot at power up ("boot"), in
\* frame_set for main.slot ("check" .. "ready") or in update_time ("scan",
\* "rotate", "endtick").  In "ready" and "rotate" it is in eid_ready, about to
\* store the type of the slot, that of its frame or its length.
Positions == {"boot", "idle", "check", "fail", "occupy", "derive", "ready",
              "scan", "rotate", "endtick"}
Stores == {"type", "frame", "length"}
Idle == [at |-> "idle", slot |-> 0, type |-> "UID", key |-> NoKey, store |-> "type"]
MainStates == [at : Positions, slot : Slots, type : FrameTypes, key : Keys,
               store : Stores]

InFrameSet(s) == /\ main.slot = s
                 /\ main.at \in {"check", "fail", "occupy", "derive", "ready"}
Queued(s) == \E i \in 1 .. Len(queue) : queue[i] = SetEvent(s)
\* A frame_set for s is waiting or running.
SetPending(s) == Queued(s) \/ InFrameSet(s)

\* eddystone_adv_slot_is_configured: nothing written, or a single zero byte
\* (the frame type of UID), leaves the slot empty.
Configured(t, n) == ~(n = 0 \/ (n = 1 /\ t = "UID"))
IsConfigured(s) == Configured(ftype[s], flen[s])

\* Does frame_set accept a frame of type t written with n bytes?
ValidLength(t, n) ==
    CASE t = "UID" -> n = ECS_UID_WRITE_LENGTH
      [] t = "URL" -> n <= ECS_URL_WRITE_LENGTH
      [] t = "TLM" -> n = ECS_TLM_WRITE_LENGTH
      [] t = "EID" -> n \in {ECS_EID_WRITE_IDK_LENGTH, ECS_EID_WRITE_ECDH_LENGTH}
      [] OTHER     -> TRUE

-----------------------------------------------------------------------------
(* Flash: one configuration per slot, and the flags written at disconnect *)

NoConfig == [type |-> "UID", len |-> 0, wrote |-> 0, key |-> NoKey]
Configs == [type : FrameTypes, len : Nat, wrote : Nat, key : Keys]
FactoryNvm == [factory |-> TRUE,
               empty   |-> [s \in Slots |-> TRUE],
               config  |-> [s \in Slots |-> NoConfig]]
NvmStates == [factory : BOOLEAN,
              empty   : [Slots -> BOOLEAN],
              config  : [Slots -> Configs]]

\* eddystone_adv_slot_write_to_flash: an EID slot is stored as its key, any
\* other as the client's write; an unconfigured slot's block is cleared.
FlashImage(s) ==
    IF ~IsConfigured(s) THEN NoConfig
    ELSE IF ftype[s] = "EID"
         THEN [type |-> "EID", len |-> EidConfigLength,
               wrote |-> 0, key |-> ik[s]]
         ELSE [type |-> ftype[s], len |-> flen[s],
               wrote |-> wrote[s], key |-> NoKey]

-----------------------------------------------------------------------------
(* The environment of a step *)

\* An interrupt runs when main waits for events or, with Preempt, anywhere
\* after power up.
InterruptAllowed == ~failed /\ (main.at = "idle" \/ (Preempt /\ main.at # "boot"))

\* Mutant: the queue takes an event when it is full.
PutUnchecked(e) == queue' = Append(queue, e) /\ UNCHANGED failed

\* app_sched_event_put and the APP_ERROR_CHECK every caller wraps it in.
Put(e) ==
    IF Len(queue) < QueueCap
    THEN queue' = Append(queue, e) /\ UNCHANGED failed
    ELSE failed' = TRUE /\ UNCHANGED queue

\* SRAM after reset: .bss is zero, and zero is the frame type of UID.
Init ==
    /\ ftype = [s \in Slots |-> "UID"] /\ frame = [s \in Slots |-> "UID"]
    /\ flen = [s \in Slots |-> 0]      /\ wrote = [s \in Slots |-> 0]
    /\ occupied = [s \in Slots |-> FALSE]
    /\ ik = [s \in Slots |-> NoKey]
    /\ overtaken = [s \in Slots |-> FALSE]
    /\ queue = <<>>
    /\ main = [Idle EXCEPT !.at = "boot"]
    /\ connected = FALSE
    /\ nvm = FactoryNvm
    /\ failed = FALSE
    /\ writes = 0

-----------------------------------------------------------------------------
(* Changes of one slot *)

\* Main is in eid_ready for s and has stored the slot's type.
InsideEidReady(s) ==
    main.slot = s /\ main.at \in {"ready", "rotate"} /\ main.store # "type"
\* The ghost of a write of slot s.
Overtakes(s, t, n) ==
    [overtaken EXCEPT ![s] = ~Configured(t, n) /\ InsideEidReady(s)]

\* Mutant: the slot keeps its EID state when another frame overwrites it.
RwAdvDataSetKeepsKey(s, t, n) ==
    /\ ftype' = [ftype EXCEPT ![s] = t]
    /\ flen'  = [flen EXCEPT ![s] = n]
    /\ wrote' = [wrote EXCEPT ![s] = n]
    /\ overtaken' = Overtakes(s, t, n)
    /\ IF Configured(t, n) THEN Put(SetEvent(s)) ELSE UNCHANGED <<queue, failed>>
    /\ UNCHANGED <<occupied, ik>>

\* Mutant: only a frame written to an empty slot is scheduled to be built.
RwAdvDataSetOnce(s, t, n) ==
    /\ ftype' = [ftype EXCEPT ![s] = t]
    /\ flen'  = [flen EXCEPT ![s] = n]
    /\ wrote' = [wrote EXCEPT ![s] = n]
    /\ overtaken' = Overtakes(s, t, n)
    /\ IF t = "EID" THEN UNCHANGED <<occupied, ik>>
       ELSE /\ occupied' = [occupied EXCEPT ![s] = FALSE]
            /\ ik' = [ik EXCEPT ![s] = NoKey]
    /\ IF Configured(t, n) /\ ~IsConfigured(s)
       THEN Put(SetEvent(s)) ELSE UNCHANGED <<queue, failed>>

\* eddystone_adv_slot_rw_adv_data_set: store the write, destroy the EID state
\* unless the slot is to be an EID, and have main build the frame.
RwAdvDataSet(s, t, n) ==
    /\ ftype' = [ftype EXCEPT ![s] = t]
    /\ flen'  = [flen EXCEPT ![s] = n]
    /\ wrote' = [wrote EXCEPT ![s] = n]
    /\ overtaken' = Overtakes(s, t, n)
    /\ IF t = "EID" THEN UNCHANGED <<occupied, ik>>
       ELSE /\ occupied' = [occupied EXCEPT ![s] = FALSE]
            /\ ik' = [ik EXCEPT ![s] = NoKey]
    /\ IF Configured(t, n) THEN Put(SetEvent(s)) ELSE UNCHANGED <<queue, failed>>

-----------------------------------------------------------------------------
(* Power up: eddystone_adv_slots_init, one iteration of its loop *)

\* What flash says of slot s.
Restored(s) == IF nvm.factory \/ nvm.empty[s] THEN NoConfig ELSE nvm.config[s]
\* The frame of a beacon that was never configured: slot 0 is a URL.
DefaultUrlLength == 13

NextBoot == IF main.slot = NumSlots - 1 THEN Idle
            ELSE [main EXCEPT !.slot = @ + 1]

\* Factory state: slot 0 is the default URL, its frame built at once.
RestoreDefault ==
    /\ nvm.factory /\ main.slot = 0
    /\ ftype' = [ftype EXCEPT ![0] = "URL"]
    /\ flen'  = [flen EXCEPT ![0] = DefaultUrlLength]
    /\ wrote' = [wrote EXCEPT ![0] = DefaultUrlLength]
    /\ frame' = [frame EXCEPT ![0] = "URL"]
    /\ UNCHANGED <<occupied, ik, overtaken, queue, failed>>

RestoreEmpty(s) ==
    /\ ~(nvm.factory /\ s = 0)
    /\ Restored(s).len = 0
    /\ ftype' = [ftype EXCEPT ![s] = "UID"]
    /\ flen' = [flen EXCEPT ![s] = 0]
    /\ UNCHANGED <<wrote, frame, occupied, ik, overtaken, queue, failed>>

RestoreFrame(s) ==
    /\ Restored(s).len # 0 /\ Restored(s).type # "EID"
    /\ RwAdvDataSet(s, Restored(s).type, Restored(s).len)
    /\ UNCHANGED frame

\* eddystone_security_eid_slots_restore, then a length that counts as
\* configured.
RestoreEid(s) ==
    /\ Restored(s).len # 0 /\ Restored(s).type = "EID"
    /\ occupied' = [occupied EXCEPT ![s] = TRUE]
    /\ ik' = [ik EXCEPT ![s] = Restored(s).key]
    /\ ftype' = [ftype EXCEPT ![s] = "EID"]
    /\ frame' = [frame EXCEPT ![s] = "EID"]
    /\ flen' = [flen EXCEPT ![s] = 2]
    /\ UNCHANGED <<wrote, overtaken, queue, failed>>

RestoreSlot ==
    /\ ~failed /\ main.at = "boot"
    /\ \/ RestoreDefault
       \/ RestoreEmpty(main.slot)
       \/ RestoreFrame(main.slot)
       \/ RestoreEid(main.slot)
    /\ main' = NextBoot
    /\ UNCHANGED <<connected, nvm, writes>>

\* SRAM is lost, flash is not.
Reset ==
    /\ ftype' = [s \in Slots |-> "UID"] /\ frame' = [s \in Slots |-> "UID"]
    /\ flen' = [s \in Slots |-> 0]      /\ wrote' = [s \in Slots |-> 0]
    /\ occupied' = [s \in Slots |-> FALSE]
    /\ ik' = [s \in Slots |-> NoKey]
    /\ overtaken' = [s \in Slots |-> FALSE]
    /\ queue' = <<>>
    /\ main' = [Idle EXCEPT !.at = "boot"]
    /\ connected' = FALSE
    /\ failed' = FALSE
    /\ UNCHANGED <<nvm, writes>>

PowerLoss == Reset
\* A failed APP_ERROR_CHECK ends in app_error_handler, which resets the chip.
ErrorReset == failed /\ Reset

-----------------------------------------------------------------------------
(* SoftDevice events and the timer: interrupt context *)

Connect ==
    /\ InterruptAllowed /\ ~connected
    /\ connected' = TRUE
    /\ UNCHANGED <<ram, queue, main, nvm, failed, writes>>

\* ecs_write_evt_handler, BLE_ECS_EVT_RW_ADV_SLOT and .._EXEC.  The frame type
\* of an empty write is whatever the local slot_data held.
ClientWrite(s, w) ==
    /\ InterruptAllowed /\ connected /\ writes < MaxWrites
    /\ writes' = writes + 1
    /\ IF w.len = 0
       THEN \E t \in StackGarbage : RwAdvDataSet(s, t, 0)
       ELSE RwAdvDataSet(s, w.type, w.len)
    /\ UNCHANGED <<frame, main, connected, nvm>>

\* on_ble_evt, BLE_GAP_EVT_DISCONNECTED: store every slot and the flags.
Disconnect ==
    /\ InterruptAllowed /\ connected
    /\ connected' = FALSE
    /\ nvm' = [factory |-> FALSE,
               empty   |-> [s \in Slots |-> ~IsConfigured(s)],
               config  |-> [s \in Slots |-> FlashImage(s)]]
    /\ UNCHANGED <<ram, queue, main, failed, writes>>

TicksQueued == {i \in 1 .. Len(queue) : queue[i] = TickEvent}

\* The one second timer expires and APSCHED queues update_time.
TimerTick ==
    /\ InterruptAllowed
    /\ Cardinality(TicksQueued) < MaxTicks
    /\ Put(TickEvent)
    /\ UNCHANGED <<ram, main, connected, nvm, writes>>

-----------------------------------------------------------------------------
(* frame_set: main loop, adv_frame_set_scheduler_evt and what it calls *)

Running(position) == ~failed /\ main.at = position
Unchanging == UNCHANGED <<connected, nvm, failed, writes>>

\* Pop the event and read the frame type the switch is on.
FrameSetStart ==
    /\ Running("idle") /\ queue # <<>> /\ Head(queue).kind = "set"
    /\ queue' = Tail(queue)
    /\ main' = [Idle EXCEPT !.at = "check", !.slot = Head(queue).slot,
                            !.type = ftype[Head(queue).slot]]
    /\ UNCHANGED ram /\ Unchanging

\* Read the length; build the frame from the buffer, or for an EID copy the
\* key exchange out of it.  A byte that names no frame does nothing.
FrameSetCheck ==
    /\ Running("check")
    /\ LET s == main.slot
           t == main.type
       IN IF ValidLength(t, flen[s])
          THEN /\ frame' = IF t = "OTHER" THEN frame ELSE [frame EXCEPT ![s] = t]
               /\ main' = IF t = "EID"
                          THEN [main EXCEPT !.at = "occupy",
                                            !.key = [used |-> flen[s], given |-> wrote[s]]]
                          ELSE Idle
          ELSE main' = [main EXCEPT !.at = "fail"] /\ UNCHANGED frame
    /\ UNCHANGED <<ftype, flen, wrote, occupied, ik, overtaken, queue>> /\ Unchanging

\* Mutant: the frame is tried again.
FrameSetFailRetried ==
    /\ Running("fail")
    /\ main' = [main EXCEPT !.at = "check"]
    /\ UNCHANGED <<ram, queue>> /\ Unchanging

\* NRF_ERROR_INVALID_PARAM: the slot's length becomes 0.
FrameSetFail ==
    /\ Running("fail")
    /\ flen' = [flen EXCEPT ![main.slot] = 0]
    /\ main' = Idle
    /\ UNCHANGED <<ftype, wrote, frame, occupied, ik, overtaken, queue>> /\ Unchanging

\* shared_ik_receive and client_pub_ecdh_receive occupy the slot first ...
FrameSetOccupy ==
    /\ Running("occupy")
    /\ occupied' = [occupied EXCEPT ![main.slot] = TRUE]
    /\ main' = [main EXCEPT !.at = "derive"]
    /\ UNCHANGED <<ftype, flen, wrote, frame, ik, overtaken, queue>> /\ Unchanging

\* ... derive the key, the temporary key and the EID (the curve operations
\* take most of the handler's time) ...
FrameSetDerive ==
    /\ Running("derive")
    /\ ik' = [ik EXCEPT ![main.slot] = main.key]
    /\ main' = [main EXCEPT !.at = "ready"]
    /\ UNCHANGED <<ftype, flen, wrote, frame, occupied, overtaken, queue>> /\ Unchanging

\* ... and call back when the EID is ready ("ready").
-----------------------------------------------------------------------------
(* update_time: main loop, one pass over the EID slots per second *)

TickStart ==
    /\ Running("idle") /\ queue # <<>> /\ Head(queue).kind = "tick"
    /\ queue' = Tail(queue)
    /\ main' = [Idle EXCEPT !.at = "scan"]
    /\ UNCHANGED ram /\ Unchanging

NextScan == IF main.slot = NumSlots - 1 THEN [Idle EXCEPT !.at = "endtick"]
            ELSE [main EXCEPT !.at = "scan", !.slot = @ + 1, !.store = "type"]

\* Mutant: a rotation is due in every slot, key or no key.
RotationDueAnySlot(s) == TRUE
\* Is slot s one whose EID the clock may rotate?
RotationDue(s) == occupied[s]

\* An occupied slot's clock advances, and its EID rotates or not.
TickScan ==
    /\ Running("scan")
    /\ \/ main' = NextScan
       \/ RotationDue(main.slot) /\ main' = [main EXCEPT !.at = "rotate"]
    /\ UNCHANGED <<ram, queue>> /\ Unchanging

\* Once in 24 hours every occupied slot is stored, the flags are not.
TickEnd ==
    /\ Running("endtick")
    /\ main' = Idle
    /\ \/ UNCHANGED nvm
       \/ nvm' = [nvm EXCEPT !.config =
                    [s \in Slots |-> IF occupied[s] THEN FlashImage(s)
                                     ELSE nvm.config[s]]]
    /\ UNCHANGED <<ram, queue, connected, failed, writes>>

-----------------------------------------------------------------------------
(* eddystone_adv_slot_eid_ready: the callback that ends an exchange and a  *)
(* rotation                                                                *)

Storing(store) == ~failed /\ main.at \in {"ready", "rotate"} /\ main.store = store

EidReadyType ==
    /\ Storing("type")
    /\ ftype' = [ftype EXCEPT ![main.slot] = "EID"]
    /\ main' = [main EXCEPT !.store = "frame"]
    /\ UNCHANGED <<flen, wrote, frame, occupied, ik, overtaken, queue>> /\ Unchanging

EidReadyFrame ==
    /\ Storing("frame")
    /\ frame' = [frame EXCEPT ![main.slot] = "EID"]
    /\ main' = [main EXCEPT !.store = "length"]
    /\ UNCHANGED <<ftype, flen, wrote, occupied, ik, overtaken, queue>> /\ Unchanging

\* The last store, and the return to the handler that called.
EidReadyLength ==
    /\ Storing("length")
    /\ flen' = [flen EXCEPT ![main.slot] = ECS_EID_WRITE_ECDH_LENGTH]
    /\ main' = IF main.at = "ready" THEN Idle ELSE NextScan
    /\ UNCHANGED <<ftype, wrote, frame, occupied, ik, overtaken, queue>> /\ Unchanging

EidReady == EidReadyType \/ EidReadyFrame \/ EidReadyLength

-----------------------------------------------------------------------------

Interrupt == \/ Connect
             \/ \E s \in Slots, w \in Writes : ClientWrite(s, w)
             \/ Disconnect
             \/ TimerTick

MainLoop == \/ RestoreSlot
            \/ FrameSetStart \/ FrameSetCheck \/ FrameSetFail
            \/ FrameSetOccupy \/ FrameSetDerive
            \/ TickStart \/ TickScan \/ TickEnd
            \/ EidReady

Next == Interrupt \/ MainLoop \/ PowerLoss \/ ErrorReset

Spec == Init /\ [][Next]_vars

\* main() calls app_sched_execute for ever, an interrupt handler returns, and
\* the error handler resets the chip.
FairSpec == Spec /\ WF_vars(MainLoop) /\ WF_vars(ErrorReset)

-----------------------------------------------------------------------------
(* Properties *)

TypeOK ==
    /\ ftype \in [Slots -> FrameTypes]
    /\ flen \in [Slots -> Nat]
    /\ wrote \in [Slots -> Nat]
    /\ frame \in [Slots -> FrameTypes]
    /\ occupied \in [Slots -> BOOLEAN]
    /\ ik \in [Slots -> Keys]
    /\ queue \in Seq(Events) /\ Len(queue) <= QueueCap
    /\ main \in MainStates
    /\ connected \in BOOLEAN
    /\ nvm \in NvmStates
    /\ failed \in BOOLEAN
    /\ overtaken \in [Slots -> BOOLEAN]
    /\ writes \in 0 .. MaxWrites

\* Key material survives only in a slot that is to be an EID: whatever the
\* interleaving of a client's write with a key exchange or a rotation, a slot
\* that is something else has had its EID state destroyed
\* (eddystone_security_eid_slot_destroy), except while main is deriving the key
\* that will make it an EID again.
KeysOnlyInEidSlots ==
    \A s \in Slots :
        occupied[s] /\ ftype[s] # "EID"
            => /\ main.slot = s
               /\ main.at = "derive" \/ (main.at = "ready" /\ main.store = "type")

\* A configured slot broadcasts a frame of the type the client last wrote, or
\* main still has a frame_set for it to do: no order of writes, frame_sets and
\* rotations leaves a slot with the frame of an earlier configuration.  The one
\* order that does is a client emptying the slot between two of the stores of
\* its eid_ready, whose length then makes it configured again with nothing
\* queued; no other write, at no other point, does it, and the next one undoes it.
NoForgottenFrame ==
    \A s \in Slots :
        /\ IsConfigured(s) /\ ftype[s] # "OTHER" /\ frame[s] # ftype[s]
        /\ ~overtaken[s]
        => SetPending(s) \/ failed

\* An EID slot that is configured and has no key exchange to wait for has one
\* behind it: it is not broadcasting an EID that nothing will ever rotate.
ConfiguredEidIsLive ==
    \A s \in Slots :
        /\ IsConfigured(s) /\ ftype[s] = "EID"
        /\ ~SetPending(s) /\ ~failed
        => occupied[s]

\* Every frame_set that a write queued is carried out, or the chip resets.
WritesTakeEffect == \A s \in Slots : SetPending(s) ~> ~SetPending(s)

\* An empty slot becomes a configured one only by a client's write or by being
\* restored at power up (ble_handler.c:530, "client is clearing a slot with an
\* empty array"; adv_slot.c:511 for a slot whose configuration was refused).
ClearedStaysCleared ==
    [][\A s \in Slots :
          ~IsConfigured(s) /\ IsConfigured(s)'
              => writes' # writes \/ main.at = "boot"]_vars

-----------------------------------------------------------------------------
(* Documented, and not so: TLC refutes these with one slot, a queue of two   *)
(* and ProperWrites, the first two without preemption.                       *)

\* When power is lost, an EID slot comes back with the key the client gave it
\* (README.md:37, "all previously configured slots will be restored from flash
\* memory").
StoredEidHasKey ==
    \A s \in Slots :
        Restored(s).type = "EID" => Restored(s).key # NoKey

\* The identity key of a slot comes from the exchange the client asked for: 18
\* bytes carry an encrypted key, 34 bytes a public key (adv_slot.c:582, 598).
KeyFromClientsExchange ==
    \A s \in Slots : ik[s].used = ik[s].given

\* A slot broadcasts the frame it was configured as (ble_handler.c:530, "client
\* is clearing a slot with an empty array"): a client that empties a slot does
\* not leave it configured as a frame that nothing will build.
FrameIsTheSlots ==
    \A s \in Slots :
        IsConfigured(s) /\ frame[s] # ftype[s] => SetPending(s) \/ failed
=============================================================================
