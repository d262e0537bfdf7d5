----------------------------- MODULE AdvManager -----------------------------
(***************************************************************************)
(* The advertising manager (eddystone_advertising_manager.c): three timers *)
(* take the radio through the configured slots, button 1 takes it away     *)
(* from them for connectable advertising, and a client's connection and    *)
(* writes halt and restart them.                                           *)
(*                                                                         *)
(* Timer expiries and the button reach the main loop through the scheduler *)
(* queue, SoftDevice events run in interrupt context.  The handlers are    *)
(* written once, as operators on the record of the module's statics: an    *)
(* interrupt composes them into one step, the main loop takes them apart   *)
(* at the points where an interrupt finds something different.             *)
(*                                                                         *)
(* Abstractions: a slot is its frame type byte, whether it counts as       *)
(* configured and whether frame_set will accept it (SlotConfig models how  *)
(* slots change); an interval is whether it is nonzero (AdvIntervals       *)
(* computes it); time is untimed, so a running timer may expire at any     *)
(* moment; power loss is left to SlotConfig.                               *)
(***************************************************************************)
EXTENDS Integers, Sequences, FiniteSets

CONSTANTS
    NumSlots,    \* APP_MAX_ADV_SLOTS and APP_MAX_EID_SLOTS, which are equal
    Boots,       \* the slot configurations flash may hold at power up
    Writes,      \* what a client's write makes of a slot
    Overlap,     \* what the environment may do while main has work, see Free
    MaxWrites,   \* bound: client writes in a behaviour
    MaxPresses   \* bound: presses of button 1 in a behaviour

Slots == 0 .. NumSlots - 1
FrameTypes == {"UID", "URL", "TLM", "EID", "OTHER"}

\* A slot: frame_write_buffer[0], eddystone_adv_slot_is_configured, and
\* whether frame_set accepts what was written.
SlotStates == [type : FrameTypes, conf : BOOLEAN, valid : BOOLEAN]

ASSUME NumSlotsAssumption == NumSlots \in Nat \ {0}
ASSUME BootsAssumption == Boots \subseteq [Slots -> SlotStates]
ASSUME WritesAssumption == Writes \subseteq SlotStates
ASSUME OverlapAssumption == Overlap \in {"none", "queued", "anywhere"}
ASSUME BoundsAssumption == MaxWrites \in Nat /\ MaxPresses \in Nat

VARIABLES
    slots,      \* [Slots -> SlotStates]: m_slots
    saved,      \* the slots as flash holds them
    adv,        \* the statics of the manager, its timers and the radio
    queue,      \* the scheduler's event queue
    main,       \* the handler the main loop is in and how far it got
    writes,     \* client writes so far (only bounds the behaviour)
    presses     \* presses of the button so far (only bounds the behaviour)

vars == <<slots, saved, adv, queue, main, writes, presses>>

-----------------------------------------------------------------------------
(* The radio, the statics and the main loop's position *)

Timers == {"interval", "slot", "etlm"}
Blank == NumSlots       \* 0xFF, which pads the lists of slots
Beyond == NumSlots + 1  \* any other byte that is not the number of a slot
SlotNumbers == Slots \cup {Beyond}

\* What sd_ble_gap_adv_start was last given.
Off == [kind |-> "off", slot |-> 0, type |-> "UID", pair |-> Blank]
Connectable == [Off EXCEPT !.kind = "conn"]
Airs == [kind : {"off", "conn", "frame"}, slot : SlotNumbers,
         type : FrameTypes \cup {"eTLM"}, pair : Slots \cup {Blank}]

Statics ==
    [conn       : BOOLEAN,                      \* m_is_connectable_adv
     link       : BOOLEAN,                      \* m_is_connected
     counter    : 0 .. NumSlots,                \* slot_counter
     configured : [Slots -> Slots \cup {Blank}],\* m_currently_configured_slots
     positions  : [Slots -> Slots \cup {Blank}],\* eid_positions
     eidCounter : Nat,                          \* eid_slot_counter
     temp       : SlotNumbers,                  \* m_temporary_slot_no
     slotGap    : BOOLEAN,                      \* slot_slot_interval # 0
     etlmGap    : BOOLEAN,                      \* etlm_etlm_interval # 0
     timers     : SUBSET Timers,                \* the timers that run
     air        : Airs,                         \* the radio
     failed     : BOOLEAN]                      \* APP_ERROR_CHECK has failed

PoweredUp ==
    [conn |-> FALSE, link |-> FALSE, counter |-> 0,
     configured |-> [i \in Slots |-> 0], positions |-> [i \in Slots |-> Blank],
     eidCounter |-> 0, temp |-> 0, slotGap |-> FALSE, etlmGap |-> FALSE,
     timers |-> {}, air |-> Off, failed |-> FALSE]

\* A scheduler event: an expired timer, the debounced button, or the
\* frame_set of a write that it will refuse (the frame_set of any other write
\* changes nothing the manager reads).
Event(kind, s) == [kind |-> kind, slot |-> s]
Events == [kind : Timers \cup {"button", "set"}, slot : Slots]

\* Main is in adv_slot_timeout for main.slot, or (main.cycle) in
\* etlm_cycle_timeout, or in the latter called by the former (main.then).  It
\* has loaded main.loaded of a counter that it is about to store incremented.
Positions == {"init", "idle", "choose", "cycle", "fetch", "start", "pair", "paired",
              "count", "increment", "compare", "wrap", "next"}
MainStates == [at : Positions, slot : SlotNumbers, cycle : BOOLEAN, then : BOOLEAN,
               frame : Airs, loaded : Nat]
Idle == [at |-> "idle", slot |-> 0, cycle |-> FALSE, then |-> FALSE, frame |-> Off,
         loaded |-> 0]

-----------------------------------------------------------------------------
(* What the manager asks eddystone_adv_slot *)

ConfiguredSlots == {s \in Slots : slots[s].conf}
\* eddystone_adv_slot_num_of_current_eids looks at the type byte only.
EidSlots == {s \in Slots : slots[s].type = "EID"}
EtlmRequired == EidSlots # {} /\ \E s \in Slots : slots[s].type = "TLM"

\* The members of S in increasing order, padded with Blank.
Padded(S) ==
    [i \in Slots |->
        IF \E s \in S : Cardinality({t \in S : t < s}) = i
        THEN CHOOSE s \in S : Cardinality({t \in S : t < s}) = i
        ELSE Blank]

\* What is read of slot s.  A number beyond the slots is not checked: its bytes
\* are whatever lies there (eddystone_adv_slot_params_get), and it counts as
\* configured when the last slot does (SLOT_BOUNDARY_CHECK).
Params(s) ==
    IF s \in Slots THEN {slots[s]}
    ELSE [type : FrameTypes, conf : {slots[NumSlots - 1].conf}, valid : BOOLEAN]

-----------------------------------------------------------------------------
(* The functions of the module, as operators on its statics *)
(* (and on s, the number of a slot, and p, what they read of it) *)

\* app_timer_start on a timer that runs does nothing.
TimerStart(a, t) == [a EXCEPT !.timers = @ \cup {t}]
TimerStop(a, t) == [a EXCEPT !.timers = @ \ {t}]
AdvStop(a) == [a EXCEPT !.air = Off]

\* Mutant: the timers keep running.
HaltRadio(a) == AdvStop(a)
AllAdvertisingHalt(a) == [AdvStop(a) EXCEPT !.timers = {}]

\* sd_ble_gap_adv_start fails when the radio is advertising already; nothing
\* is started after an error check has failed.
AdvStart(a, f) == IF a.failed THEN a
                  ELSE IF a.air = Off THEN [a EXCEPT !.air = f]
                  ELSE [a EXCEPT !.failed = TRUE]

IntervalsCalculate(a) ==
    [a EXCEPT !.configured = Padded(ConfiguredSlots),
              !.slotGap = ConfiguredSlots # {},
              !.etlmGap = ConfiguredSlots # {} /\ EtlmRequired]

AdvIntervalTimerStart(a) == TimerStart(IntervalsCalculate(a), "interval")

\* fetch_adv_data_from_slot: a TLM slot is an eTLM frame when there is a slot
\* to pair it with.  (Reading beyond eid_positions is a Blank as well.)
Fetched(a, s, p) ==
    IF p.type = "TLM" /\ EidSlots # {}
    THEN [kind |-> "frame", slot |-> s, type |-> "eTLM",
          pair |-> IF a.eidCounter \in Slots THEN a.positions[a.eidCounter]
                   ELSE Blank]
    ELSE [kind |-> "frame", slot |-> s, type |-> p.type, pair |-> Blank]

\* The error checks of a frame: the default branch ("Should never happen!"), and
\* ble_advdata_set of a URL too long for a packet.  frame_set refuses such a URL
\* and empties its slot, but only when main comes to it.
FrameFails(p) == p.type = "OTHER" \/ (p.type = "URL" /\ p.conf /\ ~p.valid)
FetchChecked(a, p) == [a EXCEPT !.failed = @ \/ FrameFails(p)]

Advertise(a, s, p) == AdvStart(FetchChecked(a, p), Fetched(a, s, p))

\* Does etlm_cycle_timeout find the cycle at its end?
CycleOver(a) == a.eidCounter >= Cardinality(EidSlots)
EndCycle(a) == TimerStop([AdvStop(a) EXCEPT !.eidCounter = 0], "etlm")
EtlmCycleTimeout(a, p) ==
    IF CycleOver(a) THEN EndCycle(a)
    ELSE [Advertise(AdvStop(a), a.temp, p) EXCEPT !.eidCounter = @ + 1]

\* The entry of the list that adv_slot_timeout reads.  When slot_counter is past
\* the list, any byte.
SlotNo(a) == IF a.counter \in Slots THEN {a.configured[a.counter]}
             ELSE SlotNumbers \cup {Blank}

\* adv_slot_timeout, up to sd_ble_gap_adv_stop: the radio is stopped only when
\* there is a slot to give it to.
\* Mutant: the radio is not stopped.
BeginSlotOnAir(a, s) == [a EXCEPT !.eidCounter = 0]
BeginSlot(a, s) == [a EXCEPT !.eidCounter = 0,
                             !.air = IF s = Blank THEN @ ELSE Off]
OnAir(a, p) == p.conf /\ ~a.conn
PairsWithEids(p) == p.type = "TLM" /\ EidSlots # {}

\* Mutant: a TLM slot goes by the pairing it found before.
PairedOnce(a, p) ==
    IF p.type = "TLM" /\ a.positions = PoweredUp.positions
    THEN [a EXCEPT !.positions = Padded(EidSlots)] ELSE a
\* For a TLM slot, adv_slot_timeout looks up the slots to pair it with.
Paired(a, p) ==
    IF p.type = "TLM" THEN [a EXCEPT !.positions = Padded(EidSlots)] ELSE a

\* etlm_cycle_timer_start
BeginCycle(a, s) ==
    LET b == [a EXCEPT !.temp = s]
    IN IF b.etlmGap THEN TimerStart(b, "etlm") ELSE b

\* eddystone_adv_slot_num_of_configured_slots writes the list it counts.
Listed(a) == [a EXCEPT !.configured = Padded(ConfiguredSlots)]

\* Mutant: the slot after the last one is counted, too.
EndsLate(c) == c > Cardinality(ConfiguredSlots)
Ends(c) == c >= Cardinality(ConfiguredSlots)

\* Mutant: the slot after the last one is the last one again.
WrappedShort(a) == [a EXCEPT !.counter = @ - 1]
Wrapped(a) == [a EXCEPT !.counter = 0]

\* adv_slot_timer_start
AdvSlotTimerStart(a) == IF a.slotGap THEN TimerStart(a, "slot") ELSE a

\* The end of adv_slot_timeout: the next slot, if there is one.
EndSlot(a) == LET n == a.counter + 1
                  b == [Listed(a) EXCEPT !.counter = n]
              IN IF Ends(n) THEN Wrapped(b) ELSE AdvSlotTimerStart(b)

\* adv_slot_timeout with s in the list, without an interrupt.
AdvSlotTimeout(a, s, p) ==
    LET b == BeginSlot(a, s)
    IN EndSlot(IF s = Blank \/ ~OnAir(b, p) THEN b
               ELSE IF PairsWithEids(p)
                    THEN EtlmCycleTimeout(BeginCycle(Paired(b, p), s), p)
               ELSE Advertise(Paired(b, p), s, p))

SlotsAdvertisingStart(a) ==
    LET b == AdvIntervalTimerStart(a)
    IN \E s \in SlotNo(b) : \E p \in Params(s) : adv' = AdvSlotTimeout(b, s, p)

-----------------------------------------------------------------------------
(* The environment of a step *)

\* "none": nothing happens while main has an event waiting or is in a handler,
\* every handler ends before anything else is due.  "queued": timers expire
\* and interrupts run whenever main waits for events or is between two of
\* them.  "anywhere": inside its handlers as well.
Free == /\ ~adv.failed /\ main.at # "init"
        /\ Overlap = "anywhere" \/ main.at = "idle"
        /\ Overlap # "none" \/ queue = <<>>

IsQueued(kind) == \E i \in 1 .. Len(queue) : queue[i].kind = kind

Init ==
    /\ slots \in Boots
    /\ saved = slots
    /\ adv = PoweredUp
    /\ queue = <<>>
    /\ main = [Idle EXCEPT !.at = "init"]
    /\ writes = 0
    /\ presses = 0

\* A timer expires.  app_timer_appsh queues its handler; one queued event per
\* timer is enough (bound).
TimerExpires(t) ==
    /\ Free /\ t \in adv.timers /\ ~IsQueued(t)
    /\ adv' = IF t = "etlm" THEN adv ELSE TimerStop(adv, t)
    /\ queue' = Append(queue, Event(t, 0))
    /\ UNCHANGED <<slots, saved, main, writes, presses>>

\* The button has been debounced.
ButtonPressed ==
    /\ Free /\ presses < MaxPresses
    /\ presses' = presses + 1
    /\ queue' = Append(queue, Event("button", 0))
    /\ UNCHANGED <<slots, saved, adv, main, writes>>

-----------------------------------------------------------------------------
(* SoftDevice events: eddystone_advertising_manager_on_ble_evt *)

Connected ==
    /\ Free /\ adv.air = Connectable
    /\ SlotsAdvertisingStart([AdvStop(adv) EXCEPT !.conn = FALSE, !.link = TRUE])
    /\ UNCHANGED <<slots, saved, queue, main, writes, presses>>

\* Mutant: nothing starts the slots after a disconnect.
DisconnectedSilent ==
    /\ Free /\ adv.link
    /\ adv' = AllAdvertisingHalt([adv EXCEPT !.link = FALSE, !.conn = FALSE])
    /\ saved' = slots
    /\ UNCHANGED <<slots, queue, main, writes, presses>>

\* The slots wait one interval, "for flash to write"; on_ble_evt stores them.
Disconnected ==
    /\ Free /\ adv.link
    /\ adv' = AdvIntervalTimerStart(
                 AllAdvertisingHalt([adv EXCEPT !.link = FALSE, !.conn = FALSE]))
    /\ saved' = slots
    /\ UNCHANGED <<slots, queue, main, writes, presses>>

\* Only connectable advertising has a timeout.
GapTimeout ==
    /\ Free /\ adv.air = Connectable
    /\ SlotsAdvertisingStart([AdvStop(adv) EXCEPT !.conn = FALSE])
    /\ UNCHANGED <<slots, saved, queue, main, writes, presses>>

\* Mutant: a write does not disturb the advertising.
WriteRequestUnhalted(s, w) ==
    /\ Free /\ adv.link /\ writes < MaxWrites
    /\ writes' = writes + 1
    /\ slots' = [slots EXCEPT ![s] = w]
    /\ queue' = IF w.conf /\ ~w.valid THEN Append(queue, Event("set", s)) ELSE queue
    /\ UNCHANGED <<saved, adv, main, presses>>

\* A write request: the manager halts and computes its intervals before the
\* GATT service sees the event and changes the slot (ble_evt_dispatch).
WriteRequest(s, w) ==
    /\ Free /\ adv.link /\ writes < MaxWrites
    /\ writes' = writes + 1
    /\ adv' = AdvIntervalTimerStart(AllAdvertisingHalt(adv))
    /\ slots' = [slots EXCEPT ![s] = w]
    /\ queue' = IF w.conf /\ ~w.valid THEN Append(queue, Event("set", s)) ELSE queue
    /\ UNCHANGED <<saved, main, presses>>

-----------------------------------------------------------------------------
(* The main loop *)

Running(position) == ~adv.failed /\ main.at = position
Environment == <<saved, writes, presses>>

\* eddystone_advertising_manager_init
ManagerInit ==
    /\ Running("init")
    /\ SlotsAdvertisingStart(adv)
    /\ main' = Idle
    /\ UNCHANGED <<slots, queue>> /\ UNCHANGED Environment

Take(kind) == /\ Running("idle") /\ queue # <<>> /\ Head(queue).kind = kind
              /\ queue' = Tail(queue)
              /\ UNCHANGED Environment

\* adv_slot_timeout begins with the statics a.
EnterSlot(a) ==
    \E s \in SlotNo(a) :
        /\ adv' = BeginSlot(a, s)
        /\ main' = IF s = Blank THEN [Idle EXCEPT !.at = "count"]
                   ELSE [Idle EXCEPT !.at = "choose", !.slot = s, !.then = TRUE]

IntervalTimeout == /\ Take("interval")
                   /\ EnterSlot(AdvIntervalTimerStart(adv))
                   /\ UNCHANGED slots

SlotTimeout == Take("slot") /\ EnterSlot(adv) /\ UNCHANGED slots

EtlmTimeout ==
    /\ Take("etlm")
    /\ main' = [Idle EXCEPT !.at = "cycle", !.cycle = TRUE]
    /\ UNCHANGED <<slots, adv>>

\* eddystone_ble_registr_adv_cb
RegistrationButton ==
    /\ Take("button")
    /\ adv' = IF adv.conn \/ adv.link THEN adv
              ELSE AdvStart([AllAdvertisingHalt(adv) EXCEPT !.conn = TRUE], Connectable)
    /\ UNCHANGED <<slots, main>>

\* adv_frame_set_scheduler_evt looks at the slot as it is by now.
FrameRefused ==
    /\ Take("set")
    /\ LET s == Head(queue).slot
       IN slots' = IF slots[s].valid THEN slots ELSE [slots EXCEPT ![s].conf = FALSE]
    /\ UNCHANGED <<adv, main>>

Choose ==
    /\ Running("choose")
    /\ \E p \in Params(main.slot) :
          IF ~OnAir(adv, p)
          THEN main' = [Idle EXCEPT !.at = "count"] /\ UNCHANGED adv
          ELSE IF PairsWithEids(p)
          THEN /\ main' = [main EXCEPT !.at = "cycle", !.cycle = TRUE]
               /\ adv' = BeginCycle(Paired(adv, p), main.slot)
          ELSE main' = [main EXCEPT !.at = "fetch"] /\ adv' = Paired(adv, p)
    /\ UNCHANGED <<slots, queue>> /\ UNCHANGED Environment

AfterAir == IF main.then THEN [Idle EXCEPT !.at = "count"] ELSE Idle

Cycle ==
    /\ Running("cycle")
    /\ IF CycleOver(adv)
       THEN adv' = EndCycle(adv) /\ main' = AfterAir
       ELSE /\ adv' = AdvStop(adv)
            /\ main' = [main EXCEPT !.at = "fetch", !.slot = adv.temp]
    /\ UNCHANGED <<slots, queue>> /\ UNCHANGED Environment

\* advertising_init; the encryption of an eTLM takes about 170 ms.
Fetch ==
    /\ Running("fetch")
    /\ \E p \in Params(main.slot) :
          /\ adv' = FetchChecked(adv, p)
          /\ main' = [main EXCEPT !.at = "start", !.frame = Fetched(adv, main.slot, p)]
    /\ UNCHANGED <<slots, queue>> /\ UNCHANGED Environment

Start ==
    /\ Running("start")
    /\ adv' = AdvStart(adv, main.frame)
    /\ main' = IF main.cycle THEN [main EXCEPT !.at = "pair", !.frame = Off]
               ELSE AfterAir
    /\ UNCHANGED <<slots, queue>> /\ UNCHANGED Environment

\* eid_slot_counter++: an interrupt may fall before its load and its store.
LoadPair ==
    /\ Running("pair")
    /\ main' = [main EXCEPT !.at = "paired", !.loaded = adv.eidCounter]
    /\ UNCHANGED <<slots, adv, queue>> /\ UNCHANGED Environment

StorePair ==
    /\ Running("paired")
    /\ adv' = [adv EXCEPT !.eidCounter = main.loaded + 1]
    /\ main' = AfterAir
    /\ UNCHANGED <<slots, queue>> /\ UNCHANGED Environment

\* slot_counter++, likewise.
Count ==
    /\ Running("count")
    /\ main' = [Idle EXCEPT !.at = "increment", !.loaded = adv.counter]
    /\ UNCHANGED <<slots, adv, queue>> /\ UNCHANGED Environment

Increment ==
    /\ Running("increment")
    /\ adv' = [adv EXCEPT !.counter = main.loaded + 1]
    /\ main' = [main EXCEPT !.at = "compare"]
    /\ UNCHANGED <<slots, queue>> /\ UNCHANGED Environment

\* The compiler may read slot_counter before the call it is compared with.
Compare ==
    /\ Running("compare")
    /\ adv' = Listed(adv)
    /\ \E c \in {adv.counter, main.loaded + 1} :
          main' = [Idle EXCEPT !.at = IF Ends(c) THEN "wrap" ELSE "next"]
    /\ UNCHANGED <<slots, queue>> /\ UNCHANGED Environment

Wrap ==
    /\ Running("wrap")
    /\ adv' = Wrapped(adv)
    /\ main' = Idle
    /\ UNCHANGED <<slots, queue>> /\ UNCHANGED Environment

NextSlot ==
    /\ Running("next")
    /\ adv' = AdvSlotTimerStart(adv)
    /\ main' = Idle
    /\ UNCHANGED <<slots, queue>> /\ UNCHANGED Environment

\* app_error_handler resets the chip; the slots come back from flash.
ErrorReset ==
    /\ adv.failed
    /\ slots' = saved
    /\ adv' = PoweredUp
    /\ queue' = <<>>
    /\ main' = [Idle EXCEPT !.at = "init"]
    /\ UNCHANGED Environment

-----------------------------------------------------------------------------

Interrupt == \/ Connected \/ Disconnected \/ GapTimeout
             \/ \E s \in Slots, w \in Writes : WriteRequest(s, w)
             \/ \E t \in Timers : TimerExpires(t)
             \/ ButtonPressed

MainLoop == \/ ManagerInit
            \/ IntervalTimeout \/ SlotTimeout \/ EtlmTimeout
            \/ RegistrationButton \/ FrameRefused
            \/ Choose \/ Cycle \/ Fetch \/ Start \/ LoadPair \/ StorePair
            \/ Count \/ Increment \/ Compare \/ Wrap \/ NextSlot

Next == Interrupt \/ MainLoop \/ ErrorReset

Spec == Init /\ [][Next]_vars

\* The main loop runs, when timers run one of them expires, connectable
\* advertising times out (APP_CFG_CONNECTABLE_ADV_TIMEOUT), and a failure
\* resets the chip.  Nobody has to press the button, connect, write or
\* disconnect.
FairSpec == /\ Spec
            /\ WF_vars(MainLoop) /\ WF_vars(ErrorReset) /\ WF_vars(GapTimeout)
            /\ WF_vars(\E t \in Timers : TimerExpires(t))

-----------------------------------------------------------------------------
(* Properties *)

\* slot_counter is past the list of slots only from the store of its increment
\* to that of its wrap (adv_slot_timeout), which an interrupt may fall between.
CounterOK ==
    /\ adv.counter = NumSlots => main.at \in {"compare", "wrap"}
    /\ main.at = "increment" => main.loaded \in Slots
    /\ main.at = "compare" /\ adv.counter = NumSlots => main.loaded + 1 = NumSlots

TypeOK ==
    /\ slots \in [Slots -> SlotStates] /\ saved \in [Slots -> SlotStates]
    /\ adv \in Statics
    /\ queue \in Seq(Events)
    /\ main \in MainStates
    /\ CounterOK
    /\ writes \in 0 .. MaxWrites /\ presses \in 0 .. MaxPresses

\* The chain of intervals never breaks: unless the beacon is advertising for
\* registration, the interval timer runs or its handler is due.  Nothing else
\* would ever start the slots again.
ChainAlive ==
    ~adv.failed /\ main.at # "init" /\ ~adv.conn
        => "interval" \in adv.timers \/ IsQueued("interval")

\* sd_ble_gap_adv_start is never called while the radio is advertising, although
\* main and the interrupts stop and start it in steps of their own: an error check
\* of the manager that fails is that of a frame, and finds the radio silent.
NeverStartedTwice == adv.failed => adv.air = Off

\* m_is_connectable_adv is true only while the connectable advertisement is on
\* the air: no handler of the slots takes the radio from it.
ConnectableOnAir == adv.conn => adv.air = Connectable

\* The frame on the air is that of a configured slot, and of the type the slot
\* has now: a write or a refused frame leaves nothing old on the air.
OnAirIsConfigured ==
    LET f == adv.air
    IN f.kind = "frame" =>
         /\ slots[f.slot].conf
         /\ slots[f.slot].type = IF f.type = "eTLM" THEN "TLM" ELSE f.type

\* An eTLM frame is encrypted with the key of a slot that is an EID
\* (adv_manager.c:236, "The current EIK slot that is paired with the current
\* eTLM slot"), never with that of another slot or of the padding.
EtlmPairsWithAnEid ==
    adv.air.type = "eTLM" =>
        adv.air.pair \in Slots /\ slots[adv.air.pair].type = "EID"

\* Registration ends: a client connects or advertising times out, so that the
\* button works again (README.md:217, "will only broadcast in Connectable Mode
\* for 1 minute.  After which, you must press Button 1 again").
ConnectableAdvEnds == adv.conn ~> ~adv.conn

\* Every slot that stays configured is on the air again and again, whatever
\* connections, writes and registrations there are.
EverySlotOnAir ==
    \A s \in Slots :
        <>[](slots[s].conf) =>
            []<>(adv.air.kind = "frame" /\ adv.air.slot = s)

-----------------------------------------------------------------------------
(* Documented, and not so: TLC refutes the first with WritesOther (and with  *)
(* WritesLong when interrupts fall anywhere) and the second with WritesDef,  *)
(* even if Overlap is "none".                                                *)

\* No error check of the manager fails: what it fetches is a frame it knows
\* (adv_manager.c:257, "Should never happen!").
NoAdvError == ~adv.failed

\* The slot an eTLM frame is paired with is currently configured
\* (adv_slot.h:165, "currently configured as EIDs").
EtlmPairIsConfigured ==
    adv.air.type = "eTLM" =>
        adv.air.pair \in Slots /\ slots[adv.air.pair].conf
=============================================================================
