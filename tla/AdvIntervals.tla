---------------------------- MODULE AdvIntervals ----------------------------
(***************************************************************************)
(* The arithmetic of intervals_calculate in                                *)
(* eddystone_advertising_manager.c: how the advertising interval that the  *)
(* client set is divided among the configured slots, and the interval of a *)
(* TLM slot among the eTLMs of the EID slots, in 16 bits and milliseconds. *)
(*                                                                         *)
(* The interval is global: every slot stores the same one, the client sets *)
(* it and the manager raises it when the slots do not fit.  AdvManager     *)
(* models the timers that run with the results.  The slots may have been   *)
(* reconfigured in any way between two calculations.                       *)
(***************************************************************************)
EXTENDS Integers

CONSTANTS
    MaxSlots,          \* APP_MAX_ADV_SLOTS and APP_MAX_EID_SLOTS, which are equal
    Requests,          \* the intervals clients write
    InitialIntervals   \* the intervals a power up may find

MIN_NON_CONN_ADV_INTERVAL == 100
MAX_ADV_INTERVAL == 10240
ETLM_INTERVAL_LIMIT == 225
etlm_dist_buffer_ms == 25
slot_dist_buffer_ms == 25
DefaultInterval == 1000

UINT16_MAX == 65535
Uint16s == 0 .. UINT16_MAX
Intervals == MIN_NON_CONN_ADV_INTERVAL .. MAX_ADV_INTERVAL

ASSUME MaxSlotsAssumption == MaxSlots \in 1 .. 5
ASSUME RequestsAssumption == Requests \subseteq Uint16s
ASSUME InitialAssumption == InitialIntervals \subseteq {0} \cup Intervals

VARIABLES
    interval,   \* m_slots[..].adv_intrvl
    gaps        \* m_intervals, and the slots it was computed for

vars == <<interval, gaps>>

-----------------------------------------------------------------------------
(* 16 bit arithmetic *)

Uint16(x) == x % (UINT16_MAX + 1)

\* eddystone_adv_slot_adv_intrvl_set keeps the interval in bounds.
Clamped(i) == IF i < MIN_NON_CONN_ADV_INTERVAL THEN MIN_NON_CONN_ADV_INTERVAL
              ELSE IF i > MAX_ADV_INTERVAL THEN MAX_ADV_INTERVAL
              ELSE i

-----------------------------------------------------------------------------
(* intervals_calculate, for n configured slots, e slots of type EID and,    *)
(* if tlm, one of type TLM.  A slot's type outlives its configuration, so e *)
(* may exceed n.                                                            *)

EtlmRequired(e, tlm) == e > 0 /\ tlm

SlotIntervalLimit(e, tlm) ==
    IF EtlmRequired(e, tlm) THEN e * ETLM_INTERVAL_LIMIT ELSE MIN_NON_CONN_ADV_INTERVAL

\* The interval raised so that each of n slots gets its limit and the buffer.
Raised(n, limit) == Uint16((limit + slot_dist_buffer_ms) * n)

\* Mutant: the buffer is not taken off.
ShareWhole(adv, n) == Uint16(adv \div n)
\* One slot's share of the interval.
Share(adv, n) == Uint16(adv \div n - slot_dist_buffer_ms)

\* Mutant: the slots do not learn of the raised interval.
SlotGapUnstored(g, n, limit) ==
    LET r == Raised(n, limit)
    IN  IF Share(g.adv, n) < limit
        THEN [adv |-> r, slot |-> Share(r, n), etlm |-> g.etlm, stored |-> g.stored]
        ELSE [g EXCEPT !.slot = Share(g.adv, n)]

\* The gap between slots: the interval is raised, and stored in the slots, if
\* the share is too small.
SlotGap(g, n, limit) ==
    LET r == Raised(n, limit)
    IN  IF Share(g.adv, n) < limit
        THEN [adv |-> r, slot |-> Share(r, n), etlm |-> g.etlm, stored |-> Clamped(r)]
        ELSE [g EXCEPT !.slot = Share(g.adv, n)]

\* Mutant: the gap between slots stays as it was when that of eTLMs is raised.
EtlmGapOnly(g, n, e) ==
    LET gap == Uint16(g.slot \div e - etlm_dist_buffer_ms)
    IN  [g EXCEPT !.etlm = IF gap < ETLM_INTERVAL_LIMIT THEN ETLM_INTERVAL_LIMIT ELSE gap]

\* The gap between eTLMs within a slot's: raised, with the two others, if e of
\* them do not fit.
EtlmGap(g, n, e) ==
    LET gap == Uint16(g.slot \div e - etlm_dist_buffer_ms)
        slot == Uint16((ETLM_INTERVAL_LIMIT + etlm_dist_buffer_ms) * e - slot_dist_buffer_ms)
        adv == Uint16((slot + slot_dist_buffer_ms) * n)
    IN  IF gap < ETLM_INTERVAL_LIMIT
        THEN [adv |-> adv, slot |-> slot, etlm |-> ETLM_INTERVAL_LIMIT,
              stored |-> Clamped(adv)]
        ELSE [g EXCEPT !.etlm = gap]

Calculated(stored, n, e, tlm) ==
    LET g == [adv |-> IF stored = 0 THEN DefaultInterval ELSE stored,
              slot |-> 0, etlm |-> 0, stored |-> stored]
        fit == SlotGap(g, n, SlotIntervalLimit(e, tlm))
    IN  IF n = 0 THEN g
        ELSE IF EtlmRequired(e, tlm) THEN EtlmGap(fit, n, e)
        ELSE fit

-----------------------------------------------------------------------------
(* The specification *)

Init ==
    /\ interval \in InitialIntervals
    /\ gaps = [adv |-> 0, slot |-> 0, etlm |-> 0, slots |-> 0, eids |-> 0]

\* Characteristic 3.
WriteInterval(i) ==
    /\ interval' = Clamped(i)
    /\ UNCHANGED gaps

\* adv_interval_timer_start, whatever the slots have become.
Calculate(n, e, tlm) ==
    LET g == Calculated(interval, n, e, tlm)
    IN  /\ gaps' = [adv |-> g.adv, slot |-> g.slot, etlm |-> g.etlm,
                    slots |-> n, eids |-> e]
        /\ interval' = g.stored

Next == \/ \E i \in Requests : WriteInterval(i)
        \/ \E n, e \in 0 .. MaxSlots, tlm \in BOOLEAN :
               (tlm => e < MaxSlots) /\ Calculate(n, e, tlm)
Spec == Init /\ [][Next]_vars

-----------------------------------------------------------------------------
(* Properties *)

TypeOK ==
    /\ interval \in {0} \cup Intervals
    /\ gaps \in [adv : Uint16s, slot : Uint16s, etlm : Uint16s,
                 slots : 0 .. MaxSlots, eids : 0 .. MaxSlots]

\* The configured slots, each with its buffer, fit in the interval
\* (eddystone_advertising_manager.c:322, "so that all slots have enough time to
\* advertise before the next advertising interval comes around").
SlotsFit ==
    gaps.slots > 0 => (gaps.slot + slot_dist_buffer_ms) * gaps.slots <= gaps.adv

\* The eTLMs of all EID slots fit in the gap of the TLM slot, and each has the
\* time its encryption takes (:338, "there must be enough time alotted in 1
\* slot interval").
EtlmsFit ==
    gaps.etlm # 0 =>
        /\ gaps.etlm >= ETLM_INTERVAL_LIMIT
        /\ (gaps.etlm + etlm_dist_buffer_ms) * gaps.eids
               <= gaps.slot + slot_dist_buffer_ms

\* The interval in use is one that clients may ask for, and the one they read
\* back; it is shorter than the one they asked for by no more than the buffers
\* of the slots, by which the gaps between eTLMs round it down.
IntervalInUse ==
    [][gaps' # gaps =>
         /\ interval <= gaps'.adv + slot_dist_buffer_ms * gaps'.slots
         /\ gaps'.adv \in Intervals
         /\ interval' \in {0, gaps'.adv}]_vars
=============================================================================
