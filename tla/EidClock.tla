------------------------------ MODULE EidClock ------------------------------
(***************************************************************************)
(* The clocks of the EID slots in eddystone_security.c: the one second     *)
(* timer that advances them, the temporary key and the EID derived from    *)
(* them, and the second added when the timer has fallen behind.            *)
(*                                                                         *)
(* update_time, an exchange and a restore run in the main loop, one after  *)
(* the other.  The interrupt can only destroy a slot; what the main loop   *)
(* then still writes to that slot is set anew by the exchange that next    *)
(* occupies it, so that the destruction may as well come before or after   *)
(* the handler.  SlotConfig models that interleaving for the frames.       *)
(*                                                                         *)
(* Scaled: the temporary key rolls over every 2^TkExponent seconds for     *)
(* 2^16, seconds have SecondsWidth bits for 32, and the timer loses one    *)
(* part in UsPerSecond a second for 30 parts in a million.                 *)
(***************************************************************************)
EXTENDS Integers, FiniteSets

CONSTANTS
    NumSlots,         \* APP_MAX_EID_SLOTS
    Scalers,          \* the rotation exponents K clients write
    TkExponent, SecondsWidth, UsPerSecond,   \* see above
    InitialSeconds,   \* 65280, where the clock of a new EID starts
    StoredSeconds,    \* what flash may say of a clock at power up
    KeptSlots,        \* slots that hold an EID from power up on
    MaxTicks          \* bound of the runs, in seconds

Slots == 0 .. NumSlots - 1
Seconds == 0 .. 2^SecondsWidth - 1

ASSUME NumSlotsAssumption == NumSlots \in Nat \ {0}
ASSUME ExponentsAssumption ==
    /\ TkExponent \in Nat /\ SecondsWidth \in Nat /\ TkExponent <= SecondsWidth
    /\ Scalers \subseteq 0 .. TkExponent
ASSUME SecondsAssumption ==
    /\ InitialSeconds \in Seconds /\ StoredSeconds \subseteq Seconds
    /\ UsPerSecond \in Nat \ {0, 1}
ASSUME KeptAssumption == KeptSlots \subseteq Slots
ASSUME BoundAssumption == MaxTicks \in Nat

VARIABLES
    occupied,   \* m_security_slot[s].is_occupied
    seconds,    \* .timing.seconds
    scaler,     \* .timing.k_scaler
    tk,         \* .aes_ecb_tk.key: the rollover count it was generated for
    eid,        \* .eid: the temporary key, K and time it was generated with
    us_delay,   \* what the timer has lost and the clocks were not given
    ticks,      \* seconds of the timer since power up, for the properties
    born, added \* and by slot: ticks at its exchange, seconds counted since

timing == <<occupied, scaler, born>>
vars == <<occupied, seconds, scaler, tk, eid, us_delay, ticks, born, added>>

-----------------------------------------------------------------------------
(* Derivation *)

\* eddystone_security_temp_key_generate uses the high half of the clock.
TempKey(t) == t \div 2^TkExponent

\* eddystone_security_eid_generate uses the clock with its low K bits cleared.
Eid(key, k, t) == [tk |-> key, k |-> k, time |-> (t \div 2^k) * 2^k]

\* eddystone_security_tlm_to_etlm: the time in the nonce of the telemetry that
\* is encrypted with the key of s.
EtlmNonceTime(s) == (seconds[s] \div 2^scaler[s]) * 2^scaler[s]

\* The clock, temporary key and EID of a slot.
State(s) == [seconds |-> seconds[s], tk |-> tk[s], eid |-> eid[s]]
Fresh(t, k) == [seconds |-> t, tk |-> TempKey(t), eid |-> Eid(TempKey(t), k, t)]

\* Does seconds % (2 << (K - 1)) say that the EID is due?  For K = 0 the shift
\* is undefined; zero says how it turns out.
RotationDue(k, t, zero) == IF k = 0 THEN zero ELSE t % 2^k = 0

\* Mutant: the clock has more than its bits.
OneSecondWide(c, k, zero) ==
    [seconds |-> c.seconds + 1, tk |-> c.tk, eid |-> c.eid]

\* Mutant: the EID is generated before the key it is made with.
OneSecondEidFirst(c, k, zero) ==
    LET t == (c.seconds + 1) % 2^SecondsWidth
        key == IF t % 2^TkExponent = 0 THEN TempKey(t) ELSE c.tk
    IN  [seconds |-> t, tk |-> key,
         eid |-> IF RotationDue(k, t, zero) THEN Eid(c.tk, k, t) ELSE c.eid]

\* One second passes: the temporary key first, then the EID made with it.
OneSecond(c, k, zero) ==
    LET t == (c.seconds + 1) % 2^SecondsWidth
        key == IF t % 2^TkExponent = 0 THEN TempKey(t) ELSE c.tk
    IN  [seconds |-> t, tk |-> key,
         eid |-> IF RotationDue(k, t, zero) THEN Eid(key, k, t) ELSE c.eid]

-----------------------------------------------------------------------------
(* eddystone_security_update_time *)

\* Mutant: a delay of exactly a second is left for the next tick.
ExtrasLate(delay) ==
    {s \in Slots :
        /\ occupied[s]
        /\ delay > UsPerSecond * Cardinality({r \in 0 .. s : occupied[r]})}

\* The occupied slots that find more than a second of delay when their turn
\* comes; each takes one second off it.
Extras(delay) ==
    {s \in Slots :
        /\ occupied[s]
        /\ delay >= UsPerSecond * Cardinality({r \in 0 .. s : occupied[r]})}

\* Mutant: an extra second skips the checks of the first one.
AdvancedUnchecked(s, extra, zero) ==
    LET once == OneSecond(State(s), scaler[s], zero)
    IN  IF ~occupied[s] THEN State(s)
        ELSE IF extra
        THEN [once EXCEPT !.seconds = (@ + 1) % 2^SecondsWidth]
        ELSE once

\* An occupied slot counts the second, and one more if it takes an extra one.
Advanced(s, extra, zero) ==
    LET once == OneSecond(State(s), scaler[s], zero)
    IN  IF ~occupied[s] THEN State(s)
        ELSE IF extra THEN OneSecond(once, scaler[s], zero)
        ELSE once

Set(next) == /\ seconds' = [s \in Slots |-> next[s].seconds]
             /\ tk' = [s \in Slots |-> next[s].tk]
             /\ eid' = [s \in Slots |-> next[s].eid]

UpdateTime ==
    /\ ticks < MaxTicks
    /\ ticks' = ticks + 1
    /\ LET extras == Extras(us_delay + 1)
       IN  /\ us_delay' = us_delay + 1 - UsPerSecond * Cardinality(extras)
           /\ \E zero \in BOOLEAN :
                  Set([s \in Slots |-> Advanced(s, s \in extras, zero)])
           /\ added' = [s \in Slots |-> added[s] + IF s \in extras THEN 2
                                               ELSE IF occupied[s] THEN 1 ELSE 0]
    /\ UNCHANGED timing

-----------------------------------------------------------------------------
(* The slots *)

SetSlot(s, k, t) ==
    /\ occupied' = [occupied EXCEPT ![s] = TRUE]
    /\ scaler' = [scaler EXCEPT ![s] = k]
    /\ Set([r \in Slots |-> IF r = s THEN Fresh(t, k) ELSE State(r)])
    /\ born' = [born EXCEPT ![s] = ticks]
    /\ added' = [added EXCEPT ![s] = 0]
    /\ UNCHANGED <<us_delay, ticks>>

\* eddystone_security_shared_ik_receive or client_pub_ecdh_receive.
Exchange(s, k) == SetSlot(s, k, InitialSeconds)

\* eddystone_security_eid_slot_destroy, which clears the clock too.
Destroy(s) ==
    /\ s \notin KeptSlots
    /\ occupied[s]
    /\ occupied' = [occupied EXCEPT ![s] = FALSE]
    /\ scaler' = [scaler EXCEPT ![s] = 0]
    /\ Set([r \in Slots |-> IF r = s THEN Fresh(0, 0) ELSE State(r)])
    /\ UNCHANGED <<us_delay, ticks, born, added>>

\* Power up: eddystone_security_init, and slots_restore for the EIDs in flash.
\* The key and the EID of a slot that is not occupied are zero bytes that
\* nobody reads.
Init ==
    /\ occupied \in {f \in [Slots -> BOOLEAN] : \A s \in KeptSlots : f[s]}
    /\ scaler \in {f \in [Slots -> Scalers \cup {0}] :
                      \A s \in Slots : ~occupied[s] => f[s] = 0}
    /\ \E t \in StoredSeconds :
           seconds = [s \in Slots |-> IF occupied[s] THEN t ELSE InitialSeconds]
    /\ tk = [s \in Slots |-> TempKey(seconds[s])]
    /\ eid = [s \in Slots |-> Eid(tk[s], scaler[s], seconds[s])]
    /\ us_delay = 0 /\ ticks = 0
    /\ born = [s \in Slots |-> 0] /\ added = [s \in Slots |-> 0]

Next == \/ UpdateTime
        \/ \E s \in Slots, k \in Scalers : Exchange(s, k)
        \/ \E s \in Slots : Destroy(s)
Spec == Init /\ [][Next]_vars

-----------------------------------------------------------------------------
(* Properties *)

Keys == 0 .. 2^(SecondsWidth - TkExponent) - 1

TypeOK ==
    /\ occupied \in [Slots -> BOOLEAN]
    /\ seconds \in [Slots -> Seconds]
    /\ scaler \in [Slots -> Scalers \cup {0}]
    /\ tk \in [Slots -> Keys]
    /\ eid \in [Slots -> [tk : Keys, k : Scalers \cup {0}, time : Seconds]]
    /\ us_delay \in Nat
    /\ ticks \in 0 .. MaxTicks
    /\ born \in [Slots -> 0 .. MaxTicks] /\ added \in [Slots -> Nat]

\* An occupied slot shows the EID that a resolver who knows its key, its K and
\* its clock computes, also over a rollover of the temporary key or the clock
\* and after an extra second (src/source/modules/eddystone_security.c:212).  The
\* telemetry encrypted with the key of the slot has the time of that EID in its
\* nonce, so that the resolver of the EID can decrypt it.
EidIsCurrent ==
    \A s \in Slots : occupied[s] /\ scaler[s] # 0
        => /\ eid[s] = Eid(TempKey(seconds[s]), scaler[s], seconds[s])
           /\ eid[s].time = EtlmNonceTime(s)

\* The time since the exchange of s that its clock should show, and the time it
\* shows, in parts of a second.
TrueTime(s) == (ticks - born[s]) * (UsPerSecond + 1)
ShownTime(s) == added[s] * UsPerSecond

\* The first EID slot of a beacon that always has one is never a second off
\* (:181, "For every 1 second interrupt, there is 30 us delay").
FirstClockIsRight ==
    0 \in KeptSlots => /\ ShownTime(0) < TrueTime(0) + UsPerSecond
                       /\ TrueTime(0) < ShownTime(0) + UsPerSecond

-----------------------------------------------------------------------------
(* Documented, and not so: TLC refutes the first with a second slot, and the *)
(* second with one slot that holds no EID at power up.                       *)

\* No clock falls a second behind (src/README.md:48, "Fixed a bug with the EID
\* slot 4-byte clock being slow").
ClocksNotSlow ==
    \A s \in Slots : occupied[s] => TrueTime(s) < ShownTime(s) + UsPerSecond

\* No clock is given more than a second for the delay it has seen (:212, "when
\* us_delay accumulates to more than 1 second, add 1 more sec to the clock").
ClocksNotFast ==
    \A s \in Slots : occupied[s] => ShownTime(s) < TrueTime(s) + UsPerSecond
=============================================================================
