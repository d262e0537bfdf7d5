------------------------------ MODULE TlmClock ------------------------------
(***************************************************************************)
(* The time since power up in a TLM frame: eddystone_tlm_update_time in    *)
(* eddystone_tlm_manager.c, which is called at each turn of a TLM slot,    *)
(* when a TLM frame is written, and once at power up, and turns the ticks  *)
(* of the RTC since the last call into tenths of a second.                 *)
(*                                                                         *)
(* Every quantity is a constant, so that TLC can take a clock in which the *)
(* 32 bits of nanoseconds and the 24 bits of the RTC are short: the code's *)
(* are 30517 ns to a tick, 10^6 ns to a millisecond, 100 ms to a step,     *)
(* 2^32 ns (4.29 s) to a word and 2^24 ticks (512 s) to a turn of the RTC. *)
(***************************************************************************)
EXTENDS Integers

CONSTANTS
    NS_PER_TICK, NS_PER_MS, RESOLUTION,
    WordSize,         \* a uint32_t holds 0 .. WordSize - 1
    RTC1_TICKS_MAX,
    Gaps,             \* ticks between one call and the next
    StackWords,       \* what an uninitialised local may hold
    MaxTime           \* bound of the runs, in ticks

ASSUME UnitsAssumption ==
    /\ NS_PER_TICK \in Nat \ {0} /\ NS_PER_MS \in Nat \ {0}
    /\ RESOLUTION \in Nat \ {0} /\ WordSize \in Nat \ {0}
    /\ RTC1_TICKS_MAX \in Nat \ {0} /\ MaxTime \in Nat
ASSUME InputsAssumption ==
    /\ Gaps \subseteq 0 .. RTC1_TICKS_MAX - 1
    /\ StackWords \subseteq 0 .. WordSize - 1

VARIABLES
    previous_tick, ms_remainder, ns_remainder,
    le_time,      \* the time in the frame, in steps of RESOLUTION
    now           \* ticks since power up, which the RTC shows modulo its turn

vars == <<previous_tick, ms_remainder, ns_remainder, le_time, now>>

Word(x) == x % WordSize

-----------------------------------------------------------------------------
(* eddystone_tlm_update_time *)

\* Mutant: the overflow of the RTC is not taken into account.
TickDiffsNoWrap(current, previous) == {Word(current - previous)}

\* tick_diff, which is not assigned if the RTC shows the same tick as before.
TickDiffs(current, previous) ==
    IF current > previous THEN {current - previous}
    ELSE IF current < previous THEN {current + (RTC1_TICKS_MAX - previous)}
    ELSE StackWords

\* The nanoseconds in diff ticks, what they leave with what earlier calls left,
\* and the milliseconds in both.
Nanoseconds(diff) == Word(diff * NS_PER_TICK)
NsLeft(diff) == Word(ns_remainder + (Nanoseconds(diff) % NS_PER_MS))
Milliseconds(diff) ==
    (Nanoseconds(diff) \div NS_PER_MS) + (NsLeft(diff) \div NS_PER_MS)

NsKept(diff) == NsLeft(diff) % NS_PER_MS

\* A step of ms_remainder counts as one millisecond more.
Carried(ms) ==
    LET left == Word(ms_remainder + (ms % RESOLUTION))
    IN  [ms |-> ms + (left \div RESOLUTION), left |-> left % RESOLUTION]

\* Mutant: every call counts one step.
StepsOnce(c) == 1

\* The first step is one, however long it took.
Steps(c) == IF le_time = 0 THEN 1 ELSE c.ms \div RESOLUTION

UpdateTime(gap) ==
    LET current == (now + gap) % RTC1_TICKS_MAX
    IN  /\ now' = now + gap
        /\ previous_tick' = current
        /\ \E diff \in TickDiffs(current, previous_tick) :
               LET ms == Milliseconds(diff)
                   c == Carried(ms)
               IN  /\ ns_remainder' = NsKept(diff)
                   /\ IF ms >= RESOLUTION
                      THEN /\ ms_remainder' = c.left
                           /\ le_time' = Word(le_time + Steps(c))
                      ELSE /\ ms_remainder' = Word(ms_remainder + ms)
                           /\ UNCHANGED le_time

Init ==
    /\ previous_tick = 0 /\ ms_remainder = 0 /\ ns_remainder = 0
    /\ le_time = 0 /\ now = 0

Next == \E gap \in Gaps : now + gap <= MaxTime /\ UpdateTime(gap)
Spec == Init /\ [][Next]_vars

-----------------------------------------------------------------------------
(* Properties *)

TypeOK ==
    /\ previous_tick \in 0 .. RTC1_TICKS_MAX - 1
    /\ ms_remainder \in 0 .. WordSize - 1
    /\ ns_remainder \in 0 .. NS_PER_MS - 1
    /\ le_time \in 0 .. WordSize - 1
    /\ now \in 0 .. MaxTime

\* In nanoseconds, the time in the frame, a step, and the time since power up.
Step == RESOLUTION * NS_PER_MS
Shown == le_time * Step
TrueTime == now * NS_PER_TICK

\* The frame never shows a time that has not come
\* (src/source/modules/eddystone_tlm_manager.c:50, "Function for updating the
\* ADV_SEC field of TLM"; :71, "RTC counter has overflown").
TimeNotAhead == Shown <= TrueTime

\* After the first step, a call loses less than a step of the time that has
\* passed since the call before (:89, "The eddystone spec requires 100 ms
\* resolution").
CallsLoseLessThanAStep ==
    [][le_time > 0 => TrueTime' - TrueTime < (Shown' - Shown) + Step]_vars

-----------------------------------------------------------------------------
(* Documented, and not so: TLC refutes this with Gaps = {10, 15}.            *)

\* The frame is never more than two steps behind (:89, as above).
TimeInResolution == TrueTime - Shown < 2 * Step
=============================================================================
