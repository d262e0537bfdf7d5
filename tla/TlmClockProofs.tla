--------------------------- MODULE TlmClockProofs ---------------------------
(***************************************************************************)
(* TlmClock with the code's own units: TLC takes a short clock, the        *)
(* theorems are about 32 bits of nanoseconds and an RTC of 24 bits.  With  *)
(* the units written out, the arithmetic is linear.  Ranges are written as *)
(* inequalities, since the prover enumerates a range of numbers.           *)
(***************************************************************************)
EXTENDS TlmClock, TLAPS

\* eddystone_tlm_manager.c:47, :48, :76, :88, with APP_TIMER_PRESCALER 0.
CodeUnits ==
    /\ NS_PER_TICK = 30517 /\ NS_PER_MS = 1000000 /\ RESOLUTION = 100
    /\ WordSize = 4294967296 /\ RTC1_TICKS_MAX = 16777216

\* The RTC moves between two calls, and not by a whole turn.
TicksPass == \A gap \in Gaps : gap \in Int /\ 1 <= gap /\ gap < 16777216

\* No more than a word of nanoseconds passes between two calls, nor so much
\* time, 13 years, that the frame's 32 bits overflow.
InAWord ==
    /\ \A gap \in Gaps : gap * 30517 < 4294967296
    /\ MaxTime < 14000000000000

Below(x, n) == x \in Int /\ 0 <= x /\ x < n

LEMMA BelowRange ==
    ASSUME NEW x, NEW n \in Int PROVE Below(x, n) <=> x \in 0 .. n - 1
BY DEF Below

-----------------------------------------------------------------------------
(* One call *)

LEMMA WordFits ==
    ASSUME CodeUnits, NEW x \in Int, 0 <= x
    PROVE  /\ Below(Word(x), 4294967296) /\ Word(x) <= x
           /\ x < 4294967296 => Word(x) = x
BY DEF CodeUnits, Word, Below

\* The ticks since the last call are found over an overflow of the RTC.
LEMMA TicksFound ==
    ASSUME CodeUnits, NEW gap \in Int, 1 <= gap, gap < 16777216,
           NEW t \in Int, 0 <= t, NEW diff,
           diff \in TickDiffs((t + gap) % RTC1_TICKS_MAX, t % RTC1_TICKS_MAX)
    PROVE  diff = gap
<1> DEFINE p == t % 16777216
           c == (t + gap) % 16777216
<1>1. /\ Below(p, 16777216) /\ Below(c, 16777216)
      /\ c = p + gap \/ c = p + gap - 16777216
  BY DEF Below
<1>2. diff \in TickDiffs(c, p)  BY DEF CodeUnits
<1> HIDE DEF p, c
<1> QED  BY <1>1, <1>2 DEF TickDiffs, CodeUnits, Below

\* The milliseconds and nanoseconds of a call are no more than those that have
\* passed, and those left; in a word, they are the same.
LEMMA NanosecondsKept ==
    ASSUME CodeUnits, Below(ns_remainder, 1000000), NEW diff \in Int, 0 <= diff
    PROVE  /\ Below(Milliseconds(diff), 4297) /\ Below(NsKept(diff), 1000000)
           /\ Milliseconds(diff) * 1000000 + NsKept(diff)
                  <= diff * 30517 + ns_remainder
           /\ diff * 30517 < 4294967296
              => Milliseconds(diff) * 1000000 + NsKept(diff)
                     = diff * 30517 + ns_remainder
<1> DEFINE n == Nanoseconds(diff)
<1>1. /\ Below(n, 4294967296) /\ n <= diff * 30517
      /\ diff * 30517 < 4294967296 => n = diff * 30517
  <2>1. diff * 30517 \in Int /\ 0 <= diff * 30517  OBVIOUS
  <2> QED  BY <2>1, WordFits DEF Nanoseconds, CodeUnits
<1> DEFINE l == ns_remainder + (n % 1000000)
<1>2. /\ Milliseconds(diff) = (n \div 1000000) + (NsLeft(diff) \div 1000000)
      /\ NsKept(diff) = NsLeft(diff) % 1000000 /\ NsLeft(diff) = Word(l)
  BY DEF Milliseconds, NsKept, NsLeft, CodeUnits
<1> HIDE DEF n
<1>3. Below(l, 1999999)  BY <1>1 DEF Below
<1>4. NsLeft(diff) = l
  <2> HIDE DEF l
  <2> QED  BY <1>2, <1>3, WordFits DEF Below
<1> DEFINE ms == (n \div 1000000) + (l \div 1000000)
<1>5. ms * 1000000 + (l % 1000000) = n + ns_remainder
  BY <1>1 DEF Below
<1>6. Below(ms, 4297) /\ Below(l % 1000000, 1000000)
  BY <1>1, <1>3 DEF Below
<1>7. Milliseconds(diff) = ms /\ NsKept(diff) = l % 1000000
  BY <1>2, <1>4
<1> DEFINE kept == l % 1000000
<1> HIDE DEF l, ms, kept
<1> QED  BY <1>1, <1>5, <1>6, <1>7 DEF kept, Below

\* The steps of a call and the milliseconds it leaves are no more than those
\* it counts and those left before, and leave less than a step of its own.
LEMMA StepsFit ==
    ASSUME CodeUnits, Below(ms_remainder, 4294967296), le_time \in Int,
           NEW ms \in Int, 100 <= ms, ms < 4297
    PROVE  /\ Below(Carried(ms).left, 100)
           /\ Steps(Carried(ms)) \in Int /\ 1 <= Steps(Carried(ms))
           /\ Steps(Carried(ms)) * 100 + Carried(ms).left <= ms_remainder + ms
           /\ le_time # 0 => ms < Steps(Carried(ms)) * 100 + 100
<1> DEFINE w == ms_remainder + (ms % 100)
           left == Word(w)
           m == ms + (left \div 100)
           s == m \div 100
           r == left % 100
<1>1. w \in Int /\ 0 <= w /\ w = ms_remainder + (ms % 100)  BY DEF Below
<1>2. left \in Int /\ 0 <= left /\ left <= w
  <2> HIDE DEF w
  <2> QED  BY <1>1, WordFits DEF Below
<1>3. Carried(ms) = [ms |-> m, left |-> r]
  BY DEF Carried, CodeUnits
<1>4. Steps(Carried(ms)) = IF le_time = 0 THEN 1 ELSE s
  BY <1>3 DEF Steps, CodeUnits
<1> HIDE DEF left, w
<1>5. /\ s \in Int /\ s >= 1 /\ Below(r, 100)
      /\ s * 100 + r <= ms_remainder + ms /\ ms < s * 100 + 100
  BY <1>1, <1>2 DEF Below
<1> HIDE DEF m, s, r
<1> QED  BY <1>3, <1>4, <1>5 DEF Below

-----------------------------------------------------------------------------
(* The invariant *)

\* In nanoseconds: what the frame shows and what is left for later calls is no
\* more than the time since power up.
Accounted == (le_time * 100 + ms_remainder) * 1000000 + ns_remainder <= now * 30517

IInv == /\ previous_tick = now % RTC1_TICKS_MAX
        /\ Below(ms_remainder, 4294967296) /\ Below(ns_remainder, 1000000)
        /\ Below(le_time, 4294967296)
        /\ now \in Int /\ 0 <= now /\ now <= MaxTime
        /\ Accounted

LEMMA InitAccounted == ASSUME CodeUnits, UnitsAssumption, Init PROVE IInv
<1>1. MaxTime \in Int /\ 0 <= MaxTime  BY DEF UnitsAssumption
<1>2. 0 % RTC1_TICKS_MAX = 0  BY DEF CodeUnits
<1> QED  BY <1>1, <1>2 DEF Init, IInv, Below, Accounted

\* What a call does: it finds the ticks, and shows or keeps what they are.
LEMMA Call ==
    ASSUME CodeUnits, TicksPass, IInv, NEW gap \in Gaps, UpdateTime(gap)
    PROVE  /\ now' = now + gap /\ gap \in Int /\ 1 <= gap
           /\ previous_tick' = now' % RTC1_TICKS_MAX
           /\ ns_remainder' = NsKept(gap)
           /\ \/ /\ Milliseconds(gap) >= 100
                 /\ ms_remainder' = Carried(Milliseconds(gap)).left
                 /\ le_time' = Word(le_time + Steps(Carried(Milliseconds(gap))))
              \/ /\ Milliseconds(gap) < 100
                 /\ ms_remainder' = Word(ms_remainder + Milliseconds(gap))
                 /\ le_time' = le_time
<1>1. gap \in Int /\ 1 <= gap /\ gap < 16777216  BY DEF TicksPass
<1>2. PICK diff \in TickDiffs((now + gap) % RTC1_TICKS_MAX, previous_tick) :
          /\ ns_remainder' = NsKept(diff)
          /\ IF Milliseconds(diff) >= RESOLUTION
             THEN /\ ms_remainder' = Carried(Milliseconds(diff)).left
                  /\ le_time' = Word(le_time + Steps(Carried(Milliseconds(diff))))
             ELSE /\ ms_remainder' = Word(ms_remainder + Milliseconds(diff))
                  /\ UNCHANGED le_time
  BY DEF UpdateTime
<1>3. diff = gap  BY <1>1, <1>2, TicksFound DEF IInv
<1>4. Below(Milliseconds(gap), 4297)  BY <1>1, NanosecondsKept DEF IInv
<1>5. RESOLUTION = 100  BY DEF CodeUnits
<1>6. now' = now + gap /\ previous_tick' = now' % RTC1_TICKS_MAX
  BY DEF UpdateTime
<1> QED  BY <1>1, <1>2, <1>3, <1>4, <1>5, <1>6 DEF Below

LEMMA CallAccounted ==
    ASSUME CodeUnits, TicksPass, IInv, NEW gap \in Gaps, now + gap <= MaxTime,
           UpdateTime(gap)
    PROVE  IInv'
<1> DEFINE ms == Milliseconds(gap)
           c == Carried(ms)
<1>1. /\ now' = now + gap /\ gap \in Int /\ 1 <= gap
      /\ previous_tick' = now' % RTC1_TICKS_MAX /\ ns_remainder' = NsKept(gap)
  BY Call
<1>2. /\ Below(ms, 4297) /\ Below(ns_remainder', 1000000)
      /\ ms * 1000000 + ns_remainder' <= gap * 30517 + ns_remainder
  BY <1>1, NanosecondsKept DEF IInv
<1>3. now' \in Int /\ 0 <= now' /\ now' <= MaxTime  BY <1>1 DEF IInv
<1>4. CASE ms >= 100
  <2>1. /\ Below(c.left, 100) /\ Steps(c) \in Int /\ 1 <= Steps(c)
        /\ Steps(c) * 100 + c.left <= ms_remainder + ms
    BY <1>2, <1>4, StepsFit DEF IInv, Below
  <2>2. ms_remainder' = c.left /\ le_time' = Word(le_time + Steps(c))
    BY <1>2, <1>4, Call DEF Below
  <2> HIDE DEF c, ms
  <2>3. Below(le_time', 4294967296) /\ le_time' <= le_time + Steps(c)
    BY <2>1, <2>2, WordFits DEF IInv, Below
  <2>4. (le_time' * 100 + ms_remainder') * 1000000 + ns_remainder' <= now' * 30517
    BY <1>1, <1>2, <2>1, <2>2, <2>3 DEF IInv, Accounted, Below
  <2>5. Below(ms_remainder', 4294967296)  BY <2>1, <2>2 DEF Below
  <2> QED  BY <1>1, <1>2, <1>3, <2>3, <2>4, <2>5 DEF IInv, Accounted
<1>5. CASE ms < 100
  <2>1. ms_remainder' = Word(ms_remainder + ms) /\ le_time' = le_time
    BY <1>2, <1>5, Call DEF Below
  <2> HIDE DEF c, ms
  <2>2. Below(ms_remainder', 4294967296) /\ ms_remainder' <= ms_remainder + ms
    BY <1>2, <2>1, WordFits DEF IInv, Below
  <2>3. (le_time' * 100 + ms_remainder') * 1000000 + ns_remainder' <= now' * 30517
    BY <1>1, <1>2, <2>1, <2>2 DEF IInv, Accounted, Below
  <2> QED  BY <1>1, <1>2, <1>3, <2>1, <2>2, <2>3 DEF IInv, Accounted
<1>6. ms >= 100 \/ ms < 100  BY <1>2 DEF Below
<1> QED  BY <1>4, <1>5, <1>6

LEMMA IInvHolds == ASSUME CodeUnits, TicksPass PROVE Spec => []IInv
<1>1. Init => IInv  BY InitAccounted, UnitsAssumption
<1>2. IInv /\ [Next]_vars => IInv'
  <2> SUFFICES ASSUME IInv, [Next]_vars PROVE IInv' OBVIOUS
  <2>1. CASE UNCHANGED vars  BY <2>1 DEF vars, IInv, Accounted
  <2>2. CASE Next  BY <2>2, CallAccounted DEF Next
  <2> QED  BY <2>1, <2>2
<1> QED  BY <1>1, <1>2, PTL DEF Spec

-----------------------------------------------------------------------------
(* The theorems *)

\* Every variable has its type, 32 bits for those that are kept between calls.
THEOREM TypeCorrect == CodeUnits /\ TicksPass => (Spec => []TypeOK)
<1> SUFFICES ASSUME CodeUnits, TicksPass PROVE Spec => []TypeOK OBVIOUS
<1>1. IInv => TypeOK
  <2> SUFFICES ASSUME IInv PROVE TypeOK OBVIOUS
  <2>1. /\ Below(previous_tick, RTC1_TICKS_MAX) /\ Below(ms_remainder, WordSize)
        /\ Below(ns_remainder, NS_PER_MS) /\ Below(le_time, WordSize)
    BY DEF IInv, CodeUnits, Below
  <2>2. now \in 0 .. MaxTime  BY UnitsAssumption DEF IInv, UnitsAssumption
  <2>3. RTC1_TICKS_MAX \in Int /\ WordSize \in Int /\ NS_PER_MS \in Int
    BY UnitsAssumption DEF UnitsAssumption
  <2> QED  BY <2>1, <2>2, <2>3, BelowRange DEF TypeOK
<1> QED  BY <1>1, IInvHolds, PTL

\* With the code's units the frame never shows a time that has not come,
\* however long there is no call and however often the words overflow
\* (eddystone_tlm_manager.c:50).
THEOREM NeverAhead == CodeUnits /\ TicksPass => (Spec => []TimeNotAhead)
<1> SUFFICES ASSUME CodeUnits, TicksPass PROVE Spec => []TimeNotAhead OBVIOUS
<1>1. IInv => TimeNotAhead
  BY DEF IInv, Accounted, TimeNotAhead, Shown, TrueTime, Step, CodeUnits, Below
<1> QED  BY <1>1, IInvHolds, PTL

\* What a call within a word loses.
LEMMA CallLoses ==
    ASSUME CodeUnits, TicksPass, InAWord, IInv, le_time # 0,
           NEW gap \in Gaps, now + gap <= MaxTime, UpdateTime(gap)
    PROVE  gap * 30517 < (le_time' - le_time) * 100000000 + 100000000
<1> DEFINE ms == Milliseconds(gap)
           c == Carried(ms)
<1>1. now' = now + gap /\ gap \in Int /\ 1 <= gap  BY Call
<1>2. gap * 30517 < 4294967296 /\ now' < 14000000000000
  <2>1. gap * 30517 < 4294967296 /\ MaxTime < 14000000000000  BY DEF InAWord
  <2>2. MaxTime \in Int  BY UnitsAssumption DEF UnitsAssumption
  <2> QED  BY <1>1, <2>1, <2>2 DEF IInv
<1>3. /\ Below(ms, 4297) /\ Below(NsKept(gap), 1000000)
      /\ ms * 1000000 + NsKept(gap) = gap * 30517 + ns_remainder
  BY <1>1, <1>2, NanosecondsKept DEF IInv
<1>4. CASE ms >= 100
  <2>1. /\ Below(c.left, 100) /\ Steps(c) \in Int /\ 1 <= Steps(c)
        /\ Steps(c) * 100 + c.left <= ms_remainder + ms
        /\ ms < Steps(c) * 100 + 100
    BY <1>3, <1>4, StepsFit DEF IInv, Below
  <2>2. le_time' = Word(le_time + Steps(c))
    BY <1>3, <1>4, Call DEF Below
  <2> HIDE DEF c, ms
  <2>3. le_time + Steps(c) < 4294967296
    <3>1. (le_time * 100 + ms_remainder) * 1000000 + ns_remainder <= now * 30517
      BY DEF IInv, Accounted
    <3> QED  BY <1>1, <1>2, <1>3, <2>1, <3>1 DEF IInv, Below
  <2>4. le_time' = le_time + Steps(c)
    BY <2>1, <2>2, <2>3, WordFits DEF IInv, Below
  <2> QED  BY <1>1, <1>3, <2>1, <2>4 DEF IInv, Below
<1>5. CASE ms < 100
  <2>1. le_time' = le_time  BY <1>3, <1>5, Call DEF Below
  <2> HIDE DEF c, ms
  <2> QED  BY <1>1, <1>3, <1>5, <2>1 DEF IInv, Below
<1>6. ms >= 100 \/ ms < 100  BY <1>3 DEF Below
<1> QED  BY <1>4, <1>5, <1>6

\* ... and, called within every word of nanoseconds, loses less than a step of
\* the time since the call before (:89).
THEOREM LosesLessThanAStep ==
    CodeUnits /\ TicksPass /\ InAWord => (Spec => CallsLoseLessThanAStep)
<1> SUFFICES ASSUME CodeUnits, TicksPass, InAWord
             PROVE  Spec => CallsLoseLessThanAStep
  OBVIOUS
<1>1. ASSUME IInv, IInv', le_time > 0, NEW gap \in Gaps, now + gap <= MaxTime,
             UpdateTime(gap)
      PROVE  TrueTime' - TrueTime < (Shown' - Shown) + Step
  <2>1. now' = now + gap /\ gap \in Int  BY <1>1, Call
  <2>2. now \in Int /\ le_time \in Int /\ le_time' \in Int
    BY <1>1 DEF IInv, Below
  <2>3. gap * 30517 < (le_time' - le_time) * 100000000 + 100000000
    BY <1>1, <2>2, CallLoses
  <2>4. /\ TrueTime = now * 30517 /\ TrueTime' = now' * 30517 /\ Step = 100000000
        /\ Shown = le_time * 100000000 /\ Shown' = le_time' * 100000000
    BY DEF TrueTime, Shown, Step, CodeUnits
  <2>5. /\ now' * 30517 = now * 30517 + gap * 30517 /\ now' \in Int
        /\ (le_time' - le_time) * 100000000
               = le_time' * 100000000 - le_time * 100000000
    BY <2>1, <2>2, SMT
  <2> DEFINE g == gap * 30517
             n == now * 30517
             l == le_time * 100000000
             k == le_time' * 100000000
  <2>6. g \in Int /\ n \in Int /\ l \in Int /\ k \in Int  BY <2>1, <2>2, SMT
  <2>7. g < k - l + 100000000 /\ TrueTime = n /\ TrueTime' = n + g
        /\ Shown = l /\ Shown' = k /\ Step = 100000000
    BY <2>3, <2>4, <2>5
  <2> HIDE DEF g, n, l, k
  <2> QED  BY <2>6, <2>7, SMT
<1>2. IInv /\ IInv' /\ [Next]_vars
      => [le_time > 0 => TrueTime' - TrueTime < (Shown' - Shown) + Step]_vars
  BY <1>1 DEF Next
<1> QED  BY <1>2, IInvHolds, PTL DEF Spec, CallsLoseLessThanAStep
=============================================================================
