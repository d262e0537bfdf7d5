------------------------ MODULE AdvIntervalsProofs ------------------------
(***************************************************************************)
(* AdvIntervals for every interval a client may write, where TLC tries     *)
(* those next to which a comparison turns.  The numbers of slots and of    *)
(* EIDs are at most 5, and the lemmas on division split on them: dividing  *)
(* or multiplying by a number written out is linear arithmetic.            *)
(***************************************************************************)
EXTENDS AdvIntervals, TLAPS

-----------------------------------------------------------------------------
(* Types: whatever clients ask for *)

LEMMA Numbers ==
    /\ UINT16_MAX \in Int /\ UINT16_MAX = 65535
    /\ MIN_NON_CONN_ADV_INTERVAL \in Int /\ MIN_NON_CONN_ADV_INTERVAL = 100
    /\ MAX_ADV_INTERVAL \in Int /\ MAX_ADV_INTERVAL = 10240
  BY SMT DEF UINT16_MAX, MIN_NON_CONN_ADV_INTERVAL, MAX_ADV_INTERVAL

\* Membership as inequalities.
LEMMA Membership ==
    /\ \A x : x \in Uint16s <=> x \in Int /\ 0 <= x /\ x <= UINT16_MAX
    /\ \A x : x \in Intervals <=> /\ x \in Int /\ MIN_NON_CONN_ADV_INTERVAL <= x
                                 /\ x <= MAX_ADV_INTERVAL
<1>1. /\ UINT16_MAX \in Int /\ MIN_NON_CONN_ADV_INTERVAL \in Int
      /\ MAX_ADV_INTERVAL \in Int
  BY Numbers
<1> QED  BY <1>1, SMT DEF Uint16s, Intervals

LEMMA Uint16Type == ASSUME NEW x \in Int PROVE Uint16(x) \in Uint16s
<1>1. Uint16(x) \in Int /\ 0 <= Uint16(x) /\ Uint16(x) <= UINT16_MAX
  BY Numbers, SMT DEF Uint16
<1> QED  BY <1>1, Membership

LEMMA ClampedType == ASSUME NEW x \in Int PROVE Clamped(x) \in Intervals
  BY Numbers, Membership, SMT DEF Clamped

LEMMA IntervalType ==
    /\ \A x \in Intervals : x \in Uint16s
    /\ \A x \in Uint16s : x \in Int
    /\ 0 \in Uint16s /\ DefaultInterval \in Uint16s
    /\ ETLM_INTERVAL_LIMIT \in Uint16s
  BY Numbers, Membership, SMT DEF DefaultInterval, ETLM_INTERVAL_LIMIT

\* The record a calculation fills in, in 16 bits.
Words == [adv : Uint16s, slot : Uint16s, etlm : Uint16s, stored : {0} \cup Intervals]

LEMMA SlotGapType ==
    ASSUME NEW g \in Words, NEW n \in Int, n > 0, NEW limit \in Int
    PROVE  SlotGap(g, n, limit) \in Words
<1>1. ASSUME NEW x \in Int PROVE Share(x, n) \in Uint16s
  <2>1. x \div n - slot_dist_buffer_ms \in Int  BY SMT DEF slot_dist_buffer_ms
  <2> QED  BY <2>1, Uint16Type DEF Share
<1>2. Raised(n, limit) \in Uint16s
  <2>1. (limit + slot_dist_buffer_ms) * n \in Int  BY SMT DEF slot_dist_buffer_ms
  <2> QED  BY <2>1, Uint16Type DEF Raised
<1>3. Share(Raised(n, limit), n) \in Uint16s /\ Share(g.adv, n) \in Uint16s
  BY <1>1, <1>2, IntervalType DEF Words
<1>4. Clamped(Raised(n, limit)) \in Intervals
  BY <1>2, IntervalType, ClampedType
<1> QED  BY <1>2, <1>3, <1>4 DEF SlotGap, Words

LEMMA EtlmGapType ==
    ASSUME NEW g \in Words, NEW n \in Int, NEW e \in Int, e > 0
    PROVE  EtlmGap(g, n, e) \in Words
<1> DEFINE slot == Uint16((ETLM_INTERVAL_LIMIT + etlm_dist_buffer_ms) * e - slot_dist_buffer_ms)
           adv == Uint16((slot + slot_dist_buffer_ms) * n)
           gap == Uint16(g.slot \div e - etlm_dist_buffer_ms)
<1>1. gap \in Uint16s
  <2>1. g.slot \in Int  BY IntervalType DEF Words
  <2>2. g.slot \div e - etlm_dist_buffer_ms \in Int
    BY <2>1, SMT DEF etlm_dist_buffer_ms
  <2> QED  BY <2>2, Uint16Type
<1>2. slot \in Uint16s
  <2>1. (ETLM_INTERVAL_LIMIT + etlm_dist_buffer_ms) * e - slot_dist_buffer_ms \in Int
    BY SMT DEF ETLM_INTERVAL_LIMIT, etlm_dist_buffer_ms, slot_dist_buffer_ms
  <2> QED  BY <2>1, Uint16Type
<1>3. adv \in Uint16s
  <2> HIDE DEF slot
  <2>1. slot \in Int  BY <1>2, IntervalType
  <2>2. (slot + slot_dist_buffer_ms) * n \in Int
    BY <2>1, SMT DEF slot_dist_buffer_ms
  <2> QED  BY <2>2, Uint16Type
<1>4. Clamped(adv) \in Intervals
  <2> HIDE DEF adv
  <2> QED  BY <1>3, IntervalType, ClampedType
<1>5. EtlmGap(g, n, e) =
          IF gap < ETLM_INTERVAL_LIMIT
          THEN [adv |-> adv, slot |-> slot, etlm |-> ETLM_INTERVAL_LIMIT,
                stored |-> Clamped(adv)]
          ELSE [g EXCEPT !.etlm = gap]
  BY DEF EtlmGap
<1> HIDE DEF gap, slot, adv
<1> QED  BY <1>1, <1>2, <1>3, <1>4, <1>5, IntervalType DEF Words

LEMMA CalculatedType ==
    ASSUME NEW stored \in {0} \cup Intervals, NEW n \in Nat, NEW e \in Nat,
           NEW tlm \in BOOLEAN
    PROVE  Calculated(stored, n, e, tlm) \in Words
<1> DEFINE g == [adv |-> IF stored = 0 THEN DefaultInterval ELSE stored,
                 slot |-> 0, etlm |-> 0, stored |-> stored]
           fit == SlotGap(g, n, SlotIntervalLimit(e, tlm))
<1>1. g \in Words  BY IntervalType DEF Words
<1>2. Calculated(stored, n, e, tlm) =
          IF n = 0 THEN g ELSE IF EtlmRequired(e, tlm) THEN EtlmGap(fit, n, e) ELSE fit
  BY DEF Calculated
<1>3. n # 0 => fit \in Words
  <2>1. SlotIntervalLimit(e, tlm) \in Int
    BY Numbers, SMT DEF SlotIntervalLimit, ETLM_INTERVAL_LIMIT
  <2> HIDE DEF g
  <2>2. n # 0 => n \in Int /\ n > 0  BY SMT
  <2> QED  BY <1>1, <2>1, <2>2, SlotGapType
<1>4. EtlmRequired(e, tlm) => e \in Int /\ e > 0  BY SMT DEF EtlmRequired
<1> HIDE DEF g, fit
<1> QED  BY <1>1, <1>2, <1>3, <1>4, EtlmGapType, SMT

\* Interval and gaps stay in their types, for every request: the interval in
\* use is one a client may ask for, the gaps are 16 bits.
THEOREM TypeCorrect == Spec => []TypeOK
<1>1. Init => TypeOK
  <2> SUFFICES ASSUME Init PROVE TypeOK OBVIOUS
  <2>1. interval \in {0} \cup Intervals
    BY InitialAssumption DEF Init
  <2>2. 0 \in 0 .. MaxSlots  BY MaxSlotsAssumption, SMT
  <2> QED  BY <2>1, <2>2, IntervalType DEF Init, TypeOK
<1>2. TypeOK /\ [Next]_vars => TypeOK'
  <2> SUFFICES ASSUME TypeOK, [Next]_vars PROVE TypeOK' OBVIOUS
  <2>1. ASSUME NEW i \in Requests, WriteInterval(i) PROVE TypeOK'
    <3>1. i \in Int  BY RequestsAssumption, IntervalType
    <3>2. interval' \in Intervals  BY <2>1, <3>1, ClampedType DEF WriteInterval
    <3>3. gaps' = gaps  BY <2>1 DEF WriteInterval
    <3> QED  BY <3>2, <3>3 DEF TypeOK
  <2>2. ASSUME NEW n \in 0 .. MaxSlots, NEW e \in 0 .. MaxSlots, NEW tlm \in BOOLEAN,
               Calculate(n, e, tlm)
        PROVE  TypeOK'
    <3> DEFINE c == Calculated(interval, n, e, tlm)
    <3>1. n \in Nat /\ e \in Nat  BY MaxSlotsAssumption, SMT
    <3>2. interval \in {0} \cup Intervals  BY DEF TypeOK
    <3>3. c \in Words  BY <3>1, <3>2, CalculatedType
    <3>4. /\ gaps' = [adv |-> c.adv, slot |-> c.slot, etlm |-> c.etlm,
                      slots |-> n, eids |-> e]
          /\ interval' = c.stored
      BY <2>2 DEF Calculate
    <3> HIDE DEF c
    <3> QED  BY <3>3, <3>4 DEF TypeOK, Words
  <2>3. CASE UNCHANGED vars  BY <2>3 DEF vars, TypeOK
  <2> QED  BY <2>1, <2>2, <2>3 DEF Next
<1> QED  BY <1>1, <1>2, PTL DEF Spec

-----------------------------------------------------------------------------
(* Slow clients *)

\* No client asks for less than 125 ms, so that every slot's share is at least
\* the buffer it gives up.
SlowRequests ==
    /\ \A i \in Requests : i \in Int /\ 125 <= i /\ i <= 65535
    /\ \A i \in InitialIntervals :
           i \in Int /\ (i = 0 \/ (125 <= i /\ i <= MAX_ADV_INTERVAL))

USE DEF UINT16_MAX, MIN_NON_CONN_ADV_INTERVAL, MAX_ADV_INTERVAL,
        ETLM_INTERVAL_LIMIT, etlm_dist_buffer_ms, slot_dist_buffer_ms, DefaultInterval

-----------------------------------------------------------------------------
(* Division by the number of slots *)

\* Names for the product and the quotient of two variables, so that a step
\* that only passes one on does not reason about it.
Times(x, n) == x * n
Part(x, n) == x \div n

LEMMA UpTo5 ==
    ASSUME NEW n \in 1 .. 5 PROVE n = 1 \/ n = 2 \/ n = 3 \/ n = 4 \/ n = 5
  BY SMT

\* 16 bits hold what fits in them.
LEMMA Uint16Fits == ASSUME NEW x \in Int, 0 <= x, x <= 65535 PROVE Uint16(x) = x
  BY SMT DEF Uint16

Divided(x, n) == /\ Part(x, n) \in Int /\ 0 <= Part(x, n)
                 /\ Part(x, n) <= x /\ Times(Part(x, n), n) <= x
                 /\ Times(Part(x, n), n) \in Int /\ x < Times(Part(x, n), n) + n
\* n equal shares of an interval fit in it.
LEMMA Quotient ==
    ASSUME NEW x \in Int, 0 <= x, NEW n \in 1 .. 5 PROVE Divided(x, n)
<1> DEFINE P(m) == /\ x \div m \in Int /\ 0 <= x \div m
                   /\ x \div m <= x /\ (x \div m) * m <= x
                   /\ (x \div m) * m \in Int /\ x < (x \div m) * m + m
<1>1. P(1)  BY SMT
<1>2. P(2)  BY SMT
<1>3. P(3)  BY SMT
<1>4. P(4)  BY SMT
<1>5. P(5)  BY SMT
<1> HIDE DEF P
<1>6. P(n)  BY <1>1, <1>2, <1>3, <1>4, <1>5, UpTo5, SMT
<1> QED  BY <1>6, SMT DEF P, Divided, Part, Times

Grows(x, y, n) ==
    Times(x, n) \in Int /\ Times(y, n) \in Int /\ Times(x, n) + n <= Times(y, n)
\* Multiples grow with what is multiplied.
LEMMA TimesGrows ==
    ASSUME NEW x \in Int, NEW y \in Int, x < y, NEW n \in 1 .. 5 PROVE Grows(x, y, n)
<1> DEFINE P(m) == x * m \in Int /\ y * m \in Int /\ x * m + m <= y * m
<1>1. P(1)  BY SMT
<1>2. P(2)  BY SMT
<1>3. P(3)  BY SMT
<1>4. P(4)  BY SMT
<1>5. P(5)  BY SMT
<1> HIDE DEF P
<1>6. P(n)  BY <1>1, <1>2, <1>3, <1>4, <1>5, UpTo5, SMT
<1> QED  BY <1>6, SMT DEF P, Grows, Times

\* ... and by as much as was added.
LEMMA TimesPlus ==
    ASSUME NEW x \in Int, NEW y \in Int, y = x + 25, NEW n \in 1 .. 5
    PROVE  Times(y, n) = Times(x, n) + 25 * n
<1> DEFINE P(m) == y * m = x * m + 25 * m
<1>1. P(1)  BY SMT
<1>2. P(2)  BY SMT
<1>3. P(3)  BY SMT
<1>4. P(4)  BY SMT
<1>5. P(5)  BY SMT
<1> HIDE DEF P
<1>6. P(n)  BY <1>1, <1>2, <1>3, <1>4, <1>5, UpTo5, SMT
<1> QED  BY <1>6, SMT DEF P, Times

\* A number that n times a bound fits in has n-th parts no smaller.
LEMMA QuotientBound ==
    ASSUME NEW x \in Int, NEW b \in Int, NEW n \in 1 .. 5, n * b <= x
    PROVE  Part(x, n) >= b
<1> DEFINE P(m) == m * b <= x => x \div m >= b
<1>1. P(1)  BY SMT
<1>2. P(2)  BY SMT
<1>3. P(3)  BY SMT
<1>4. P(4)  BY SMT
<1>5. P(5)  BY SMT
<1> HIDE DEF P
<1>6. P(n)  BY <1>1, <1>2, <1>3, <1>4, <1>5, UpTo5, SMT
<1> QED  BY <1>6, SMT DEF P, Part, Times

\* What is multiplied and then divided is got back; up to five times a small
\* number is in 16 bits.
LEMMA Multiple ==
    ASSUME NEW x \in Int, 125 <= x, x <= 1250, NEW n \in 1 .. 5
    PROVE  /\ Times(x, n) \in Int /\ 125 <= Times(x, n)
           /\ Times(x, n) <= 6250 /\ Part(Times(x, n), n) = x
<1> DEFINE P(m) == /\ x * m \in Int /\ 125 <= x * m
                   /\ x * m <= 6250 /\ (x * m) \div m = x
<1>1. P(1)  BY SMT
<1>2. P(2)  BY SMT
<1>3. P(3)  BY SMT
<1>4. P(4)  BY SMT
<1>5. P(5)  BY SMT
<1> HIDE DEF P
<1>6. P(n)  BY <1>1, <1>2, <1>3, <1>4, <1>5, UpTo5, SMT
<1> QED  BY <1>6, SMT DEF P, Part, Times

Shared(adv, n) ==
    /\ Share(adv, n) = Part(adv, n) - 25
    /\ Share(adv, n) \in Int /\ 0 <= Share(adv, n) /\ Share(adv, n) <= 65535
    /\ Times(Share(adv, n) + 25, n) <= adv
    /\ Times(Share(adv, n) + 25, n) \in Int
    /\ adv < Times(Share(adv, n) + 25, n) + n
\* A slot's share of an interval that has a buffer for each of n slots: with
\* the buffers, n such shares fit in the interval.
LEMMA ShareFits ==
    ASSUME NEW adv \in Int, 125 <= adv, adv <= 65535, NEW n \in 1 .. 5
    PROVE  Shared(adv, n)
<1> DEFINE q == Part(adv, n)
<1>0. Divided(adv, n)
  BY Quotient, SMT
<1>1. /\ q \in Int /\ q <= adv /\ Times(q, n) <= adv
      /\ Times(q, n) \in Int /\ adv < Times(q, n) + n
  BY <1>0, SMT DEF Divided
<1>2. n * 25 <= adv
  BY SMT
<1>3. q >= 25
  BY <1>2, QuotientBound, SMT
<1>4. Share(adv, n) = Uint16(q - 25)
  BY SMT DEF Share, Part
<1> HIDE DEF q
<1>5. q - 25 \in Int /\ 0 <= q - 25 /\ q - 25 <= 65535
  BY <1>1, <1>3, SMT
<1>6. Share(adv, n) = q - 25
  BY <1>4, <1>5, Uint16Fits, SMT
<1>7. Share(adv, n) + 25 = q
  BY <1>1, <1>6, SMT
<1> QED  BY <1>1, <1>5, <1>6, <1>7, SMT DEF q, Shared

\* A raised interval gives each slot its limit.
LEMMA RaisedShare ==
    ASSUME NEW n \in 1 .. 5, NEW limit \in Int, 100 <= limit, limit <= 1125
    PROVE  /\ Raised(n, limit) \in Int
           /\ 125 <= Raised(n, limit) /\ Raised(n, limit) <= 6250
           /\ Share(Raised(n, limit), n) = limit
<1> DEFINE x == limit + 25
           r == Times(x, n)
<1>1. x \in Int /\ 125 <= x /\ x <= 1250 /\ x = limit + 25
  BY SMT
<1>2. Raised(n, limit) = Uint16(r)
  BY SMT DEF Raised, Times
<1> HIDE DEF x
<1>3. r \in Int /\ 125 <= r /\ r <= 6250 /\ Part(r, n) = x
  BY <1>1, Multiple, SMT
<1> HIDE DEF r
<1>4. Raised(n, limit) = r
  BY <1>2, <1>3, Uint16Fits, SMT
<1>5. Share(r, n) = limit
  <2>1. Shared(r, n)
    BY <1>3, ShareFits, SMT
  <2> QED  BY <1>1, <1>3, <2>1, SMT DEF Shared
<1> QED  BY <1>3, <1>4, <1>5, SMT

-----------------------------------------------------------------------------
(* The two halves of intervals_calculate *)

\* The record intervals_calculate fills in, and what it has made sure of: n
\* slots fit in the interval.
Results == [adv : Int, slot : Int, etlm : Int, stored : Int]
Fits(g, n) == /\ g \in Results
              /\ 125 <= g.adv /\ g.adv <= MAX_ADV_INTERVAL
              /\ 0 <= g.slot /\ g.slot <= 65535
              /\ Times(g.slot + 25, n) <= g.adv
              /\ Times(g.slot + 25, n) \in Int
              /\ g.adv < Times(g.slot + 25, n) + n
              /\ g.stored = 0 \/ g.stored = g.adv
              /\ g.stored = 0 \/ (125 <= g.stored /\ g.stored <= MAX_ADV_INTERVAL)

\* An interval within the client's bounds is stored as it is.
LEMMA ClampedFits ==
    ASSUME NEW x \in Int, 125 <= x, x <= 6250 PROVE Clamped(x) = x
  BY SMT DEF Clamped

LEMMA SlotGapFits ==
    ASSUME NEW g \in Results, 125 <= g.adv, g.adv <= MAX_ADV_INTERVAL,
           g.stored = 0 \/ g.stored = g.adv,
           g.stored = 0 \/ (125 <= g.stored /\ g.stored <= MAX_ADV_INTERVAL),
           NEW n \in 1 .. 5, NEW limit \in Int, 100 <= limit, limit <= 1125
    PROVE  /\ Fits(SlotGap(g, n, limit), n)
           /\ SlotGap(g, n, limit).slot >= limit
           /\ SlotGap(g, n, limit).etlm = g.etlm
           /\ SlotGap(g, n, limit).adv >= g.adv
<1> DEFINE r == Raised(n, limit)
           s == Share(g.adv, n)
<1>0. g.adv \in Int
  BY SMT DEF Results
<1>1. /\ s \in Int /\ 0 <= s /\ s <= 65535 /\ Times(s + 25, n) <= g.adv
      /\ Times(s + 25, n) \in Int /\ g.adv < Times(s + 25, n) + n
  <2>1. Shared(g.adv, n)
    BY <1>0, ShareFits, SMT
  <2> QED  BY <2>1, SMT DEF Shared
<1>2. r \in Int /\ 125 <= r /\ r <= 6250 /\ Share(r, n) = limit
  BY RaisedShare, SMT
<1>5. /\ Times(limit + 25, n) <= r /\ Times(limit + 25, n) \in Int
      /\ r < Times(limit + 25, n) + n
  <2> HIDE DEF r
  <2>1. Shared(r, n)
    BY <1>2, ShareFits, SMT
  <2> QED  BY <1>2, <2>1, SMT DEF Shared
<1>6. CASE s < limit
  <2>1. SlotGap(g, n, limit) =
            [adv |-> r, slot |-> Share(r, n), etlm |-> g.etlm, stored |-> Clamped(r)]
    BY <1>6, SMT DEF SlotGap
  <2> HIDE DEF r, s
  <2>2. Clamped(r) = r
    BY <1>2, ClampedFits, SMT
  <2>3. SlotGap(g, n, limit) =
            [adv |-> r, slot |-> limit, etlm |-> g.etlm, stored |-> r]
    BY <2>1, <2>2, <1>2, SMT
  <2>4. r >= g.adv
    <3> DEFINE x == s + 25
               y == limit + 25
    <3>1. x \in Int /\ y \in Int /\ x < y  BY <1>1, <1>6, SMT
    <3>2. g.adv < Times(x, n) + n /\ Times(y, n) <= r  BY <1>1, <1>5
    <3> HIDE DEF x, y
    <3>3. Times(x, n) \in Int /\ Times(y, n) \in Int /\ Times(x, n) + n <= Times(y, n)
      <4>1. Grows(x, y, n)  BY <3>1, TimesGrows
      <4> QED  BY <4>1 DEF Grows
    <3> QED  BY <3>2, <3>3, <1>0, <1>2, SMT
  <2> QED  BY <2>3, <2>4, <1>2, <1>5, SMT DEF Fits, Results
<1>7. CASE ~(s < limit)
  <2>1. SlotGap(g, n, limit) = [g EXCEPT !.slot = s]
    BY <1>7, SMT DEF SlotGap
  <2> HIDE DEF r, s
  <2>2. SlotGap(g, n, limit) =
            [adv |-> g.adv, slot |-> s, etlm |-> g.etlm, stored |-> g.stored]
    BY <2>1, SMT DEF Results
  <2> QED  BY <2>2, <1>1, <1>7, SMT DEF Fits, Results
<1> QED  BY <1>6, <1>7

\* The eTLMs of e slots, with a gap between slots of e times their limit.
LEMMA EtlmGapFits ==
    ASSUME NEW g, NEW n \in 1 .. 5, NEW e \in 1 .. 5,
           Fits(g, n), g.slot >= e * ETLM_INTERVAL_LIMIT
    PROVE  /\ Fits(EtlmGap(g, n, e), n)
           /\ EtlmGap(g, n, e).etlm >= ETLM_INTERVAL_LIMIT
           /\ Times(EtlmGap(g, n, e).etlm + 25, e) <= EtlmGap(g, n, e).slot + 25
           /\ g.adv <= EtlmGap(g, n, e).adv + 25 * n
<1> DEFINE q == Part(g.slot, e)
           gap == Uint16(q - 25)
           slot == Uint16(250 * e - 25)
           adv == Uint16(Times(slot + 25, n))
<1>1. g \in Results /\ g.slot \in Int /\ 0 <= g.slot /\ g.slot <= 65535
  BY SMT DEF Fits, Results
<1>2. /\ q \in Int /\ 0 <= q /\ q <= g.slot /\ Times(q, e) <= g.slot
      /\ Times(q, e) \in Int /\ g.slot < Times(q, e) + e
  <2>1. Divided(g.slot, e)
    BY <1>1, Quotient, SMT
  <2> QED  BY <2>1, SMT DEF Divided
<1>3. q >= 225
  BY <1>1, QuotientBound, SMT
<1>4. slot = 250 * e - 25
  BY Uint16Fits, SMT
<1>5. 250 * e \in Int /\ 250 <= 250 * e /\ 250 * e <= 1250
  BY SMT
<1>6. slot + 25 = 250 * e /\ slot \in Int /\ 225 <= slot /\ slot <= 1225
  BY <1>4, <1>5, SMT
<1> HIDE DEF slot
<1>7. /\ Times(slot + 25, n) \in Int
      /\ 125 <= Times(slot + 25, n) /\ Times(slot + 25, n) <= 6250
  <2>1. slot + 25 \in Int /\ 125 <= slot + 25 /\ slot + 25 <= 1250
    BY <1>6, SMT
  <2> QED  BY <2>1, Multiple, SMT
<1>8. adv = Times(slot + 25, n)
  <2>1. Times(slot + 25, n) <= 65535 /\ 0 <= Times(slot + 25, n)
    BY <1>7, SMT
  <2> QED  BY <1>7, <2>1, Uint16Fits, SMT
<1>9. gap = q - 25
  <2> HIDE DEF q
  <2> QED  BY <1>1, <1>2, <1>3, Uint16Fits, SMT
<1>10. EtlmGap(g, n, e) =
          IF gap < 225
          THEN [adv |-> adv, slot |-> slot, etlm |-> 225, stored |-> Clamped(adv)]
          ELSE [g EXCEPT !.etlm = gap]
  <2>1. (225 + 25) * e = 250 * e
    BY SMT
  <2> QED  BY <2>1, SMT DEF EtlmGap, slot, Part, Times
<1> HIDE DEF q, gap, adv
<1>11. adv \in Int /\ 125 <= adv /\ adv <= 6250
  BY <1>7, <1>8, SMT
<1>12. Clamped(adv) = adv
  BY <1>11, ClampedFits, SMT
<1>13. CASE gap < 225
  <2>1. EtlmGap(g, n, e) = [adv |-> adv, slot |-> slot, etlm |-> 225, stored |-> adv]
    BY <1>10, <1>12, <1>13, SMT
  <2>2. Times(225 + 25, e) = slot + 25
    BY <1>6, SMT DEF Times
  <2>3. g.slot < slot + 25
    <3>1. q \in Int /\ q < 250  BY <1>2, <1>9, <1>13, SMT
    <3>2. Times(q, e) + e <= Times(250, e)
      <4>1. Grows(q, 250, e)  BY <3>1, TimesGrows, SMT
      <4> QED  BY <4>1 DEF Grows
    <3>3. Times(250, e) = slot + 25  BY <1>6, SMT DEF Times
    <3> QED  BY <3>2, <3>3, <1>1, <1>2, <1>6, SMT
  <2>4. g.adv <= adv + 25 * n
    <3> DEFINE x == g.slot + 25
               y == slot + 50
               z == slot + 25
    <3>1. /\ x \in Int /\ y \in Int /\ z \in Int /\ x < y /\ y = z + 25
      BY <1>1, <1>6, <2>3, SMT
    <3>2. /\ g.adv \in Int /\ Times(x, n) \in Int /\ g.adv < Times(x, n) + n
          /\ Times(z, n) = adv
      BY <1>8, SMT DEF Fits, Results
    <3> HIDE DEF x, y, z
    <3>3. Times(x, n) + n <= Times(y, n) /\ Times(y, n) = Times(z, n) + 25 * n
      <4>1. Grows(x, y, n)  BY <3>1, TimesGrows, SMT
      <4>2. Times(y, n) = Times(z, n) + 25 * n  BY <3>1, TimesPlus, SMT
      <4> QED  BY <4>1, <4>2 DEF Grows
    <3> QED  BY <3>2, <3>3, <1>11, SMT
  <2>5. Times(slot + 25, n) \in Int /\ adv < Times(slot + 25, n) + n
    BY <1>8, <1>11, SMT
  <2> QED  BY <2>1, <2>2, <2>4, <2>5, <1>6, <1>8, <1>11, SMT DEF Fits, Results
<1>14. CASE ~(gap < 225)
  <2>1. EtlmGap(g, n, e) = [adv |-> g.adv, slot |-> g.slot, etlm |-> gap, stored |-> g.stored]
    BY <1>1, <1>10, <1>14, SMT DEF Results
  <2>2. gap \in Int /\ gap >= 225 /\ Times(gap + 25, e) <= g.slot
    <3>1. gap \in Int /\ gap + 25 = q
      BY <1>2, <1>9, SMT
    <3> QED  BY <3>1, <1>2, <1>14, SMT
  <2>3. Times(gap + 25, e) \in Int
    BY <2>2, SMT DEF Times
  <2> QED  BY <2>1, <2>2, <2>3, <1>1, SMT DEF Fits, Results
<1> QED  BY <1>13, <1>14

-----------------------------------------------------------------------------
(* The invariant *)

\* The results c of a calculation for n slots and e of type EID leave every
\* slot and every eTLM its time, and an interval long enough for the next.
AllFit(c, n, e) ==
    /\ c \in Results
    /\ c.stored = 0 \/ c.stored = c.adv
    /\ 125 <= c.adv /\ c.adv <= MAX_ADV_INTERVAL
    /\ c.stored = 0 \/ (125 <= c.stored /\ c.stored <= MAX_ADV_INTERVAL)
    /\ n > 0 => Times(c.slot + 25, n) <= c.adv
    /\ c.etlm # 0 => /\ c.etlm >= ETLM_INTERVAL_LIMIT
                     /\ Times(c.etlm + 25, e) <= c.slot + 25

\* A calculation on an interval that leaves each slot its buffer.
LEMMA CalculatedFits ==
    ASSUME NEW stored \in Int, stored = 0 \/ (125 <= stored /\ stored <= MAX_ADV_INTERVAL),
           NEW n \in 0 .. 5, NEW e \in 0 .. 5, NEW tlm \in BOOLEAN
    PROVE  /\ AllFit(Calculated(stored, n, e, tlm), n, e)
           /\ stored <= Calculated(stored, n, e, tlm).adv + 25 * n
<1> DEFINE g == [adv |-> IF stored = 0 THEN DefaultInterval ELSE stored,
                 slot |-> 0, etlm |-> 0, stored |-> stored]
           limit == SlotIntervalLimit(e, tlm)
           fit == SlotGap(g, n, limit)
           c == Calculated(stored, n, e, tlm)
<1>1. /\ g \in Results /\ 125 <= g.adv /\ g.adv <= MAX_ADV_INTERVAL
      /\ g.stored = stored /\ g.etlm = 0
      /\ stored <= g.adv /\ (g.stored = 0 \/ g.stored = g.adv)
  BY SMT DEF Results
<1>2. /\ limit \in Int /\ 100 <= limit /\ limit <= 1125
      /\ EtlmRequired(e, tlm) => limit = e * ETLM_INTERVAL_LIMIT /\ e \in 1 .. 5
  BY SMT DEF SlotIntervalLimit, EtlmRequired
<1>3. c = IF n = 0 THEN g ELSE IF EtlmRequired(e, tlm) THEN EtlmGap(fit, n, e) ELSE fit
  BY SMT DEF Calculated
<1> HIDE DEF g, limit, c
<1>4. CASE n = 0
  <2>1. c = g  BY <1>3, <1>4, SMT
  <2>2. stored <= g.adv + 25 * n  BY <1>1, <1>4, SMT DEF Results
  <2> QED  BY <2>1, <2>2, <1>1, <1>4, SMT DEF c, AllFit
<1>5. CASE n # 0
  <2>1. n \in 1 .. 5
    BY <1>5, SMT
  <2>2. Fits(fit, n) /\ fit.slot >= limit /\ fit.etlm = 0 /\ fit.adv >= g.adv
    BY <1>1, <1>2, <2>1, SlotGapFits, SMT
  <2> HIDE DEF fit
  <2>3. CASE ~EtlmRequired(e, tlm)
    <3>1. c = fit
      BY <1>3, <1>5, <2>3, SMT
    <3>2. stored <= c.adv + 25 * n
      BY <1>1, <2>1, <2>2, <3>1, SMT DEF Fits, Results
    <3> QED  BY <3>1, <3>2, <2>2, SMT DEF c, Fits, AllFit
  <2>4. CASE EtlmRequired(e, tlm)
    <3>1. c = EtlmGap(fit, n, e)
      BY <1>3, <1>5, <2>4, SMT
    <3>2. e \in 1 .. 5 /\ fit.slot >= e * ETLM_INTERVAL_LIMIT
      BY <1>2, <2>2, <2>4, SMT
    <3>3. /\ Fits(c, n) /\ c.etlm >= ETLM_INTERVAL_LIMIT
          /\ Times(c.etlm + 25, e) <= c.slot + 25 /\ fit.adv <= c.adv + 25 * n
      BY <2>1, <2>2, <3>1, <3>2, EtlmGapFits, SMT
    <3>4. stored <= c.adv + 25 * n
      BY <1>1, <2>2, <3>3, SMT DEF Fits, Results
    <3> QED  BY <3>3, <3>4, SMT DEF c, Fits, AllFit
  <2> QED  BY <2>3, <2>4
<1> QED  BY <1>4, <1>5

\* The interval is never short of the buffers, whatever the slots become; with
\* that each calculation is the lemma's.
Gaps == [adv : Int, slot : Int, etlm : Int, slots : 0 .. 5, eids : 0 .. 5]
IInv == /\ interval \in Int
        /\ interval = 0 \/ (125 <= interval /\ interval <= MAX_ADV_INTERVAL)
        /\ gaps \in Gaps
        /\ gaps.slots > 0 => Times(gaps.slot + 25, gaps.slots) <= gaps.adv
        /\ gaps.etlm # 0 => /\ gaps.etlm >= ETLM_INTERVAL_LIMIT
                            /\ Times(gaps.etlm + 25, gaps.eids) <= gaps.slot + 25

LEMMA InitFits == ASSUME SlowRequests, Init PROVE IInv
<1>1. interval \in Int /\ (interval = 0 \/ (125 <= interval /\ interval <= MAX_ADV_INTERVAL))
  BY SMT DEF SlowRequests, Init
<1>2. gaps = [adv |-> 0, slot |-> 0, etlm |-> 0, slots |-> 0, eids |-> 0]
  BY SMT DEF Init
<1> QED  BY <1>1, <1>2, SMT DEF IInv, Gaps

LEMMA NextFits == ASSUME SlowRequests, IInv, [Next]_vars PROVE IInv'
<1>1. ASSUME NEW i \in Requests, WriteInterval(i) PROVE IInv'
  <2>1. i \in Int /\ 125 <= i /\ i <= 65535
    BY SMT DEF SlowRequests
  <2>2. interval' \in Int /\ 125 <= interval' /\ interval' <= MAX_ADV_INTERVAL
    BY <1>1, <2>1, SMT DEF WriteInterval, Clamped
  <2>3. gaps' = gaps
    BY <1>1, SMT DEF WriteInterval
  <2> QED  BY <2>2, <2>3, SMT DEF IInv
<1>2. ASSUME NEW n \in 0 .. MaxSlots, NEW e \in 0 .. MaxSlots, NEW tlm \in BOOLEAN,
             Calculate(n, e, tlm)
      PROVE  IInv'
  <2> DEFINE c == Calculated(interval, n, e, tlm)
  <2>1. n \in 0 .. 5 /\ e \in 0 .. 5
    BY MaxSlotsAssumption, SMT
  <2>2. /\ gaps' = [adv |-> c.adv, slot |-> c.slot, etlm |-> c.etlm,
                    slots |-> n, eids |-> e]
        /\ interval' = c.stored
    BY <1>2, SMT DEF Calculate
  <2>3. AllFit(c, n, e)
    <3>1. interval \in Int /\ (interval = 0 \/ (125 <= interval /\ interval <= MAX_ADV_INTERVAL))
      BY SMT DEF IInv
    <3> QED  BY <2>1, <3>1, CalculatedFits, SMT
  <2> HIDE DEF c
  <2> QED  BY <2>1, <2>2, <2>3, SMT DEF IInv, Gaps, AllFit, Results
<1>3. CASE UNCHANGED vars
  BY <1>3, SMT DEF vars, IInv
<1> QED  BY <1>1, <1>2, <1>3, SMT DEF Next

LEMMA IInvHolds == ASSUME SlowRequests PROVE Spec => []IInv
<1>1. Init => IInv
  BY InitFits
<1>2. IInv /\ [Next]_vars => IInv'
  BY NextFits
<1> QED  BY <1>1, <1>2, PTL DEF Spec

\* When no client asks for less than 125 ms, the configured slots fit in the
\* advertising interval after every calculation of it, whatever intervals are
\* asked for and however the slots change (eddystone_advertising_manager.c:322).
THEOREM SlotsAlwaysFit == ASSUME SlowRequests PROVE Spec => []SlotsFit
<1>1. IInv => SlotsFit
  BY SMT DEF IInv, SlotsFit, Times
<1> QED  BY <1>1, IInvHolds, PTL

\* ... and the eTLMs of all EID slots fit in the gap of the TLM slot, each with
\* the time its encryption takes (:338).
THEOREM EtlmsAlwaysFit == ASSUME SlowRequests PROVE Spec => []EtlmsFit
<1>1. IInv => EtlmsFit
  BY SMT DEF IInv, EtlmsFit, Times
<1> QED  BY <1>1, IInvHolds, PTL

\* ... and the beacon is never faster than it was asked to be by more than the
\* buffers of its slots, and tells its client the interval in use.
THEOREM IntervalStaysNear == ASSUME SlowRequests PROVE Spec => IntervalInUse
<1>1. ASSUME IInv, NEW n \in 0 .. MaxSlots, NEW e \in 0 .. MaxSlots,
             NEW tlm \in BOOLEAN, Calculate(n, e, tlm)
      PROVE  /\ interval <= gaps'.adv + slot_dist_buffer_ms * gaps'.slots
             /\ gaps'.adv \in Intervals
             /\ interval' \in {0, gaps'.adv}
  <2> DEFINE c == Calculated(interval, n, e, tlm)
  <2>1. n \in 0 .. 5 /\ e \in 0 .. 5
    BY MaxSlotsAssumption, SMT
  <2>2. /\ gaps' = [adv |-> c.adv, slot |-> c.slot, etlm |-> c.etlm,
                    slots |-> n, eids |-> e]
        /\ interval' = c.stored
    BY <1>1, SMT DEF Calculate
  <2>3. AllFit(c, n, e) /\ interval <= c.adv + 25 * n
    <3>1. interval \in Int /\ (interval = 0 \/ (125 <= interval /\ interval <= MAX_ADV_INTERVAL))
      BY <1>1, SMT DEF IInv
    <3> QED  BY <2>1, <3>1, CalculatedFits, SMT
  <2> HIDE DEF c
  <2>4. c.adv \in Int /\ 100 <= c.adv /\ c.adv <= 10240 /\ (c.stored = 0 \/ c.stored = c.adv)
    BY <2>3, SMT DEF AllFit, Results
  <2>5. c.adv \in Intervals  BY <2>4, Membership, SMT
  <2> QED  BY <2>2, <2>3, <2>4, <2>5, SMT
<1>2. IInv /\ [Next]_vars
      => [gaps' # gaps =>
            /\ interval <= gaps'.adv + slot_dist_buffer_ms * gaps'.slots
            /\ gaps'.adv \in Intervals
            /\ interval' \in {0, gaps'.adv}]_vars
  <2> SUFFICES ASSUME IInv, [Next]_vars, gaps' # gaps
               PROVE  \E n, e \in 0 .. MaxSlots, tlm \in BOOLEAN : Calculate(n, e, tlm)
    BY <1>1
  <2> QED  BY DEF Next, WriteInterval, vars
<1> QED  BY <1>2, IInvHolds, PTL DEF Spec, IntervalInUse
=============================================================================
