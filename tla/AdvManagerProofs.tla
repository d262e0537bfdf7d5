-------------------------- MODULE AdvManagerProofs --------------------------
(***************************************************************************)
(* Proofs about AdvManager: the types of its state, that the chain of      *)
(* intervals never breaks and that the radio is never started twice, with  *)
(* interrupts anywhere; and what is on the air when every handler ends     *)
(* before anything else is due.                                            *)
(***************************************************************************)
EXTENDS AdvManager, SequenceTheorems, FiniteSetTheorems, WellFoundedInduction, TLAPS

-----------------------------------------------------------------------------
(* Sets of slots and their ranks *)

LEMMA ZeroSlot ==
    /\ 0 \in Slots /\ 0 \in 0 .. NumSlots /\ 0 \in SlotNumbers /\ NumSlots - 1 \in Slots
    /\ Slots \subseteq SlotNumbers /\ Blank \notin SlotNumbers /\ Beyond \notin Slots
BY NumSlotsAssumption DEF Slots, Blank, Beyond, SlotNumbers

LEMMA SlotSets ==
    ASSUME NEW S \in SUBSET Slots
    PROVE  IsFiniteSet(S) /\ Cardinality(S) \in Nat /\ Cardinality(S) <= NumSlots
<1>1. IsFiniteSet(Slots) /\ Cardinality(Slots) = NumSlots
  BY FS_Interval, NumSlotsAssumption DEF Slots
<1>2. IsFiniteSet(S) /\ Cardinality(S) <= Cardinality(Slots)
  BY <1>1, FS_Subset
<1> QED  BY <1>1, <1>2, FS_CardinalityType

LEMMA LeastNat ==
    ASSUME NEW T \in SUBSET Nat, T # {} PROVE \E x \in T : \A y \in T : ~(y < x)
<1>1. PICK x \in T : \A y \in T : <<y, x>> \notin OpToRel(<, Nat)
  BY NatLessThanWellFounded, WFMin
<1>2. ASSUME NEW y \in T, y < x PROVE FALSE
  <2>1. <<y, x>> \in OpToRel(<, Nat)
    BY <1>2 DEF OpToRel
  <2> QED  BY <1>1, <2>1
<1> QED  BY <1>2

Below(S, s) == {t \in S : t < s}

LEMMA NextRank ==
    ASSUME NEW S \in SUBSET Slots, NEW s \in Slots
    PROVE  Cardinality(Below(S, s + 1)) =
               Cardinality(Below(S, s)) + IF s \in S THEN 1 ELSE 0
<1>n. s \in Nat /\ \A t \in S : t \in Nat /\ (t < s + 1 <=> t < s \/ t = s)
  BY DEF Slots
<1>1. CASE s \in S
  <2>1. Below(S, s + 1) = Below(S, s) \cup {s} /\ s \notin Below(S, s)
    <3>1. ASSUME NEW t \in S PROVE t \in Below(S, s + 1) <=> t \in Below(S, s) \cup {s}
      BY <1>n, <3>1 DEF Below
    <3>2. Below(S, s + 1) \subseteq S /\ Below(S, s) \cup {s} \subseteq S
      BY <1>1 DEF Below
    <3>3. s \notin Below(S, s)  BY <1>n DEF Below
    <3> QED  BY <3>1, <3>2, <3>3
  <2>2. IsFiniteSet(Below(S, s))
    BY SlotSets DEF Below
  <2>3. Cardinality(Below(S, s) \cup {s}) = Cardinality(Below(S, s)) + 1
    BY <2>1, <2>2, FS_AddElement
  <2> QED  BY <1>1, <2>1, <2>3
<1>2. CASE s \notin S
  <2>1. Below(S, s + 1) = Below(S, s)
    <3>1. ASSUME NEW t \in S PROVE t \in Below(S, s + 1) <=> t \in Below(S, s)
      BY <1>n, <1>2, <3>1 DEF Below
    <3>2. Below(S, s + 1) \subseteq S /\ Below(S, s) \subseteq S
      BY DEF Below
    <3> QED  BY <3>1, <3>2
  <2>2. Cardinality(Below(S, s)) \in Nat
    BY SlotSets DEF Below
  <2> QED  BY <1>2, <2>1, <2>2
<1> QED  BY <1>1, <1>2

\* Every rank below the size of a set of slots is that of one of its members.
LEMMA RankTaken ==
    ASSUME NEW S \in SUBSET Slots, NEW i \in Nat, i < Cardinality(S)
    PROVE  \E s \in S : Cardinality(Below(S, s)) = i
<1> DEFINE T == {n \in 0 .. NumSlots : i < Cardinality(Below(S, n))}
<1>1. \A n \in 0 .. NumSlots : Cardinality(Below(S, n)) \in Nat
  BY SlotSets DEF Below
<1>2. Below(S, NumSlots) = S /\ Below(S, 0) = {}
  <2>1. \A t \in S : t < NumSlots /\ ~(t < 0)
    BY NumSlotsAssumption DEF Slots
  <2> QED  BY <2>1 DEF Below
<1>3. NumSlots \in T /\ T \in SUBSET Nat
  BY <1>2, NumSlotsAssumption
<1>4. PICK n \in T : \A m \in T : ~(m < n)
  <2> HIDE DEF T
  <2> QED  BY <1>3, LeastNat
<1>5. n # 0
  BY <1>2, FS_EmptySet
<1>6. n - 1 \in Slots /\ n - 1 \notin T /\ (n - 1) + 1 = n /\ n - 1 \in 0 .. NumSlots
  BY <1>4, <1>5, NumSlotsAssumption DEF Slots
<1>7. Cardinality(Below(S, n)) = Cardinality(Below(S, n - 1)) + IF n - 1 \in S THEN 1 ELSE 0
  BY <1>6, NextRank
<1> QED  BY <1>1, <1>6, <1>7

\* A padded list of slots holds slots, and its first entries those of the set.
LEMMA PaddedList ==
    ASSUME NEW S \in SUBSET Slots
    PROVE  /\ Padded(S) \in [Slots -> Slots \cup {Blank}]
           /\ \A i \in Slots : i < Cardinality(S) => Padded(S)[i] \in S
<1>1. ASSUME NEW i \in Slots
      PROVE  /\ Padded(S)[i] \in S \cup {Blank}
             /\ i < Cardinality(S) => Padded(S)[i] \in S
  <2>1. CASE \E s \in S : Cardinality(Below(S, s)) = i
    <3>1. Padded(S)[i] = CHOOSE s \in S : Cardinality(Below(S, s)) = i
      BY <2>1 DEF Padded, Below
    <3> QED  BY <2>1, <3>1
  <2>2. CASE ~\E s \in S : Cardinality(Below(S, s)) = i
    <3>1. Padded(S)[i] = Blank
      BY <2>2 DEF Padded, Below
    <3>2. ~(i < Cardinality(S))
      BY <2>2, RankTaken DEF Slots
    <3> QED  BY <3>1, <3>2
  <2> QED  BY <2>1, <2>2
<1>2. Padded(S) = [i \in Slots |-> Padded(S)[i]]
  BY DEF Padded
<1> QED  BY <1>1, <1>2

-----------------------------------------------------------------------------
(* The functions of the module on typed statics *)

LEMMA AirTypes ==
    /\ Off \in Airs /\ Connectable \in Airs /\ Connectable # Off
    /\ Off.kind = "off" /\ Off.type = "UID"
    /\ Connectable.kind = "conn" /\ Connectable.type = "UID"
BY ZeroSlot DEF Off, Connectable, Airs, FrameTypes

LEMMA BootTypes ==
    /\ PoweredUp \in Statics /\ PoweredUp.air = Off /\ PoweredUp.timers = {}
    /\ PoweredUp.conn = FALSE /\ PoweredUp.link = FALSE /\ PoweredUp.failed = FALSE
    /\ Idle \in MainStates /\ Idle.at = "idle"
    /\ Idle.slot = 0 /\ PoweredUp.counter = 0
BY ZeroSlot, AirTypes DEF PoweredUp, Statics, Timers, Idle, MainStates, Positions

SlotsTyped == slots \in [Slots -> SlotStates]

LEMMA SlotSubsets ==
    /\ ConfiguredSlots \in SUBSET Slots /\ EidSlots \in SUBSET Slots
    /\ EidSlots # {} => 0 < Cardinality(EidSlots)
<1>1. EidSlots \in SUBSET Slots /\ ConfiguredSlots \in SUBSET Slots
  BY DEF ConfiguredSlots, EidSlots
<1>2. Cardinality(EidSlots) = 0 <=> EidSlots = {}
  BY <1>1, SlotSets, FS_EmptySet
<1> QED  BY <1>1, <1>2, SlotSets

\* Of a slot its state is read; of what lies beyond the slots, some state.
LEMMA ParamTypes ==
    ASSUME SlotsTyped, NEW s, NEW p \in Params(s)
    PROVE  /\ p.type \in FrameTypes /\ p.conf \in BOOLEAN /\ p.valid \in BOOLEAN
           /\ s \in Slots => p = slots[s]
BY ZeroSlot DEF Params, SlotsTyped, SlotStates

\* b differs from a in no more than the timers, the radio and the pairing.
SameUse(a, b) == b.conn = a.conn /\ b.link = a.link /\ b.failed = a.failed

LEMMA TimerTypes ==
    ASSUME NEW a \in Statics, NEW t \in Timers
    PROVE  /\ TimerStart(a, t) \in Statics /\ TimerStop(a, t) \in Statics
           /\ TimerStart(a, t) = [a EXCEPT !.timers = a.timers \cup {t}]
           /\ TimerStop(a, t) = [a EXCEPT !.timers = a.timers \ {t}]
BY DEF TimerStart, TimerStop, Statics

LEMMA HaltTypes ==
    ASSUME NEW a \in Statics
    PROVE  LET b == AllAdvertisingHalt(a)
           IN  /\ b \in Statics /\ SameUse(a, b) /\ b.timers = {} /\ b.air = Off
               /\ b.counter = a.counter
BY AirTypes DEF AllAdvertisingHalt, AdvStop, Statics, SameUse

LEMMA IntervalTypes ==
    ASSUME NEW a \in Statics
    PROVE  LET b == AdvIntervalTimerStart(a)
           IN  /\ b \in Statics /\ SameUse(a, b) /\ b.air = a.air
               /\ b.timers = a.timers \cup {"interval"}
               /\ b.temp = a.temp /\ b.positions = a.positions
               /\ b.eidCounter = a.eidCounter /\ b.counter = a.counter
<1>1. Padded(ConfiguredSlots) \in [Slots -> Slots \cup {Blank}]
  BY SlotSubsets, PaddedList
<1> QED  BY <1>1 DEF AdvIntervalTimerStart, TimerStart, IntervalsCalculate, Statics,
                     SameUse, Timers

LEMMA StopTypes ==
    ASSUME NEW a \in Statics
    PROVE  /\ AdvStop(a) \in Statics /\ SameUse(a, AdvStop(a)) /\ AdvStop(a).air = Off
           /\ AdvStop(a).timers = a.timers /\ AdvStop(a).temp = a.temp
           /\ AdvStop(a).positions = a.positions /\ AdvStop(a).eidCounter = a.eidCounter
           /\ AdvStop(a).counter = a.counter
BY AirTypes DEF AdvStop, Statics, SameUse

\* An error check that has failed finds the radio off.
Silent(a) == a.failed => a.air = Off
\* What the handlers of the slots leave alone.
Keeps(a, b) ==
    /\ b \in Statics /\ b.conn = a.conn /\ b.link = a.link
    /\ a.timers \ {"etlm"} \subseteq b.timers
    /\ Silent(a) => Silent(b)

LEMMA KeepsTwice ==
    ASSUME NEW a, NEW b, NEW c, Keeps(a, b), Keeps(b, c) PROVE Keeps(a, c)
BY DEF Keeps

\* A frame is that of a slot that is configured, of the type the slot has and,
\* when it is an eTLM frame, paired with an EID.
FrameOK(f) ==
    /\ f.kind = "frame" =>
          /\ slots[f.slot].conf
          /\ slots[f.slot].type = IF f.type = "eTLM" THEN "TLM" ELSE f.type
    /\ f.type = "eTLM" => f.pair \in EidSlots

\* The statics are ready for an eTLM frame of slot s; of the slot of a cycle.
ReadyFor(a, s) ==
    /\ s \in Slots /\ slots[s].conf
    /\ slots[s].type = "TLM" /\ EidSlots # {} =>
          a.positions = Padded(EidSlots) /\ a.eidCounter < Cardinality(EidSlots)
CanPair(a) ==
    /\ a.temp \in Slots /\ slots[a.temp].conf /\ slots[a.temp].type = "TLM"
    /\ EidSlots # {} /\ a.positions = Padded(EidSlots)

LEMMA FetchedTypes ==
    ASSUME SlotsTyped, NEW a \in Statics, NEW s \in SlotNumbers, NEW p \in Params(s)
    PROVE  /\ Fetched(a, s, p) \in Airs /\ Fetched(a, s, p).kind = "frame"
           /\ Fetched(a, s, p).slot = s
           /\ ReadyFor(a, s) => FrameOK(Fetched(a, s, p))
<1>1. p.type \in FrameTypes /\ (s \in Slots => p = slots[s])  BY ParamTypes
<1>2. a.positions \in [Slots -> Slots \cup {Blank}] /\ a.eidCounter \in Nat
  BY DEF Statics
<1>3. (IF a.eidCounter \in Slots THEN a.positions[a.eidCounter] ELSE Blank)
         \in Slots \cup {Blank}
  BY <1>2
<1>4. /\ Fetched(a, s, p) \in Airs /\ Fetched(a, s, p).kind = "frame"
      /\ Fetched(a, s, p).slot = s
  BY <1>1, <1>3 DEF Fetched, Airs
<1>5. ASSUME ReadyFor(a, s) PROVE FrameOK(Fetched(a, s, p))
  <2>s. s \in Slots /\ p = slots[s]  BY <1>1, <1>5 DEF ReadyFor
  <2>1. CASE p.type = "TLM" /\ EidSlots # {}
    <3>1. a.positions = Padded(EidSlots) /\ a.eidCounter < Cardinality(EidSlots)
      BY <1>5, <2>s, <2>1 DEF ReadyFor
    <3>2. a.eidCounter \in Slots
      BY <1>2, <3>1, SlotSubsets, SlotSets, NumSlotsAssumption DEF Slots
    <3>3. a.positions[a.eidCounter] \in EidSlots
      BY <3>1, <3>2, SlotSubsets, PaddedList
    <3> QED  BY <1>5, <2>s, <2>1, <3>2, <3>3 DEF Fetched, FrameOK, ReadyFor
  <2>2. CASE ~(p.type = "TLM" /\ EidSlots # {})
    <3>1. p.type # "eTLM"  BY <1>1 DEF FrameTypes
    <3> QED  BY <1>5, <2>s, <2>2, <3>1 DEF Fetched, FrameOK, ReadyFor
  <2> QED  BY <2>1, <2>2
<1> QED  BY <1>4, <1>5

LEMMA CheckedTypes ==
    ASSUME SlotsTyped, NEW a \in Statics, a.air = Off, NEW s, NEW p \in Params(s)
    PROVE  LET b == FetchChecked(a, p)
           IN  /\ Keeps(a, b) /\ b.air = Off /\ b.timers = a.timers /\ b.temp = a.temp
               /\ b.positions = a.positions /\ b.eidCounter = a.eidCounter
               /\ b.counter = a.counter
<1>1. (a.failed \/ FrameFails(p)) \in BOOLEAN
  BY ParamTypes DEF FrameFails, Statics
<1>f. PICK f \in BOOLEAN : f = (a.failed \/ FrameFails(p))
  BY <1>1
<1>2. FetchChecked(a, p) = [a EXCEPT !.failed = f]
  BY <1>f DEF FetchChecked
<1> QED  BY <1>2 DEF Keeps, Silent, Statics

LEMMA StartTypes ==
    ASSUME NEW a \in Statics, a.air = Off, NEW f \in Airs
    PROVE  LET b == AdvStart(a, f)
           IN  /\ Keeps(a, b) /\ b.failed = a.failed
               /\ b.air = IF a.failed THEN Off ELSE f
               /\ b.timers = a.timers
               /\ b.temp = a.temp /\ b.positions = a.positions
               /\ b.eidCounter = a.eidCounter /\ b.counter = a.counter
BY DEF AdvStart, Keeps, Silent, Statics

LEMMA AdvertiseTypes ==
    ASSUME SlotsTyped, NEW a \in Statics, a.air = Off,
           NEW s \in SlotNumbers, NEW p \in Params(s)
    PROVE  LET b == Advertise(a, s, p)
           IN  /\ Keeps(a, b) /\ b.timers = a.timers /\ b.temp = a.temp
               /\ b.positions = a.positions /\ b.eidCounter = a.eidCounter
               /\ b.counter = a.counter
               /\ ReadyFor(a, s) => FrameOK(b.air)
<1> DEFINE c == FetchChecked(a, p)
           f == Fetched(a, s, p)
           b == AdvStart(c, f)
<1>1. /\ Keeps(a, c) /\ c.air = Off /\ c.timers = a.timers /\ c.temp = a.temp
      /\ c.positions = a.positions /\ c.eidCounter = a.eidCounter
      /\ c.counter = a.counter
  BY CheckedTypes
<1>2. f \in Airs /\ (ReadyFor(a, s) => FrameOK(f))
  BY FetchedTypes
<1>3. Advertise(a, s, p) = b  BY DEF Advertise
<1>4. c \in Statics  BY <1>1 DEF Keeps
<1> HIDE DEF c, f
<1>5. /\ Keeps(c, b) /\ b.air \in {f, Off} /\ b.timers = c.timers
      /\ b.temp = c.temp /\ b.positions = c.positions /\ b.eidCounter = c.eidCounter
      /\ b.counter = c.counter
  BY <1>1, <1>2, <1>4, StartTypes
<1> HIDE DEF b
<1>6. Keeps(a, b)  BY <1>1, <1>5, KeepsTwice
<1>7. FrameOK(Off)  BY AirTypes DEF FrameOK
<1> QED  BY <1>1, <1>2, <1>3, <1>5, <1>6, <1>7

LEMMA CycleTypes ==
    ASSUME SlotsTyped, NEW a \in Statics, NEW p \in Params(a.temp)
    PROVE  LET b == EtlmCycleTimeout(a, p)
           IN  /\ Keeps(a, b) /\ b.temp = a.temp /\ b.positions = a.positions
               /\ b.counter = a.counter
               /\ CanPair(a) => FrameOK(b.air)
<1>1. a.temp \in SlotNumbers /\ a.eidCounter \in Nat /\ Cardinality(EidSlots) \in Nat
  BY SlotSubsets, SlotSets DEF Statics
<1>2. CASE CycleOver(a)
  <2>1. EtlmCycleTimeout(a, p) =
           [a EXCEPT !.air = Off, !.eidCounter = 0, !.timers = a.timers \ {"etlm"}]
    BY <1>2 DEF EtlmCycleTimeout, EndCycle, TimerStop, AdvStop, Statics
  <2>2. LET b == [a EXCEPT !.air = Off, !.eidCounter = 0, !.timers = a.timers \ {"etlm"}]
        IN  /\ Keeps(a, b) /\ b.temp = a.temp /\ b.positions = a.positions /\ b.air = Off
            /\ b.counter = a.counter
    BY AirTypes DEF Keeps, Silent, Statics
  <2> QED  BY <2>1, <2>2, AirTypes DEF FrameOK
<1>3. CASE ~CycleOver(a)
  <2> DEFINE c == AdvStop(a)
             d == Advertise(c, a.temp, p)
  <2>1. /\ c \in Statics /\ SameUse(a, c) /\ c.air = Off
        /\ c.timers = a.timers /\ c.temp = a.temp
        /\ c.positions = a.positions /\ c.eidCounter = a.eidCounter
        /\ c.counter = a.counter
    BY StopTypes
  <2>2. EtlmCycleTimeout(a, p) = [d EXCEPT !.eidCounter = d.eidCounter + 1]
    BY <1>3 DEF EtlmCycleTimeout
  <2> HIDE DEF c
  <2>3. /\ Keeps(c, d) /\ d.timers = c.timers /\ d.temp = c.temp
        /\ d.positions = c.positions /\ d.eidCounter = c.eidCounter
        /\ d.counter = c.counter
        /\ ReadyFor(c, a.temp) => FrameOK(d.air)
    BY <1>1, <2>1, AdvertiseTypes
  <2> HIDE DEF d
  <2>4. CanPair(a) => ReadyFor(c, a.temp)
    BY <1>1, <1>3, <2>1 DEF CanPair, ReadyFor, CycleOver
  <2>5. Keeps(a, d) /\ d \in Statics
    BY <2>1, <2>3 DEF Keeps, Silent, SameUse
  <2>6. LET b == [d EXCEPT !.eidCounter = d.eidCounter + 1]
        IN  /\ Keeps(d, b) /\ b.temp = d.temp /\ b.positions = d.positions /\ b.air = d.air
            /\ b.counter = d.counter
    BY <2>5 DEF Keeps, Silent, Statics
  <2> QED  BY <2>1, <2>2, <2>3, <2>4, <2>5, <2>6, KeepsTwice
<1> QED  BY <1>2, <1>3

LEMMA BeginTypes ==
    ASSUME NEW a \in Statics, NEW s \in SlotNo(a)
    PROVE  LET b == BeginSlot(a, s)
           IN  /\ Keeps(a, b) /\ b.timers = a.timers /\ b.temp = a.temp
               /\ b.positions = a.positions /\ b.eidCounter = 0 /\ b.failed = a.failed
               /\ b.counter = a.counter
               /\ b.air = IF s = Blank THEN a.air ELSE Off
               /\ s \in SlotNumbers \cup {Blank}
               /\ a.counter \in Slots => s \in Slots \cup {Blank}
<1>1. /\ s \in SlotNumbers \cup {Blank}
      /\ a.counter \in Slots => s \in Slots \cup {Blank}
  BY ZeroSlot DEF SlotNo, Statics
<1> QED  BY <1>1, AirTypes DEF BeginSlot, Keeps, Silent, Statics

LEMMA PairTypes ==
    ASSUME NEW a \in Statics, NEW p
    PROVE  LET b == Paired(a, p)
           IN  /\ Keeps(a, b) /\ b.timers = a.timers /\ b.temp = a.temp
               /\ b.eidCounter = a.eidCounter /\ b.air = a.air /\ b.failed = a.failed
               /\ b.counter = a.counter
               /\ b.positions \in {a.positions, Padded(EidSlots)}
               /\ p.type = "TLM" => b.positions = Padded(EidSlots)
<1>1. Padded(EidSlots) \in [Slots -> Slots \cup {Blank}]
  BY SlotSubsets, PaddedList
<1> QED  BY <1>1 DEF Paired, Keeps, Silent, Statics

LEMMA BeginCycleTypes ==
    ASSUME NEW a \in Statics, NEW s \in SlotNumbers
    PROVE  LET b == BeginCycle(a, s)
           IN  /\ Keeps(a, b) /\ b.timers \subseteq a.timers \cup {"etlm"} /\ b.temp = s
               /\ b.positions = a.positions /\ b.eidCounter = a.eidCounter
               /\ b.air = a.air /\ b.failed = a.failed /\ b.counter = a.counter
<1> DEFINE c == [a EXCEPT !.temp = s]
<1>1. c \in Statics /\ Keeps(a, c) /\ c.temp = s /\ c.timers = a.timers
      /\ c.positions = a.positions /\ c.eidCounter = a.eidCounter
      /\ c.air = a.air /\ c.failed = a.failed /\ c.counter = a.counter
  BY DEF Keeps, Silent, Statics
<1>2. BeginCycle(a, s) = IF c.etlmGap THEN [c EXCEPT !.timers = c.timers \cup {"etlm"}] ELSE c
  BY DEF BeginCycle, TimerStart
<1> HIDE DEF c
<1>3. LET b == [c EXCEPT !.timers = c.timers \cup {"etlm"}]
      IN  /\ Keeps(c, b) /\ b.timers = c.timers \cup {"etlm"} /\ b.temp = c.temp
          /\ b.positions = c.positions /\ b.eidCounter = c.eidCounter
          /\ b.air = c.air /\ b.failed = c.failed /\ b.counter = c.counter
  BY <1>1 DEF Keeps, Silent, Statics, Timers
<1> QED  BY <1>1, <1>2, <1>3, KeepsTwice

LEMMA ListTypes ==
    ASSUME NEW a \in Statics
    PROVE  LET b == Listed(a)
           IN  /\ b = [a EXCEPT !.configured = Padded(ConfiguredSlots)]
               /\ Keeps(a, b) /\ b.timers = a.timers /\ b.temp = a.temp
               /\ b.positions = a.positions /\ b.eidCounter = a.eidCounter
               /\ b.air = a.air /\ b.failed = a.failed /\ b.counter = a.counter
BY SlotSubsets, PaddedList DEF Listed, Keeps, Silent, Statics

LEMMA SlotTimerTypes ==
    ASSUME NEW a \in Statics
    PROVE  LET b == AdvSlotTimerStart(a)
           IN  /\ Keeps(a, b) /\ b.timers \subseteq a.timers \cup {"slot"}
               /\ b.temp = a.temp
               /\ b.positions = a.positions /\ b.eidCounter = a.eidCounter
               /\ b.air = a.air /\ b.failed = a.failed /\ b.counter = a.counter
<1>1. "slot" \in Timers /\ a.slotGap \in BOOLEAN  BY DEF Timers, Statics
<1>2. CASE a.slotGap
  <2>1. AdvSlotTimerStart(a) = [a EXCEPT !.timers = a.timers \cup {"slot"}]
    BY <1>1, <1>2, TimerTypes DEF AdvSlotTimerStart
  <2> QED  BY <1>1, <2>1 DEF Keeps, Silent, Statics
<1>3. CASE ~a.slotGap
  BY <1>3 DEF AdvSlotTimerStart, Keeps
<1> QED  BY <1>1, <1>2, <1>3

\* The size of the list ends it: a number of slots is never past it.
LEMMA EndsAt ==
    /\ \A c \in Nat : Ends(c) \in BOOLEAN /\ (~Ends(c) => c \in Slots)
    /\ Ends(NumSlots)
BY SlotSubsets, SlotSets, NumSlotsAssumption DEF Ends, Slots

LEMMA EndTypes ==
    ASSUME NEW a \in Statics
    PROVE  LET b == EndSlot(a)
           IN  /\ Keeps(a, b) /\ b.timers \subseteq a.timers \cup {"slot"} /\ b.temp = a.temp
               /\ b.positions = a.positions /\ b.eidCounter = a.eidCounter
               /\ b.air = a.air /\ b.failed = a.failed /\ b.counter \in Slots
<1>n. PICK n \in Nat : n = a.counter + 1
  BY NumSlotsAssumption DEF Statics
<1>c. PICK c \in Statics : c = Listed(a)  BY ListTypes DEF Keeps
<1>1. /\ Keeps(a, c) /\ c.timers = a.timers /\ c.temp = a.temp
      /\ c.positions = a.positions /\ c.eidCounter = a.eidCounter
      /\ c.air = a.air /\ c.failed = a.failed /\ c.counter = a.counter
  BY <1>c, ListTypes
<1>2. EndSlot(a) = IF Ends(n) THEN Wrapped([c EXCEPT !.counter = n])
                   ELSE AdvSlotTimerStart([c EXCEPT !.counter = n])
  BY <1>n, <1>c DEF EndSlot
<1>3. CASE Ends(n)
  <2>1. EndSlot(a) = [c EXCEPT !.counter = 0]
    BY <1>2, <1>3 DEF Wrapped, Statics
  <2>2. LET b == [c EXCEPT !.counter = 0]
        IN  /\ Keeps(c, b) /\ b.timers = c.timers /\ b.temp = c.temp
            /\ b.positions = c.positions /\ b.eidCounter = c.eidCounter
            /\ b.air = c.air /\ b.failed = c.failed /\ b.counter \in Slots
    BY ZeroSlot DEF Keeps, Silent, Statics
  <2> QED  BY <1>1, <2>1, <2>2, KeepsTwice
<1>4. CASE ~Ends(n)
  <2>1. n \in Slots /\ n \in 0 .. NumSlots
    BY <1>4, EndsAt, NumSlotsAssumption DEF Slots
  <2>d. PICK d \in Statics : d = [c EXCEPT !.counter = n]
    BY <2>1 DEF Statics
  <2>2. /\ Keeps(c, d) /\ d.timers = c.timers /\ d.temp = c.temp
        /\ d.positions = c.positions /\ d.eidCounter = c.eidCounter
        /\ d.air = c.air /\ d.failed = c.failed /\ d.counter = n
    BY <2>d DEF Keeps, Silent, Statics
  <2>b. PICK b : b = AdvSlotTimerStart(d)  OBVIOUS
  <2>3. /\ Keeps(d, b) /\ b.timers \subseteq d.timers \cup {"slot"}
        /\ b.temp = d.temp /\ b.positions = d.positions /\ b.eidCounter = d.eidCounter
        /\ b.air = d.air /\ b.failed = d.failed /\ b.counter = d.counter
    BY <2>b, SlotTimerTypes
  <2>4. EndSlot(a) = b  BY <1>2, <1>4, <2>b, <2>d
  <2>5. Keeps(a, b)  BY <1>1, <2>2, <2>3, KeepsTwice
  <2> QED  BY <1>1, <2>1, <2>2, <2>3, <2>4, <2>5
<1> QED  BY <1>3, <1>4

\* What a slot that is due makes of the statics.
Turn(b, s, p) ==
    IF ~OnAir(b, p) THEN b
    ELSE IF PairsWithEids(p) THEN EtlmCycleTimeout(BeginCycle(Paired(b, p), s), p)
    ELSE Advertise(Paired(b, p), s, p)

LEMMA TurnTypes ==
    ASSUME SlotsTyped, NEW a \in Statics, a.air = Off, a.eidCounter = 0,
           NEW s \in SlotNumbers, NEW p \in Params(s)
    PROVE  LET b == Turn(a, s, p)
           IN  /\ Keeps(a, b)
               /\ s \in Slots =>
                    /\ FrameOK(b.air)
                    /\ ("etlm" \in a.timers => CanPair(a))
                            => ("etlm" \in b.timers => CanPair(b))
<1>0. p.type \in FrameTypes /\ p.conf \in BOOLEAN /\ (s \in Slots => p = slots[s])
  BY ParamTypes
<1>1. CASE ~OnAir(a, p)
  BY <1>1, AirTypes DEF Turn, Keeps, FrameOK
<1>p. PICK q \in Statics : q = Paired(a, p)
  BY PairTypes DEF Keeps
<1>2. /\ Keeps(a, q) /\ q.timers = a.timers /\ q.temp = a.temp
      /\ q.eidCounter = 0 /\ q.air = Off
      /\ q.positions \in {a.positions, Padded(EidSlots)}
      /\ p.type = "TLM" => q.positions = Padded(EidSlots)
  BY <1>p, PairTypes
<1>3. CanPair(a) => CanPair(q)
  BY <1>2 DEF CanPair
<1>4. CASE OnAir(a, p) /\ PairsWithEids(p)
  <2>c. PICK c \in Statics : c = BeginCycle(q, s)
    BY BeginCycleTypes DEF Keeps
  <2>1. /\ Keeps(q, c) /\ c.temp = s /\ c.positions = q.positions
        /\ c.eidCounter = 0 /\ c.air = Off
    BY <1>2, <2>c, BeginCycleTypes
  <2>2. s \in Slots => CanPair(c)
    BY <1>0, <1>2, <1>4, <2>1 DEF CanPair, OnAir, PairsWithEids
  <2>b. PICK b : b = EtlmCycleTimeout(c, p)  OBVIOUS
  <2>3. /\ Keeps(c, b) /\ b.temp = c.temp /\ b.positions = c.positions
        /\ CanPair(c) => FrameOK(b.air)
    BY <2>1, <2>b, CycleTypes
  <2>4. Turn(a, s, p) = b
    BY <1>4, <1>p, <2>b, <2>c DEF Turn
  <2>5. CanPair(c) => CanPair(b)  BY <2>3 DEF CanPair
  <2>6. Keeps(a, b)  BY <1>2, <2>1, <2>3, KeepsTwice
  <2> QED  BY <2>2, <2>3, <2>4, <2>5, <2>6
<1>5. CASE OnAir(a, p) /\ ~PairsWithEids(p)
  <2>b. PICK b : b = Advertise(q, s, p)  OBVIOUS
  <2>1. s \in Slots => ReadyFor(q, s)
    BY <1>0, <1>5 DEF ReadyFor, OnAir, PairsWithEids
  <2>2. /\ Keeps(q, b) /\ b.timers = q.timers /\ b.temp = q.temp
        /\ b.positions = q.positions /\ (ReadyFor(q, s) => FrameOK(b.air))
    BY <1>2, <2>b, AdvertiseTypes
  <2>3. Turn(a, s, p) = b
    BY <1>5, <1>p, <2>b DEF Turn
  <2>4. CanPair(q) => CanPair(b)
    BY <2>2 DEF CanPair
  <2>5. Keeps(a, b)  BY <1>2, <2>2, KeepsTwice
  <2> QED  BY <1>2, <1>3, <2>1, <2>2, <2>3, <2>4, <2>5
<1> QED  BY <1>1, <1>4, <1>5

LEMMA TimeoutTypes ==
    ASSUME SlotsTyped, NEW a \in Statics, NEW s \in SlotNo(a), NEW p \in Params(s)
    PROVE  LET b == AdvSlotTimeout(a, s, p)
           IN  /\ Keeps(a, b) /\ b.counter \in Slots
               /\ a.counter \in Slots /\ FrameOK(a.air)
                  /\ ("etlm" \in a.timers => CanPair(a)) =>
                     FrameOK(b.air) /\ ("etlm" \in b.timers => CanPair(b))
<1>b. PICK b \in Statics : b = BeginSlot(a, s)
  BY BeginTypes DEF Keeps
<1>1. /\ Keeps(a, b) /\ b.timers = a.timers /\ b.temp = a.temp
      /\ b.positions = a.positions /\ b.eidCounter = 0
      /\ b.air = IF s = Blank THEN a.air ELSE Off
      /\ s \in SlotNumbers \cup {Blank}
      /\ a.counter \in Slots => s \in Slots \cup {Blank}
  BY <1>b, BeginTypes
<1>c. PICK c : c = IF s = Blank THEN b ELSE Turn(b, s, p)  OBVIOUS
<1>2. AdvSlotTimeout(a, s, p) = EndSlot(c)
  BY <1>b, <1>c DEF AdvSlotTimeout, Turn
<1>3. /\ Keeps(b, c)
      /\ a.counter \in Slots /\ FrameOK(a.air) /\ ("etlm" \in a.timers => CanPair(a)) =>
            FrameOK(c.air) /\ ("etlm" \in c.timers => CanPair(c))
  <2>1. CanPair(a) => CanPair(b)  BY <1>1 DEF CanPair
  <2>2. CASE s = Blank
    BY <1>1, <1>c, <2>1, <2>2 DEF Keeps
  <2>3. CASE s # Blank
    <3>1. s \in SlotNumbers /\ b.air = Off /\ c = Turn(b, s, p)
      BY <1>1, <1>c, <2>3
    <3>2. /\ Keeps(b, c)
          /\ s \in Slots =>
               /\ FrameOK(c.air)
               /\ ("etlm" \in b.timers => CanPair(b)) => ("etlm" \in c.timers => CanPair(c))
      BY <1>1, <3>1, TurnTypes
    <3> QED  BY <1>1, <2>1, <2>3, <3>2
  <2> QED  BY <2>2, <2>3
<1>4. c \in Statics  BY <1>3 DEF Keeps
<1>e. PICK e : e = EndSlot(c)  OBVIOUS
<1>5. /\ Keeps(c, e) /\ e.timers \subseteq c.timers \cup {"slot"} /\ e.temp = c.temp
      /\ e.positions = c.positions /\ e.air = c.air /\ e.counter \in Slots
  BY <1>4, <1>e, EndTypes
<1>6. Keeps(a, e)  BY <1>1, <1>3, <1>5, KeepsTwice
<1>7. CanPair(c) => CanPair(e)  BY <1>5 DEF CanPair
<1> QED  BY <1>2, <1>3, <1>5, <1>6, <1>7, <1>e

LEMMA SlotsStart ==
    ASSUME SlotsTyped, NEW a \in Statics, SlotsAdvertisingStart(a)
    PROVE  /\ Keeps(a, adv') /\ "interval" \in adv'.timers /\ adv'.counter \in Slots
           /\ a.counter \in Slots /\ FrameOK(a.air)
              /\ ("etlm" \in a.timers => CanPair(a)) =>
                 FrameOK(adv'.air) /\ ("etlm" \in adv'.timers => CanPair(adv'))
<1>c. PICK c \in Statics : c = AdvIntervalTimerStart(a)
  BY IntervalTypes
<1>1. /\ SameUse(a, c) /\ c.air = a.air /\ c.timers = a.timers \cup {"interval"}
      /\ c.temp = a.temp /\ c.positions = a.positions /\ c.counter = a.counter
  BY <1>c, IntervalTypes
<1>2. Keeps(a, c)  BY <1>1 DEF Keeps, Silent, SameUse
<1>s. PICK s \in SlotNo(c) : \E p \in Params(s) : adv' = AdvSlotTimeout(c, s, p)
  BY <1>c DEF SlotsAdvertisingStart
<1>p. PICK p \in Params(s) : adv' = AdvSlotTimeout(c, s, p)
  BY <1>s
<1>3. /\ Keeps(c, adv') /\ adv'.counter \in Slots
      /\ c.counter \in Slots /\ FrameOK(c.air) /\ ("etlm" \in c.timers => CanPair(c)) =>
            FrameOK(adv'.air) /\ ("etlm" \in adv'.timers => CanPair(adv'))
  BY <1>p, TimeoutTypes
<1>5. CanPair(a) => CanPair(c)  BY <1>1 DEF CanPair
<1>6. Keeps(a, adv')  BY <1>2, <1>3, KeepsTwice
<1>7. "interval" \in adv'.timers  BY <1>1, <1>3 DEF Keeps
<1> QED  BY <1>1, <1>3, <1>5, <1>6, <1>7

-----------------------------------------------------------------------------
(* What each action does to the statics and the queue *)

LEMMA Declared ==
    ASSUME TypeOK
    PROVE  /\ SlotsTyped /\ adv \in Statics /\ main \in MainStates /\ queue \in Seq(Events)
           /\ main.slot \in SlotNumbers /\ main.frame \in Airs /\ adv.temp \in SlotNumbers
           /\ main.loaded \in Nat /\ adv.counter \in 0 .. NumSlots
           /\ adv.failed \in BOOLEAN /\ adv.conn \in BOOLEAN /\ adv.link \in BOOLEAN
BY DEF TypeOK, SlotsTyped, MainStates, Statics

LEMMA StartDoes ==
    ASSUME TypeOK, Connected \/ GapTimeout \/ ManagerInit
    PROVE  /\ slots' = slots /\ queue' = queue /\ ~adv.failed
           /\ IF ManagerInit THEN main.at = "init" /\ main' = Idle /\ adv'.conn = adv.conn
              ELSE Free /\ main' = main /\ adv.air = Connectable /\ ~adv'.conn
           /\ adv' \in Statics /\ "interval" \in adv'.timers /\ adv'.counter \in Slots
           /\ Silent(adv')
           /\ adv.counter \in Slots /\ FrameOK(adv.air)
              /\ ("etlm" \in adv.timers => CanPair(adv)) =>
                 FrameOK(adv'.air) /\ ("etlm" \in adv'.timers => CanPair(adv'))
<1>d. SlotsTyped /\ adv \in Statics  BY Declared
<1>1. CASE ManagerInit
  <2>1. SlotsAdvertisingStart(adv) /\ ~adv.failed
    BY <1>1 DEF ManagerInit, Running
  <2>2. /\ Keeps(adv, adv') /\ "interval" \in adv'.timers /\ adv'.counter \in Slots
        /\ adv.counter \in Slots /\ FrameOK(adv.air)
           /\ ("etlm" \in adv.timers => CanPair(adv)) =>
              FrameOK(adv'.air) /\ ("etlm" \in adv'.timers => CanPair(adv'))
    BY <1>d, <2>1, SlotsStart
  <2> QED  BY <1>1, <2>1, <2>2 DEF ManagerInit, Running, Keeps, Silent
<1>2. CASE ~ManagerInit
  <2>a. PICK link \in BOOLEAN :
           SlotsAdvertisingStart([AdvStop(adv) EXCEPT !.conn = FALSE, !.link = link])
    <3>1. CASE Connected
      BY <3>1 DEF Connected
    <3>2. CASE GapTimeout
      <4>1. [AdvStop(adv) EXCEPT !.conn = FALSE] =
               [AdvStop(adv) EXCEPT !.conn = FALSE, !.link = adv.link]
        BY <1>d, StopTypes DEF Statics, SameUse
      <4> QED  BY <1>d, <3>2, <4>1 DEF GapTimeout, Statics
    <3> QED  BY <1>2, <3>1, <3>2
  <2>b. PICK a : a = [AdvStop(adv) EXCEPT !.conn = FALSE, !.link = link]  OBVIOUS
  <2>1. /\ a \in Statics /\ ~a.conn /\ a.air = Off /\ a.timers = adv.timers
        /\ a.temp = adv.temp /\ a.positions = adv.positions /\ a.failed = adv.failed
        /\ a.counter = adv.counter
    BY <1>d, <2>b, StopTypes DEF Statics, SameUse
  <2>2. /\ Keeps(a, adv') /\ "interval" \in adv'.timers /\ adv'.counter \in Slots
        /\ a.counter \in Slots /\ FrameOK(a.air) /\ ("etlm" \in a.timers => CanPair(a)) =>
              FrameOK(adv'.air) /\ ("etlm" \in adv'.timers => CanPair(adv'))
    BY <1>d, <2>a, <2>b, <2>1, SlotsStart
  <2>3. FrameOK(a.air) /\ (CanPair(adv) => CanPair(a))
    BY <2>1, AirTypes DEF FrameOK, CanPair
  <2>4. /\ slots' = slots /\ queue' = queue /\ main' = main /\ ~adv.failed
        /\ Free /\ adv.air = Connectable
    BY <1>2 DEF Connected, GapTimeout, Free
  <2> QED  BY <1>2, <2>1, <2>2, <2>3, <2>4 DEF Keeps, Silent
<1> QED  BY <1>1, <1>2

LEMMA HaltDoes ==
    ASSUME TypeOK, Disconnected \/ \E s \in Slots, w \in Writes : WriteRequest(s, w)
    PROVE  /\ main' = main /\ ~adv.failed /\ Free /\ adv.link
           /\ adv' \in Statics /\ adv'.timers = {"interval"} /\ adv'.air = Off
           /\ adv'.counter = adv.counter
           /\ ~adv'.failed /\ (adv'.conn => adv.conn)
           /\ Disconnected => slots' = slots /\ queue' = queue /\ ~adv'.conn
<1>d. adv \in Statics  BY Declared
<1>1. PICK a \in Statics : /\ adv' = AdvIntervalTimerStart(AllAdvertisingHalt(a))
                           /\ ~a.failed /\ (a.conn => adv.conn)
                           /\ a.counter = adv.counter
                           /\ Disconnected => ~a.conn
  <2>1. CASE Disconnected
    <3>1. PICK a : a = [adv EXCEPT !.link = FALSE, !.conn = FALSE]  OBVIOUS
    <3>2. a \in Statics /\ ~a.failed /\ ~a.conn /\ a.counter = adv.counter
      BY <1>d, <2>1, <3>1 DEF Disconnected, Free, Statics
    <3>3. adv' = AdvIntervalTimerStart(AllAdvertisingHalt(a))
      BY <2>1, <3>1 DEF Disconnected
    <3> QED  BY <3>2, <3>3
  <2>2. CASE ~Disconnected
    <3>1. adv' = AdvIntervalTimerStart(AllAdvertisingHalt(adv)) /\ ~adv.failed
      BY <2>2 DEF WriteRequest, Free
    <3> QED  BY <1>d, <2>2, <3>1
  <2> QED  BY <2>1, <2>2
<1>b. PICK b \in Statics : b = AllAdvertisingHalt(a)
  BY HaltTypes
<1>2. SameUse(a, b) /\ b.timers = {} /\ b.air = Off /\ b.counter = a.counter
  BY <1>b, HaltTypes
<1>3. /\ adv' \in Statics /\ SameUse(b, adv') /\ adv'.air = b.air
      /\ adv'.counter = b.counter
      /\ adv'.timers = b.timers \cup {"interval"}
  BY <1>1, <1>b, IntervalTypes
<1>4. /\ main' = main /\ ~adv.failed /\ Free /\ adv.link
      /\ Disconnected => slots' = slots /\ queue' = queue
  BY DEF Disconnected, WriteRequest, Free
<1> QED  BY <1>1, <1>2, <1>3, <1>4 DEF SameUse

LEMMA EnterDoes ==
    ASSUME TypeOK, IntervalTimeout \/ SlotTimeout
    PROVE  /\ slots' = slots /\ ~adv.failed /\ main.at = "idle"
           /\ queue # <<>> /\ queue' = Tail(queue)
           /\ Keeps(adv, adv') /\ adv'.failed = adv.failed /\ adv'.counter = adv.counter
           /\ adv'.temp = adv.temp /\ adv'.positions = adv.positions
           /\ adv'.eidCounter = 0 /\ adv'.timers \subseteq adv.timers \cup {"interval"}
           /\ IntervalTimeout => "interval" \in adv'.timers
           /\ SlotTimeout => Head(queue).kind = "slot"
           /\ \/ main'.at = "count" /\ adv'.air = adv.air
              \/ /\ main'.at = "choose" /\ adv'.air = Off
                 /\ adv.counter \in Slots => main'.slot \in Slots
           /\ main' \in MainStates
<1>d. adv \in Statics  BY Declared
<1>a. PICK a : /\ a = IF IntervalTimeout THEN AdvIntervalTimerStart(adv) ELSE adv
               /\ EnterSlot(a)
  BY DEF IntervalTimeout, SlotTimeout
<1>1. /\ a \in Statics /\ SameUse(adv, a) /\ a.air = adv.air
      /\ a.timers = adv.timers \cup (IF IntervalTimeout THEN {"interval"} ELSE {})
      /\ a.temp = adv.temp /\ a.positions = adv.positions /\ a.counter = adv.counter
  BY <1>d, <1>a, IntervalTypes DEF SameUse
<1>2. Keeps(adv, a)
  BY <1>1 DEF Keeps, Silent, SameUse
<1>3. PICK s \in SlotNo(a) :
      /\ adv' = BeginSlot(a, s)
      /\ main' = IF s = Blank THEN [Idle EXCEPT !.at = "count"]
                 ELSE [Idle EXCEPT !.at = "choose", !.slot = s, !.then = TRUE]
  BY <1>a DEF EnterSlot
<1>4. /\ Keeps(a, adv') /\ adv'.timers = a.timers /\ adv'.temp = a.temp
      /\ adv'.positions = a.positions /\ adv'.eidCounter = 0 /\ adv'.failed = a.failed
      /\ adv'.air = IF s = Blank THEN a.air ELSE Off
      /\ adv'.counter = a.counter /\ s \in SlotNumbers \cup {Blank}
      /\ a.counter \in Slots => s \in Slots \cup {Blank}
  BY <1>1, <1>3, BeginTypes
<1>5. Keeps(adv, adv')  BY <1>2, <1>4, KeepsTwice
<1>6. /\ main' \in MainStates
      /\ main'.at = IF s = Blank THEN "count" ELSE "choose"
      /\ s # Blank => main'.slot = s
  BY <1>3, <1>4, ZeroSlot, BootTypes DEF Idle, MainStates, Positions
<1>7. /\ slots' = slots /\ ~adv.failed /\ main.at = "idle" /\ queue # <<>>
      /\ queue' = Tail(queue) /\ (SlotTimeout => Head(queue).kind = "slot")
  BY DEF IntervalTimeout, SlotTimeout, Take, Running
<1> QED  BY <1>1, <1>4, <1>5, <1>6, <1>7 DEF SameUse

LEMMA ButtonDoes ==
    ASSUME TypeOK, RegistrationButton
    PROVE  /\ slots' = slots /\ main' = main /\ ~adv.failed /\ main.at = "idle"
           /\ queue # <<>> /\ queue' = Tail(queue) /\ Head(queue).kind = "button"
           /\ \/ adv' = adv /\ (adv.conn \/ adv.link)
              \/ /\ adv' \in Statics /\ ~adv.link /\ adv'.conn /\ ~adv'.link /\ ~adv'.failed
                 /\ adv'.counter = adv.counter
                 /\ adv'.timers = {} /\ adv'.air = Connectable
<1>d. adv \in Statics  BY Declared
<1>1. /\ slots' = slots /\ main' = main /\ ~adv.failed /\ main.at = "idle"
      /\ queue # <<>> /\ queue' = Tail(queue) /\ Head(queue).kind = "button"
  BY DEF RegistrationButton, Take, Running
<1>2. CASE adv.conn \/ adv.link
  BY <1>1, <1>2 DEF RegistrationButton
<1>3. CASE ~adv.conn /\ ~adv.link
  <2>a. PICK a : a = [AllAdvertisingHalt(adv) EXCEPT !.conn = TRUE]  OBVIOUS
  <2>b. PICK b \in Statics : b = AllAdvertisingHalt(adv)
    BY <1>d, HaltTypes
  <2>1. SameUse(adv, b) /\ b.timers = {} /\ b.air = Off /\ b.counter = adv.counter
    BY <1>d, <2>b, HaltTypes
  <2>2. /\ a \in Statics /\ a.conn /\ ~a.link /\ ~a.failed /\ a.timers = {} /\ a.air = Off
        /\ a.counter = adv.counter
    BY <1>1, <1>3, <2>a, <2>b, <2>1 DEF Statics, SameUse
  <2>3. adv' = AdvStart(a, Connectable)
    BY <1>3, <2>a DEF RegistrationButton
  <2>4. /\ Keeps(a, adv') /\ adv'.failed = a.failed /\ adv'.air = Connectable
        /\ adv'.timers = a.timers /\ adv'.counter = a.counter
    BY <2>2, <2>3, AirTypes, StartTypes
  <2> QED  BY <1>1, <1>3, <2>2, <2>4 DEF Keeps
<1> QED  BY <1>2, <1>3

LEMMA ChooseDoes ==
    ASSUME TypeOK, Choose
    PROVE  /\ slots' = slots /\ queue' = queue /\ ~adv.failed /\ main.at = "choose"
           /\ Keeps(adv, adv') /\ adv'.failed = adv.failed /\ adv'.air = adv.air
           /\ adv'.counter = adv.counter
           /\ main' \in MainStates
           /\ \/ main'.at = "count" /\ adv' = adv
              \/ /\ main'.at = "cycle" /\ ~adv.conn
                 /\ main.slot \in Slots => CanPair(adv')
              \/ /\ main'.at = "fetch" /\ main'.slot = main.slot /\ ~adv.conn
                 /\ main.slot \in Slots =>
                      /\ slots[main.slot].conf
                      /\ ~(slots[main.slot].type = "TLM" /\ EidSlots # {})
                 /\ adv'.timers = adv.timers /\ adv'.temp = adv.temp
                 /\ adv'.positions \in {adv.positions, Padded(EidSlots)}
<1>s. PICK s \in SlotNumbers : s = main.slot  BY Declared
<1>d. SlotsTyped /\ adv \in Statics /\ main \in MainStates  BY Declared
<1>1. slots' = slots /\ queue' = queue /\ ~adv.failed /\ main.at = "choose"
  BY DEF Choose, Running
<1>c. PICK p \in Params(s) :
          IF ~OnAir(adv, p)
          THEN main' = [Idle EXCEPT !.at = "count"] /\ adv' = adv
          ELSE IF PairsWithEids(p)
          THEN /\ main' = [main EXCEPT !.at = "cycle", !.cycle = TRUE]
               /\ adv' = BeginCycle(Paired(adv, p), s)
          ELSE main' = [main EXCEPT !.at = "fetch"] /\ adv' = Paired(adv, p)
  BY <1>s DEF Choose
<1>0. s \in Slots => p = slots[s]  BY <1>d, ParamTypes
<1>2. CASE ~OnAir(adv, p)
  <2>1. main' = [Idle EXCEPT !.at = "count"] /\ adv' = adv
    BY <1>c, <1>2
  <2>2. main' \in MainStates /\ main'.at = "count"
    BY <2>1, BootTypes DEF MainStates, Positions
  <2> QED  BY <1>d, <1>1, <2>1, <2>2 DEF Keeps
<1>p. PICK q \in Statics : q = Paired(adv, p)
  BY <1>d, PairTypes DEF Keeps
<1>3. /\ Keeps(adv, q) /\ q.timers = adv.timers /\ q.temp = adv.temp
      /\ q.air = adv.air /\ q.failed = adv.failed /\ q.counter = adv.counter
      /\ q.positions \in {adv.positions, Padded(EidSlots)}
      /\ p.type = "TLM" => q.positions = Padded(EidSlots)
  BY <1>d, <1>p, PairTypes
<1>4. CASE OnAir(adv, p) /\ PairsWithEids(p)
  <2>1. main' = [main EXCEPT !.at = "cycle", !.cycle = TRUE] /\ adv' = BeginCycle(q, s)
    BY <1>p, <1>c, <1>4
  <2>2. /\ Keeps(q, adv') /\ adv'.temp = s /\ adv'.positions = q.positions
        /\ adv'.air = q.air /\ adv'.failed = q.failed /\ adv'.counter = q.counter
    BY <2>1, BeginCycleTypes
  <2>3. s \in Slots => CanPair(adv')
    BY <1>0, <1>3, <1>4, <2>2 DEF CanPair, OnAir, PairsWithEids
  <2>4. main' \in MainStates /\ main'.at = "cycle"
    BY <1>d, <2>1 DEF MainStates, Positions
  <2>5. Keeps(adv, adv')  BY <1>3, <2>2, KeepsTwice
  <2> QED  BY <1>s, <1>1, <1>3, <1>4, <2>2, <2>3, <2>4, <2>5 DEF OnAir
<1>5. CASE OnAir(adv, p) /\ ~PairsWithEids(p)
  <2>1. main' = [main EXCEPT !.at = "fetch"] /\ adv' = q
    BY <1>p, <1>c, <1>5
  <2>2. main' \in MainStates /\ main'.at = "fetch" /\ main'.slot = main.slot
    BY <1>d, <2>1 DEF MainStates, Positions
  <2> QED  BY <1>s, <1>0, <1>1, <1>3, <1>5, <2>1, <2>2 DEF OnAir, PairsWithEids
<1> QED  BY <1>2, <1>4, <1>5

LEMMA AfterTypes ==
    ASSUME main \in MainStates
    PROVE  AfterAir \in MainStates /\ AfterAir.at \in {"count", "idle"}
BY BootTypes DEF AfterAir, Idle, MainStates, Positions

LEMMA CycleDoes ==
    ASSUME TypeOK, Cycle
    PROVE  /\ slots' = slots /\ queue' = queue /\ ~adv.failed /\ main.at = "cycle"
           /\ Keeps(adv, adv') /\ adv'.failed = adv.failed /\ adv'.air = Off
           /\ adv'.counter = adv.counter
           /\ adv'.temp = adv.temp /\ adv'.positions = adv.positions
           /\ adv'.timers \subseteq adv.timers
           /\ main' \in MainStates
           /\ \/ main'.at \in {"count", "idle"}
              \/ /\ main'.at = "fetch" /\ main'.slot = adv.temp
                 /\ adv'.eidCounter < Cardinality(EidSlots)
<1>d. adv \in Statics /\ main \in MainStates /\ adv.temp \in SlotNumbers  BY Declared
<1>1. slots' = slots /\ queue' = queue /\ ~adv.failed /\ main.at = "cycle"
  BY DEF Cycle, Running
<1>2. CASE CycleOver(adv)
  <2>1. /\ adv' = [adv EXCEPT !.air = Off, !.eidCounter = 0, !.timers = adv.timers \ {"etlm"}]
        /\ main' = AfterAir
    BY <1>d, <1>2 DEF Cycle, EndCycle, TimerStop, AdvStop, Statics
  <2>2. LET b == [adv EXCEPT !.air = Off, !.eidCounter = 0, !.timers = adv.timers \ {"etlm"}]
        IN  /\ Keeps(adv, b) /\ b.failed = adv.failed /\ b.air = Off
            /\ b.temp = adv.temp /\ b.positions = adv.positions
            /\ b.timers \subseteq adv.timers /\ b.counter = adv.counter
    BY <1>d, AirTypes DEF Keeps, Silent, Statics
  <2> QED  BY <1>d, <1>1, <2>1, <2>2, AfterTypes
<1>3. CASE ~CycleOver(adv)
  <2>1. adv' = AdvStop(adv) /\ main' = [main EXCEPT !.at = "fetch", !.slot = adv.temp]
    BY <1>3 DEF Cycle
  <2>2. /\ adv' \in Statics /\ SameUse(adv, adv') /\ adv'.air = Off
        /\ adv'.timers = adv.timers /\ adv'.temp = adv.temp
        /\ adv'.positions = adv.positions /\ adv'.eidCounter = adv.eidCounter
        /\ adv'.counter = adv.counter
    BY <1>d, <2>1, StopTypes
  <2>3. main' \in MainStates /\ main'.at = "fetch" /\ main'.slot = adv.temp
    BY <1>d, <2>1 DEF MainStates, Positions
  <2>4. adv'.eidCounter < Cardinality(EidSlots)
    BY <1>d, <1>3, <2>2, SlotSubsets, SlotSets DEF CycleOver, Statics
  <2> QED  BY <1>1, <2>2, <2>3, <2>4 DEF Keeps, Silent, SameUse
<1> QED  BY <1>2, <1>3

LEMMA FetchDoes ==
    ASSUME TypeOK, Fetch, adv.air = Off
    PROVE  /\ slots' = slots /\ queue' = queue /\ ~adv.failed /\ main.at = "fetch"
           /\ Keeps(adv, adv') /\ adv'.air = Off /\ adv'.timers = adv.timers
           /\ adv'.temp = adv.temp /\ adv'.positions = adv.positions
           /\ adv'.counter = adv.counter
           /\ main' \in MainStates /\ main'.at = "start"
           /\ main'.frame.kind = "frame"
           /\ ReadyFor(adv, main.slot) => FrameOK(main'.frame)
<1>s. PICK s \in SlotNumbers : s = main.slot  BY Declared
<1>d. SlotsTyped /\ adv \in Statics /\ main \in MainStates  BY Declared
<1>1. PICK p \in Params(s) :
      /\ slots' = slots /\ queue' = queue /\ ~adv.failed /\ main.at = "fetch"
      /\ adv' = FetchChecked(adv, p)
      /\ main' = [main EXCEPT !.at = "start", !.frame = Fetched(adv, s, p)]
  BY <1>s DEF Fetch, Running
<1>2. /\ Keeps(adv, adv') /\ adv'.air = Off /\ adv'.timers = adv.timers
      /\ adv'.temp = adv.temp /\ adv'.positions = adv.positions
      /\ adv'.counter = adv.counter
  BY <1>d, <1>1, CheckedTypes
<1>f. PICK f \in Airs : f = Fetched(adv, s, p)
  BY <1>d, FetchedTypes
<1>3. f.kind = "frame" /\ (ReadyFor(adv, s) => FrameOK(f))
  BY <1>d, <1>f, FetchedTypes
<1>4. main' \in MainStates /\ main'.at = "start" /\ main'.frame = f
  BY <1>d, <1>f, <1>1 DEF MainStates, Positions
<1> QED  BY <1>s, <1>1, <1>2, <1>3, <1>4

LEMMA StartsDoes ==
    ASSUME TypeOK, Start, adv.air = Off
    PROVE  /\ slots' = slots /\ queue' = queue /\ ~adv.failed /\ main.at = "start"
           /\ Keeps(adv, adv') /\ adv'.failed = adv.failed /\ adv'.air = main.frame
           /\ adv'.timers = adv.timers /\ adv'.temp = adv.temp
           /\ adv'.positions = adv.positions /\ adv'.counter = adv.counter
           /\ main' \in MainStates /\ main'.at \in {"pair", "count", "idle"}
<1>d. adv \in Statics /\ main \in MainStates /\ main.frame \in Airs  BY Declared
<1>1. /\ slots' = slots /\ queue' = queue /\ ~adv.failed /\ main.at = "start"
      /\ main' = IF main.cycle THEN [main EXCEPT !.at = "pair", !.frame = Off]
                 ELSE AfterAir
      /\ adv' = AdvStart(adv, main.frame)
  BY DEF Start, Running
<1>2. /\ Keeps(adv, adv') /\ adv'.failed = adv.failed /\ adv'.air = main.frame
      /\ adv'.timers = adv.timers /\ adv'.temp = adv.temp
      /\ adv'.positions = adv.positions /\ adv'.counter = adv.counter
  BY <1>d, <1>1, StartTypes
<1>3. LET m == [main EXCEPT !.at = "pair", !.frame = Off]
      IN  m \in MainStates /\ m.at = "pair"
  BY <1>d, AirTypes DEF MainStates, Positions
<1>4. main' \in MainStates /\ main'.at \in {"pair", "count", "idle"}
  BY <1>d, <1>1, <1>3, AfterTypes
<1> QED  BY <1>1, <1>2, <1>4

\* The counter of a cycle.
LEMMA PairDoes ==
    ASSUME TypeOK, LoadPair \/ StorePair
    PROVE  /\ slots' = slots /\ queue' = queue /\ ~adv.failed
           /\ main.at \in {"pair", "paired"}
           /\ Keeps(adv, adv') /\ adv'.failed = adv.failed /\ adv'.air = adv.air
           /\ adv'.timers = adv.timers /\ adv'.temp = adv.temp
           /\ adv'.positions = adv.positions /\ adv'.counter = adv.counter
           /\ main' \in MainStates /\ main'.at \in {"paired", "count", "idle"}
<1>d. adv \in Statics /\ main \in MainStates /\ main.loaded \in Nat /\ adv.eidCounter \in Nat
  BY Declared DEF Statics
<1>1. CASE LoadPair
  <2>1. /\ slots' = slots /\ queue' = queue /\ ~adv.failed /\ main.at = "pair"
        /\ adv' = adv /\ main' = [main EXCEPT !.at = "paired", !.loaded = adv.eidCounter]
    BY <1>1 DEF LoadPair, Running
  <2>2. main' \in MainStates /\ main'.at = "paired"
    BY <1>d, <2>1 DEF MainStates, Positions
  <2> QED  BY <1>d, <2>1, <2>2 DEF Keeps
<1>2. CASE StorePair
  <2>1. /\ slots' = slots /\ queue' = queue /\ ~adv.failed /\ main.at = "paired"
        /\ adv' = [adv EXCEPT !.eidCounter = main.loaded + 1] /\ main' = AfterAir
    BY <1>2 DEF StorePair, Running
  <2>n. PICK n \in Nat : n = main.loaded + 1  BY <1>d
  <2>2. LET b == [adv EXCEPT !.eidCounter = n]
        IN  /\ Keeps(adv, b) /\ b.failed = adv.failed /\ b.air = adv.air
            /\ b.timers = adv.timers /\ b.temp = adv.temp
            /\ b.positions = adv.positions /\ b.counter = adv.counter
    BY <1>d DEF Keeps, Silent, Statics
  <2> QED  BY <1>d, <2>1, <2>2, <2>n, AfterTypes
<1> QED  BY <1>1, <1>2

\* The end of adv_slot_timeout, one load or store after the other.
LEMMA CountDoes ==
    ASSUME TypeOK, Count \/ Increment \/ Compare \/ Wrap \/ NextSlot
    PROVE  /\ slots' = slots /\ queue' = queue /\ ~adv.failed
           /\ main.at \in {"count", "increment", "compare", "wrap", "next"}
           /\ Keeps(adv, adv') /\ adv'.failed = adv.failed
           /\ adv'.air = adv.air /\ adv'.timers \subseteq adv.timers \cup {"slot"}
           /\ adv'.temp = adv.temp /\ adv'.positions = adv.positions
           /\ main' \in MainStates
           /\ main'.at \in {"idle", "increment", "compare", "wrap", "next"}
           /\ CounterOK'
<1>d. /\ adv \in Statics /\ main \in MainStates /\ main.loaded \in Nat
      /\ adv.counter \in 0 .. NumSlots
  BY Declared
<1>c. CounterOK /\ (adv.counter # NumSlots => adv.counter \in Slots)
  BY <1>d, NumSlotsAssumption DEF TypeOK, Slots
<1>k. Keeps(adv, adv)  BY <1>d DEF Keeps
<1>1. CASE Count
  <2>1. /\ slots' = slots /\ queue' = queue /\ ~adv.failed /\ main.at = "count"
        /\ adv' = adv /\ main' = [Idle EXCEPT !.at = "increment", !.loaded = adv.counter]
    BY <1>1 DEF Count, Running
  <2>2. adv.counter \in Slots /\ adv.counter \in Nat
    BY <1>c, <2>1 DEF CounterOK, Slots
  <2>3. main' \in MainStates /\ main'.at = "increment" /\ main'.loaded = adv.counter
    BY <2>1, <2>2, BootTypes DEF MainStates, Positions
  <2>4. CounterOK'
    BY <1>c, <2>1, <2>2, <2>3 DEF CounterOK
  <2> QED  BY <1>k, <2>1, <2>3, <2>4
<1>2. CASE Increment
  <2>1. /\ slots' = slots /\ queue' = queue /\ ~adv.failed /\ main.at = "increment"
        /\ adv' = [adv EXCEPT !.counter = main.loaded + 1]
        /\ main' = [main EXCEPT !.at = "compare"]
    BY <1>2 DEF Increment, Running
  <2>n. PICK n \in 0 .. NumSlots : n = main.loaded + 1
    BY <1>c, <2>1, NumSlotsAssumption DEF CounterOK, Slots
  <2>2. LET b == [adv EXCEPT !.counter = n]
        IN  /\ Keeps(adv, b) /\ b.failed = adv.failed /\ b.air = adv.air
            /\ b.timers = adv.timers /\ b.temp = adv.temp
            /\ b.positions = adv.positions /\ b.counter = n
    BY <1>d DEF Keeps, Silent, Statics
  <2>3. main' \in MainStates /\ main'.at = "compare" /\ main'.loaded = main.loaded
    BY <1>d, <2>1 DEF MainStates, Positions
  <2>4. adv'.counter = n  BY <2>1, <2>2, <2>n
  <2>5. CounterOK'
    BY <2>3, <2>4, <2>n DEF CounterOK
  <2> QED  BY <2>1, <2>2, <2>3, <2>5, <2>n
<1>3. CASE Compare
  <2>1. PICK c \in {adv.counter, main.loaded + 1} :
        /\ slots' = slots /\ queue' = queue /\ ~adv.failed /\ main.at = "compare"
        /\ adv' = Listed(adv)
        /\ main' = [Idle EXCEPT !.at = IF Ends(c) THEN "wrap" ELSE "next"]
    BY <1>3 DEF Compare, Running
  <2>2. /\ Keeps(adv, adv') /\ adv'.failed = adv.failed /\ adv'.air = adv.air
        /\ adv'.timers = adv.timers /\ adv'.temp = adv.temp
        /\ adv'.positions = adv.positions /\ adv'.counter = adv.counter
    BY <1>d, <2>1, ListTypes
  <2>3. main' \in MainStates /\ main'.at = IF Ends(c) THEN "wrap" ELSE "next"
    BY <2>1, BootTypes DEF MainStates, Positions
  <2>4. adv.counter = NumSlots => Ends(c)
    BY <1>c, <2>1, EndsAt DEF CounterOK
  <2>5. CounterOK'
    BY <2>2, <2>3, <2>4 DEF CounterOK
  <2> QED  BY <2>1, <2>2, <2>3, <2>5
<1>4. CASE Wrap
  <2>1. /\ slots' = slots /\ queue' = queue /\ ~adv.failed /\ main.at = "wrap"
        /\ adv' = [adv EXCEPT !.counter = 0] /\ main' = Idle
    BY <1>4 DEF Wrap, Running, Wrapped
  <2>2. LET b == [adv EXCEPT !.counter = 0]
        IN  /\ Keeps(adv, b) /\ b.failed = adv.failed /\ b.air = adv.air
            /\ b.timers = adv.timers /\ b.temp = adv.temp
            /\ b.positions = adv.positions /\ b.counter = 0
    BY <1>d, ZeroSlot DEF Keeps, Silent, Statics
  <2>3. CounterOK'
    BY <2>1, <2>2, BootTypes, NumSlotsAssumption DEF CounterOK
  <2> QED  BY <2>1, <2>2, <2>3, BootTypes
<1>5. CASE NextSlot
  <2>1. /\ slots' = slots /\ queue' = queue /\ ~adv.failed /\ main.at = "next"
        /\ adv' = AdvSlotTimerStart(adv) /\ main' = Idle
    BY <1>5 DEF NextSlot, Running
  <2>2. /\ Keeps(adv, adv') /\ adv'.timers \subseteq adv.timers \cup {"slot"}
        /\ adv'.temp = adv.temp /\ adv'.positions = adv.positions
        /\ adv'.air = adv.air /\ adv'.failed = adv.failed /\ adv'.counter = adv.counter
    BY <1>d, <2>1, SlotTimerTypes
  <2>3. CounterOK'
    BY <1>c, <2>1, <2>2, BootTypes DEF CounterOK
  <2> QED  BY <2>1, <2>2, <2>3, BootTypes
<1> QED  BY <1>1, <1>2, <1>3, <1>4, <1>5

LEMMA ExpiryDoes ==
    ASSUME TypeOK, NEW t \in Timers, TimerExpires(t)
    PROVE  /\ slots' = slots /\ main' = main /\ Free /\ ~adv.failed /\ t \in adv.timers
           /\ queue' = Append(queue, Event(t, 0))
           /\ Event(t, 0) \in Events /\ Event(t, 0).kind = t
           /\ adv' \in Statics /\ SameUse(adv, adv') /\ adv'.air = adv.air
           /\ adv'.temp = adv.temp /\ adv'.positions = adv.positions
           /\ adv'.counter = adv.counter
           /\ adv'.timers = IF t = "etlm" THEN adv.timers ELSE adv.timers \ {t}
<1>d. adv \in Statics  BY Declared
<1>1. Event(t, 0) \in Events /\ Event(t, 0).kind = t
  BY ZeroSlot DEF Event, Events
<1>2. /\ slots' = slots /\ main' = main /\ Free /\ ~adv.failed /\ t \in adv.timers
      /\ queue' = Append(queue, Event(t, 0))
      /\ adv' = IF t = "etlm" THEN adv ELSE [adv EXCEPT !.timers = adv.timers \ {t}]
  BY <1>d, TimerTypes DEF TimerExpires, Free
<1>3. LET b == [adv EXCEPT !.timers = adv.timers \ {t}]
      IN  /\ b \in Statics /\ SameUse(adv, b) /\ b.air = adv.air
          /\ b.temp = adv.temp /\ b.positions = adv.positions
          /\ b.timers = adv.timers \ {t} /\ b.counter = adv.counter
  BY <1>d DEF SameUse, Statics
<1> QED  BY <1>d, <1>1, <1>2, <1>3 DEF SameUse

LEMMA QueueGrows ==
    ASSUME queue \in Seq(Events), NEW e \in Events, queue' = Append(queue, e)
    PROVE  /\ queue' \in Seq(Events) /\ Len(queue') = Len(queue) + 1
           /\ \A kind : IsQueued(kind)' <=> IsQueued(kind) \/ e.kind = kind
<1>1. /\ queue' \in Seq(Events) /\ Len(queue') = Len(queue) + 1 /\ Len(queue) \in Nat
      /\ \A i \in 1 .. Len(queue) : i \in 1 .. Len(queue') /\ queue'[i] = queue[i]
      /\ queue'[Len(queue) + 1] = e
  OBVIOUS
<1>2. \A i \in 1 .. Len(queue') : i \in 1 .. Len(queue) \/ i = Len(queue) + 1
  BY <1>1
<1>3. Len(queue) + 1 \in 1 .. Len(queue')  BY <1>1
<1> QED  BY <1>1, <1>2, <1>3 DEF IsQueued

LEMMA QueueShrinks ==
    ASSUME queue \in Seq(Events), queue # <<>>, queue' = Tail(queue)
    PROVE  /\ queue' \in Seq(Events) /\ Len(queue') = Len(queue) - 1 /\ Len(queue) \in Nat
           /\ Head(queue) \in Events /\ IsQueued(Head(queue).kind)
           /\ \A kind : IsQueued(kind)' => IsQueued(kind)
           /\ \A kind : IsQueued(kind) => IsQueued(kind)' \/ Head(queue).kind = kind
<1>1. /\ queue' \in Seq(Events) /\ Len(queue') = Len(queue) - 1 /\ Len(queue) \in Nat
      /\ Head(queue) = queue[1] /\ queue[1] \in Events /\ 1 \in 1 .. Len(queue)
      /\ \A i \in 1 .. Len(queue') : i + 1 \in 1 .. Len(queue) /\ queue'[i] = queue[i + 1]
  OBVIOUS
<1>2. ASSUME NEW kind, IsQueued(kind), queue[1].kind # kind PROVE IsQueued(kind)'
  <2>1. PICK i \in 1 .. Len(queue) : queue[i].kind = kind  BY <1>2 DEF IsQueued
  <2>2. i # 1  BY <1>2, <2>1
  <2>3. i - 1 \in 1 .. Len(queue') /\ (i - 1) + 1 = i  BY <1>1, <2>1, <2>2
  <2>4. queue'[i - 1] = queue[i]  BY <1>1, <2>3
  <2> QED  BY <2>1, <2>3, <2>4 DEF IsQueued
<1>3. ASSUME NEW kind, IsQueued(kind)' PROVE IsQueued(kind)
  <2>1. PICK i \in 1 .. Len(queue') : queue'[i].kind = kind  BY <1>3 DEF IsQueued
  <2> QED  BY <1>1, <2>1 DEF IsQueued
<1>4. IsQueued(queue[1].kind)  BY <1>1 DEF IsQueued
<1> QED  BY <1>1, <1>2, <1>3, <1>4

\* A refused frame leaves the type byte of its slot (and so the pairing) alone.
LEMMA RefusedDoes ==
    ASSUME TypeOK, FrameRefused
    PROVE  /\ slots' \in [Slots -> SlotStates]
           /\ \A s \in Slots : slots'[s].type = slots[s].type
           /\ EidSlots' = EidSlots
           /\ adv' = adv /\ main' = main /\ ~adv.failed /\ main.at = "idle"
           /\ queue # <<>> /\ queue' = Tail(queue) /\ Head(queue).kind = "set"
<1>1. /\ adv' = adv /\ main' = main /\ ~adv.failed /\ main.at = "idle"
      /\ queue # <<>> /\ queue' = Tail(queue) /\ Head(queue).kind = "set"
      /\ slots \in [Slots -> SlotStates]
  BY DEF FrameRefused, Take, Running, TypeOK
<1>s. PICK r \in Slots : r = Head(queue).slot
  <2>1. Head(queue) \in Events  BY <1>1, QueueShrinks DEF TypeOK
  <2> QED  BY <2>1 DEF Events
<1>2. slots' = IF slots[r].valid THEN slots ELSE [slots EXCEPT ![r].conf = FALSE]
  BY <1>s DEF FrameRefused
<1>3. /\ slots' \in [Slots -> SlotStates]
      /\ \A s \in Slots : slots'[s].type = slots[s].type
  BY <1>1, <1>2 DEF SlotStates
<1>4. EidSlots' = EidSlots
  BY <1>3 DEF EidSlots
<1> QED  BY <1>1, <1>3, <1>4

\* A write, and its frame_set when the frame will be refused.
LEMMA WriteDoes ==
    ASSUME TypeOK, NEW s \in Slots, NEW w \in Writes, WriteRequest(s, w)
    PROVE  /\ slots' \in [Slots -> SlotStates]
           /\ \/ queue' = queue
              \/ \E e \in Events : e.kind = "set" /\ queue' = Append(queue, e)
<1>1. w \in SlotStates  BY WritesAssumption
<1>2. Event("set", s) \in Events /\ Event("set", s).kind = "set"
  BY DEF Event, Events
<1> QED  BY <1>1, <1>2 DEF WriteRequest, TypeOK

-----------------------------------------------------------------------------
(* Types *)

\* Main holds the radio from the moment it stops it until it starts it again.
RadioFree == main.at \in {"choose", "fetch", "start"} => adv.air = Off
Typed == TypeOK /\ RadioFree

\* slot_counter is past its list in one window only, which an interrupt may see but
\* does not open.
LEMMA CounterSlot ==
    ASSUME TypeOK, main.at \notin {"compare", "wrap"} PROVE adv.counter \in Slots
BY Declared, NumSlotsAssumption DEF TypeOK, CounterOK, Slots

LEMMA CounterInterrupt ==
    ASSUME CounterOK, main' = main, adv'.counter = adv.counter \/ adv'.counter \in Slots
    PROVE  CounterOK'
BY NumSlotsAssumption DEF CounterOK, Slots

LEMMA CounterKept ==
    ASSUME CounterOK, main.at \notin {"compare", "wrap"}, adv'.counter = adv.counter,
           main'.at \notin {"increment", "compare"}
    PROVE  CounterOK'
BY DEF CounterOK

LEMMA InitTyped == ASSUME Init PROVE Typed
<1>1. adv \in Statics  BY BootTypes DEF Init
<1>2. main \in MainStates /\ main.at = "init"
  BY BootTypes DEF Init, Idle, MainStates, Positions
<1>3. slots \in [Slots -> SlotStates] /\ saved = slots
  BY BootsAssumption DEF Init
<1>4. queue \in Seq(Events) /\ writes \in 0 .. MaxWrites /\ presses \in 0 .. MaxPresses
  BY BoundsAssumption DEF Init
<1>5. CounterOK
  BY <1>2, BootTypes, NumSlotsAssumption DEF Init, CounterOK
<1> QED  BY <1>1, <1>2, <1>3, <1>4, <1>5 DEF Typed, TypeOK, RadioFree

LEMMA CountsTyped ==
    ASSUME TypeOK, Next PROVE writes' \in 0 .. MaxWrites /\ presses' \in 0 .. MaxPresses
<1>1. CASE \E s \in Slots, w \in Writes : WriteRequest(s, w)
  BY <1>1, BoundsAssumption DEF WriteRequest, TypeOK
<1>2. CASE ButtonPressed
  BY <1>2, BoundsAssumption DEF ButtonPressed, TypeOK
<1>3. CASE UNCHANGED <<writes, presses>>
  BY <1>3 DEF TypeOK
<1> QED
  BY <1>1, <1>2, <1>3
  DEF Next, Interrupt, MainLoop, ErrorReset, Connected, Disconnected, GapTimeout,
      TimerExpires, ManagerInit, IntervalTimeout, SlotTimeout, EtlmTimeout, Take,
      RegistrationButton, FrameRefused, Choose, Cycle, Fetch, Start, LoadPair, StorePair,
      Count, Increment, Compare, Wrap, NextSlot, Environment

LEMMA InterruptTyped == ASSUME Typed, Interrupt PROVE Typed'
<1>d. /\ slots \in [Slots -> SlotStates] /\ saved \in [Slots -> SlotStates]
      /\ queue \in Seq(Events) /\ adv \in Statics /\ main \in MainStates /\ CounterOK
  BY DEF Typed, TypeOK
<1>c. writes' \in 0 .. MaxWrites /\ presses' \in 0 .. MaxPresses
  BY CountsTyped DEF Typed, Next
<1>1. CASE Connected \/ GapTimeout
  <2>1. /\ slots' = slots /\ queue' = queue /\ adv' \in Statics /\ saved' = saved
        /\ main' = main /\ adv.air = Connectable /\ adv'.counter \in Slots
    <3>1. ~ManagerInit  BY <1>1 DEF Connected, GapTimeout, Free, ManagerInit, Running
    <3> QED  BY <1>1, <3>1, StartDoes DEF Typed, Connected, GapTimeout
  <2>2. CounterOK'  BY <1>d, <2>1, CounterInterrupt
  <2> QED  BY <1>d, <1>c, <2>1, <2>2, AirTypes DEF Typed, TypeOK, RadioFree
<1>2. CASE Disconnected
  <2>1. /\ slots' = slots /\ queue' = queue /\ adv' \in Statics /\ saved' = slots
        /\ main' = main /\ adv'.air = Off /\ adv'.counter = adv.counter
    BY <1>2, HaltDoes DEF Typed, Disconnected
  <2>2. CounterOK'  BY <1>d, <2>1, CounterInterrupt
  <2> QED  BY <1>d, <1>c, <2>1, <2>2 DEF Typed, TypeOK, RadioFree
<1>3. ASSUME NEW s \in Slots, NEW w \in Writes, WriteRequest(s, w) PROVE Typed'
  <2>1. /\ adv' \in Statics /\ saved' = saved /\ main' = main /\ adv'.air = Off
        /\ adv'.counter = adv.counter
    BY <1>3, HaltDoes DEF Typed, WriteRequest
  <2>2. slots' \in [Slots -> SlotStates] /\ queue' \in Seq(Events)
    BY <1>d, <1>3, WriteDoes, QueueGrows DEF Typed
  <2>3. CounterOK'  BY <1>d, <2>1, CounterInterrupt
  <2> QED  BY <1>d, <1>c, <2>1, <2>2, <2>3 DEF Typed, TypeOK, RadioFree
<1>4. ASSUME NEW t \in Timers, TimerExpires(t) PROVE Typed'
  <2>1. /\ slots' = slots /\ main' = main /\ saved' = saved /\ adv' \in Statics
        /\ adv'.air = adv.air /\ adv'.counter = adv.counter /\ Event(t, 0) \in Events
        /\ queue' = Append(queue, Event(t, 0))
    BY <1>4, ExpiryDoes DEF Typed, TimerExpires
  <2>2. queue' \in Seq(Events)  BY <1>d, <2>1, QueueGrows
  <2>3. CounterOK'  BY <1>d, <2>1, CounterInterrupt
  <2> QED  BY <1>d, <1>c, <2>1, <2>2, <2>3 DEF Typed, TypeOK, RadioFree
<1>5. CASE ButtonPressed
  <2>1. Event("button", 0) \in Events  BY ZeroSlot DEF Event, Events
  <2>2. /\ queue' = Append(queue, Event("button", 0))
        /\ UNCHANGED <<slots, saved, adv, main>>
    BY <1>5 DEF ButtonPressed
  <2>3. queue' \in Seq(Events)  BY <1>d, <2>1, <2>2, QueueGrows
  <2>4. CounterOK'  BY <1>d, <2>2, CounterInterrupt
  <2> QED  BY <1>d, <1>c, <2>2, <2>3, <2>4 DEF Typed, TypeOK, RadioFree
<1> QED  BY <1>1, <1>2, <1>3, <1>4, <1>5 DEF Interrupt

LEMMA MainTyped == ASSUME Typed, MainLoop PROVE Typed'
<1>d. /\ slots \in [Slots -> SlotStates] /\ saved \in [Slots -> SlotStates]
      /\ queue \in Seq(Events) /\ adv \in Statics /\ main \in MainStates /\ TypeOK
      /\ CounterOK
  BY DEF Typed, TypeOK
<1>c. writes' \in 0 .. MaxWrites /\ presses' \in 0 .. MaxPresses
  BY <1>d, CountsTyped DEF Next
<1>v. saved' = saved
  BY DEF MainLoop, ManagerInit, IntervalTimeout, SlotTimeout, EtlmTimeout, Take,
         RegistrationButton, FrameRefused, Choose, Cycle, Fetch, Start, LoadPair, StorePair,
         Count, Increment, Compare, Wrap, NextSlot, Environment
<1>1. /\ slots' \in [Slots -> SlotStates] /\ adv' \in Statics /\ main' \in MainStates
      /\ RadioFree' /\ CounterOK'
      /\ queue' = queue \/ (queue # <<>> /\ queue' = Tail(queue))
  <2>1. CASE ManagerInit
    <3>1. /\ slots' = slots /\ queue' = queue /\ main' = Idle /\ adv' \in Statics
          /\ adv'.counter \in Slots
      BY <1>d, <2>1, StartDoes
    <3>2. CounterOK'
      BY <3>1, BootTypes, NumSlotsAssumption DEF CounterOK, Slots
    <3> QED  BY <1>d, <3>1, <3>2, BootTypes DEF RadioFree
  <2>2. CASE IntervalTimeout \/ SlotTimeout
    <3>1. CounterOK'  BY <1>d, <2>2, EnterDoes, CounterKept
    <3> QED  BY <1>d, <2>2, <3>1, EnterDoes DEF RadioFree, Keeps
  <2>3. CASE EtlmTimeout
    <3>1. main' = [Idle EXCEPT !.at = "cycle", !.cycle = TRUE] /\ main.at = "idle"
      BY <2>3 DEF EtlmTimeout, Take, Running
    <3>2. main' \in MainStates /\ main'.at = "cycle"
      BY <3>1, BootTypes DEF Idle, MainStates, Positions
    <3>3. CounterOK'  BY <1>d, <2>3, <3>1, <3>2, CounterKept DEF EtlmTimeout
    <3> QED  BY <1>d, <2>3, <3>2, <3>3 DEF EtlmTimeout, Take, RadioFree
  <2>4. CASE RegistrationButton
    <3>1. main' = main /\ main.at = "idle" /\ adv'.counter = adv.counter
      BY <1>d, <2>4, ButtonDoes
    <3>2. CounterOK'  BY <1>d, <3>1, CounterKept
    <3> QED  BY <1>d, <2>4, <3>2, ButtonDoes DEF RadioFree
  <2>5. CASE FrameRefused
    <3>1. main' = main /\ main.at = "idle" /\ adv' = adv
      BY <1>d, <2>5, RefusedDoes
    <3>2. CounterOK'  BY <1>d, <3>1, CounterKept
    <3> QED  BY <1>d, <2>5, <3>2, RefusedDoes DEF RadioFree
  <2>6. CASE Choose
    <3>1. CounterOK'  BY <1>d, <2>6, ChooseDoes, CounterKept
    <3> QED  BY <1>d, <2>6, <3>1, ChooseDoes DEF Typed, RadioFree, Keeps
  <2>7. CASE Cycle
    <3>1. CounterOK'  BY <1>d, <2>7, CycleDoes, CounterKept
    <3> QED  BY <1>d, <2>7, <3>1, CycleDoes DEF RadioFree, Keeps
  <2>8. CASE Fetch
    <3>1. adv.air = Off  BY <2>8 DEF Fetch, Running, Typed, RadioFree
    <3>2. CounterOK'  BY <1>d, <2>8, <3>1, FetchDoes, CounterKept
    <3> QED  BY <1>d, <2>8, <3>1, <3>2, FetchDoes DEF RadioFree, Keeps
  <2>9. CASE Start
    <3>1. adv.air = Off  BY <2>9 DEF Start, Running, Typed, RadioFree
    <3>2. CounterOK'  BY <1>d, <2>9, <3>1, StartsDoes, CounterKept
    <3> QED  BY <1>d, <2>9, <3>1, <3>2, StartsDoes DEF RadioFree, Keeps
  <2>10. CASE LoadPair \/ StorePair
    <3>1. CounterOK'  BY <1>d, <2>10, PairDoes, CounterKept
    <3> QED  BY <1>d, <2>10, <3>1, PairDoes DEF RadioFree, Keeps
  <2>11. CASE Count \/ Increment \/ Compare \/ Wrap \/ NextSlot
    BY <1>d, <2>11, CountDoes DEF RadioFree, Keeps
  <2> QED
    BY <2>1, <2>2, <2>3, <2>4, <2>5, <2>6, <2>7, <2>8, <2>9, <2>10, <2>11 DEF MainLoop
<1>2. queue' \in Seq(Events)  BY <1>d, <1>1, QueueShrinks
<1> QED  BY <1>d, <1>c, <1>v, <1>1, <1>2 DEF Typed, TypeOK

LEMMA NextTyped == ASSUME Typed, [Next]_vars PROVE Typed'
<1>1. CASE ErrorReset
  <2>1. main' \in MainStates /\ main'.at = "init"
    BY <1>1, BootTypes DEF ErrorReset, Idle, MainStates, Positions
  <2>2. writes' \in 0 .. MaxWrites /\ presses' \in 0 .. MaxPresses
    BY <1>1, CountsTyped DEF Typed, Next
  <2>3. /\ slots' \in [Slots -> SlotStates] /\ saved' \in [Slots -> SlotStates]
        /\ adv' \in Statics /\ queue' \in Seq(Events)
    BY <1>1, BootTypes DEF ErrorReset, Environment, Typed, TypeOK
  <2>4. CounterOK'
    BY <1>1, <2>1, BootTypes, NumSlotsAssumption DEF ErrorReset, CounterOK
  <2> QED  BY <2>1, <2>2, <2>3, <2>4 DEF Typed, TypeOK, RadioFree
<1>2. CASE UNCHANGED vars
  BY <1>2 DEF vars, Typed, TypeOK, RadioFree, CounterOK
<1> QED  BY <1>1, <1>2, InterruptTyped, MainTyped DEF Next

LEMMA AlwaysTyped == Spec => []Typed
BY InitTyped, NextTyped, PTL DEF Spec

\* Whatever interrupts fall between two statements of the handlers, the statics
\* of the manager stay within their types, and slot_counter is past the list of
\* slots it indexes only between main's increment and its wrap: an interrupt that
\* finds it there reads beyond the list, and leaves it within the list again
\* (eddystone_advertising_manager.c, adv_slot_timeout).
THEOREM TypeCorrect == Spec => []TypeOK
BY AlwaysTyped, PTL DEF Typed

-----------------------------------------------------------------------------
(* The chain of intervals *)

\* An event that another handler takes is not that of the interval timer.
LEMMA ChainKept ==
    ASSUME Typed, ChainAlive, ~adv.failed, main.at # "init", adv'.conn = adv.conn,
           "interval" \in adv.timers => "interval" \in adv'.timers,
           \/ queue' = queue
           \/ queue # <<>> /\ queue' = Tail(queue) /\ Head(queue).kind # "interval"
    PROVE  ChainAlive'
<1>1. queue \in Seq(Events)  BY DEF Typed, TypeOK
<1>2. IsQueued("interval") => IsQueued("interval")'
  BY <1>1, QueueShrinks DEF IsQueued
<1> QED  BY <1>2 DEF ChainAlive

LEMMA ChainInterrupt == ASSUME Typed, ChainAlive, Interrupt PROVE ChainAlive'
<1>d. TypeOK /\ queue \in Seq(Events) /\ ~adv.failed /\ main.at # "init"
  BY DEF Typed, TypeOK, Interrupt, Connected, Disconnected, GapTimeout, WriteRequest,
         TimerExpires, ButtonPressed, Free
<1>1. CASE Connected \/ GapTimeout
  BY <1>d, <1>1, StartDoes DEF ChainAlive
<1>2. CASE Disconnected \/ \E s \in Slots, w \in Writes : WriteRequest(s, w)
  BY <1>d, <1>2, HaltDoes DEF ChainAlive
<1>3. ASSUME NEW t \in Timers, TimerExpires(t) PROVE ChainAlive'
  <2>1. /\ queue' = Append(queue, Event(t, 0)) /\ Event(t, 0) \in Events
        /\ Event(t, 0).kind = t /\ SameUse(adv, adv')
        /\ adv'.timers = IF t = "etlm" THEN adv.timers ELSE adv.timers \ {t}
    BY <1>d, <1>3, ExpiryDoes
  <2>2. IsQueued("interval")' <=> IsQueued("interval") \/ t = "interval"
    BY <1>d, <2>1, QueueGrows
  <2> QED  BY <1>d, <2>1, <2>2 DEF ChainAlive, SameUse
<1>4. CASE ButtonPressed
  <2>1. Event("button", 0) \in Events /\ queue' = Append(queue, Event("button", 0))
    BY <1>4, ZeroSlot DEF ButtonPressed, Event, Events
  <2>2. IsQueued("interval") => IsQueued("interval")'
    BY <1>d, <2>1, QueueGrows
  <2> QED  BY <1>4, <1>d, <2>2 DEF ButtonPressed, ChainAlive
<1> QED  BY <1>1, <1>2, <1>3, <1>4 DEF Interrupt

LEMMA ChainMain == ASSUME Typed, ChainAlive, MainLoop PROVE ChainAlive'
<1>d. TypeOK  BY DEF Typed
<1>1. CASE ManagerInit
  BY <1>d, <1>1, StartDoes DEF ChainAlive
<1>2. CASE IntervalTimeout
  BY <1>d, <1>2, EnterDoes DEF ChainAlive
<1>3. CASE SlotTimeout
  BY <1>d, <1>3, EnterDoes, ChainKept DEF Keeps
<1>4. CASE EtlmTimeout
  <2>1. /\ adv' = adv /\ ~adv.failed /\ main.at = "idle"
        /\ queue # <<>> /\ queue' = Tail(queue) /\ Head(queue).kind = "etlm"
    BY <1>4 DEF EtlmTimeout, Take, Running
  <2> QED  BY <2>1, ChainKept
<1>5. CASE RegistrationButton
  BY <1>d, <1>5, ButtonDoes, ChainKept DEF ChainAlive
<1>6. CASE FrameRefused
  BY <1>d, <1>6, RefusedDoes, ChainKept
<1>7. CASE Choose
  BY <1>d, <1>7, ChooseDoes, ChainKept DEF Keeps
<1>8. CASE Cycle
  BY <1>d, <1>8, CycleDoes, ChainKept DEF Keeps
<1>9. CASE Fetch
  <2>1. adv.air = Off  BY <1>9 DEF Fetch, Running, Typed, RadioFree
  <2> QED  BY <1>d, <1>9, <2>1, FetchDoes, ChainKept DEF Keeps
<1>10. CASE Start
  <2>1. adv.air = Off  BY <1>10 DEF Start, Running, Typed, RadioFree
  <2> QED  BY <1>d, <1>10, <2>1, StartsDoes, ChainKept DEF Keeps
<1>11. CASE LoadPair \/ StorePair
  BY <1>d, <1>11, PairDoes, ChainKept DEF Keeps
<1>12. CASE Count \/ Increment \/ Compare \/ Wrap \/ NextSlot
  BY <1>d, <1>12, CountDoes, ChainKept DEF Keeps
<1> QED
  BY <1>1, <1>2, <1>3, <1>4, <1>5, <1>6, <1>7, <1>8, <1>9, <1>10, <1>11, <1>12
  DEF MainLoop

\* Whatever interrupts fall inside the handlers, and whatever order the timers'
\* events wait in, the interval timer runs or its handler is due whenever the
\* beacon is not advertising for registration (adv_interval_timer_start).
THEOREM ChainNeverBreaks == Spec => []ChainAlive
<1>1. Init => ChainAlive
  BY DEF Init, ChainAlive
<1>2. Typed /\ ChainAlive /\ [Next]_vars => ChainAlive'
  <2>1. ASSUME ErrorReset PROVE main'.at = "init"
    BY <2>1, BootTypes DEF ErrorReset, Idle
  <2>2. CASE UNCHANGED vars
    BY <2>2 DEF vars, ChainAlive, IsQueued
  <2> QED  BY <2>1, <2>2, ChainInterrupt, ChainMain DEF Next, ChainAlive
<1> QED  BY <1>1, <1>2, AlwaysTyped, PTL DEF Spec

-----------------------------------------------------------------------------
(* Error checks *)

LEMMA SilentNext == ASSUME Typed, Silent(adv), [Next]_vars PROVE Silent(adv')
<1>d. TypeOK  BY DEF Typed
<1>1. CASE Connected \/ GapTimeout \/ ManagerInit
  BY <1>d, <1>1, StartDoes
<1>2. CASE Disconnected \/ \E s \in Slots, w \in Writes : WriteRequest(s, w)
  BY <1>d, <1>2, HaltDoes DEF Silent
<1>3. ASSUME NEW t \in Timers, TimerExpires(t) PROVE ~adv'.failed
  BY <1>d, <1>3, ExpiryDoes DEF SameUse
<1>4. CASE IntervalTimeout \/ SlotTimeout
  BY <1>d, <1>4, EnterDoes DEF Keeps
<1>5. CASE RegistrationButton
  BY <1>d, <1>5, ButtonDoes DEF Silent
<1>6. CASE UNCHANGED adv
  BY <1>6
<1>7. CASE Choose \/ Cycle
  BY <1>d, <1>7, ChooseDoes, CycleDoes DEF Keeps
<1>8. CASE Fetch \/ Start
  <2>1. adv.air = Off  BY <1>8 DEF Fetch, Start, Running, Typed, RadioFree
  <2> QED  BY <1>d, <1>8, <2>1, FetchDoes, StartsDoes DEF Keeps
<1>9. CASE LoadPair \/ StorePair
  BY <1>d, <1>9, PairDoes DEF Keeps
<1>10. CASE Count \/ Increment \/ Compare \/ Wrap \/ NextSlot
  BY <1>d, <1>10, CountDoes DEF Keeps
<1>11. CASE ErrorReset
  BY <1>11, BootTypes DEF ErrorReset, Silent
<1>12. ButtonPressed \/ EtlmTimeout \/ FrameRefused => UNCHANGED adv
  BY DEF ButtonPressed, EtlmTimeout, FrameRefused
<1> QED
  BY <1>1, <1>2, <1>3, <1>4, <1>5, <1>6, <1>7, <1>8, <1>9, <1>10, <1>11, <1>12
  DEF Next, Interrupt, MainLoop, Silent, vars

\* Main stops the radio long before it starts it, and an interrupt may come in
\* between; none of them starts the radio while it is advertising: an error check
\* of the manager fails only for a frame, and with the radio off
\* (adv_manager.c, advertising_init, eddystone_ble_advertising_start).
THEOREM RadioStartedOnce == Spec => []NeverStartedTwice
<1>1. Init => Silent(adv)
  BY BootTypes DEF Init, Silent
<1>2. Typed /\ Silent(adv) /\ [Next]_vars => Silent(adv)'
  <2>1. Silent(adv)' <=> Silent(adv')  BY DEF Silent
  <2> QED  BY <2>1, SilentNext
<1>3. Silent(adv) => NeverStartedTwice
  BY DEF Silent, NeverStartedTwice
<1> QED  BY <1>1, <1>2, <1>3, AlwaysTyped, PTL DEF Spec

-----------------------------------------------------------------------------
(* What is on the air, when every handler ends before anything else is due *)

\* One event at a time, and none while main is in a handler.
Alone == Len(queue) <= 1 /\ (main.at # "idle" => queue = <<>>)
\* While a client may connect, nothing else is going on.
RegistrationOK ==
    adv.conn =>
        /\ main.at = "idle" /\ ~adv.link /\ adv.timers = {} /\ adv.air = Connectable
        /\ \A kind : IsQueued(kind) => kind = "button"
\* An eTLM cycle is one of a TLM slot, and paired with the slots that are EIDs.
PairingOK ==
    "etlm" \in adv.timers \/ IsQueued("etlm") \/ main.at = "cycle" => CanPair(adv)
\* The write of a frame that will be refused has halted the advertising.
SetOK == IsQueued("set") => adv.air = Off /\ "etlm" \notin adv.timers
\* What main is about to put on the air.
MainOK ==
    /\ main.at = "choose" => main.slot \in Slots
    /\ main.at = "fetch" => ReadyFor(adv, main.slot)
    /\ main.at = "start" => FrameOK(main.frame)
AirOK == FrameOK(adv.air)

Orderly == Alone /\ RegistrationOK /\ PairingOK /\ SetOK /\ MainOK /\ AirOK

LEMMA SameSlots ==
    ASSUME slots' = slots
    PROVE  /\ EidSlots' = EidSlots
           /\ CanPair(adv)' <=> CanPair(adv')
           /\ FrameOK(adv.air)' <=> FrameOK(adv'.air)
           /\ FrameOK(main.frame)' <=> FrameOK(main'.frame)
           /\ ReadyFor(adv, main.slot)' <=> ReadyFor(adv', main'.slot)
<1>1. EidSlots' = EidSlots  BY DEF EidSlots
<1> QED  BY <1>1 DEF CanPair, FrameOK, ReadyFor

LEMMA Taken ==
    ASSUME Typed, Alone, queue # <<>>, queue' = Tail(queue)
    PROVE  /\ main.at = "idle" /\ queue' = <<>> /\ Len(queue') = 0
           /\ IsQueued(Head(queue).kind) /\ \A kind : ~IsQueued(kind)'
<1>1. queue \in Seq(Events)  BY DEF Typed, TypeOK
<1>2. /\ queue' \in Seq(Events) /\ Len(queue') = Len(queue) - 1 /\ Len(queue) \in Nat
      /\ IsQueued(Head(queue).kind)
  BY <1>1, QueueShrinks
<1>3. Len(queue') = 0  BY <1>2 DEF Alone
<1>4. queue' = <<>>  BY <1>2, <1>3
<1> QED  BY <1>2, <1>3, <1>4 DEF Alone, IsQueued

LEMMA OneEvent ==
    ASSUME Typed, queue = <<>>, NEW e \in Events, queue' = Append(queue, e)
    PROVE  Len(queue') = 1 /\ \A kind : IsQueued(kind)' => kind = e.kind
<1>1. queue \in Seq(Events) /\ Len(queue) = 0  BY DEF Typed, TypeOK
<1>2. Len(queue') = Len(queue) + 1
      /\ \A kind : IsQueued(kind)' <=> IsQueued(kind) \/ e.kind = kind
  BY <1>1, QueueGrows
<1> QED  BY <1>1, <1>2 DEF IsQueued

LEMMA Empty ==
    ASSUME queue = <<>> PROVE Len(queue) = 0 /\ \A kind : ~IsQueued(kind)
<1>1. Len(queue) = 0  OBVIOUS
<1> QED  BY <1>1 DEF IsQueued

LEMMA OrderlyInterrupt ==
    ASSUME Overlap = "none", Typed, Orderly, Interrupt PROVE Orderly'
<1>d. TypeOK /\ queue \in Seq(Events)  BY DEF Typed, TypeOK
<1>f. /\ main.at = "idle" /\ queue = <<>>
      /\ Len(queue) = 0 /\ \A kind : ~IsQueued(kind)
  <2>1. Free
    BY DEF Interrupt, Connected, Disconnected, GapTimeout, WriteRequest, TimerExpires,
           ButtonPressed
  <2>2. main.at = "idle" /\ queue = <<>>
    BY <2>1, OverlapAssumption DEF Free
  <2> QED  BY <2>2, Empty
<1>1. CASE Connected \/ GapTimeout
  <2>1. ~ManagerInit /\ adv.counter \in Slots
    BY <1>d, <1>f, CounterSlot DEF ManagerInit, Running
  <2>2. /\ slots' = slots /\ queue' = queue /\ main' = main /\ ~adv'.conn
        /\ FrameOK(adv'.air) /\ ("etlm" \in adv'.timers => CanPair(adv'))
    BY <1>d, <1>1, <2>1, StartDoes DEF Orderly, AirOK, PairingOK
  <2>3. /\ CanPair(adv)' <=> CanPair(adv')
        /\ FrameOK(adv.air)' <=> FrameOK(adv'.air)
    BY <2>2, SameSlots
  <2> QED  BY <1>f, <2>2, <2>3
           DEF Orderly, Alone, RegistrationOK, PairingOK, SetOK, MainOK, AirOK, IsQueued
<1>2. CASE Disconnected
  <2>1. /\ slots' = slots /\ queue' = queue /\ main' = main /\ ~adv'.conn
        /\ adv'.timers = {"interval"} /\ adv'.air = Off
    BY <1>d, <1>2, HaltDoes
  <2> QED  BY <1>f, <2>1, AirTypes
           DEF Orderly, Alone, RegistrationOK, PairingOK, SetOK, MainOK, AirOK, FrameOK,
               IsQueued
<1>3. ASSUME NEW s \in Slots, NEW w \in Writes, WriteRequest(s, w) PROVE Orderly'
  <2>1. /\ main' = main /\ adv.link /\ (adv'.conn => adv.conn)
        /\ adv'.timers = {"interval"} /\ adv'.air = Off
    BY <1>d, <1>3, HaltDoes
  <2>2. ~adv'.conn  BY <2>1 DEF Orderly, RegistrationOK
  <2>3. Len(queue') <= 1 /\ ~IsQueued("etlm")'
    <3>1. CASE queue' = queue
      BY <1>f, <3>1 DEF IsQueued
    <3>2. ASSUME NEW e \in Events, e.kind = "set", queue' = Append(queue, e)
          PROVE  Len(queue') <= 1 /\ ~IsQueued("etlm")'
      BY <1>f, <3>2, OneEvent
    <3> QED  BY <1>d, <1>3, <3>1, <3>2, WriteDoes
  <2> QED  BY <1>f, <2>1, <2>2, <2>3, AirTypes
           DEF Orderly, Alone, RegistrationOK, PairingOK, SetOK, MainOK, AirOK, FrameOK
<1>4. ASSUME NEW t \in Timers, TimerExpires(t) PROVE Orderly'
  <2>1. /\ slots' = slots /\ main' = main /\ t \in adv.timers
        /\ queue' = Append(queue, Event(t, 0))
        /\ Event(t, 0) \in Events /\ Event(t, 0).kind = t
        /\ SameUse(adv, adv') /\ adv'.air = adv.air
        /\ adv'.temp = adv.temp /\ adv'.positions = adv.positions
        /\ adv'.timers = IF t = "etlm" THEN adv.timers ELSE adv.timers \ {t}
    BY <1>d, <1>4, ExpiryDoes
  <2>2. Len(queue') = 1 /\ \A kind : IsQueued(kind)' => kind = t
    BY <1>f, <2>1, OneEvent
  <2>3. t # "set"  BY DEF Timers
  <2>4. ~adv'.conn  BY <2>1 DEF Orderly, RegistrationOK, SameUse
  <2>5. "etlm" \in adv'.timers \/ t = "etlm" => CanPair(adv')
    <3>1. "etlm" \in adv.timers => CanPair(adv)  BY DEF Orderly, PairingOK
    <3> QED  BY <2>1, <3>1 DEF CanPair
  <2>6. /\ CanPair(adv)' <=> CanPair(adv')
        /\ FrameOK(adv.air)' <=> FrameOK(adv'.air)
    BY <2>1, SameSlots
  <2>7. AirOK'  BY <2>1, <2>6 DEF Orderly, AirOK
  <2>8. PairingOK'  BY <1>f, <2>1, <2>2, <2>5, <2>6 DEF PairingOK
  <2>9. SetOK'  BY <2>2, <2>3 DEF SetOK
  <2> QED  BY <1>f, <2>1, <2>2, <2>4, <2>7, <2>8, <2>9
           DEF Orderly, Alone, RegistrationOK, MainOK
<1>5. CASE ButtonPressed
  <2>1. /\ Event("button", 0) \in Events /\ Event("button", 0).kind = "button"
        /\ queue' = Append(queue, Event("button", 0)) /\ UNCHANGED <<slots, adv, main>>
    BY <1>5, ZeroSlot DEF ButtonPressed, Event, Events
  <2>2. Len(queue') = 1 /\ \A kind : IsQueued(kind)' => kind = "button"
    BY <1>f, <2>1, OneEvent
  <2>3. /\ CanPair(adv)' <=> CanPair(adv')
        /\ FrameOK(adv.air)' <=> FrameOK(adv'.air)
    BY <2>1, SameSlots
  <2>4. PairingOK'  BY <1>f, <2>1, <2>2, <2>3 DEF Orderly, PairingOK
  <2>5. RegistrationOK'  BY <1>f, <2>1, <2>2 DEF Orderly, RegistrationOK
  <2>6. AirOK'  BY <2>1, <2>3 DEF Orderly, AirOK
  <2> QED  BY <1>f, <2>1, <2>2, <2>4, <2>5, <2>6
           DEF Orderly, Alone, SetOK, MainOK
<1> QED  BY <1>1, <1>2, <1>3, <1>4, <1>5 DEF Interrupt

\* Main takes an event.
LEMMA OrderlyTake ==
    ASSUME Typed, Orderly,
           \/ IntervalTimeout \/ SlotTimeout \/ EtlmTimeout
           \/ RegistrationButton \/ FrameRefused
    PROVE  Orderly'
<1>d. TypeOK  BY DEF Typed
<1>1. \E kind : Take(kind)
  BY DEF IntervalTimeout, SlotTimeout, EtlmTimeout, RegistrationButton, FrameRefused
<1>2. /\ main.at = "idle" /\ queue' = <<>> /\ Len(queue') = 0
      /\ IsQueued(Head(queue).kind) /\ \A kind : ~IsQueued(kind)'
  BY <1>1, Taken DEF Take, Orderly
<1>3. Alone'  BY <1>2 DEF Alone
<1>4. SetOK'  BY <1>2 DEF SetOK
<1>5. /\ "etlm" \in adv.timers => CanPair(adv)
      /\ FrameOK(adv.air)
      /\ adv.conn => Head(queue).kind = "button"
  BY <1>2 DEF Orderly, PairingOK, RegistrationOK, AirOK
<1>6. CASE IntervalTimeout \/ SlotTimeout
  <2>1. /\ slots' = slots /\ Keeps(adv, adv')
        /\ adv'.temp = adv.temp /\ adv'.positions = adv.positions
        /\ adv'.timers \subseteq adv.timers \cup {"interval"}
        /\ \/ main'.at = "count" /\ adv'.air = adv.air
           \/ main'.at = "choose" /\ adv'.air = Off /\ main'.slot \in Slots
    BY <1>d, <1>2, <1>6, EnterDoes, CounterSlot
  <2>2. Head(queue).kind # "button"
    BY <1>6 DEF IntervalTimeout, SlotTimeout, Take
  <2>3. ~adv'.conn  BY <1>5, <2>1, <2>2 DEF Keeps
  <2>4. /\ CanPair(adv)' <=> CanPair(adv')
        /\ FrameOK(adv.air)' <=> FrameOK(adv'.air)
    BY <2>1, SameSlots
  <2>5. PairingOK'
    <3>1. CanPair(adv) => CanPair(adv')  BY <2>1 DEF CanPair
    <3> QED  BY <1>2, <1>5, <2>1, <2>4, <3>1 DEF PairingOK
  <2>6. AirOK'
    <3>1. FrameOK(Off)  BY AirTypes DEF FrameOK
    <3> QED  BY <1>5, <2>1, <2>4, <3>1 DEF AirOK
  <2> QED  BY <1>3, <1>4, <2>1, <2>3, <2>5, <2>6 DEF Orderly, RegistrationOK, MainOK
<1>7. CASE EtlmTimeout
  <2>1. /\ slots' = slots /\ adv' = adv /\ Head(queue).kind = "etlm"
        /\ main' = [Idle EXCEPT !.at = "cycle", !.cycle = TRUE]
    BY <1>7 DEF EtlmTimeout, Take
  <2>2. main'.at = "cycle"
    BY <2>1 DEF Idle
  <2>3. CanPair(adv) /\ ~adv.conn
    BY <1>2, <1>5, <2>1 DEF Orderly, PairingOK
  <2>4. /\ CanPair(adv)' <=> CanPair(adv')
        /\ FrameOK(adv.air)' <=> FrameOK(adv'.air)
    BY <2>1, SameSlots
  <2>5. PairingOK'  BY <2>1, <2>3, <2>4 DEF PairingOK
  <2>6. AirOK'  BY <1>5, <2>1, <2>4 DEF AirOK
  <2> QED  BY <1>3, <1>4, <2>1, <2>2, <2>3, <2>5, <2>6 DEF Orderly, RegistrationOK, MainOK
<1>8. CASE RegistrationButton
  <2>1. /\ slots' = slots /\ main' = main
        /\ \/ adv' = adv
           \/ /\ ~adv'.link /\ adv'.timers = {} /\ adv'.air = Connectable
    BY <1>d, <1>8, ButtonDoes
  <2>2. /\ CanPair(adv)' <=> CanPair(adv')
        /\ FrameOK(adv.air)' <=> FrameOK(adv'.air)
    BY <2>1, SameSlots
  <2>3. PairingOK'  BY <1>2, <1>5, <2>1, <2>2 DEF PairingOK
  <2>4. AirOK'
    <3>1. FrameOK(Connectable)  BY AirTypes DEF FrameOK
    <3> QED  BY <1>5, <2>1, <2>2, <3>1 DEF AirOK
  <2>5. RegistrationOK'  BY <1>2, <2>1 DEF Orderly, RegistrationOK
  <2> QED  BY <1>2, <1>3, <1>4, <2>1, <2>3, <2>4, <2>5 DEF Orderly, MainOK
<1>9. CASE FrameRefused
  <2>1. adv' = adv /\ main' = main /\ Head(queue).kind = "set"
    BY <1>d, <1>9, RefusedDoes
  <2>2. adv.air = Off /\ "etlm" \notin adv.timers
    BY <1>2, <2>1 DEF Orderly, SetOK
  <2>3. AirOK'  BY <2>1, <2>2, AirTypes DEF AirOK, FrameOK
  <2>4. PairingOK'  BY <1>2, <2>1, <2>2 DEF PairingOK
  <2>5. RegistrationOK'  BY <1>5, <2>1 DEF RegistrationOK
  <2> QED  BY <1>2, <1>3, <1>4, <2>1, <2>3, <2>4, <2>5 DEF Orderly, MainOK
<1> QED  BY <1>6, <1>7, <1>8, <1>9

\* Main takes a further step of its handler, which nothing disturbs.
LEMMA OrderlyHandler ==
    ASSUME Typed, Orderly,
           \/ Choose \/ Cycle \/ Fetch \/ Start \/ LoadPair \/ StorePair
           \/ Count \/ Increment \/ Compare \/ Wrap \/ NextSlot
    PROVE  Orderly'
<1>d. TypeOK /\ queue \in Seq(Events)  BY DEF Typed, TypeOK
<1>1. /\ main.at # "idle" /\ slots' = slots /\ queue' = queue
  BY DEF Choose, Cycle, Fetch, Start, LoadPair, StorePair, Count, Increment, Compare,
         Wrap, NextSlot, Running
<1>2. /\ queue' = <<>> /\ Len(queue') = 0 /\ \A kind : ~IsQueued(kind)'
  <2>1. queue' = <<>>  BY <1>1 DEF Orderly, Alone
  <2>2. Len(queue') = 0  BY <2>1
  <2> QED  BY <2>1, <2>2 DEF IsQueued
<1>3. Alone' /\ SetOK'  BY <1>2 DEF Alone, SetOK
<1>4. ~adv.conn /\ ("etlm" \in adv.timers => CanPair(adv)) /\ FrameOK(adv.air)
  BY <1>1 DEF Orderly, RegistrationOK, PairingOK, AirOK
<1>5. /\ CanPair(adv)' <=> CanPair(adv')
      /\ FrameOK(adv.air)' <=> FrameOK(adv'.air)
      /\ FrameOK(main.frame)' <=> FrameOK(main'.frame)
      /\ ReadyFor(adv, main.slot)' <=> ReadyFor(adv', main'.slot)
  BY <1>1, SameSlots
\* It is enough to show the rest of Orderly without the primes.
<1>6. ASSUME adv'.conn = adv.conn, FrameOK(adv'.air),
             "etlm" \in adv'.timers \/ main'.at = "cycle" => CanPair(adv'),
             main'.at = "fetch" => ReadyFor(adv', main'.slot),
             main'.at = "start" => FrameOK(main'.frame)
      PROVE  main'.at # "choose" => Orderly'
  <2>1. RegistrationOK'  BY <1>4, <1>6 DEF RegistrationOK
  <2>2. PairingOK'  BY <1>2, <1>5, <1>6 DEF PairingOK
  <2>3. (main'.at # "choose" => MainOK') /\ AirOK'  BY <1>5, <1>6 DEF MainOK, AirOK
  <2> QED  BY <1>3, <2>1, <2>2, <2>3 DEF Orderly
<1>7. CASE Choose
  <2>1. /\ Keeps(adv, adv') /\ adv'.air = adv.air
        /\ \/ main'.at = "count" /\ adv' = adv
           \/ main'.at = "cycle" /\ CanPair(adv')
           \/ /\ main'.at = "fetch" /\ main'.slot = main.slot
              /\ slots[main.slot].conf
              /\ ~(slots[main.slot].type = "TLM" /\ EidSlots # {})
              /\ adv'.timers = adv.timers /\ adv'.temp = adv.temp
              /\ adv'.positions \in {adv.positions, Padded(EidSlots)}
    <3>1. main.slot \in Slots  BY <1>7 DEF Choose, Running, Orderly, MainOK
    <3> QED  BY <1>d, <1>7, <3>1, ChooseDoes
  <2>2. main'.at = "fetch" => ReadyFor(adv', main'.slot)
    <3>1. main.slot \in Slots  BY <1>7 DEF Choose, Running, Orderly, MainOK
    <3> QED  BY <2>1, <3>1 DEF ReadyFor
  <2>3. "etlm" \in adv'.timers \/ main'.at = "cycle" => CanPair(adv')
    <3>1. CASE main'.at = "fetch"
      BY <1>4, <2>1, <3>1 DEF CanPair
    <3>2. CASE main'.at # "fetch"
      BY <1>4, <2>1, <3>2
    <3> QED  BY <3>1, <3>2
  <2>4. main'.at # "start" /\ adv'.conn = adv.conn  BY <2>1 DEF Keeps
  <2> QED  BY <1>4, <1>6, <2>1, <2>2, <2>3, <2>4
<1>8. CASE Cycle
  <2>1. /\ main.at = "cycle" /\ Keeps(adv, adv') /\ adv'.air = Off
        /\ adv'.temp = adv.temp /\ adv'.positions = adv.positions
        /\ \/ main'.at \in {"count", "idle"}
           \/ /\ main'.at = "fetch" /\ main'.slot = adv.temp
              /\ adv'.eidCounter < Cardinality(EidSlots)
    BY <1>d, <1>8, CycleDoes
  <2>2. CanPair(adv)  BY <2>1 DEF Orderly, PairingOK
  <2>3. CanPair(adv')  BY <2>1, <2>2 DEF CanPair
  <2>4. main'.at = "fetch" => ReadyFor(adv', main'.slot)
    BY <2>1, <2>2 DEF CanPair, ReadyFor
  <2>5. FrameOK(adv'.air)  BY <2>1, AirTypes DEF FrameOK
  <2>6. main'.at \notin {"start", "choose"} /\ adv'.conn = adv.conn  BY <2>1 DEF Keeps
  <2> QED  BY <1>6, <2>3, <2>4, <2>5, <2>6
<1>9. CASE Fetch
  <2>0. adv.air = Off  BY <1>9 DEF Fetch, Running, Typed, RadioFree
  <2>1. /\ main.at = "fetch" /\ Keeps(adv, adv') /\ adv'.air = adv.air
        /\ adv'.timers = adv.timers /\ adv'.temp = adv.temp
        /\ adv'.positions = adv.positions /\ main'.at = "start"
        /\ ReadyFor(adv, main.slot) => FrameOK(main'.frame)
    BY <1>d, <1>9, <2>0, FetchDoes
  <2>2. FrameOK(main'.frame)  BY <2>1 DEF Orderly, MainOK
  <2>3. "etlm" \in adv'.timers => CanPair(adv')  BY <1>4, <2>1 DEF CanPair
  <2>4. adv'.conn = adv.conn  BY <2>1 DEF Keeps
  <2> QED  BY <1>4, <1>6, <2>1, <2>2, <2>3, <2>4
<1>10. CASE Start
  <2>1. adv.air = Off /\ FrameOK(main.frame)
    BY <1>10 DEF Start, Running, Typed, RadioFree, Orderly, MainOK
  <2>2. /\ Keeps(adv, adv') /\ adv'.air = main.frame
        /\ adv'.timers = adv.timers /\ adv'.temp = adv.temp
        /\ adv'.positions = adv.positions /\ main'.at \in {"pair", "count", "idle"}
    BY <1>d, <1>10, <2>1, StartsDoes
  <2>3. "etlm" \in adv'.timers => CanPair(adv')  BY <1>4, <2>2 DEF CanPair
  <2>4. adv'.conn = adv.conn  BY <2>2 DEF Keeps
  <2> QED  BY <1>6, <2>1, <2>2, <2>3, <2>4
<1>11. CASE LoadPair \/ StorePair
  <2>1. /\ main'.at \in {"paired", "count", "idle"} /\ Keeps(adv, adv')
        /\ adv'.air = adv.air /\ adv'.timers = adv.timers
        /\ adv'.temp = adv.temp /\ adv'.positions = adv.positions
    BY <1>d, <1>11, PairDoes
  <2>2. "etlm" \in adv'.timers => CanPair(adv')  BY <1>4, <2>1 DEF CanPair
  <2>3. adv'.conn = adv.conn  BY <2>1 DEF Keeps
  <2> QED  BY <1>4, <1>6, <2>1, <2>2, <2>3
<1>12. CASE Count \/ Increment \/ Compare \/ Wrap \/ NextSlot
  <2>1. /\ main'.at \in {"idle", "increment", "compare", "wrap", "next"}
        /\ Keeps(adv, adv') /\ adv'.air = adv.air
        /\ adv'.timers \subseteq adv.timers \cup {"slot"}
        /\ adv'.temp = adv.temp /\ adv'.positions = adv.positions
    BY <1>d, <1>12, CountDoes
  <2>2. "etlm" \in adv'.timers => CanPair(adv')  BY <1>4, <2>1 DEF CanPair
  <2>3. adv'.conn = adv.conn  BY <2>1 DEF Keeps
  <2> QED  BY <1>4, <1>6, <2>1, <2>2, <2>3
<1> QED  BY <1>7, <1>8, <1>9, <1>10, <1>11, <1>12

LEMMA OrderlyBoot ==
    ASSUME adv = PoweredUp, queue = <<>>, main.at = "init" PROVE Orderly
<1>1. Len(queue) = 0 /\ \A kind : ~IsQueued(kind)  BY Empty
<1> QED  BY <1>1, BootTypes, AirTypes
         DEF Orderly, Alone, RegistrationOK, PairingOK, SetOK, MainOK, AirOK, FrameOK

LEMMA NextOrderly ==
    ASSUME Overlap = "none", Typed, Orderly, [Next]_vars PROVE Orderly'
<1>1. CASE ManagerInit
  <2>1. /\ slots' = slots /\ queue' = queue /\ main.at = "init" /\ main' = Idle
        /\ adv'.conn = adv.conn
        /\ adv.counter \in Slots /\ FrameOK(adv.air)
           /\ ("etlm" \in adv.timers => CanPair(adv)) =>
              FrameOK(adv'.air) /\ ("etlm" \in adv'.timers => CanPair(adv'))
    BY <1>1, StartDoes DEF Typed
  <2>c. adv.counter \in Slots  BY <2>1, CounterSlot DEF Typed
  <2>2. queue = <<>> /\ ~adv.conn
    BY <2>1 DEF Orderly, Alone, RegistrationOK
  <2>3. Len(queue') = 0 /\ \A kind : ~IsQueued(kind)'
    BY <2>1, <2>2, Empty DEF IsQueued
  <2>4. FrameOK(adv'.air) /\ ("etlm" \in adv'.timers => CanPair(adv'))
    BY <2>1, <2>c DEF Orderly, PairingOK, AirOK
  <2>5. /\ CanPair(adv)' <=> CanPair(adv')
        /\ FrameOK(adv.air)' <=> FrameOK(adv'.air)
    BY <2>1, SameSlots
  <2>6. main'.at = "idle"  BY <2>1, BootTypes
  <2> QED  BY <2>1, <2>2, <2>3, <2>4, <2>5, <2>6
           DEF Orderly, Alone, RegistrationOK, PairingOK, SetOK, MainOK, AirOK
<1>2. CASE ErrorReset
  <2>1. adv' = PoweredUp /\ queue' = <<>> /\ main' = [Idle EXCEPT !.at = "init"]
    BY <1>2 DEF ErrorReset
  <2>2. main'.at = "init"  BY <2>1 DEF Idle
  <2>3. Len(queue') = 0 /\ \A kind : ~IsQueued(kind)'
    <3>1. Len(queue') = 0  BY <2>1
    <3> QED  BY <3>1 DEF IsQueued
  <2> QED  BY <2>1, <2>2, <2>3, BootTypes, AirTypes
           DEF Orderly, Alone, RegistrationOK, PairingOK, SetOK, MainOK, AirOK, FrameOK
<1>3. CASE UNCHANGED vars
  <2>1. slots' = slots /\ adv' = adv /\ queue' = queue /\ main' = main
    BY <1>3 DEF vars
  <2>2. /\ CanPair(adv)' <=> CanPair(adv)
        /\ FrameOK(adv.air)' <=> FrameOK(adv.air)
        /\ FrameOK(main.frame)' <=> FrameOK(main.frame)
        /\ ReadyFor(adv, main.slot)' <=> ReadyFor(adv, main.slot)
    BY <2>1, SameSlots
  <2>3. \A kind : IsQueued(kind)' <=> IsQueued(kind)  BY <2>1 DEF IsQueued
  <2> QED  BY <2>1, <2>2, <2>3
           DEF Orderly, Alone, RegistrationOK, PairingOK, SetOK, MainOK, AirOK
<1> QED
  BY <1>1, <1>2, <1>3, OrderlyInterrupt, OrderlyTake, OrderlyHandler DEF Next, MainLoop

LEMMA AlwaysOrderly == ASSUME Overlap = "none" PROVE Spec => []Orderly
<1>1. Init => Orderly
  <2>1. ASSUME Init PROVE adv = PoweredUp /\ queue = <<>> /\ main.at = "init"
    BY <2>1 DEF Init, Idle
  <2> QED  BY <2>1, OrderlyBoot
<1>2. Typed /\ Orderly /\ [Next]_vars => Orderly'  BY NextOrderly
<1> QED  BY <1>1, <1>2, AlwaysTyped, PTL DEF Spec

\* m_is_connectable_adv means what it says as long as no event is due before the
\* handler of the one before it has ended: no handler of the slots takes the radio
\* from the connectable advertisement (eddystone_ble_registr_adv_cb).
THEOREM RegistrationOnAir == ASSUME Overlap = "none" PROVE Spec => []ConnectableOnAir
<1>1. Orderly => ConnectableOnAir  BY DEF Orderly, RegistrationOK, ConnectableOnAir
<1> QED  BY <1>1, AlwaysOrderly, PTL

\* Under the same condition a write, a clear or a refused frame leaves nothing old
\* on the air: the frame there is that of a configured slot, and of its type
\* (eddystone_advertising_manager_on_ble_evt, etlm_cycle_timeout).
THEOREM FrameOfConfigured == ASSUME Overlap = "none" PROVE Spec => []OnAirIsConfigured
<1>1. Orderly => OnAirIsConfigured
  BY DEF Orderly, AirOK, FrameOK, OnAirIsConfigured
<1> QED  BY <1>1, AlwaysOrderly, PTL

\* And no eTLM frame is encrypted with the key of a slot that is not an EID: the
\* cycle never runs past the slots it has looked up (adv_manager.c, eid_positions).
THEOREM EtlmPaired == ASSUME Overlap = "none" PROVE Spec => []EtlmPairsWithAnEid
<1>1. Orderly => EtlmPairsWithAnEid
  BY DEF Orderly, AirOK, FrameOK, EtlmPairsWithAnEid, EidSlots
<1> QED  BY <1>1, AlwaysOrderly, PTL
=============================================================================
