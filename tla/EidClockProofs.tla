--------------------------- MODULE EidClockProofs ---------------------------
(***************************************************************************)
(* The clocks of EidClock for every number of slots, every K up to the     *)
(* rollover of the temporary key, every width of the clock, and any time   *)
(* after power up.                                                         *)
(*                                                                         *)
(* What is regenerated when rests on 2^K dividing 2^TkExponent, which      *)
(* follows from the number of subsets of a set: the prover has no          *)
(* induction with which to take powers apart.                              *)
(***************************************************************************)
EXTENDS EidClock, Functions, FunctionTheorems, FiniteSetTheorems,
        WellFoundedInduction, TLAPS

-----------------------------------------------------------------------------
(* Powers of two *)

LEMMA SubsetsOfInterval ==
    ASSUME NEW a \in Nat, NEW b \in Nat
    PROVE  /\ IsFiniteSet(SUBSET ((a + 1) .. (a + b)))
           /\ Cardinality(SUBSET ((a + 1) .. (a + b))) = 2^b
<1> DEFINE I == (a + 1) .. (a + b)
<1>1. IsFiniteSet(I) /\ Cardinality(I) = b
  <2>1. /\ IsFiniteSet(I)
        /\ Cardinality(I) = IF a + 1 > a + b THEN 0 ELSE (a + b) - (a + 1) + 1
    BY FS_Interval
  <2> HIDE DEF I
  <2> QED  BY <2>1
<1> HIDE DEF I
<1>2. IsFiniteSet(SUBSET I) /\ Cardinality(SUBSET I) = 2^b
  BY <1>1, FS_SUBSET
<1> QED  BY <1>2 DEF I

LEMMA PowerPositive == ASSUME NEW n \in Nat PROVE 2^n \in Nat \ {0}
<1> DEFINE P == SUBSET (1 .. n)
<1>1. IsFiniteSet(P) /\ Cardinality(P) = 2^n
  <2>1. IsFiniteSet(SUBSET ((0 + 1) .. (0 + n)))
        /\ Cardinality(SUBSET ((0 + 1) .. (0 + n))) = 2^n
    BY SubsetsOfInterval
  <2> QED  BY <2>1
<1>2. P # {}  OBVIOUS
<1> HIDE DEF P
<1> QED  BY <1>1, <1>2, FS_CardinalityType, FS_EmptySet

\* A subset of two disjoint sets together is a subset of each.
LEMMA SubsetPairs ==
    ASSUME NEW S, NEW T, S \cap T = {}
    PROVE  ExistsBijection(SUBSET (S \cup T), (SUBSET S) \X (SUBSET T))
<1> DEFINE f == [R \in SUBSET (S \cup T) |-> <<R \cap S, R \cap T>>]
           A == SUBSET (S \cup T)
           B == (SUBSET S) \X (SUBSET T)
<1>1. f \in [A -> B]  OBVIOUS
<1>2. ASSUME NEW Q \in A, NEW R \in A, f[Q] = f[R] PROVE Q = R
  <2>1. Q \cap S = R \cap S /\ Q \cap T = R \cap T
    BY <1>2
  <2> QED  BY <2>1
<1>3. ASSUME NEW p \in B PROVE \E R \in A : f[R] = p
  <2>1. PICK X \in SUBSET S, Y \in SUBSET T : p = <<X, Y>>
    BY <1>3
  <2>2. /\ X \cup Y \in A
        /\ (X \cup Y) \cap S = X /\ (X \cup Y) \cap T = Y
    OBVIOUS
  <2>3. f[X \cup Y] = p
    BY <2>1, <2>2
  <2> QED  BY <2>2, <2>3
<1> HIDE DEF f, A, B
<1>4. f \in Bijection(A, B)
  BY <1>1, <1>2, <1>3 DEF Bijection, Injection, Surjection, IsInjective
<1>5. ExistsBijection(A, B)
  BY <1>4 DEF ExistsBijection
<1> QED  BY <1>5 DEF A, B

LEMMA PowerOfSum ==
    ASSUME NEW a \in Nat, NEW b \in Nat PROVE 2^(a + b) = 2^a * 2^b
<1> DEFINE S == 1 .. a
           T == (a + 1) .. (a + b)
           U == 1 .. (a + b)
<1>1. S \cap T = {} /\ S \cup T = U  OBVIOUS
<1>2. /\ IsFiniteSet(SUBSET S) /\ Cardinality(SUBSET S) = 2^a
      /\ IsFiniteSet(SUBSET T) /\ Cardinality(SUBSET T) = 2^b
      /\ IsFiniteSet(SUBSET U) /\ Cardinality(SUBSET U) = 2^(a + b)
  <2>1. /\ IsFiniteSet(SUBSET ((0 + 1) .. (0 + a)))
        /\ Cardinality(SUBSET ((0 + 1) .. (0 + a))) = 2^a
    BY SubsetsOfInterval
  <2>2. /\ IsFiniteSet(SUBSET ((0 + 1) .. (0 + (a + b))))
        /\ Cardinality(SUBSET ((0 + 1) .. (0 + (a + b)))) = 2^(a + b)
    BY SubsetsOfInterval
  <2>3. 0 + 1 = 1 /\ 0 + a = a /\ 0 + (a + b) = a + b  OBVIOUS
  <2> QED  BY <2>1, <2>2, <2>3, SubsetsOfInterval
<1> HIDE DEF S, T, U
<1>3. ExistsBijection(SUBSET U, (SUBSET S) \X (SUBSET T))
  BY <1>1, SubsetPairs
<1>4. Cardinality((SUBSET S) \X (SUBSET T)) = Cardinality(SUBSET U)
  BY <1>2, <1>3, FS_Bijection
<1>5. Cardinality((SUBSET S) \X (SUBSET T))
          = Cardinality(SUBSET S) * Cardinality(SUBSET T)
  BY <1>2, FS_Product, Zenon
<1> QED  BY <1>2, <1>4, <1>5, Zenon

-----------------------------------------------------------------------------
(* Division *)

LEMMA DivMod ==
    ASSUME NEW c \in Nat, NEW m \in Nat \ {0}
    PROVE  /\ c \div m \in Nat /\ c % m \in Nat /\ c % m < m
           /\ c = m * (c \div m) + (c % m)
OBVIOUS

LEMMA DivUnique ==
    ASSUME NEW m \in Nat \ {0}, NEW q \in Int, NEW p \in Int,
           NEW r \in Nat, r < m, NEW s \in Nat, s < m,
           m * q + r = m * p + s
    PROVE  q = p /\ r = s
<1>1. ASSUME NEW x \in Int, NEW y \in Int, NEW u \in Nat, NEW v \in Nat,
             u < m, m * x + u = m * y + v
      PROVE  ~(x < y)
  <2>1. SUFFICES ASSUME x < y PROVE FALSE  OBVIOUS
  <2>2. PICK d \in Nat : y = x + d + 1
    <3>1. y - x - 1 \in Nat /\ y = x + (y - x - 1) + 1  BY <2>1
    <3> QED  BY <3>1
  <2>3. m * y = m * x + m * d + m /\ m * d \in Nat  BY <2>2
  <2>4. u = m * d + m + v  BY <1>1, <2>3
  <2>5. FALSE  BY <1>1, <2>3, <2>4
  <2> QED  BY <2>5
<1>2. ~(q < p) /\ ~(p < q)  BY <1>1
<1> QED  BY <1>2

LEMMA Division ==
    ASSUME NEW c \in Nat, NEW m \in Nat \ {0}, NEW q \in Int,
           NEW r \in Nat, r < m, c = m * q + r
    PROVE  c \div m = q /\ c % m = r
<1> DEFINE p == c \div m
           s == c % m
<1>1. p \in Nat /\ s \in Nat /\ s < m /\ c = m * p + s  BY DivMod
<1> HIDE DEF p, s
<1>2. q = p /\ r = s  BY <1>1, DivUnique
<1> QED  BY <1>2 DEF p, s

\* The quotient changes with the second that is a multiple of the divisor.
LEMMA QuotientKept ==
    ASSUME NEW c \in Nat, NEW m \in Nat \ {0}, (c + 1) % m # 0
    PROVE  (c + 1) \div m = c \div m
<1> DEFINE q == (c + 1) \div m
           r == (c + 1) % m
<1>1. q \in Nat /\ r \in Nat /\ r < m /\ c + 1 = m * q + r
  BY DivMod, c + 1 \in Nat
<1>2. r # 0  OBVIOUS
<1> HIDE DEF q, r
<1>3. r - 1 \in Nat /\ r - 1 < m /\ c = m * q + (r - 1)
  BY <1>1, <1>2
<1>4. c \div m = q
  BY <1>1, <1>3, Division
<1> QED  BY <1>4 DEF q

\* A multiple of a product is a multiple of each factor.
LEMMA MultipleOfFactor ==
    ASSUME NEW c \in Nat, NEW m \in Nat \ {0}, NEW n \in Nat \ {0},
           c % (m * n) = 0
    PROVE  c % m = 0
<1>1. m * n \in Nat \ {0}  OBVIOUS
<1> DEFINE q == c \div (m * n)
<1>2. q \in Nat /\ c = (m * n) * q + (c % (m * n))  BY <1>1, DivMod
<1> HIDE DEF q
<1>3. c = m * (n * q) + 0 /\ n * q \in Nat  BY <1>1, <1>2
<1> QED  BY <1>3, Division

LEMMA FloorBounded ==
    ASSUME NEW c \in Nat, NEW m \in Nat \ {0}
    PROVE  (c \div m) * m \in Nat /\ (c \div m) * m <= c
<1>1. c \div m \in Nat /\ c % m \in Nat /\ c = m * (c \div m) + (c % m)  BY DivMod
<1> QED  BY <1>1

\* The quotient of what is below a product is below the other factor.
LEMMA QuotientBelow ==
    ASSUME NEW c \in Nat, NEW m \in Nat \ {0}, NEW n \in Nat \ {0}, c < m * n
    PROVE  c \div m \in 0 .. n - 1
<1> DEFINE q == c \div m
<1>1. q \in Nat /\ m * q <= c
  <2>1. q \in Nat /\ c % m \in Nat /\ c = m * q + (c % m)  BY DivMod
  <2> HIDE DEF q
  <2> QED  BY <2>1
<1> HIDE DEF q
<1>2. ~(q >= n)
  <2>1. SUFFICES ASSUME q >= n PROVE FALSE  OBVIOUS
  <2>2. PICK d \in Nat : q = n + d
    <3>1. q - n \in Nat /\ q = n + (q - n)  BY <1>1, <2>1
    <3> QED  BY <3>1
  <2>3. m * q = m * n + m * d /\ m * d \in Nat  BY <2>2
  <2> QED  BY <1>1, <2>3
<1> QED  BY <1>1, <1>2 DEF q

-----------------------------------------------------------------------------
(* The clock of a slot *)

Ks == Scalers \cup {0}
Clocks == [seconds : Seconds, tk : Keys,
           eid : [tk : Keys, k : Ks, time : Seconds]]

\* A clock has the temporary key of its time, and the EID of that key.
Sound(c, k) == /\ c \in Clocks
               /\ c.tk = TempKey(c.seconds)
               /\ k # 0 => c.eid = Eid(c.tk, k, c.seconds)

LEMMA Widths ==
    /\ 2^TkExponent \in Nat \ {0} /\ 2^SecondsWidth \in Nat \ {0}
    /\ 2^(SecondsWidth - TkExponent) \in Nat \ {0}
    /\ 2^SecondsWidth = 2^TkExponent * 2^(SecondsWidth - TkExponent)
<1> DEFINE d == SecondsWidth - TkExponent
<1>1. TkExponent \in Nat /\ SecondsWidth \in Nat /\ d \in Nat
      /\ SecondsWidth = TkExponent + d
  BY ExponentsAssumption
<1> HIDE DEF d
<1>2. 2^(TkExponent + d) = 2^TkExponent * 2^d  BY <1>1, PowerOfSum
<1>3. 2^TkExponent \in Nat \ {0} /\ 2^SecondsWidth \in Nat \ {0} /\ 2^d \in Nat \ {0}
  BY <1>1, PowerPositive
<1>4. 2^SecondsWidth = 2^TkExponent * 2^d
  BY <1>1, <1>2, Zenon
<1> QED  BY <1>3, <1>4 DEF d

\* A rollover of the temporary key is a rotation of the EID.
LEMMA RolloverRotates ==
    ASSUME NEW k \in Ks, NEW t \in Nat, t % 2^TkExponent = 0
    PROVE  2^k \in Nat \ {0} /\ t % 2^k = 0
<1> DEFINE d == TkExponent - k
<1>1. k \in Nat /\ d \in Nat /\ TkExponent = k + d
  BY ExponentsAssumption DEF Ks
<1> HIDE DEF d
<1>2. 2^k \in Nat \ {0} /\ 2^d \in Nat \ {0} /\ 2^(k + d) = 2^k * 2^d
  BY <1>1, PowerPositive, PowerOfSum
<1>3. t % (2^k * 2^d) = 0
  BY <1>1, <1>2, Zenon
<1> QED  BY <1>2, <1>3, MultipleOfFactor

LEMMA ScalerPower == ASSUME NEW k \in Ks PROVE 2^k \in Nat \ {0}
<1>1. k \in Nat  BY ExponentsAssumption DEF Ks
<1> QED  BY <1>1, PowerPositive

LEMMA TempKeyType == ASSUME NEW t \in Seconds PROVE TempKey(t) \in Keys
<1>1. t \in Nat /\ t < 2^TkExponent * 2^(SecondsWidth - TkExponent)
  <2>1. t \in Nat /\ t < 2^SecondsWidth  BY Widths DEF Seconds
  <2> QED  BY <2>1, Widths
<1> QED  BY <1>1, Widths, QuotientBelow DEF TempKey, Keys

LEMMA EidType ==
    ASSUME NEW key \in Keys, NEW k \in Ks, NEW t \in Seconds
    PROVE  Eid(key, k, t) \in [tk : Keys, k : Ks, time : Seconds]
<1> DEFINE f == (t \div 2^k) * 2^k
<1>1. f \in Nat /\ f <= t
  <2>1. t \in Nat  BY Widths DEF Seconds
  <2> QED  BY <2>1, ScalerPower, FloorBounded
<1>2. f \in Seconds
  <2> HIDE DEF f
  <2> QED  BY <1>1, Widths DEF Seconds
<1> HIDE DEF f
<1>3. Eid(key, k, t) = [tk |-> key, k |-> k, time |-> f]  BY DEF Eid, f
<1> QED  BY <1>2, <1>3

LEMMA FreshSound ==
    ASSUME NEW t \in Seconds, NEW k \in Ks PROVE Sound(Fresh(t, k), k)
BY TempKeyType, EidType DEF Fresh, Sound, Clocks

\* After a second the key and the EID are those of the new time, whether the
\* clock has rolled over or not.
LEMMA OneSecondSound ==
    ASSUME NEW c, NEW k \in Ks, Sound(c, k), NEW zero \in BOOLEAN
    PROVE  Sound(OneSecond(c, k, zero), k)
<1> DEFINE t == (c.seconds + 1) % 2^SecondsWidth
           key == IF t % 2^TkExponent = 0 THEN TempKey(t) ELSE c.tk
           e == IF RotationDue(k, t, zero) THEN Eid(key, k, t) ELSE c.eid
<1>c. /\ c.seconds \in Seconds /\ c.tk \in Keys /\ c.tk = TempKey(c.seconds)
      /\ c.eid \in [tk : Keys, k : Ks, time : Seconds]
      /\ k # 0 => c.eid = Eid(c.tk, k, c.seconds)
  BY DEF Sound, Clocks
<1>s. c.seconds \in Nat  BY <1>c, Widths DEF Seconds
<1>1. t \in Seconds /\ t \in Nat /\ (t = c.seconds + 1 \/ t = 0)
  BY <1>c, <1>s, Widths DEF Seconds
<1>2. t # 0 => t = c.seconds + 1
  BY <1>1
<1>r. OneSecond(c, k, zero) = [seconds |-> t, tk |-> key, eid |-> e]
  BY DEF OneSecond
<1>z. \A m \in Nat \ {0} : 0 % m = 0  OBVIOUS
<1> HIDE DEF t
<1>3. key = TempKey(t)
  <2>1. CASE t % 2^TkExponent = 0  BY <2>1
  <2>2. CASE t % 2^TkExponent # 0
    <3>1. t # 0  BY <2>2, <1>z, Widths
    <3>2. t \div 2^TkExponent = c.seconds \div 2^TkExponent
      BY <3>1, <1>2, <1>s, <2>2, Widths, QuotientKept
    <3> QED  BY <3>2, <2>2, <1>c DEF TempKey
  <2> QED  BY <2>1, <2>2
<1>4. key \in Keys  BY <1>1, <1>3, TempKeyType
<1>5. ASSUME k # 0 PROVE e = Eid(key, k, t)
  <2>1. CASE t % 2^k = 0  BY <2>1, <1>5 DEF RotationDue
  <2>2. CASE t % 2^k # 0
    <3>1. t # 0  BY <2>2, <1>z, ScalerPower
    <3>2. t \div 2^k = c.seconds \div 2^k
      BY <3>1, <1>2, <1>s, <2>2, ScalerPower, QuotientKept
    <3>3. t % 2^TkExponent # 0  BY <2>2, <1>1, RolloverRotates
    <3>4. key = c.tk  BY <3>3
    <3>5. e = c.eid  BY <2>2, <1>5 DEF RotationDue
    <3>6. c.eid = Eid(c.tk, k, c.seconds)  BY <1>c, <1>5
    <3> QED  BY <3>2, <3>4, <3>5, <3>6 DEF Eid
  <2> QED  BY <2>1, <2>2
<1>6. e \in [tk : Keys, k : Ks, time : Seconds]
  BY <1>1, <1>4, <1>c, EidType
<1> HIDE DEF key, e
<1> QED  BY <1>1, <1>3, <1>4, <1>5, <1>6, <1>r DEF Sound, Clocks

LEMMA AdvancedSound ==
    ASSUME NEW s \in Slots, scaler[s] \in Ks, Sound(State(s), scaler[s]),
           NEW extra \in BOOLEAN, NEW zero \in BOOLEAN
    PROVE  Sound(Advanced(s, extra, zero), scaler[s])
<1> DEFINE once == OneSecond(State(s), scaler[s], zero)
<1>1. Sound(once, scaler[s])  BY OneSecondSound
<1>2. Sound(OneSecond(once, scaler[s], zero), scaler[s])
  <2> HIDE DEF once
  <2> QED  BY <1>1, OneSecondSound
<1> QED  BY <1>1, <1>2 DEF Advanced

-----------------------------------------------------------------------------
(* The extra seconds *)

LEMMA LeastNat ==
    ASSUME NEW T \in SUBSET Nat, T # {} PROVE \E x \in T : \A y \in T : ~(y < x)
<1>1. PICK x \in T : \A y \in T : <<y, x>> \notin OpToRel(<, Nat)
  BY NatLessThanWellFounded, WFMin
<1>2. ASSUME NEW y \in T, y < x PROVE FALSE
  <2>1. <<y, x>> \in OpToRel(<, Nat)  BY <1>2 DEF OpToRel
  <2> QED  BY <1>1, <2>1
<1> QED  BY <1>2

LEMMA SlotSets ==
    ASSUME NEW S \in SUBSET Slots
    PROVE  /\ IsFiniteSet(S) /\ Cardinality(S) \in Nat
           /\ S # {} => \E s \in S : \A r \in S : r <= s
<1>n. NumSlots \in Nat /\ NumSlots - 1 \in Int  BY NumSlotsAssumption
<1>1. IsFiniteSet(Slots)  BY <1>n, FS_Interval DEF Slots
<1>2. IsFiniteSet(S) /\ Cardinality(S) \in Nat
  BY <1>1, FS_Subset, FS_CardinalityType
<1>3. ASSUME S # {} PROVE \E s \in S : \A r \in S : r <= s
  <2> DEFINE T == {n \in Nat : \A r \in S : r <= n}
  <2>1. NumSlots \in T  BY <1>n DEF Slots
  <2>2. PICK n \in T : \A m \in T : ~(m < n)
    <3>1. T \in SUBSET Nat /\ T # {}  BY <2>1
    <3> HIDE DEF T
    <3> QED  BY <3>1, LeastNat
  <2>3. n \in S
    <3>1. SUFFICES ASSUME n \notin S PROVE FALSE  OBVIOUS
    <3>2. \A r \in S : r \in Nat /\ r < n  BY <2>2, <3>1, <1>n DEF Slots
    <3>3. n - 1 \in T  BY <1>3, <3>2, <2>2
    <3> QED  BY <2>2, <3>3
  <2> QED  BY <2>2, <2>3
<1> QED  BY <1>2, <1>3

\* The seconds given out are no more than the delay, whose remainder is kept;
\* a slot takes one for itself and one for each occupied slot before it.
LEMMA ExtrasPaid ==
    ASSUME NEW delay \in Nat
    PROVE  /\ Cardinality(Extras(delay)) \in Nat
           /\ UsPerSecond * Cardinality(Extras(delay)) \in Nat
           /\ UsPerSecond * Cardinality(Extras(delay)) <= delay
<1> DEFINE X == Extras(delay)
           R(s) == {r \in 0 .. s : occupied[r]}
<1>u. UsPerSecond \in Nat  BY SecondsAssumption
<1>1. /\ X \in SUBSET Slots
      /\ \A s \in X : occupied[s] /\ delay >= UsPerSecond * Cardinality(R(s))
  BY DEF Extras
<1> HIDE DEF X
<1>2. IsFiniteSet(X) /\ Cardinality(X) \in Nat  BY <1>1, SlotSets
<1>3. UsPerSecond * Cardinality(X) \in Nat  BY <1>u, <1>2
<1>4. CASE X = {}
  <2>1. Cardinality(X) = 0  BY <1>4, FS_EmptySet
  <2> QED  BY <2>1, <1>3, <1>u DEF X
<1>5. CASE X # {}
  <2>1. PICK s \in X : \A r \in X : r <= s  BY <1>1, <1>5, SlotSets
  <2>2. s \in Nat /\ X \subseteq R(s)
    <3>1. s \in Nat /\ X \subseteq Nat
      BY <1>1, <2>1, NumSlotsAssumption DEF Slots
    <3>2. ASSUME NEW r \in X PROVE r \in R(s)
      <4>1. r <= s /\ occupied[r]  BY <1>1, <2>1, <3>2
      <4>2. r \in 0 .. s  BY <3>1, <3>2, <4>1
      <4> QED  BY <4>1, <4>2
    <3> QED  BY <3>1, <3>2
  <2>3. IsFiniteSet(R(s))
    <3>1. IsFiniteSet(0 .. s)  BY <2>2, FS_Interval
    <3> QED  BY <3>1, FS_Subset
  <2>4. Cardinality(X) <= Cardinality(R(s)) /\ Cardinality(R(s)) \in Nat
    BY <2>2, <2>3, FS_Subset, FS_CardinalityType
  <2>5. delay >= UsPerSecond * Cardinality(R(s))  BY <1>1, <2>1
  <2> DEFINE x == Cardinality(X)
             y == Cardinality(R(s))
  <2> HIDE DEF x, y
  <2>6. x \in Nat /\ y \in Nat /\ x <= y /\ delay >= UsPerSecond * y
    BY <2>4, <2>5, <1>2 DEF x, y
  <2>7. PICK d \in Nat : y = x + d
    <3>1. y - x \in Nat /\ y = x + (y - x)  BY <2>6
    <3> QED  BY <3>1
  <2>8. UsPerSecond * y = UsPerSecond * x + UsPerSecond * d
        /\ UsPerSecond * d \in Nat
    BY <1>u, <2>6, <2>7
  <2>9. UsPerSecond * x <= delay  BY <1>u, <2>6, <2>8
  <2> QED  BY <1>2, <1>3, <2>9 DEF X, x
<1> QED  BY <1>4, <1>5

\* While less than a second of delay is kept, an occupied first slot takes
\* every extra second there is.
LEMMA FirstTakesAll ==
    ASSUME NEW delay \in Nat, delay <= UsPerSecond, occupied[0]
    PROVE  /\ 0 \in Extras(delay) <=> delay = UsPerSecond
           /\ UsPerSecond * Cardinality(Extras(delay))
                  = IF delay = UsPerSecond THEN UsPerSecond ELSE 0
<1>u. UsPerSecond \in Nat /\ UsPerSecond > 1  BY SecondsAssumption
<1>0. 0 \in Slots  BY NumSlotsAssumption DEF Slots
<1>1. Cardinality({r \in 0 .. 0 : occupied[r]}) = 1
  <2>1. {r \in 0 .. 0 : occupied[r]} = {0}  OBVIOUS
  <2> QED  BY <2>1, FS_Singleton
<1>2. 0 \in Extras(delay) <=> delay >= UsPerSecond * 1
  BY <1>0, <1>1 DEF Extras
<1>3. 0 \in Extras(delay) <=> delay = UsPerSecond
  BY <1>2, <1>u
<1> DEFINE x == Cardinality(Extras(delay))
<1>4. x \in Nat /\ UsPerSecond * x <= delay  BY ExtrasPaid
<1>5. 0 \in Extras(delay) => x # 0
  <2>1. Extras(delay) \in SUBSET Slots  BY DEF Extras
  <2> QED  BY <2>1, SlotSets, FS_EmptySet
<1>6. delay # UsPerSecond => x = 0
  <2> HIDE DEF x
  <2>1. ASSUME x # 0 PROVE UsPerSecond * x >= UsPerSecond
    <3>1. PICK d \in Nat : x = d + 1
      <4>1. x - 1 \in Nat /\ x = (x - 1) + 1  BY <1>4, <2>1
      <4> QED  BY <4>1
    <3>2. UsPerSecond * x = UsPerSecond * d + UsPerSecond /\ UsPerSecond * d \in Nat
      BY <1>u, <3>1
    <3> QED  BY <1>u, <3>2
  <2> QED  BY <2>1, <1>4, <1>u
<1>7. delay = UsPerSecond => x = 1
  <2>1. ASSUME delay = UsPerSecond PROVE x # 0  BY <2>1, <1>3, <1>5
  <2> HIDE DEF x
  <2>2. ASSUME delay = UsPerSecond, x # 1 PROVE FALSE
    <3>1. PICK d \in Nat : x = d + 2
      <4>1. x - 2 \in Nat /\ x = (x - 2) + 2  BY <1>4, <2>1, <2>2
      <4> QED  BY <4>1
    <3>2. UsPerSecond * x = UsPerSecond * d + UsPerSecond + UsPerSecond
          /\ UsPerSecond * d \in Nat
      BY <1>u, <3>1
    <3> QED  BY <1>u, <1>4, <3>2, <2>2
  <2> QED  BY <2>2
<1>8. UsPerSecond * 0 = 0 /\ UsPerSecond * 1 = UsPerSecond  BY <1>u
<1> HIDE DEF x
<1>9. UsPerSecond * x = IF delay = UsPerSecond THEN UsPerSecond ELSE 0
  BY <1>6, <1>7, <1>8, Zenon
<1> QED  BY <1>3, <1>9 DEF x

-----------------------------------------------------------------------------
(* The invariant *)

\* Every slot shows the key and the EID of its clock, empty ones included.
Typed == TypeOK /\ \A s \in Slots : Sound(State(s), scaler[s])

\* The first clock shows what the timer has counted since its exchange, but for
\* the delay still kept and the delay that was kept at the exchange.
Metered ==
    0 \in KeptSlots =>
        /\ occupied[0] /\ us_delay < UsPerSecond
        /\ \E d \in 0 .. UsPerSecond - 1 : TrueTime(0) + d = ShownTime(0) + us_delay

\* What the clocks and the slots are set to is of the types they had.
LEMMA SetSound ==
    ASSUME NEW next, Set(next), scaler' \in [Slots -> Ks],
           \A s \in Slots : Sound(next[s], scaler'[s])
    PROVE  /\ seconds' \in [Slots -> Seconds] /\ tk' \in [Slots -> Keys]
           /\ eid' \in [Slots -> [tk : Keys, k : Ks, time : Seconds]]
           /\ \A s \in Slots : Sound(State(s), scaler[s])'
<1>1. \A s \in Slots : next[s] \in Clocks  BY DEF Sound
<1>2. \A s \in Slots : /\ next[s].seconds \in Seconds /\ next[s].tk \in Keys
                       /\ next[s].eid \in [tk : Keys, k : Ks, time : Seconds]
  BY <1>1 DEF Clocks
<1>3. /\ seconds' \in [Slots -> Seconds] /\ tk' \in [Slots -> Keys]
      /\ eid' \in [Slots -> [tk : Keys, k : Ks, time : Seconds]]
  BY <1>2 DEF Set
<1>4. ASSUME NEW s \in Slots PROVE Sound(State(s), scaler[s])'
  <2>1. /\ seconds'[s] = next[s].seconds /\ tk'[s] = next[s].tk
        /\ eid'[s] = next[s].eid
    BY DEF Set
  <2>2. State(s)' = [seconds |-> next[s].seconds, tk |-> next[s].tk, eid |-> next[s].eid]
    BY <2>1 DEF State
  <2>3. Sound([seconds |-> next[s].seconds, tk |-> next[s].tk, eid |-> next[s].eid],
              scaler'[s])
    BY <1>2 DEF Sound, Clocks
  <2> QED  BY <2>2, <2>3 DEF Sound
<1> QED  BY <1>3, <1>4

LEMMA InitTyped == Init => Typed
<1> SUFFICES ASSUME Init PROVE Typed  OBVIOUS
<1>1. occupied \in [Slots -> BOOLEAN] /\ scaler \in [Slots -> Ks]
  BY DEF Init, Ks
<1>2. PICK t \in StoredSeconds :
          seconds = [s \in Slots |-> IF occupied[s] THEN t ELSE InitialSeconds]
  BY DEF Init
<1>3. seconds \in [Slots -> Seconds]
  BY <1>2, SecondsAssumption
<1>4. tk = [s \in Slots |-> TempKey(seconds[s])]
      /\ eid = [s \in Slots |-> Eid(tk[s], scaler[s], seconds[s])]
  BY DEF Init
<1>5. \A s \in Slots : /\ TempKey(seconds[s]) \in Keys
                       /\ Eid(TempKey(seconds[s]), scaler[s], seconds[s])
                              \in [tk : Keys, k : Ks, time : Seconds]
  BY <1>1, <1>3, TempKeyType, EidType
<1>6. tk \in [Slots -> Keys] /\ eid \in [Slots -> [tk : Keys, k : Ks, time : Seconds]]
  BY <1>4, <1>5
<1>7. us_delay \in Nat /\ ticks \in 0 .. MaxTicks
      /\ born \in [Slots -> 0 .. MaxTicks] /\ added \in [Slots -> Nat]
  BY BoundAssumption DEF Init
<1>8. \A s \in Slots : Sound(State(s), scaler[s])
  BY <1>3, <1>4, <1>5, <1>6 DEF Sound, State, Clocks
<1> QED  BY <1>1, <1>3, <1>6, <1>7, <1>8 DEF Typed, TypeOK, Ks

LEMMA TickTyped == Typed /\ UpdateTime => Typed'
<1> SUFFICES ASSUME Typed, UpdateTime PROVE Typed'  OBVIOUS
<1> DEFINE X == Extras(us_delay + 1)
<1>1. PICK zero \in BOOLEAN : Set([s \in Slots |-> Advanced(s, s \in X, zero)])
  BY DEF UpdateTime
<1>2. UNCHANGED timing  BY DEF UpdateTime
<1>3. scaler \in [Slots -> Ks] /\ \A s \in Slots : Sound(State(s), scaler[s])
  BY DEF Typed, TypeOK, Ks
<1>4. scaler' = scaler /\ occupied' = occupied /\ born' = born  BY <1>2 DEF timing
<1> DEFINE next == [s \in Slots |-> Advanced(s, s \in X, zero)]
<1>5. ASSUME NEW s \in Slots PROVE Sound(next[s], scaler'[s])
  <2>1. Sound(Advanced(s, s \in X, zero), scaler[s])
    <3>1. (s \in X) \in BOOLEAN  OBVIOUS
    <3> HIDE DEF X
    <3> QED  BY <1>3, <3>1, AdvancedSound, Zenon
  <2> QED  BY <2>1, <1>4
<1>6. us_delay' \in Nat
  <2>1. us_delay \in Nat  BY DEF Typed, TypeOK
  <2>2. us_delay + 1 \in Nat  BY <2>1
  <2> DEFINE p == UsPerSecond * Cardinality(X)
  <2>3. p \in Nat /\ p <= us_delay + 1  BY <2>2, ExtrasPaid
  <2>4. us_delay' = us_delay + 1 - p  BY DEF UpdateTime
  <2> HIDE DEF p
  <2> QED  BY <2>1, <2>3, <2>4
<1>7. ticks' \in 0 .. MaxTicks
  BY BoundAssumption DEF UpdateTime, Typed, TypeOK
<1>8. added' \in [Slots -> Nat]
  <2>1. added' = [s \in Slots |-> added[s] + IF s \in X THEN 2
                                             ELSE IF occupied[s] THEN 1 ELSE 0]
    BY DEF UpdateTime
  <2>2. added \in [Slots -> Nat]  BY DEF Typed, TypeOK
  <2> HIDE DEF X
  <2> QED  BY <2>1, <2>2
<1> HIDE DEF next
<1>9. /\ seconds' \in [Slots -> Seconds] /\ tk' \in [Slots -> Keys]
      /\ eid' \in [Slots -> [tk : Keys, k : Ks, time : Seconds]]
      /\ \A s \in Slots : Sound(State(s), scaler[s])'
  <2>1. Set(next)  BY <1>1 DEF next
  <2> QED  BY <2>1, <1>3, <1>4, <1>5, SetSound
<1> QED  BY <1>3, <1>4, <1>6, <1>7, <1>8, <1>9 DEF Typed, TypeOK, Ks

LEMMA SlotTyped ==
    ASSUME Typed, NEW s \in Slots, NEW k \in Ks, NEW t \in Seconds,
           occupied' \in [Slots -> BOOLEAN], scaler' = [scaler EXCEPT ![s] = k],
           Set([r \in Slots |-> IF r = s THEN Fresh(t, k) ELSE State(r)]),
           us_delay' = us_delay, ticks' = ticks,
           born' \in [Slots -> 0 .. MaxTicks], added' \in [Slots -> Nat]
    PROVE  Typed'
<1> DEFINE next == [r \in Slots |-> IF r = s THEN Fresh(t, k) ELSE State(r)]
<1>1. scaler \in [Slots -> Ks] /\ \A r \in Slots : Sound(State(r), scaler[r])
  BY DEF Typed, TypeOK, Ks
<1>2. scaler' \in [Slots -> Ks]  BY <1>1
<1>3. ASSUME NEW r \in Slots PROVE Sound(next[r], scaler'[r])
  BY <1>1, FreshSound
<1> HIDE DEF next
<1>4. /\ seconds' \in [Slots -> Seconds] /\ tk' \in [Slots -> Keys]
      /\ eid' \in [Slots -> [tk : Keys, k : Ks, time : Seconds]]
      /\ \A r \in Slots : Sound(State(r), scaler[r])'
  <2>1. Set(next)  BY DEF next
  <2> QED  BY <2>1, <1>2, <1>3, SetSound
<1>5. us_delay' \in Nat /\ ticks' \in 0 .. MaxTicks  BY DEF Typed, TypeOK
<1> QED  BY <1>2, <1>4, <1>5 DEF Typed, TypeOK, Ks

LEMMA NextTyped == Typed /\ [Next]_vars => Typed'
<1> SUFFICES ASSUME Typed, [Next]_vars PROVE Typed'  OBVIOUS
<1>1. CASE UpdateTime  BY <1>1, TickTyped
<1>2. ASSUME NEW s \in Slots, NEW k \in Scalers, Exchange(s, k) PROVE Typed'
  <2>1. InitialSeconds \in Seconds /\ k \in Ks  BY SecondsAssumption DEF Ks
  <2>2. occupied' \in [Slots -> BOOLEAN] /\ scaler' = [scaler EXCEPT ![s] = k]
        /\ Set([r \in Slots |-> IF r = s THEN Fresh(InitialSeconds, k) ELSE State(r)])
        /\ us_delay' = us_delay /\ ticks' = ticks
        /\ born' \in [Slots -> 0 .. MaxTicks] /\ added' \in [Slots -> Nat]
    BY <1>2 DEF Exchange, SetSlot, Typed, TypeOK
  <2> QED  BY <2>1, <2>2, SlotTyped
<1>3. ASSUME NEW s \in Slots, Destroy(s) PROVE Typed'
  <2>1. 0 \in Seconds /\ 0 \in Ks  BY Widths DEF Seconds, Ks
  <2>2. occupied' \in [Slots -> BOOLEAN] /\ scaler' = [scaler EXCEPT ![s] = 0]
        /\ Set([r \in Slots |-> IF r = s THEN Fresh(0, 0) ELSE State(r)])
        /\ us_delay' = us_delay /\ ticks' = ticks
        /\ born' \in [Slots -> 0 .. MaxTicks] /\ added' \in [Slots -> Nat]
    BY <1>3 DEF Destroy, Typed, TypeOK
  <2> QED  BY <2>1, <2>2, SlotTyped
<1>4. CASE UNCHANGED vars
  BY <1>4 DEF vars, Typed, TypeOK, State
<1> QED  BY <1>1, <1>2, <1>3, <1>4 DEF Next

LEMMA AlwaysTyped == Spec => []Typed
<1>1. Init => Typed  BY InitTyped
<1>2. Typed /\ [Next]_vars => Typed'  BY NextTyped
<1> QED  BY <1>1, <1>2, PTL DEF Spec

-----------------------------------------------------------------------------
(* Theorems *)

\* eddystone_security_update_time, the exchanges, the restore and the destroy
\* keep every clock, key and EID within its width, and never give out more
\* delay than the timer has lost.
THEOREM TypeCorrect == Spec => []TypeOK
<1>1. Typed => TypeOK  BY DEF Typed
<1> QED  BY <1>1, AlwaysTyped, PTL

\* eddystone_security_update_time (:197) never leaves a slot with an EID that
\* its clock has outlived: neither a rollover of the temporary key or of the
\* clock nor an extra second steps over a rotation.
THEOREM EidsFollowClocks == Spec => []EidIsCurrent
<1>1. Typed => EidIsCurrent
  <2> SUFFICES ASSUME Typed, NEW s \in Slots, scaler[s] # 0
               PROVE  /\ eid[s] = Eid(TempKey(seconds[s]), scaler[s], seconds[s])
                      /\ eid[s].time = EtlmNonceTime(s)
    BY DEF EidIsCurrent
  <2>1. eid[s] = Eid(TempKey(seconds[s]), scaler[s], seconds[s])
    BY DEF Typed, Sound, State
  <2> QED  BY <2>1 DEF Eid, EtlmNonceTime
<1> QED  BY <1>1, AlwaysTyped, PTL

-----------------------------------------------------------------------------
(* The first clock *)

LEMMA InitMetered == Init => Metered
<1> SUFFICES ASSUME Init, 0 \in KeptSlots PROVE Metered  BY DEF Metered
<1>0. 0 \in Slots  BY NumSlotsAssumption DEF Slots
<1>u. UsPerSecond \in Nat /\ UsPerSecond > 1  BY SecondsAssumption
<1>1. us_delay = 0 /\ ticks = 0 /\ born[0] = 0 /\ added[0] = 0 /\ occupied[0]
  BY <1>0 DEF Init
<1>2. TrueTime(0) = 0 /\ ShownTime(0) = 0
  BY <1>1, <1>u DEF TrueTime, ShownTime
<1>3. 0 \in 0 .. UsPerSecond - 1 /\ TrueTime(0) + 0 = ShownTime(0) + us_delay
  BY <1>1, <1>2, <1>u
<1> QED  BY <1>1, <1>3, <1>u DEF Metered

LEMMA TickMetered ==
    ASSUME TypeOK, UpdateTime, Metered, 0 \in KeptSlots PROVE Metered'
<1>0. 0 \in Slots  BY NumSlotsAssumption DEF Slots
<1>u. UsPerSecond \in Nat /\ UsPerSecond > 1  BY SecondsAssumption
<1>1. us_delay \in Nat /\ ticks \in Nat /\ born[0] \in Nat /\ added[0] \in Nat
  BY <1>0, BoundAssumption DEF TypeOK
<1>2. occupied[0] /\ us_delay < UsPerSecond  BY DEF Metered
<1>3. PICK d \in 0 .. UsPerSecond - 1 : TrueTime(0) + d = ShownTime(0) + us_delay
  BY DEF Metered
<1> DEFINE delay == us_delay + 1
<1>4. delay \in Nat /\ delay <= UsPerSecond  BY <1>1, <1>2, <1>u
<1>5. ticks' = ticks + 1 /\ born' = born /\ occupied' = occupied
      /\ us_delay' = delay - UsPerSecond * Cardinality(Extras(delay))
      /\ added'[0] = added[0] + IF 0 \in Extras(delay) THEN 2
                                ELSE IF occupied[0] THEN 1 ELSE 0
  <2>1. ticks' = ticks + 1 /\ UNCHANGED timing
        /\ us_delay' = us_delay + 1 - UsPerSecond * Cardinality(Extras(delay))
    BY Zenon DEF UpdateTime
  <2>2. added' = [s \in Slots |-> added[s] + IF s \in Extras(delay) THEN 2
                                             ELSE IF occupied[s] THEN 1 ELSE 0]
    BY Zenon DEF UpdateTime
  <2>3. UsPerSecond * Cardinality(Extras(delay)) \in Nat  BY <1>4, ExtrasPaid
  <2>4. us_delay' = delay - UsPerSecond * Cardinality(Extras(delay))
    <3> DEFINE p == UsPerSecond * Cardinality(Extras(delay))
    <3>1. us_delay' = us_delay + 1 - p /\ p \in Nat /\ delay = us_delay + 1
      BY <2>1, <2>3
    <3> HIDE DEF p, delay
    <3> QED  BY <1>1, <3>1 DEF p
  <2> HIDE DEF delay
  <2> QED  BY <1>0, <2>1, <2>2, <2>4 DEF timing
<1> HIDE DEF delay
<1>6. /\ 0 \in Extras(delay) <=> delay = UsPerSecond
      /\ UsPerSecond * Cardinality(Extras(delay))
             = IF delay = UsPerSecond THEN UsPerSecond ELSE 0
  BY <1>2, <1>4, FirstTakesAll
<1>7. TrueTime(0)' = TrueTime(0) + UsPerSecond + 1
      /\ TrueTime(0) \in Int /\ ShownTime(0) \in Int
  <2> DEFINE e == ticks - born[0]
             n == UsPerSecond + 1
  <2>1. e \in Int /\ n \in Int  BY <1>1, <1>u
  <2>2. ticks' - born'[0] = e + 1  BY <1>1, <1>5
  <2>3. TrueTime(0)' = (ticks' - born'[0]) * n  BY DEF TrueTime
  <2>4. TrueTime(0) = e * n  BY DEF TrueTime
  <2> HIDE DEF e, n
  <2>5. e * n \in Int /\ (e + 1) * n = e * n + n  BY <2>1
  <2>6. TrueTime(0)' = TrueTime(0) + n /\ TrueTime(0) \in Int
    BY <2>2, <2>3, <2>4, <2>5, Zenon
  <2>7. ShownTime(0) \in Int  BY <1>1, <1>u DEF ShownTime
  <2>8. TrueTime(0) + (UsPerSecond + 1) = TrueTime(0) + UsPerSecond + 1
    BY <2>6, <1>u
  <2> QED  BY <2>6, <2>7, <2>8 DEF n
<1>8. CASE delay = UsPerSecond
  <2>1. us_delay' = 0 /\ added'[0] = added[0] + 2
    BY <1>1, <1>5, <1>6, <1>8, <1>u
  <2>2. ShownTime(0)' = ShownTime(0) + UsPerSecond + UsPerSecond
    BY <1>1, <1>u, <2>1 DEF ShownTime
  <2>3. TrueTime(0)' + d = ShownTime(0)' + us_delay'
    BY <1>1, <1>3, <1>7, <1>8, <1>u, <2>1, <2>2 DEF delay
  <2> QED  BY <1>2, <1>5, <1>u, <2>1, <2>3 DEF Metered
<1>9. CASE delay # UsPerSecond
  <2>1. us_delay' = delay /\ added'[0] = added[0] + 1
    BY <1>1, <1>2, <1>4, <1>5, <1>6, <1>9, <1>u
  <2>2. ShownTime(0)' = ShownTime(0) + UsPerSecond
    BY <1>1, <1>u, <2>1 DEF ShownTime
  <2>3. TrueTime(0)' + d = ShownTime(0)' + us_delay'
    BY <1>1, <1>3, <1>7, <1>u, <2>1, <2>2 DEF delay
  <2>4. us_delay' < UsPerSecond  BY <1>4, <1>9, <1>u, <2>1
  <2> QED  BY <1>2, <1>5, <1>u, <2>3, <2>4 DEF Metered
<1> QED  BY <1>8, <1>9

LEMMA SameMetered ==
    ASSUME Metered, 0 \in KeptSlots, occupied'[0], us_delay' = us_delay,
           ticks' = ticks, born'[0] = born[0], added'[0] = added[0]
    PROVE  Metered'
<1>1. TrueTime(0)' = TrueTime(0) /\ ShownTime(0)' = ShownTime(0)
  BY DEF TrueTime, ShownTime
<1> QED  BY <1>1 DEF Metered

LEMMA NextMetered == TypeOK /\ Metered /\ [Next]_vars => Metered'
<1> SUFFICES ASSUME TypeOK, Metered, [Next]_vars, 0 \in KeptSlots PROVE Metered'
  BY DEF Metered
<1>0. 0 \in Slots  BY NumSlotsAssumption DEF Slots
<1>k. occupied[0]  BY DEF Metered
<1>1. CASE UpdateTime  BY <1>1, TickMetered
<1>2. ASSUME NEW s \in Slots, NEW k \in Scalers, Exchange(s, k) PROVE Metered'
  <2>0. /\ occupied' = [occupied EXCEPT ![s] = TRUE]
        /\ born' = [born EXCEPT ![s] = ticks] /\ added' = [added EXCEPT ![s] = 0]
        /\ us_delay' = us_delay /\ ticks' = ticks
    BY <1>2 DEF Exchange, SetSlot
  <2>1. CASE s = 0
    <3>1. occupied'[0] /\ born'[0] = ticks' /\ added'[0] = 0
      BY <1>0, <2>0, <2>1 DEF TypeOK
    <3>2. us_delay' \in Nat /\ us_delay' < UsPerSecond /\ UsPerSecond \in Nat
          /\ ticks' \in Int
      BY <2>0, SecondsAssumption, BoundAssumption DEF Metered, TypeOK
    <3>3. TrueTime(0)' = 0 /\ ShownTime(0)' = 0
      <4>n. \A x \in Int : x - x = 0  OBVIOUS
      <4>1. ticks' - born'[0] = 0  BY <3>1, <3>2, <4>n, Zenon
      <4>2. 0 * (UsPerSecond + 1) = 0 /\ 0 * UsPerSecond = 0  BY <3>2
      <4>3. TrueTime(0)' = (ticks' - born'[0]) * (UsPerSecond + 1)
            /\ ShownTime(0)' = added'[0] * UsPerSecond
        BY DEF TrueTime, ShownTime
      <4> QED  BY <3>1, <4>1, <4>2, <4>3, Zenon
    <3>4. us_delay' \in 0 .. UsPerSecond - 1
          /\ TrueTime(0)' + us_delay' = ShownTime(0)' + us_delay'
      BY <3>2, <3>3
    <3> QED  BY <3>1, <3>2, <3>4 DEF Metered
  <2>2. CASE s # 0
    <3>1. occupied'[0] /\ born'[0] = born[0] /\ added'[0] = added[0]
      BY <1>0, <1>k, <2>0, <2>2 DEF TypeOK
    <3> QED  BY <2>0, <3>1, SameMetered
  <2> QED  BY <2>1, <2>2
<1>3. ASSUME NEW s \in Slots, Destroy(s) PROVE Metered'
  <2>1. s # 0 /\ occupied'[0] /\ us_delay' = us_delay /\ ticks' = ticks
        /\ born'[0] = born[0] /\ added'[0] = added[0]
    BY <1>0, <1>3, <1>k DEF Destroy, TypeOK
  <2> QED  BY <2>1, SameMetered
<1>4. CASE UNCHANGED vars
  BY <1>4, <1>k, SameMetered DEF vars
<1> QED  BY <1>1, <1>2, <1>3, <1>4 DEF Next

\* eddystone_security_update_time (:209): with an EID in slot 0 from power up
\* on, the extra seconds all go to its clock, which is never a second ahead of
\* or behind the true time since its exchange, however long the beacon runs and
\* whatever the other slots are used for.
THEOREM FirstClockKeepsTime == Spec => []FirstClockIsRight
<1>1. Init => Metered  BY InitMetered
<1>2. TypeOK /\ Metered /\ [Next]_vars => Metered'  BY NextMetered
<1>3. TypeOK /\ Metered => FirstClockIsRight
  <2> SUFFICES ASSUME TypeOK, Metered, 0 \in KeptSlots
               PROVE  /\ ShownTime(0) < TrueTime(0) + UsPerSecond
                      /\ TrueTime(0) < ShownTime(0) + UsPerSecond
    BY DEF FirstClockIsRight
  <2>0. 0 \in Slots  BY NumSlotsAssumption DEF Slots
  <2>1. TrueTime(0) \in Int /\ ShownTime(0) \in Int /\ us_delay \in Nat
        /\ UsPerSecond \in Nat
    <3>1. ticks \in Nat /\ born[0] \in Nat /\ added[0] \in Nat
          /\ us_delay \in Nat /\ UsPerSecond \in Nat
      BY <2>0, BoundAssumption, SecondsAssumption DEF TypeOK
    <3> QED  BY <3>1 DEF TrueTime, ShownTime
  <2>2. PICK d \in 0 .. UsPerSecond - 1 : TrueTime(0) + d = ShownTime(0) + us_delay
    BY DEF Metered
  <2>3. us_delay < UsPerSecond  BY DEF Metered
  <2> QED  BY <2>1, <2>2, <2>3
<1> QED  BY <1>1, <1>2, <1>3, TypeCorrect, PTL DEF Spec

=============================================================================
