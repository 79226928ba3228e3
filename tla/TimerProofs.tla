---------------------------- MODULE TimerProofs ----------------------------
(***************************************************************************)
(* Theorems about Timer, for every size of the wheel, every period of the  *)
(* clock, any delays and any number of events.                             *)
(***************************************************************************)
EXTENDS Timer, SequenceTheorems, FiniteSetTheorems, WellFoundedInduction, TLAPS

(* The smallest number of a set: what replaces an induction here.          *)
LEMMA Least ==
    ASSUME NEW T \in SUBSET Nat, T # {}
    PROVE  \E x \in T: \A y \in T: x <= y
<1> DEFINE R == {ss \in Nat \X Nat : ss[1] < ss[2]}
<1>1. IsWellFoundedOn(R, Nat)
  BY NatLessThanWellFounded DEF OpToRel
<1>2. PICK x \in T: \A y \in T: <<y, x>> \notin R
  <2> HIDE DEF R
  <2> QED BY <1>1, WFMin
<1>3. \A y \in T: ~(y < x)
  BY <1>2
<1> QED BY <1>3

-----------------------------------------------------------------------------
(* Division by the span of a list.                                         *)
LEMMA DivMod ==
    ASSUME NEW m \in Nat \ {0}, NEW a \in Nat
    PROVE  /\ a = m * (a \div m) + (a % m)
           /\ a \div m \in Nat /\ a % m \in 0..m-1
<1>1. a = m * (a \div m) + (a % m)
  OBVIOUS
<1>2. a % m \in 0..m-1
  OBVIOUS
<1>3. a \div m \in Nat
  OBVIOUS
<1> QED BY <1>1, <1>2, <1>3

LEMMA DivUnique ==
    ASSUME NEW m \in Nat \ {0}, NEW a \in Nat, NEW q \in Nat, NEW r \in 0..m-1,
           a = m * q + r
    PROVE  a \div m = q /\ a % m = r
OBVIOUS

LEMMA DivMonotonic ==
    ASSUME NEW m \in Nat \ {0}, NEW a \in Nat, NEW b \in Nat, a <= b
    PROVE  a \div m <= b \div m
OBVIOUS

LEMMA DivDiv ==
    ASSUME NEW m \in Nat \ {0}, NEW l \in Nat \ {0}, NEW a \in Nat
    PROVE  a \div (m * l) = (a \div m) \div l
OBVIOUS

(* From one number to the next.                                            *)
LEMMA DivNext ==
    ASSUME NEW m \in Nat \ {0}, NEW a \in Nat, NEW b \in Nat, b = a + 1
    PROVE  b \div m = IF b % m = 0 THEN (a \div m) + 1 ELSE a \div m
<1> PICK q \in Nat, r \in 0..m-1: q = b \div m /\ r = b % m /\ b = m * q + r
  BY DivMod
<1>2. CASE r # 0
  <2>1. a = m * q + (r - 1) /\ r - 1 \in 0..m-1
    BY <1>2
  <2> QED BY <2>1, <1>2, DivUnique
<1>3. CASE r = 0
  <2>1. q > 0
    BY <1>3
  <2> PICK p \in Nat: q = p + 1
    <3>1. q - 1 \in Nat /\ q = (q - 1) + 1
      BY <2>1
    <3> QED BY <3>1
  <2> PICK s \in 0..m-1: s = m - 1
    OBVIOUS
  <2>2. m * q = m * p + m
    OBVIOUS
  <2>3. a = m * p + s
    BY <1>3, <2>2
  <2>4. a \div m = p
    BY <2>3, DivUnique
  <2> QED BY <2>4, <1>3
<1> QED BY <1>2, <1>3

LEMMA ModOrder ==
    ASSUME NEW m \in Nat \ {0}, NEW a \in Nat, NEW b \in Nat, a < b, a \div m = b \div m
    PROVE  a % m < b % m
<1>1. a = m * (a \div m) + (a % m) /\ b = m * (b \div m) + (b % m)
  BY DivMod
<1> PICK q \in Nat: q = a \div m
  BY DivMod
<1> PICK r \in 0..m-1, s \in 0..m-1: r = a % m /\ s = b % m
  BY DivMod
<1>2. m * q \in Nat /\ a = m * q + r /\ b = m * q + s
  BY <1>1
<1> QED BY <1>2

LEMMA Product ==
    ASSUME NEW a \in Nat, NEW b \in Nat
    PROVE  a * b \in Nat
OBVIOUS

LEMMA DivisibleBoth ==
    ASSUME NEW m \in Nat \ {0}, NEW l \in Nat \ {0}, NEW a \in Nat
    PROVE  a % (m * l) = 0 <=> a % m = 0 /\ (a \div m) % l = 0
<1>1. PICK q \in Nat, r \in 0..m-1: q = a \div m /\ r = a % m /\ a = m * q + r
  BY DivMod
<1>2. PICK p \in Nat, s \in 0..l-1: p = q \div l /\ s = q % l /\ q = l * p + s
  BY DivMod
<1>3. PICK n \in Nat \ {0}: n = m * l
  <2>1. m * l \in Nat \ {0}
    OBVIOUS
  <2> QED BY <2>1
<1>4. PICK x \in Nat: x = m * s /\ x + r < n /\ (x = 0 <=> s = 0)
  <2>1. m * s <= m * (l - 1)
    OBVIOUS
  <2>2. m * (l - 1) = m * l - m
    OBVIOUS
  <2>3. m * s \in Nat /\ (m * s = 0 <=> s = 0)
    OBVIOUS
  <2> QED BY <2>1, <2>2, <2>3, <1>3
<1>5. PICK y \in Nat: y = m * q
  BY Product
<1>6. PICK z \in Nat: z = n * p
  BY Product
<1>7. y = z + x
  <2>1. m * (l * p + s) = m * (l * p) + m * s
    OBVIOUS
  <2>2. m * (l * p) = (m * l) * p
    OBVIOUS
  <2> QED BY <2>1, <2>2, <1>2, <1>3, <1>4, <1>5, <1>6
<1>8. a = y + r
  BY <1>1, <1>5
<1>9. x + r \in 0..n-1 /\ a = z + (x + r)
  BY <1>4, <1>7, <1>8
<1>10. a % n = x + r
  BY <1>6, <1>9, DivUnique
<1> QED BY <1>10, <1>1, <1>2, <1>3, <1>4

-----------------------------------------------------------------------------
(* The levels of the wheel.                                                *)
D(i, a) == a \div Mask[i]

LEMMA MaskPositive == \A i \in 0..Levels: Mask[i] \in Nat \ {0}
<1> DEFINE T == {i \in 0..Levels : Mask[i] = 0}
<1> USE TimerAssumption
<1> SUFFICES ASSUME T # {} PROVE FALSE
  OBVIOUS
<1>1. PICK i \in T: \A j \in T: i <= j
  <2>1. T \in SUBSET Nat
    OBVIOUS
  <2> HIDE DEF T
  <2> QED BY <2>1, Least
<1>2. i # 0 /\ i - 1 \in 0..Levels-1 /\ (i - 1) + 1 = i
  OBVIOUS
<1>3. Mask[i] = Mask[i-1] * Level /\ Mask[i-1] \in Nat
  BY <1>2
<1>4. Mask[i-1] # 0
  BY <1>1, <1>2
<1> QED BY <1>3, <1>4

LEMMA Span ==
    ASSUME NEW i \in 0..Levels, NEW a \in Nat
    PROVE  /\ Mask[i] \in Nat \ {0} /\ D(i, a) \in Nat
           /\ a = Mask[i] * D(i, a) + (a % Mask[i])
BY MaskPositive, DivMod DEF D

(* A level is counted in units of the next finer one.                      *)
LEMMA LevelUp ==
    ASSUME NEW i \in 0..Levels-1, NEW a \in Nat
    PROVE  /\ i + 1 \in 0..Levels /\ i \in 0..Levels
           /\ D(i+1, a) = D(i, a) \div Level
           /\ D(i, a) = Level * D(i+1, a) + (D(i, a) % Level)
           /\ D(i, a) % Level \in 0..Level-1
<1>1. i + 1 \in 0..Levels /\ i \in 0..Levels /\ Mask[i+1] = Mask[i] * Level /\ Level \in Nat \ {0}
  BY TimerAssumption
<1>2. Mask[i] \in Nat \ {0} /\ D(i, a) \in Nat
  BY <1>1, Span
<1>3. D(i+1, a) = D(i, a) \div Level
  BY <1>1, <1>2, DivDiv DEF D
<1> QED BY <1>1, <1>2, <1>3, DivMod

(* Numbers with the same quotient on a level have it on the coarser ones.  *)
LEMMA SameAbove ==
    ASSUME NEW i \in 0..Levels, NEW j \in i..Levels, NEW a \in Nat, NEW b \in Nat,
           D(i, a) = D(i, b)
    PROVE  D(j, a) = D(j, b)
<1> DEFINE T == {k \in i..Levels : D(k, a) # D(k, b)}
<1> SUFFICES ASSUME T # {} PROVE FALSE
  OBVIOUS
<1>1. PICK k \in T: \A l \in T: k <= l
  <2>1. T \in SUBSET Nat
    BY TimerAssumption
  <2> HIDE DEF T
  <2> QED BY <2>1, Least
<1>2. k - 1 \in 0..Levels-1 /\ k - 1 \in i..Levels /\ (k - 1) + 1 = k
  BY TimerAssumption
<1>3. D(k-1, a) = D(k-1, b)
  BY <1>1, <1>2
<1>4. D(k, a) = D(k, b)
  BY <1>2, <1>3, LevelUp
<1> QED BY <1>4

(* The wheel does not wrap.                                                *)
LEMMA TopLevel ==
    ASSUME NEW a \in 0..MaxTime
    PROVE  D(Levels, a) = 0
<1>1. Levels \in 0..Levels /\ a < Mask[Levels] /\ a \in Nat
  BY TimerAssumption
<1>2. Mask[Levels] \in Nat \ {0}
  BY <1>1, MaskPositive
<1>3. a = Mask[Levels] * 0 + a
  BY <1>1, <1>2
<1>4. a \in 0..Mask[Levels]-1
  BY <1>1, <1>2
<1> QED BY <1>1, <1>2, <1>3, <1>4, DivUnique DEF D

(* What a level makes of the next number, of a larger one and of one that  *)
(* begins a span.                                                          *)
LEMMA LevelNext ==
    ASSUME NEW i \in 0..Levels, NEW a \in Nat, NEW b \in Nat, b = a + 1
    PROVE  D(i, b) = IF b % Mask[i] = 0 THEN D(i, a) + 1 ELSE D(i, a)
BY MaskPositive, DivNext DEF D

LEMMA LevelMonotonic ==
    ASSUME NEW i \in 0..Levels, NEW a \in Nat, NEW b \in Nat, a <= b
    PROVE  D(i, a) <= D(i, b)
BY MaskPositive, DivMonotonic DEF D

LEMMA LevelDivisible ==
    ASSUME NEW i \in 0..Levels-1, NEW a \in Nat
    PROVE  a % Mask[i+1] = 0 <=> a % Mask[i] = 0 /\ D(i, a) % Level = 0
<1>1. i \in 0..Levels /\ Mask[i+1] = Mask[i] * Level /\ Level \in Nat \ {0}
  BY TimerAssumption
<1>2. Mask[i] \in Nat \ {0}
  BY <1>1, MaskPositive
<1>3. a % (Mask[i] * Level) = 0 <=> a % Mask[i] = 0 /\ (a \div Mask[i]) % Level = 0
  BY <1>1, <1>2, DivisibleBoth
<1> QED BY <1>1, <1>3 DEF D

LEMMA TopDivisible ==
    ASSUME NEW a \in 0..MaxTime, a % Mask[Levels] = 0
    PROVE  a = 0
<1>1. Levels \in 0..Levels /\ a \in Nat
  BY TimerAssumption
<1>2. a = Mask[Levels] * D(Levels, a) + 0 /\ Mask[Levels] \in Nat
  BY <1>1, Span
<1> QED BY <1>1, <1>2, TopLevel

-----------------------------------------------------------------------------
(* The place of a node (add_node).                                         *)
LEMMA PlaceNear ==
    ASSUME NEW e \in Nat, NEW now \in Nat, D(0, e) = D(0, now)
    PROVE  Place(e, now) = <<0, e % Near>>
BY TimerAssumption DEF Place, D

LEMMA PlaceUp ==
    ASSUME NEW e \in 0..MaxTime, NEW now \in 0..MaxTime, NEW i \in 0..Levels-1,
           D(i, e) # D(i, now), D(i+1, e) = D(i+1, now)
    PROVE  Place(e, now) = <<i+1, D(i, e) % Level>>
<1>1. e \in Nat /\ now \in Nat /\ Mask[0] = Near
  BY TimerAssumption
<1>2. \A j \in 0..i: j \in 0..Levels /\ i \in j..Levels
  BY TimerAssumption
<1>3. \A j \in 0..i: D(j, e) # D(j, now)
  BY <1>1, <1>2, SameAbove
<1>4. e \div Near # now \div Near
  BY <1>1, <1>3 DEF D
<1>5. \A k \in 0..Levels-1: D(k+1, e) = D(k+1, now) \/ k # Levels-1
  <2>1. \A k \in 0..Levels-1: k = Levels-1 => k+1 = Levels
    BY TimerAssumption
  <2> QED BY <2>1, TopLevel
<1>6. \A j \in 0..i-1: D(j+1, e) # D(j+1, now)
  <2>1. \A j \in 0..i-1: j+1 \in 0..i
    OBVIOUS
  <2> QED BY <2>1, <1>3
<1>7. \A k \in 0..Levels-1:
        (/\ e \div Mask[k+1] = now \div Mask[k+1] \/ k = Levels-1
         /\ \A j \in 0..k-1: e \div Mask[j+1] # now \div Mask[j+1]) <=> k = i
  <2> SUFFICES ASSUME NEW k \in 0..Levels-1
               PROVE (/\ D(k+1, e) = D(k+1, now)
                      /\ \A j \in 0..k-1: D(j+1, e) # D(j+1, now)) <=> k = i
    BY <1>5 DEF D
  <2>1. CASE k < i
    <3>1. k \in 0..i-1
      BY <2>1, TimerAssumption
    <3> QED BY <3>1, <1>6
  <2>2. CASE k > i
    <3>1. i \in 0..k-1
      BY <2>2, TimerAssumption
    <3> QED BY <3>1, <2>2
  <2> QED BY <2>1, <2>2, <1>6, TimerAssumption
<1>8. (CHOOSE k \in 0..Levels-1:
         /\ e \div Mask[k+1] = now \div Mask[k+1] \/ k = Levels-1
         /\ \A j \in 0..k-1: e \div Mask[j+1] # now \div Mask[j+1]) = i
  BY <1>7
<1> QED BY <1>4, <1>8 DEF Place, D

LEMMA PlaceCases ==
    ASSUME NEW e \in 0..MaxTime, NEW now \in 0..MaxTime
    PROVE  \/ D(0, e) = D(0, now)
           \/ \E i \in 0..Levels-1: D(i, e) # D(i, now) /\ D(i+1, e) = D(i+1, now)
<1> DEFINE T == {i \in 0..Levels : D(i, e) = D(i, now)}
<1>1. PICK k \in T: \A l \in T: k <= l
  <2>1. T \in SUBSET Nat /\ Levels \in T
    BY TopLevel, TimerAssumption
  <2> HIDE DEF T
  <2> QED BY <2>1, Least
<1>2. CASE k = 0
  BY <1>2
<1>3. CASE k # 0
  <2>1. k - 1 \in 0..Levels-1 /\ k - 1 \in 0..Levels /\ (k - 1) + 1 = k /\ ~(k <= k - 1)
    BY <1>3, TimerAssumption
  <2>2. D(k-1, e) # D(k-1, now)
    BY <1>1, <2>1
  <2> QED BY <2>1, <2>2
<1> QED BY <1>2, <1>3

(* A node still to expire has a list.                                      *)
LEMMA PlaceType ==
    ASSUME NEW now \in 0..MaxTime, NEW e \in now..MaxTime
    PROVE  Place(e, now) \in Places
<1>1. e \in 0..MaxTime /\ e \in Nat /\ now \in Nat /\ now <= e
  BY TimerAssumption
<1>2. CASE D(0, e) = D(0, now)
  <2>1. e % Near \in 0..Near-1
    BY <1>1, TimerAssumption
  <2> QED BY <1>1, <1>2, <2>1, PlaceNear DEF Places
<1>3. ASSUME NEW i \in 0..Levels-1, D(i, e) # D(i, now), D(i+1, e) = D(i+1, now)
      PROVE  Place(e, now) \in Places
  <2>1. Place(e, now) = <<i+1, D(i, e) % Level>>
    BY <1>1, <1>3, PlaceUp
  <2>2. /\ i \in 0..Levels /\ Level \in Nat \ {0} /\ D(i, e) \in Nat /\ D(i, now) \in Nat
        /\ D(i, e) \div Level = D(i, now) \div Level
        /\ D(i, e) % Level \in 0..Level-1 /\ D(i, now) % Level \in 0..Level-1
    BY <1>1, <1>3, LevelUp, Span, TimerAssumption
  <2>3. D(i, now) < D(i, e)
    BY <2>2, <1>1, <1>3, LevelMonotonic
  <2>4. D(i, now) % Level < D(i, e) % Level
    BY <2>2, <2>3, ModOrder
  <2>6. i+1 \in 1..Levels /\ D(i, e) % Level \in 1..Level-1
    <3>1. i+1 \in 1..Levels
      BY TimerAssumption
    <3> QED BY <3>1, <2>2, <2>4
  <2> QED BY <2>1, <2>6 DEF Places
<1> QED BY <1>1, <1>2, <1>3, PlaceCases

-----------------------------------------------------------------------------
(* The list that is spread (timer_shift): of the first level where the new *)
(* time does not begin a span of the next one.                             *)
LEMMA CoarseIs ==
    ASSUME NEW now \in 1..MaxTime, now % Near = 0
    PROVE  \E i \in 0..Levels-1:
              /\ Coarse(now) = <<i+1, D(i, now) % Level>>
              /\ D(i, now) % Level # 0
              /\ \A j \in 0..i: now % Mask[j] = 0
<1> DEFINE T == {i \in 0..Levels-1 : Idx(now, i) # 0}
<1>1. now \in Nat /\ now \in 0..MaxTime /\ now > 0 /\ Levels \in Nat \ {0}
        /\ Mask[0] = Near
  BY TimerAssumption
<1>2. ASSUME NEW i \in 0..Levels, \A j \in 0..i-1: Idx(now, j) = 0
      PROVE  \A j \in 0..i: now % Mask[j] = 0
  <2> DEFINE B == {j \in 0..i : now % Mask[j] # 0}
  <2> SUFFICES ASSUME B # {} PROVE FALSE
    OBVIOUS
  <2>1. PICK j \in B: \A k \in B: j <= k
    <3>1. B \in SUBSET Nat
      OBVIOUS
    <3> HIDE DEF B
    <3> QED BY <3>1, Least
  <2>2. CASE j = 0
    BY <2>2, <1>1
  <2>3. CASE j # 0
    <3> PICK k \in 0..Levels-1: j = k + 1
      <4>1. j - 1 \in 0..Levels-1 /\ j = (j - 1) + 1
        BY <2>3, <1>1
      <4> QED BY <4>1
    <3>1. k \in 0..i-1 /\ k \in 0..i /\ ~(j <= k)
      OBVIOUS
    <3>2. now % Mask[k] = 0
      BY <2>1, <3>1
    <3>3. now % Mask[k+1] = 0
      BY <3>1, <3>2, <1>1, <1>2, LevelDivisible DEF Idx, D
    <3> QED BY <3>3
  <2> QED BY <2>2, <2>3
<1>3. T # {}
  <2> SUFFICES ASSUME \A j \in 0..Levels-1: Idx(now, j) = 0 PROVE FALSE
    OBVIOUS
  <2>1. now % Mask[Levels] = 0
    <3>1. Levels \in 0..Levels
      BY <1>1
    <3> QED BY <3>1, <1>2
  <2> QED BY <2>1, <1>1, TopDivisible
<1>4. PICK i \in T: \A k \in T: i <= k
  <2>1. T \in SUBSET Nat
    OBVIOUS
  <2> HIDE DEF T
  <2> QED BY <2>1, <1>3, Least
<1>5. i \in 0..Levels-1 /\ Idx(now, i) # 0 /\ \A j \in 0..i-1: Idx(now, j) = 0
  <2>1. \A j \in 0..i-1: j \in 0..Levels-1 /\ ~(i <= j)
    BY <1>1
  <2> QED BY <1>4, <2>1
<1>6. ASSUME NEW k \in 0..Levels-1
      PROVE  (Idx(now, k) # 0 /\ \A j \in 0..k-1: Idx(now, j) = 0) <=> k = i
  <2>1. CASE k < i
    <3>1. k \in 0..i-1
      BY <2>1, <1>1
    <3> QED BY <3>1, <1>5
  <2>2. CASE k > i
    <3>1. i \in 0..k-1
      BY <2>2, <1>1
    <3> QED BY <3>1, <2>2, <1>5
  <2> QED BY <2>1, <2>2, <1>5, <1>1
<1>7. (CHOOSE k \in 0..Levels-1: Idx(now, k) # 0 /\ \A j \in 0..k-1: Idx(now, j) = 0) = i
  BY <1>6
<1>8. \A j \in 0..i: now % Mask[j] = 0
  <2>1. i \in 0..Levels
    BY <1>1
  <2> QED BY <2>1, <1>2, <1>5
<1>9. Coarse(now) = <<i+1, Idx(now, i)>>
  BY <1>7 DEF Coarse
<1> QED BY <1>5, <1>8, <1>9 DEF Idx, D

(* A node that is not in that list is where it belongs, now as before.     *)
LEMMA StaysInPlace ==
    ASSUME NEW t \in 0..MaxTime, NEW now \in 1..MaxTime, now = t + 1,
           NEW e \in now..MaxTime, now % Near = 0 => Place(e, t) # Coarse(now)
    PROVE  Place(e, now) = Place(e, t)
<1>1. /\ e \in 0..MaxTime /\ e \in Nat /\ now \in Nat /\ t \in Nat
      /\ now \in 0..MaxTime /\ now <= e /\ Mask[0] = Near
      /\ \A j \in 0..Levels-1: j \in 0..Levels /\ j + 1 \in 0..Levels
      /\ 0 \in 0..Levels
  BY TimerAssumption
<1>2. \A i \in 0..Levels: D(i, now) = IF now % Mask[i] = 0 THEN D(i, t) + 1 ELSE D(i, t)
  BY <1>1, LevelNext
<1>3. \A i \in 0..Levels: D(i, now) <= D(i, e) /\ D(i, now) \in Nat /\ D(i, t) \in Nat
  BY <1>1, LevelMonotonic, Span
<1>4. CASE now % Near # 0
  <2>1. D(0, now) = D(0, t)
    BY <1>1, <1>2, <1>4
  <2>2. \A i \in 0..Levels: D(i, now) = D(i, t)
    BY <2>1, <1>1, SameAbove
  <2>3. CASE D(0, e) = D(0, t)
    BY <2>1, <2>3, <1>1, PlaceNear
  <2>4. ASSUME NEW k \in 0..Levels-1, D(k, e) # D(k, t), D(k+1, e) = D(k+1, t)
        PROVE  Place(e, now) = Place(e, t)
    <3>1. k \in 0..Levels /\ k + 1 \in 0..Levels
      BY <1>1
    <3>2. D(k, e) # D(k, now) /\ D(k+1, e) = D(k+1, now)
      BY <2>4, <2>2, <3>1
    <3> QED BY <2>4, <3>2, <1>1, PlaceUp
  <2> QED BY <2>3, <2>4, <1>1, PlaceCases
<1>5. CASE now % Near = 0
  <2>1. PICK i \in 0..Levels-1: /\ Coarse(now) = <<i+1, D(i, now) % Level>>
                                /\ D(i, now) % Level # 0
                                /\ \A j \in 0..i: now % Mask[j] = 0
    BY <1>5, CoarseIs
  <2>2. i \in 0..Levels /\ i + 1 \in 0..Levels /\ \A j \in 0..i: j \in 0..Levels /\ (j = i \/ j < i)
    BY <1>1, TimerAssumption
  <2>3. \A j \in 0..i: D(j, now) = D(j, t) + 1
    BY <1>2, <2>1, <2>2
  <2>4. \A j \in 0..i: D(j, e) # D(j, t)
    <3> SUFFICES ASSUME NEW j \in 0..i, D(j, e) = D(j, t) PROVE FALSE
      OBVIOUS
    <3>1. D(j, now) <= D(j, e) /\ D(j, now) = D(j, t) + 1 /\ D(j, t) \in Nat
      BY <2>2, <2>3, <1>3
    <3> QED BY <3>1
  <2>5. now % Mask[i+1] # 0
    BY <2>1, <1>1, LevelDivisible
  <2>6. D(i+1, now) = D(i+1, t)
    BY <1>2, <2>2, <2>5
  <2>7. \A k \in i+1..Levels: D(k, now) = D(k, t)
    BY <2>6, <2>2, <1>1, SameAbove
  <2>8. PICK k \in 0..Levels-1: D(k, e) # D(k, t) /\ D(k+1, e) = D(k+1, t)
    <3>1. D(0, e) # D(0, t)
      BY <2>4
    <3> QED BY <3>1, <1>1, PlaceCases
  <2>9. k >= i
    <3> SUFFICES ASSUME k < i PROVE FALSE
      BY <2>2
    <3>1. k + 1 \in 0..i
      BY <1>1
    <3> QED BY <3>1, <2>4, <2>8
  <2>10. Place(e, t) = <<k+1, D(k, e) % Level>>
    BY <2>8, <1>1, PlaceUp
  <2>11. D(k, e) # D(k, now)
    <3>1. CASE k = i
      <4>1. D(i, e) % Level # D(i, now) % Level
        BY <3>1, <2>1, <2>10, <1>5
      <4> QED BY <4>1, <3>1
    <3>2. CASE k # i
      <4>1. k \in i+1..Levels
        BY <3>2, <2>9, <1>1
      <4> QED BY <4>1, <2>7, <2>8
    <3> QED BY <3>1, <3>2
  <2>12. D(k+1, e) = D(k+1, now)
    <3>1. k + 1 \in i+1..Levels
      BY <2>9, <1>1
    <3> QED BY <3>1, <2>7, <2>8
  <2> QED BY <2>10, <2>11, <2>12, <1>1, PlaceUp
<1> QED BY <1>4, <1>5

-----------------------------------------------------------------------------
(* A sublist has the chosen members, each once, in their order: the k-th   *)
(* is the one at f[k].                                                     *)
Chosen(list, at) ==
    \E f \in [1..Cardinality(at) -> at]:
       /\ Cardinality(at) \in Nat
       /\ Sublist(list, at) = [k \in 1..Cardinality(at) |-> list[f[k]]]
       /\ \A k, l \in 1..Cardinality(at): k < l => f[k] < f[l]
       /\ \A i \in at: \E k \in 1..Cardinality(at): f[k] = i

LEMMA SublistIs ==
    ASSUME NEW S, NEW list \in Seq(S), NEW at \in SUBSET DOMAIN list
    PROVE  Chosen(list, at)
<1> DEFINE N == Cardinality(at)
           Upto(i) == {j \in at : j <= i}
           Rank(i) == Cardinality(Upto(i))
<1>1. at \subseteq 1..Len(list) /\ Len(list) \in Nat
  OBVIOUS
<1>2. IsFiniteSet(at) /\ N \in Nat
  <2>1. IsFiniteSet(1..Len(list))
    BY <1>1, FS_Interval
  <2> QED BY <2>1, <1>1, FS_Subset, FS_CardinalityType
<1>3. \A i \in at: IsFiniteSet(Upto(i)) /\ Rank(i) \in Nat /\ Rank(i) \in 1..N
  <2> SUFFICES ASSUME NEW i \in at PROVE IsFiniteSet(Upto(i)) /\ Rank(i) \in Nat /\ Rank(i) \in 1..N
    OBVIOUS
  <2>1. Upto(i) \in SUBSET at
    OBVIOUS
  <2>2. i \in Upto(i)
    BY <1>1
  <2> HIDE DEF Upto
  <2>3. IsFiniteSet(Upto(i)) /\ Rank(i) <= N
    BY <2>1, <1>2, FS_Subset
  <2>4. Rank(i) \in Nat /\ Rank(i) # 0
    BY <2>2, <2>3, FS_CardinalityType, FS_EmptySet
  <2> QED BY <2>3, <2>4, <1>2
<1>4. \A i, j \in at: i < j => Rank(i) < Rank(j)
  <2> SUFFICES ASSUME NEW i \in at, NEW j \in at, i < j PROVE Rank(i) < Rank(j)
    OBVIOUS
  <2>1. Upto(i) \in SUBSET Upto(j) /\ j \in Upto(j) /\ j \notin Upto(i)
    BY <1>1
  <2>2. Rank(i) <= Rank(j) /\ (Rank(i) = Rank(j) => Upto(i) = Upto(j))
    <3> HIDE DEF Upto
    <3> QED BY <2>1, <1>3, FS_Subset
  <2>3. Rank(i) \in Nat /\ Rank(j) \in Nat /\ Rank(i) # Rank(j)
    BY <2>1, <2>2, <1>3
  <2> HIDE DEF Rank
  <2> QED BY <2>2, <2>3
<1> DEFINE g == [i \in at |-> Rank(i)]
<1>5. g \in Injection(at, 1..N)
  <2>1. g \in [at -> 1..N]
    BY <1>3
  <2>2. \A i, j \in at: Rank(i) = Rank(j) => i = j
    <3> SUFFICES ASSUME NEW i \in at, NEW j \in at, i # j PROVE Rank(i) # Rank(j)
      OBVIOUS
    <3>1. i < j \/ j < i
      BY <1>1
    <3>2. Rank(i) < Rank(j) \/ Rank(j) < Rank(i)
      BY <3>1, <1>4
    <3>3. Rank(i) \in Nat /\ Rank(j) \in Nat
      BY <1>3
    <3> HIDE DEF Rank
    <3> QED BY <3>2, <3>3
  <2> HIDE DEF Rank
  <2> QED BY <2>1, <2>2 DEF Injection, IsInjective
<1>6. g \in Surjection(at, 1..N)
  <2>1. IsFiniteSet(1..N) /\ Cardinality(1..N) = N
    BY <1>2, FS_Interval
  <2> HIDE DEF g, N
  <2>2. Cardinality(at) = N
    BY DEF N
  <2> QED BY <2>1, <2>2, <1>5, FS_Injection
<1>7. \A k \in 1..N: \E i \in at: Rank(i) = k
  <2> HIDE DEF Rank
  <2> QED BY <1>6 DEF Surjection
<1> DEFINE f == [k \in 1..N |-> CHOOSE i \in at: Rank(i) = k]
<1>8. \A k \in 1..N: f[k] \in at /\ Rank(f[k]) = k
  <2> HIDE DEF Rank
  <2> QED BY <1>7
<1>9. \A i \in at: f[Rank(i)] = i
  <2> SUFFICES ASSUME NEW i \in at PROVE f[Rank(i)] = i
    OBVIOUS
  <2> HIDE DEF Rank, f
  <2>1. Rank(i) \in 1..N /\ f[Rank(i)] \in at /\ Rank(f[Rank(i)]) = Rank(i)
    BY <1>3, <1>8
  <2>2. f[Rank(i)] \in Nat /\ i \in Nat
    BY <2>1, <1>1
  <2>3. Rank(i) \in Nat
    BY <2>1, <1>2
  <2> QED BY <2>1, <2>2, <2>3, <1>4
<1>10. \A k, l \in 1..N: k < l => f[k] < f[l]
  <2> SUFFICES ASSUME NEW k \in 1..N, NEW l \in 1..N, k < l PROVE f[k] < f[l]
    OBVIOUS
  <2> HIDE DEF Rank, f
  <2>1. /\ f[k] \in at /\ Rank(f[k]) = k /\ f[l] \in at /\ Rank(f[l]) = l
        /\ f[k] \in Nat /\ f[l] \in Nat
    BY <1>1, <1>8
  <2>2. f[k] = f[l] \/ f[l] < f[k] \/ f[k] < f[l]
    BY <2>1
  <2> QED BY <2>1, <2>2, <1>2, <1>4
<1>11. Sublist(list, at) = [k \in 1..N |-> list[f[k]]]
  BY DEF Sublist
<1>12. f \in [1..N -> at]
  BY <1>8
<1> HIDE DEF f, Rank
<1> QED BY <1>2, <1>3, <1>9, <1>10, <1>11, <1>12 DEF Chosen

-----------------------------------------------------------------------------
(* A wheel that is right for a time: every node has still to expire and is *)
(* in the list of its place, and nodes that expire together are in the     *)
(* order of their numbers.  (They always share a list: that keeps them so.)*)
Good(w, now, n) ==
    /\ w \in [Places -> Seq(Node)]
    /\ \A p \in Places: \A k \in DOMAIN w[p]:
         w[p][k].expire >= now /\ Place(w[p][k].expire, now) = p /\ w[p][k].id <= n
    /\ \A p \in Places: \A j, k \in DOMAIN w[p]:
         j < k /\ w[p][j].expire = w[p][k].expire => w[p][j].id < w[p][k].id

All(w) == UNION {{w[p][i] : i \in DOMAIN w[p]} : p \in Places}

LEMMA NodesAre ==
    ASSUME NEW w, NEW e
    PROVE  e \in All(w) <=> \E p \in Places: \E k \in DOMAIN w[p]: e = w[p][k]
BY DEF All

(* The list that is executed holds what expires now, and no other does.    *)
LEMMA NowList ==
    ASSUME NEW now \in 0..MaxTime, NEW e \in now..MaxTime
    PROVE  /\ <<0, now % Near>> \in Places
           /\ Place(e, now) = <<0, now % Near>> <=> e = now
<1>1. e \in 0..MaxTime /\ e \in Nat /\ now \in Nat /\ Near \in Nat \ {0} /\ Mask[0] = Near
      /\ 0 \in 0..Levels
  BY TimerAssumption
<1>2. <<0, now % Near>> \in Places
  BY <1>1, DivMod DEF Places
<1>3. CASE D(0, e) = D(0, now)
  <2>1. Place(e, now) = <<0, e % Near>>
    BY <1>1, <1>3, PlaceNear
  <2>2. e = Near * (e \div Near) + (e % Near) /\ now = Near * (now \div Near) + (now % Near)
    BY <1>1, DivMod
  <2>3. e \div Near = now \div Near
    BY <1>1, <1>3 DEF D
  <2>4. e % Near = now % Near => e = now
    BY <2>2, <2>3
  <2> QED BY <1>2, <2>1, <2>4
<1>4. ASSUME NEW i \in 0..Levels-1, D(i, e) # D(i, now), D(i+1, e) = D(i+1, now)
      PROVE  Place(e, now) # <<0, now % Near>> /\ e # now
  <2>1. Place(e, now) = <<i+1, D(i, e) % Level>>
    BY <1>1, <1>4, PlaceUp
  <2>2. i + 1 # 0
    BY <1>1
  <2> QED BY <2>1, <2>2, <1>4
<1> QED BY <1>1, <1>2, <1>3, <1>4, PlaceCases

(* skynet_timeout: a node is added.                                        *)
Added(w, v, node, now, n) ==
    /\ Good(v, now, n + 1) /\ All(v) = All(w) \cup {node}
    /\ v[<<0, now % Near>>] = w[<<0, now % Near>>]

LEMMA GoodAdd ==
    ASSUME NEW now \in 0..MaxTime, NEW n \in Nat, n + 1 \in 1..MaxEvent, NEW w, Good(w, now, n),
           NEW e \in now..MaxTime, e # now, NEW v, NEW node,
           node = [id |-> n + 1, expire |-> e],
           v = [w EXCEPT ![Place(e, now)] = Append(@, node)]
    PROVE  Added(w, v, node, now, n)
<1>1. PICK q \in Places: q = Place(e, now)
  BY PlaceType
<1>2. w \in [Places -> Seq(Node)] /\ w[q] \in Seq(Node)
  BY DEF Good
<1>3. node \in Node /\ e \in 0..MaxTime
  BY TimerAssumption DEF Node
<1>4. PICK l \in Nat: l = Len(w[q])
  BY <1>2
<1>5. /\ Append(w[q], node) \in Seq(Node) /\ Len(Append(w[q], node)) = l + 1
      /\ \A k \in 1..l: Append(w[q], node)[k] = w[q][k]
      /\ Append(w[q], node)[l+1] = node
  BY <1>2, <1>3, <1>4, AppendProperties
<1>6. /\ v \in [Places -> Seq(Node)] /\ v[q] = Append(w[q], node)
      /\ \A p \in Places: p # q => v[p] = w[p]
  BY <1>1, <1>2, <1>5
<1>7. /\ DOMAIN w[q] = 1..l /\ DOMAIN v[q] = 1..l+1 /\ l + 1 \notin 1..l
      /\ \A k \in 1..l+1: k \in 1..l \/ k = l+1
      /\ \A k \in 1..l: v[q][k] = w[q][k]
      /\ v[q][l+1] = node
  <2>1. DOMAIN w[q] = 1..l /\ DOMAIN v[q] = 1..l+1
    BY <1>2, <1>4, <1>5, <1>6
  <2>2. l + 1 \notin 1..l /\ \A k \in 1..l+1: k \in 1..l \/ k = l+1
    OBVIOUS
  <2> QED BY <2>1, <2>2, <1>5, <1>6
<1>8. node.expire = e /\ node.id = n + 1
  OBVIOUS
<1>9. \A k \in 1..l: w[q][k].id \in Nat /\ w[q][k].id <= n /\ w[q][k].id < n + 1
  <2>1. \A k \in 1..l: w[q][k] \in Node
    BY <1>2, <1>7
  <2>2. \A k \in 1..l: w[q][k].id \in Nat
    <3>1. \A x \in Node: x.id \in 1..MaxEvent
      BY DEF Node
    <3>2. 1..MaxEvent \subseteq Nat
      OBVIOUS
    <3> QED BY <2>1, <3>1, <3>2
  <2>3. \A k \in 1..l: w[q][k].id <= n
    BY <1>7 DEF Good
  <2> QED BY <2>2, <2>3
<1>10. \A p \in Places: \A k \in DOMAIN v[p]:
         v[p][k].expire >= now /\ Place(v[p][k].expire, now) = p /\ v[p][k].id <= n + 1
  <2> SUFFICES ASSUME NEW p \in Places, NEW k \in DOMAIN v[p]
               PROVE  v[p][k].expire >= now /\ Place(v[p][k].expire, now) = p /\ v[p][k].id <= n + 1
    OBVIOUS
  <2>1. CASE p # q
    <3>1. v[p] = w[p] /\ w[p][k] \in Node
      BY <2>1, <1>2, <1>6
    <3>2. w[p][k].id \in Nat /\ w[p][k].id <= n
      BY <3>1, TimerAssumption DEF Good, Node
    <3> QED BY <3>1, <3>2 DEF Good
  <2>2. CASE p = q /\ k \in 1..l
    BY <2>2, <1>7, <1>9 DEF Good
  <2>3. CASE p = q /\ k = l+1
    BY <2>3, <1>1, <1>3, <1>7, <1>8
  <2> QED BY <2>1, <2>2, <2>3, <1>7
<1>11. \A p \in Places: \A j, k \in DOMAIN v[p]:
         j < k /\ v[p][j].expire = v[p][k].expire => v[p][j].id < v[p][k].id
  <2> SUFFICES ASSUME NEW p \in Places, NEW j \in DOMAIN v[p], NEW k \in DOMAIN v[p],
                      j < k, v[p][j].expire = v[p][k].expire
               PROVE  v[p][j].id < v[p][k].id
    OBVIOUS
  <2>1. CASE p # q
    BY <2>1, <1>6 DEF Good
  <2>2. CASE p = q
    <3>1. j \in 1..l
      BY <2>2, <1>7
    <3>2. CASE k \in 1..l
      BY <2>2, <3>1, <3>2, <1>7 DEF Good
    <3>3. CASE k = l+1
      BY <2>2, <3>1, <3>3, <1>7, <1>8, <1>9
    <3> QED BY <2>2, <3>2, <3>3, <1>7
  <2> QED BY <2>1, <2>2
<1>12. All(v) = All(w) \cup {node}
  <2>1. ASSUME NEW x PROVE x \in All(v) <=> x \in All(w) \/ x = node
    <3>1. (\E k \in DOMAIN v[q]: x = v[q][k]) <=> (\E k \in DOMAIN w[q]: x = w[q][k]) \/ x = node
      <4>1. l + 1 \in 1..l+1 /\ \A k \in 1..l: k \in 1..l+1
        OBVIOUS
      <4> QED BY <4>1, <1>7
    <3>2. \A p \in Places: p # q =>
            ((\E k \in DOMAIN v[p]: x = v[p][k]) <=> \E k \in DOMAIN w[p]: x = w[p][k])
      BY <1>6
    <3>3. x \in All(v) <=> \E p \in Places: \E k \in DOMAIN v[p]: x = v[p][k]
      BY DEF All
    <3>4. x \in All(w) <=> \E p \in Places: \E k \in DOMAIN w[p]: x = w[p][k]
      BY DEF All
    <3> QED BY <3>1, <3>2, <3>3, <3>4
  <2> QED BY <2>1
<1>13. v[<<0, now % Near>>] = w[<<0, now % Near>>]
  BY <1>1, <1>6, NowList
<1> QED BY <1>6, <1>10, <1>11, <1>12, <1>13 DEF Good, Added

-----------------------------------------------------------------------------
(* timer_shift: the lists one by one.                                      *)
Fits(list, p, now, n) ==
    /\ list \in Seq(Node)
    /\ \A k \in DOMAIN list:
         list[k].expire >= now /\ Place(list[k].expire, now) = p /\ list[k].id <= n
    /\ \A j, k \in DOMAIN list:
         j < k /\ list[j].expire = list[k].expire => list[j].id < list[k].id

LEMMA GoodIsFits ==
    ASSUME NEW w, NEW now, NEW n
    PROVE  Good(w, now, n) <=>
             w \in [Places -> Seq(Node)] /\ \A p \in Places: Fits(w[p], p, now, n)
<1>1. w \in [Places -> Seq(Node)] => \A p \in Places: w[p] \in Seq(Node)
  OBVIOUS
<1> QED BY <1>1 DEF Good, Fits

Member(x, list) == \E k \in DOMAIN list: x = list[k]

Joined(a, b) ==
    \E l, m \in Nat:
       /\ DOMAIN a = 1..l /\ DOMAIN b = 1..m /\ DOMAIN (a \o b) = 1..l+m
       /\ \A k \in 1..l: k \in 1..l+m /\ (a \o b)[k] = a[k]
       /\ \A k \in 1..m: l + k \in 1..l+m /\ (a \o b)[l + k] = b[k]
       /\ \A k \in 1..l+m: k \in 1..l \/ \E i \in 1..m: k = l + i

LEMMA ConcatIs ==
    ASSUME NEW S, NEW a \in Seq(S), NEW b \in Seq(S)
    PROVE  a \o b \in Seq(S) /\ Joined(a, b)
<1>0. PICK l, m \in Nat: l = Len(a) /\ m = Len(b)
  OBVIOUS
<1>1. a \o b \in Seq(S) /\ Len(a \o b) = l + m
  BY <1>0, ConcatProperties
<1>2. DOMAIN a = 1..l /\ DOMAIN b = 1..m /\ DOMAIN (a \o b) = 1..l+m
  BY <1>0, <1>1
<1>3. \A k \in 1..l: k \in 1..l+m /\ (a \o b)[k] = a[k]
  BY <1>0, <1>1, ConcatProperties
<1>4. \A k \in 1..m: l + k \in 1..l+m /\ (a \o b)[l + k] = b[k]
  <2> SUFFICES ASSUME NEW k \in 1..m PROVE l + k \in 1..l+m /\ (a \o b)[l + k] = b[k]
    OBVIOUS
  <2>1. l + k \in 1..l+m /\ l + k > l /\ (l + k) - l = k
    BY <1>1
  <2> QED BY <2>1, <1>0, <1>1, ConcatProperties
<1>5. \A k \in 1..l+m: k \in 1..l \/ \E i \in 1..m: k = l + i
  <2> SUFFICES ASSUME NEW k \in 1..l+m, k \notin 1..l PROVE \E i \in 1..m: k = l + i
    OBVIOUS
  <2>1. k - l \in 1..m /\ k = l + (k - l)
    BY <1>1
  <2> QED BY <2>1
<1> QED BY <1>1, <1>2, <1>3, <1>4, <1>5 DEF Joined

LEMMA ConcatMember ==
    ASSUME NEW S, NEW a \in Seq(S), NEW b \in Seq(S), NEW x
    PROVE  Member(x, a \o b) <=> Member(x, a) \/ Member(x, b)
<1>1. PICK l, m \in Nat:
      /\ DOMAIN a = 1..l /\ DOMAIN b = 1..m /\ DOMAIN (a \o b) = 1..l+m
      /\ \A k \in 1..l: k \in 1..l+m /\ (a \o b)[k] = a[k]
      /\ \A k \in 1..m: l + k \in 1..l+m /\ (a \o b)[l + k] = b[k]
      /\ \A k \in 1..l+m: k \in 1..l \/ \E i \in 1..m: k = l + i
  <2>1. Joined(a, b)
    BY ConcatIs
  <2> QED BY <2>1 DEF Joined
<1>2. ASSUME Member(x, a \o b) PROVE Member(x, a) \/ Member(x, b)
  <2>1. PICK k \in 1..l+m: x = (a \o b)[k]
    BY <1>1, <1>2 DEF Member
  <2>2. CASE k \in 1..l
    BY <2>1, <2>2, <1>1 DEF Member
  <2>3. ASSUME NEW i \in 1..m, k = l + i PROVE Member(x, b)
    BY <2>1, <2>3, <1>1 DEF Member
  <2> QED BY <2>1, <2>2, <2>3, <1>1
<1>3. ASSUME Member(x, a) PROVE Member(x, a \o b)
  BY <1>1, <1>3 DEF Member
<1>4. ASSUME Member(x, b) PROVE Member(x, a \o b)
  BY <1>1, <1>4 DEF Member
<1> QED BY <1>2, <1>3, <1>4

(* Two lists that no time has nodes in both of.                            *)
LEMMA ConcatFits ==
    ASSUME NEW p, NEW now, NEW n, NEW a, NEW b, Fits(a, p, now, n), Fits(b, p, now, n),
           \A j \in DOMAIN a: \A k \in DOMAIN b: a[j].expire # b[k].expire
    PROVE  Fits(a \o b, p, now, n)
<1>1. a \in Seq(Node) /\ b \in Seq(Node)
  BY DEF Fits
<1>2. PICK l, m \in Nat:
      /\ DOMAIN a = 1..l /\ DOMAIN b = 1..m /\ DOMAIN (a \o b) = 1..l+m
      /\ \A k \in 1..l: k \in 1..l+m /\ (a \o b)[k] = a[k]
      /\ \A k \in 1..m: l + k \in 1..l+m /\ (a \o b)[l + k] = b[k]
      /\ \A k \in 1..l+m: k \in 1..l \/ \E i \in 1..m: k = l + i
  <2>1. Joined(a, b)
    BY <1>1, ConcatIs
  <2> QED BY <2>1 DEF Joined
<1> DEFINE c == a \o b
<1>3. \A k \in DOMAIN c: c[k].expire >= now /\ Place(c[k].expire, now) = p /\ c[k].id <= n
  <2> SUFFICES ASSUME NEW k \in 1..l+m
               PROVE  c[k].expire >= now /\ Place(c[k].expire, now) = p /\ c[k].id <= n
    BY <1>2
  <2>1. CASE k \in 1..l
    BY <2>1, <1>2 DEF Fits
  <2>2. ASSUME NEW i \in 1..m, k = l + i
        PROVE c[k].expire >= now /\ Place(c[k].expire, now) = p /\ c[k].id <= n
    <3>1. c[k] = b[i] /\ i \in DOMAIN b
      BY <2>2, <1>2
    <3> QED BY <3>1 DEF Fits
  <2> QED BY <2>1, <2>2, <1>2
<1>4. \A j, k \in DOMAIN c: j < k /\ c[j].expire = c[k].expire => c[j].id < c[k].id
  <2> SUFFICES ASSUME NEW j \in 1..l+m, NEW k \in 1..l+m, j < k, c[j].expire = c[k].expire
               PROVE  c[j].id < c[k].id
    BY <1>2
  <2>1. CASE j \in 1..l /\ k \in 1..l
    BY <2>1, <1>2 DEF Fits
  <2>2. ASSUME NEW i \in 1..m, k = l + i, j \in 1..l PROVE FALSE
    BY <2>2, <1>2
  <2>3. ASSUME NEW h \in 1..m, j = l + h, NEW i \in 1..m, k = l + i PROVE c[j].id < c[k].id
    <3>1. h < i
      BY <2>3, <1>2
    <3>2. c[j] = b[h] /\ c[k] = b[i] /\ h \in DOMAIN b /\ i \in DOMAIN b
      BY <2>3, <1>2
    <3> QED BY <3>1, <3>2 DEF Fits
  <2>4. ASSUME NEW h \in 1..m, j = l + h, k \in 1..l PROVE FALSE
    BY <2>4, <1>2
  <2> QED BY <2>1, <2>2, <2>3, <2>4, <1>2
<1>5. c \in Seq(Node)
  BY <1>1, ConcatIs
<1> QED BY <1>3, <1>4, <1>5 DEF Fits

SameMembers(list, at) ==
    \A x: Member(x, Sublist(list, at)) <=> \E k \in at: x = list[k]

LEMMA SublistFits ==
    ASSUME NEW from, NEW t, NEW now, NEW n, NEW list, Fits(list, from, t, n), NEW p,
           \A k \in DOMAIN list: list[k].expire >= now,
           NEW at \in SUBSET DOMAIN list, \A k \in at: Place(list[k].expire, now) = p
    PROVE  Fits(Sublist(list, at), p, now, n) /\ SameMembers(list, at)
<1>1. list \in Seq(Node) /\ at \in SUBSET DOMAIN list
  BY DEF Fits
<1>2. PICK f \in [1..Cardinality(at) -> at]:
              /\ Cardinality(at) \in Nat
              /\ Sublist(list, at) = [k \in 1..Cardinality(at) |-> list[f[k]]]
              /\ \A k, l \in 1..Cardinality(at): k < l => f[k] < f[l]
              /\ \A i \in at: \E k \in 1..Cardinality(at): f[k] = i
  <2>1. Chosen(list, at)
    BY <1>1, SublistIs
  <2> QED BY <2>1 DEF Chosen
<1>3. PICK N \in Nat: N = Cardinality(at)
  BY <1>2
<1>4. \A k \in 1..N: f[k] \in at /\ f[k] \in DOMAIN list
  BY <1>1, <1>2, <1>3
<1>5. PICK s: s = Sublist(list, at)
  OBVIOUS
<1>6. s = [k \in 1..N |-> list[f[k]]]
  BY <1>2, <1>3, <1>5
<1>7. s \in Seq(Node) /\ DOMAIN s = 1..N /\ \A k \in 1..N: s[k] = list[f[k]]
  <2>1. \A k \in 1..N: list[f[k]] \in Node
    BY <1>1, <1>4
  <2> QED BY <2>1, <1>6
<1>8. \A k \in 1..N: s[k].expire >= now /\ Place(s[k].expire, now) = p /\ s[k].id <= n
  BY <1>4, <1>7 DEF Fits
<1>9. \A j, k \in 1..N: j < k /\ s[j].expire = s[k].expire => s[j].id < s[k].id
  <2> SUFFICES ASSUME NEW j \in 1..N, NEW k \in 1..N, j < k, s[j].expire = s[k].expire
               PROVE  s[j].id < s[k].id
    OBVIOUS
  <2>1. f[j] < f[k]
    BY <1>2, <1>3
  <2> QED BY <2>1, <1>4, <1>7 DEF Fits
<1>10. \A x: Member(x, s) <=> \E k \in at: x = list[k]
  <2> SUFFICES ASSUME NEW x PROVE Member(x, s) <=> \E k \in at: x = list[k]
    OBVIOUS
  <2>1. ASSUME Member(x, s) PROVE \E k \in at: x = list[k]
    BY <2>1, <1>4, <1>7 DEF Member
  <2>2. ASSUME NEW i \in at, x = list[i] PROVE Member(x, s)
    <3>1. PICK k \in 1..N: f[k] = i
      BY <1>2, <1>3
    <3> QED BY <3>1, <2>2, <1>7 DEF Member
  <2> QED BY <2>1, <2>2
<1> QED BY <1>5, <1>7, <1>8, <1>9, <1>10 DEF Fits, SameMembers

LEMMA AllMember ==
    ASSUME NEW w, NEW x
    PROVE  x \in All(w) <=> \E p \in Places: Member(x, w[p])
BY DEF All, Member

(* After the shift every list is what the new time wants of it, and the    *)
(* nodes are the same.                                                     *)
LEMMA GoodShift ==
    ASSUME NEW t \in 0..MaxTime, NEW now \in 1..MaxTime, now = t + 1, NEW n,
           NEW w, Good(w, t, n), w[<<0, t % Near>>] = <<>>
    PROVE  Good(Shifted(w, now), now, n) /\ All(Shifted(w, now)) = All(w)
<1>1. /\ w \in [Places -> Seq(Node)]
      /\ \A p \in Places: \A k \in DOMAIN w[p]: w[p][k] \in Node
      /\ \A p \in Places: Fits(w[p], p, t, n)
  <2>1. w \in [Places -> Seq(Node)] /\ \A p \in Places: Fits(w[p], p, t, n)
    BY GoodIsFits
  <2>2. ASSUME NEW p \in Places, NEW k \in DOMAIN w[p] PROVE w[p][k] \in Node
    <3>1. w[p] \in Seq(Node)
      BY <2>1
    <3> QED BY <3>1
  <2> QED BY <2>1, <2>2
<1>2. \A p \in Places: \A k \in DOMAIN w[p]:
        w[p][k].expire \in now..MaxTime /\ Place(w[p][k].expire, t) = p
  <2> SUFFICES ASSUME NEW p \in Places, NEW k \in DOMAIN w[p]
               PROVE  w[p][k].expire \in now..MaxTime /\ Place(w[p][k].expire, t) = p
    OBVIOUS
  <2>1. PICK e \in t..MaxTime: e = w[p][k].expire
    <3>1. w[p][k].expire \in 0..MaxTime /\ w[p][k].expire >= t
      BY <1>1 DEF Good, Node
    <3> QED BY <3>1
  <2>2. Place(e, t) = p
    BY <2>1 DEF Good
  <2>3. p # <<0, t % Near>>
    <3>1. w[p] # <<>>
      OBVIOUS
    <3> QED BY <3>1
  <2>4. e # t
    BY <2>2, <2>3, NowList
  <2>5. e \in now..MaxTime
    BY <2>4
  <2> QED BY <2>1, <2>2, <2>5
<1>3. CASE now % Near # 0
  <2>1. Shifted(w, now) = w
    BY <1>3 DEF Shifted
  <2>2. \A p \in Places: \A k \in DOMAIN w[p]:
          w[p][k].expire >= now /\ Place(w[p][k].expire, now) = p
    <3> SUFFICES ASSUME NEW p \in Places, NEW k \in DOMAIN w[p]
                 PROVE  w[p][k].expire >= now /\ Place(w[p][k].expire, now) = p
      OBVIOUS
    <3>1. PICK e \in now..MaxTime: e = w[p][k].expire /\ Place(e, t) = p
      BY <1>2
    <3>2. Place(e, now) = p
      BY <3>1, <1>3, StaysInPlace
    <3> QED BY <3>1, <3>2
  <2>3. Good(w, now, n)
    BY <2>2 DEF Good
  <2> QED BY <2>1, <2>3
<1>4. CASE now % Near = 0
  <2>1. PICK from \in Places: from = Coarse(now)
    <3>1. PICK i \in 0..Levels-1: Coarse(now) = <<i+1, D(i, now) % Level>> /\ D(i, now) % Level # 0
      BY <1>4, CoarseIs
    <3>2. i + 1 \in 1..Levels /\ D(i, now) % Level \in 1..Level-1
      <4>1. now \in Nat /\ i \in 0..Levels-1
        BY TimerAssumption
      <4>2. D(i, now) % Level \in 0..Level-1
        BY <4>1, LevelUp
      <4> QED BY <4>2, <3>1, TimerAssumption
    <3> QED BY <3>1, <3>2 DEF Places
  <2> DEFINE base(p) == IF p = from THEN <<>> ELSE w[p]
             at(p)   == {k \in DOMAIN w[from] : Place(w[from][k].expire, now) = p}
             rest(p) == Sublist(w[from], at(p))
  <2>2. PICK v: v = Shifted(w, now)
    OBVIOUS
  <2>3. v = [p \in Places |-> base(p) \o rest(p)]
    BY <2>1, <2>2, <1>4 DEF Shifted
  <2>4. ASSUME NEW p \in Places
        PROVE  /\ Fits(base(p), p, now, n)
               /\ \A k \in DOMAIN base(p): Place(base(p)[k].expire, t) # from
    <3>1. CASE p = from
      BY <3>1 DEF Fits
    <3>2. CASE p # from
      <4>1. base(p) = w[p]
        BY <3>2
      <4>2. ASSUME NEW k \in DOMAIN w[p]
            PROVE  /\ w[p][k].expire >= now /\ Place(w[p][k].expire, now) = p
                   /\ Place(w[p][k].expire, t) # from
        <5>1. PICK e \in now..MaxTime: e = w[p][k].expire /\ Place(e, t) = p
          BY <1>2
        <5>2. Place(e, now) = p
          BY <5>1, <3>2, <2>1, StaysInPlace
        <5> QED BY <5>1, <5>2, <3>2
      <4>3. Fits(w[p], p, t, n)
        BY <1>1
      <4>4. Fits(w[p], p, now, n)
        BY <4>2, <4>3 DEF Fits
      <4> QED BY <4>1, <4>2, <4>4
    <3> QED BY <3>1, <3>2
  <2>5. Fits(w[from], from, t, n) /\ \A k \in DOMAIN w[from]:
          w[from][k].expire >= now /\ Place(w[from][k].expire, t) = from
    BY <1>1, <1>2
  <2>6. ASSUME NEW p \in Places
        PROVE  /\ Fits(rest(p), p, now, n)
               /\ \A x: Member(x, rest(p)) <=> \E k \in at(p): x = w[from][k]
    <3>1. PICK list: list = w[from]
      OBVIOUS
    <3>2. PICK s: s = at(p)
      OBVIOUS
    <3>3. s \in SUBSET DOMAIN list /\ \A k \in s: Place(list[k].expire, now) = p
      BY <3>1, <3>2
    <3>4. Fits(list, from, t, n) /\ \A k \in DOMAIN list: list[k].expire >= now
      BY <2>5, <3>1
    <3>5. Fits(Sublist(list, s), p, now, n) /\ SameMembers(list, s)
      BY <3>3, <3>4, SublistFits
    <3> QED BY <3>1, <3>2, <3>5 DEF SameMembers
  <2>7. ASSUME NEW p \in Places PROVE Fits(v[p], p, now, n)
    <3>1. PICK a, b: a = base(p) /\ b = rest(p)
      OBVIOUS
    <3>2. Fits(a, p, now, n) /\ Fits(b, p, now, n) /\ v[p] = a \o b
      BY <3>1, <2>3, <2>4, <2>6
    <3>3. \A j \in DOMAIN a: Place(a[j].expire, t) # from
      BY <3>1, <2>4
    <3>4. \A k \in DOMAIN b: Place(b[k].expire, t) = from
      <4> SUFFICES ASSUME NEW k \in DOMAIN b PROVE Place(b[k].expire, t) = from
        OBVIOUS
      <4>1. Member(b[k], b)
        BY DEF Member
      <4>2. PICK i \in at(p): b[k] = w[from][i]
        BY <4>1, <3>1, <2>6
      <4> QED BY <4>2, <2>5
    <3>5. \A j \in DOMAIN a: \A k \in DOMAIN b: a[j].expire # b[k].expire
      BY <3>3, <3>4
    <3> QED BY <3>2, <3>5, ConcatFits
  <2>8. v \in [Places -> Seq(Node)]
    <3>1. \A p \in Places: base(p) \o rest(p) \in Seq(Node)
      <4> SUFFICES ASSUME NEW p \in Places PROVE base(p) \o rest(p) \in Seq(Node)
        OBVIOUS
      <4> QED BY <2>7, <2>3 DEF Fits
    <3> HIDE DEF base, rest
    <3> QED BY <3>1, <2>3
  <2>9. Good(v, now, n)
    BY <2>7, <2>8, GoodIsFits
  <2>10. ASSUME NEW p \in Places, NEW x
         PROVE  Member(x, v[p]) <=> (p # from /\ Member(x, w[p])) \/ \E k \in at(p): x = w[from][k]
    <3>1. PICK a, b: a = base(p) /\ b = rest(p)
      OBVIOUS
    <3>2. a \in Seq(Node) /\ b \in Seq(Node) /\ v[p] = a \o b
      BY <3>1, <2>3, <2>4, <2>6 DEF Fits
    <3>3. Member(x, v[p]) <=> Member(x, a) \/ Member(x, b)
      BY <3>2, ConcatMember
    <3>4. Member(x, a) <=> p # from /\ Member(x, w[p])
      BY <3>1 DEF Member
    <3>5. Member(x, b) <=> \E k \in at(p): x = w[from][k]
      BY <3>1, <2>6
    <3> QED BY <3>3, <3>4, <3>5
  <2>11. ASSUME NEW x, x \in All(v) PROVE x \in All(w)
    <3>1. PICK p \in Places: Member(x, v[p])
      BY <2>11, AllMember
    <3>2. Member(x, w[p]) \/ Member(x, w[from])
      <4>1. CASE \E k \in at(p): x = w[from][k]
        BY <4>1 DEF Member
      <4>2. CASE Member(x, w[p])
        BY <4>2
      <4> HIDE DEF at
      <4> QED BY <3>1, <2>10, <4>1, <4>2
    <3> QED BY <3>2, AllMember
  <2>12. ASSUME NEW x, x \in All(w) PROVE x \in All(v)
    <3>1. PICK p \in Places: Member(x, w[p])
      BY <2>12, AllMember
    <3>2. CASE p # from
      <4>1. Member(x, v[p])
        BY <3>1, <3>2, <2>10
      <4> QED BY <4>1, AllMember
    <3>3. CASE p = from
      <4>1. PICK k \in DOMAIN w[from]: x = w[from][k]
        BY <3>1, <3>3 DEF Member
      <4>2. PICK q \in Places: q = Place(x.expire, now)
        <5>1. x.expire \in now..MaxTime /\ now \in 0..MaxTime
          BY <4>1, <1>2
        <5> QED BY <5>1, PlaceType
      <4>3. k \in at(q)
        BY <4>1, <4>2
      <4>4. Member(x, v[q])
        BY <4>1, <4>3, <2>10
      <4> QED BY <4>4, AllMember
    <3> QED BY <3>2, <3>3
  <2> QED BY <2>2, <2>9, <2>11, <2>12
<1> QED BY <1>3, <1>4

-----------------------------------------------------------------------------
(* A list of growing numbers is the set of them in order.                  *)
LEMMA GrowingIsSorted ==
    ASSUME NEW l \in Nat, NEW S \in SUBSET Nat, NEW f \in [1..l -> S],
           \A i, j \in 1..l: i < j => f[i] < f[j],
           \A s \in S: \E i \in 1..l: f[i] = s
    PROVE  f \in Abstract!Sorted(S)
<1>1. \A i, j \in 1..l: f[i] = f[j] => i = j
  <2> SUFFICES ASSUME NEW i \in 1..l, NEW j \in 1..l, i # j PROVE f[i] # f[j]
    OBVIOUS
  <2>1. f[i] \in S /\ f[j] \in S /\ (i < j \/ j < i)
    OBVIOUS
  <2>2. f[i] \in Nat /\ f[j] \in Nat
    BY <2>1
  <2> QED BY <2>1, <2>2
<1>2. f \in Surjection(1..l, S)
  BY DEF Surjection
<1>3. f \in Injection(1..l, S)
  BY <1>1 DEF Injection, IsInjective
<1>4. IsFiniteSet(1..l) /\ Cardinality(1..l) = l
  BY FS_Interval
<1>5. Cardinality(S) = l
  BY <1>2, <1>3, <1>4, FS_Surjection
<1>6. Abstract!Cardinality(S) = l
  BY <1>5 DEF Abstract!Cardinality, Cardinality
<1> QED BY <1>6 DEF Abstract!Sorted

(* timer_execute: the list of the time is emptied; its nodes, which are    *)
(* those that expire now, come in the order of their numbers.              *)
Executed(w, v, q, now, n) ==
    /\ Good(v, now, n) /\ v[q] = <<>>
    /\ All(v) = {x \in All(w) : x.expire # now}
    /\ Ids(w[q]) \in Seq(1..MaxEvent)
    /\ Ids(w[q]) \in Abstract!Sorted({x.id : x \in {y \in All(w) : y.expire = now}})

LEMMA GoodExecute ==
    ASSUME NEW now \in 0..MaxTime, NEW n, NEW w, Good(w, now, n),
           NEW q, q = <<0, now % Near>>, NEW v, v = [w EXCEPT ![q] = <<>>]
    PROVE  Executed(w, v, q, now, n)
<1>0. now \in now..MaxTime
  BY TimerAssumption
<1>1. q \in Places
  BY <1>0, NowList
<1>2. w \in [Places -> Seq(Node)] /\ w[q] \in Seq(Node)
  BY <1>1 DEF Good
<1>3. v \in [Places -> Seq(Node)] /\ v[q] = <<>> /\ \A p \in Places: p # q => v[p] = w[p]
  BY <1>1, <1>2
<1>4. Good(v, now, n)
  <2>1. \A p \in Places: DOMAIN v[p] \subseteq DOMAIN w[p] /\ \A k \in DOMAIN v[p]: v[p][k] = w[p][k]
    <3> SUFFICES ASSUME NEW p \in Places
                 PROVE  DOMAIN v[p] \subseteq DOMAIN w[p] /\ \A k \in DOMAIN v[p]: v[p][k] = w[p][k]
      OBVIOUS
    <3>1. CASE p = q
      <4>1. DOMAIN v[p] = {}
        BY <3>1, <1>3
      <4> QED BY <4>1
    <3>2. CASE p # q
      BY <3>2, <1>3
    <3> QED BY <3>1, <3>2
  <2>2. \A p \in Places: \A k \in DOMAIN v[p]:
          v[p][k].expire >= now /\ Place(v[p][k].expire, now) = p /\ v[p][k].id <= n
    BY <2>1 DEF Good
  <2>3. \A p \in Places: \A j, k \in DOMAIN v[p]:
          j < k /\ v[p][j].expire = v[p][k].expire => v[p][j].id < v[p][k].id
    <3> SUFFICES ASSUME NEW p \in Places, NEW j \in DOMAIN v[p], NEW k \in DOMAIN v[p],
                        j < k, v[p][j].expire = v[p][k].expire
                 PROVE  v[p][j].id < v[p][k].id
      OBVIOUS
    <3>1. j \in DOMAIN w[p] /\ k \in DOMAIN w[p] /\ v[p][j] = w[p][j] /\ v[p][k] = w[p][k]
      BY <2>1
    <3> QED BY <3>1 DEF Good
  <2> QED BY <2>2, <2>3, <1>3 DEF Good
<1>5. \A p \in Places: \A k \in DOMAIN w[p]: w[p][k].expire = now <=> p = q
  <2> SUFFICES ASSUME NEW p \in Places, NEW k \in DOMAIN w[p]
               PROVE  w[p][k].expire = now <=> p = q
    OBVIOUS
  <2>1. w[p][k] \in Node
    <3>1. w[p] \in Seq(Node)
      BY <1>2
    <3> QED BY <3>1
  <2>2. w[p][k].expire \in now..MaxTime
    <3>1. w[p][k].expire \in 0..MaxTime /\ w[p][k].expire >= now
      BY <2>1 DEF Good, Node
    <3> QED BY <3>1
  <2>3. Place(w[p][k].expire, now) = p
    BY DEF Good
  <2> QED BY <2>2, <2>3, NowList
<1>6. \A x: x \in All(v) <=> x \in All(w) /\ x.expire # now
  <2> SUFFICES ASSUME NEW x PROVE x \in All(v) <=> x \in All(w) /\ x.expire # now
    OBVIOUS
  <2>1. ASSUME x \in All(v) PROVE x \in All(w) /\ x.expire # now
    <3>1. PICK p \in Places: Member(x, v[p])
      BY <2>1, AllMember
    <3>2. p # q
      BY <3>1, <1>3 DEF Member
    <3>3. Member(x, w[p])
      BY <3>1, <3>2, <1>3
    <3> QED BY <3>2, <3>3, <1>5, AllMember DEF Member
  <2>2. ASSUME x \in All(w), x.expire # now PROVE x \in All(v)
    <3>1. PICK p \in Places: Member(x, w[p])
      BY <2>2, AllMember
    <3>2. p # q
      BY <3>1, <2>2, <1>5 DEF Member
    <3>3. Member(x, v[p])
      BY <3>1, <3>2, <1>3
    <3> QED BY <3>3, AllMember
  <2> QED BY <2>1, <2>2
<1>7. All(v) = {x \in All(w) : x.expire # now}
  BY <1>6
<1> DEFINE S == {x.id : x \in {y \in All(w) : y.expire = now}}
<1>8. \A k \in DOMAIN w[q]: /\ w[q][k].id \in S /\ w[q][k].id \in 1..MaxEvent
  <2> SUFFICES ASSUME NEW k \in DOMAIN w[q] PROVE w[q][k].id \in S /\ w[q][k].id \in 1..MaxEvent
    OBVIOUS
  <2>1. w[q][k].expire = now
    BY <1>1, <1>5
  <2>2. w[q][k] \in All(w)
    BY <1>1 DEF All
  <2>3. w[q][k] \in Node
    BY <1>2
  <2> QED BY <2>1, <2>2, <2>3 DEF Node
<1>9. \A s \in S: \E k \in DOMAIN w[q]: w[q][k].id = s
  <2> SUFFICES ASSUME NEW x \in All(w), x.expire = now PROVE \E k \in DOMAIN w[q]: w[q][k].id = x.id
    OBVIOUS
  <2>1. PICK p \in Places: Member(x, w[p])
    BY AllMember
  <2>2. p = q
    BY <2>1, <1>5 DEF Member
  <2> QED BY <2>1, <2>2 DEF Member
<1>10. PICK l \in Nat: DOMAIN w[q] = 1..l
  BY <1>2
<1>11. PICK f: f = Ids(w[q])
  OBVIOUS
<1>12. f = [i \in 1..l |-> w[q][i].id]
  BY <1>10, <1>11 DEF Ids
<1>13. f \in [1..l -> S] /\ f \in [1..l -> 1..MaxEvent]
  <2> HIDE DEF S
  <2> QED BY <1>8, <1>10, <1>12
<1>14. \A i, j \in 1..l: i < j => f[i] < f[j]
  <2> SUFFICES ASSUME NEW i \in 1..l, NEW j \in 1..l, i < j PROVE f[i] < f[j]
    OBVIOUS
  <2>1. w[q][i].expire = now /\ w[q][j].expire = now
    BY <1>1, <1>5, <1>10
  <2>2. w[q][i].id < w[q][j].id
    BY <2>1, <1>1, <1>10 DEF Good
  <2> QED BY <2>2, <1>12
<1>15. \A s \in S: \E i \in 1..l: f[i] = s
  <2> HIDE DEF S
  <2> QED BY <1>9, <1>10, <1>12
<1>16. S \in SUBSET Nat
  <2>1. \A s \in S: s \in 1..MaxEvent
    <3> HIDE DEF S
    <3> QED BY <1>8, <1>9
  <2>2. 1..MaxEvent \subseteq Nat
    BY TimerAssumption
  <2> HIDE DEF S
  <2> QED BY <2>1, <2>2
<1>17. f \in Abstract!Sorted(S)
  <2> HIDE DEF S
  <2> QED BY <1>13, <1>14, <1>15, <1>16, GrowingIsSorted
<1>18. f \in Seq(1..MaxEvent)
  <2>1. \A T: f \in [1..l -> T] => f \in Seq(T)
    BY <1>10
  <2> QED BY <2>1, <1>13
<1> QED BY <1>3, <1>4, <1>7, <1>11, <1>17, <1>18 DEF Executed

LEMMA GoodMore ==
    ASSUME NEW w, NEW now, NEW n \in Nat, Good(w, now, n)
    PROVE  Good(w, now, n + 1)
<1>1. ASSUME NEW p \in Places, NEW k \in DOMAIN w[p] PROVE w[p][k].id <= n + 1
  <2>1. w[p][k] \in Node
    <3>1. w[p] \in Seq(Node)
      BY DEF Good
    <3> QED BY <3>1
  <2>2. w[p][k].id \in Nat
    BY <2>1, TimerAssumption DEF Node
  <2>3. w[p][k].id <= n
    BY DEF Good
  <2> QED BY <2>2, <2>3
<1> QED BY <1>1 DEF Good

(* timer_update as a whole, from a time at which nothing is left to do.    *)
Updated(w, v, now, n, ids) ==
    /\ Good(v, now, n) /\ v[<<0, now % Near>>] = <<>>
    /\ All(v) = {x \in All(w) : x.expire # now}
    /\ ids \in Seq(1..MaxEvent)
    /\ ids \in Abstract!Sorted({x.id : x \in {y \in All(w) : y.expire = now}})

LEMMA GoodUpdate ==
    ASSUME NEW t \in 0..MaxTime, NEW now \in 1..MaxTime, now = t + 1, NEW n,
           NEW w, Good(w, t, n), w[<<0, t % Near>>] = <<>>,
           NEW q, q = <<0, now % Near>>,
           NEW lists, lists = Shifted([w EXCEPT ![<<0, t % Near>>] = <<>>], now),
           NEW v, v = [lists EXCEPT ![q] = <<>>]
    PROVE  Updated(w, v, now, n, Ids(lists[q]))
<1>1. [w EXCEPT ![<<0, t % Near>>] = <<>>] = w
  BY DEF Good
<1>2. Good(lists, now, n) /\ All(lists) = All(w)
  <2>1. Good(Shifted(w, now), now, n) /\ All(Shifted(w, now)) = All(w)
    BY GoodShift
  <2> QED BY <2>1, <1>1
<1>3. now \in 0..MaxTime
  BY TimerAssumption
<1>4. Executed(lists, v, q, now, n)
  BY <1>2, <1>3, GoodExecute
<1> QED BY <1>2, <1>4 DEF Executed, Updated

LEMMA Difference ==
    ASSUME NEW m \in Nat, NEW x \in Nat, NEW r \in 0..m-1, NEW s \in 0..m-1,
           NEW a, NEW b, a = x + r, b = x + s \/ b = x + m + s, a <= b, b - a < m
    PROVE  IF s >= r THEN s - r = b - a ELSE m - r + s = b - a
OBVIOUS

(* A clock that wraps, read less than a period ago.                        *)
Gap(m, r, s) == IF s >= r THEN s - r ELSE m - r + s

LEMMA ElapsedIs ==
    ASSUME NEW m \in Nat \ {0}, NEW a \in Nat, NEW b \in Nat, a <= b, b - a < m
    PROVE  Gap(m, a % m, b % m) = b - a
<1>0. PICK r, s: r = a % m /\ s = b % m
  OBVIOUS
<1>1. PICK q \in Nat, p \in Nat: /\ q = a \div m /\ p = b \div m
                                 /\ r \in 0..m-1 /\ s \in 0..m-1
                                 /\ a = m * q + r /\ b = m * p + s
  BY <1>0, DivMod
<1>2. PICK x \in Nat: x = m * q
  BY Product
<1>3. a = x + r /\ m * (q + 1) = x + m
  BY <1>1, <1>2
<1>4. q <= p
  BY <1>1, DivMonotonic
<1>5. p <= q + 1
  <2>1. (a + m) \div m = q + 1
    <3>1. a + m = m * (q + 1) + r /\ a + m \in Nat /\ q + 1 \in Nat
      BY <1>1, <1>3
    <3>2. r \in 0..m-1
      BY <1>1
    <3> QED BY <3>1, <3>2, DivUnique
  <2>2. b <= a + m /\ a + m \in Nat
    OBVIOUS
  <2> QED BY <2>1, <2>2, <1>1, DivMonotonic
<1>6. b = x + s \/ b = x + m + s
  <2>1. b = m * p + s
    BY <1>1
  <2>2. p = q \/ p = q + 1
    BY <1>4, <1>5
  <2>3. m * p = x \/ m * p = x + m
    BY <2>2, <1>2, <1>3
  <2> QED BY <2>1, <2>3
<1>7. r \in 0..m-1 /\ s \in 0..m-1 /\ a = x + r
  BY <1>1, <1>3
<1>8. IF s >= r THEN s - r = b - a ELSE m - r + s = b - a
  BY <1>6, <1>7, Difference
<1> QED BY <1>0, <1>8 DEF Gap

-----------------------------------------------------------------------------
(* The wheel between two steps, and what the timer thread knows of the     *)
(* clock.  TicksMatchClock alone is not inductive: the ticks to come must  *)
(* be within the wheel, and the reading must not be a whole period old.    *)
Types ==
    /\ time \in 0..MaxTime /\ asked \in 0..MaxEvent /\ fired \in Seq(1..MaxEvent)
    /\ clock \in Nat /\ start \in Nat /\ polled \in Nat /\ owed \in Nat

WheelInv ==
    /\ Good(wheel, time, asked)
    /\ wheel[<<0, time % Near>>] = <<>>

ClockInv ==
    /\ start <= polled /\ polled <= clock /\ clock - polled < Period
    /\ current = polled % Period
    /\ time + owed = polled - start /\ owed < Period
    /\ time + owed + (clock - polled) <= MaxTime

TimerInv == Types /\ WheelInv /\ ClockInv

LEMMA InitInv == Init => TimerInv
<1> SUFFICES ASSUME Init PROVE TimerInv
  OBVIOUS
<1>1. wheel = [p \in Places |-> <<>>] /\ time = 0 /\ asked = 0
  BY DEF Init
<1>2. WheelInv
  <2>1. wheel \in [Places -> Seq(Node)]
    BY <1>1
  <2>2. \A p \in Places: DOMAIN wheel[p] = {}
    BY <1>1
  <2>3. <<0, time % Near>> \in Places
    <3>1. 0 \in 0..MaxTime /\ 0 \in 0..MaxTime
      BY TimerAssumption
    <3> QED BY <3>1, <1>1, NowList
  <2> QED BY <1>1, <2>1, <2>2, <2>3 DEF WheelInv, Good
<1>3. clock \in 0..Period-1 /\ Period \in Nat \ {0}
  BY TimerAssumption DEF Init
<1>4. clock % Period = clock
  <2>1. clock = Period * 0 + clock /\ clock \in Nat
    BY <1>3
  <2> QED BY <2>1, <1>3, DivUnique
<1>5. Types /\ ClockInv
  BY <1>3, <1>4, TimerAssumption DEF Types, ClockInv, Init
<1> QED BY <1>2, <1>5 DEF TimerInv

(* What a step of a worker does to the wheel: as AbstractTimer's Ask.      *)
LEMMA TimeoutStep ==
    ASSUME TimerInv, Timeout
    PROVE  TimerInv' /\ \E d \in Delay: Abstract!Ask(d)
<1> USE DEF TimerInv, Types
<1>1. PICK d \in Delay:
       /\ time + d <= MaxTime
       /\ IF d = 0
          THEN /\ fired' = Append(fired, asked + 1)
               /\ UNCHANGED wheel
          ELSE /\ wheel' = [wheel EXCEPT ![Place(time + d, time)] =
                              Append(@, [id |-> asked + 1, expire |-> time + d])]
               /\ UNCHANGED fired
  BY DEF Timeout
<1>2. /\ asked < MaxEvent /\ asked' = asked + 1 /\ d \in Nat /\ asked + 1 \in 1..MaxEvent
      /\ UNCHANGED <<time, current, owed, clock, start, polled>>
  BY TimerAssumption DEF Timeout
<1>3. ClockInv'
  BY <1>2 DEF ClockInv
<1>4. Nodes = All(wheel) /\ Nodes' = All(wheel')
  BY DEF Nodes, All
<1>5. CASE d = 0
  <2>1. Good(wheel, time, asked + 1)
    BY GoodMore DEF WheelInv
  <2>2. WheelInv'
    BY <2>1, <1>1, <1>2, <1>5 DEF WheelInv
  <2>3. Types'
    <3>1. fired' = Append(fired, asked + 1)
      BY <1>1, <1>5
    <3>2. fired' \in Seq(1..MaxEvent)
      BY <3>1, <1>2, AppendProperties
    <3> QED BY <3>2, <1>2
  <2>4. Abstract!Ask(d)
    BY <1>1, <1>2, <1>4, <1>5 DEF Abstract!Ask
  <2> QED BY <2>2, <2>3, <2>4, <1>3
<1>6. CASE d # 0
  <2>1. PICK e \in time..MaxTime: e = time + d /\ e # time
    BY <1>1, <1>2, <1>6
  <2>2. PICK node: node = [id |-> asked + 1, expire |-> e]
    OBVIOUS
  <2>3. wheel' = [wheel EXCEPT ![Place(e, time)] = Append(@, node)] /\ fired' = fired
    BY <1>1, <1>6, <2>1, <2>2
  <2>4. PICK v: v = wheel'
    OBVIOUS
  <2>5. /\ Good(v, time, asked + 1) /\ All(v) = All(wheel) \cup {node}
        /\ v[<<0, time % Near>>] = wheel[<<0, time % Near>>]
    <3>1. PICK w, t, n: w = wheel /\ t = time /\ n = asked
      OBVIOUS
    <3>2. /\ t \in 0..MaxTime /\ n \in Nat /\ n + 1 \in 1..MaxEvent /\ Good(w, t, n)
          /\ e \in t..MaxTime /\ e # t /\ node = [id |-> n + 1, expire |-> e]
          /\ v = [w EXCEPT ![Place(e, t)] = Append(@, node)]
      BY <1>2, <2>1, <2>2, <2>3, <2>4, <3>1 DEF WheelInv
    <3>3. Added(w, v, node, t, n)
      BY <3>2, GoodAdd
    <3> QED BY <3>1, <3>3 DEF Added
  <2>6. WheelInv'
    BY <1>2, <2>4, <2>5 DEF WheelInv
  <2>7. Types'
    BY <1>2, <2>3
  <2>8. Abstract!Ask(d)
    BY <1>2, <1>4, <1>6, <2>1, <2>2, <2>3, <2>4, <2>5 DEF Abstract!Ask
  <2> QED BY <1>3, <2>6, <2>7, <2>8
<1> QED BY <1>5, <1>6

(* A tick of the wheel: as AbstractTimer's Tick.                           *)
LEMMA TimerUpdateStep ==
    ASSUME TimerInv, TimerUpdate
    PROVE  TimerInv' /\ Abstract!Tick
<1>1a. PICK t \in 0..MaxTime: t = time
  BY DEF TimerInv, Types
<1>1b. PICK n, w: n = asked /\ w = wheel
  OBVIOUS
<1>1. t = time /\ n = asked /\ w = wheel
  BY <1>1a, <1>1b
<1>2. PICK now \in 1..MaxTime: now = t + 1
  <2>1. /\ owed \in Nat /\ owed > 0 /\ time \in Nat /\ clock \in Nat /\ polled \in Nat
        /\ polled <= clock /\ time + owed + (clock - polled) <= MaxTime /\ MaxTime \in Nat
    BY TimerAssumption DEF TimerInv, Types, ClockInv, TimerUpdate
  <2>2. time + 1 \in 1..MaxTime
    BY <2>1
  <2> QED BY <2>2, <1>1
<1>3. PICK q, lists, v: /\ q = <<0, now % Near>>
                        /\ lists = Shifted([w EXCEPT ![<<0, t % Near>>] = <<>>], now)
                        /\ v = [lists EXCEPT ![q] = <<>>]
  OBVIOUS
<1>4. Good(w, t, n) /\ w[<<0, t % Near>>] = <<>>
  BY <1>1 DEF TimerInv, WheelInv
<1>5. PICK ids: ids = Ids(lists[q])
  OBVIOUS
<1>6. Updated(w, v, now, n, ids)
  BY <1>2, <1>3, <1>4, <1>5, GoodUpdate
<1>7. /\ time' = now /\ wheel' = v /\ owed' = owed - 1 /\ owed > 0
      /\ fired' = fired \o Ids(w[<<0, t % Near>>]) \o ids
      /\ UNCHANGED <<asked, current, clock, start, polled>>
  BY <1>1, <1>2, <1>3, <1>5 DEF TimerUpdate
<1>8. fired' = fired \o ids
  <2>1. Ids(<<>>) = <<>>
    BY DEF Ids
  <2>2. fired \in Seq(1..MaxEvent)
    BY DEF TimerInv, Types
  <2>3. fired \o <<>> = fired
    BY <2>2, ConcatEmptySeq
  <2> QED BY <2>1, <2>3, <1>4, <1>7
<1>9. Types'
  <2>1. fired' \in Seq(1..MaxEvent)
    BY <1>6, <1>8, ConcatProperties DEF TimerInv, Types, Updated
  <2>2. now \in 0..MaxTime
    BY TimerAssumption
  <2> QED BY <2>1, <2>2, <1>7 DEF TimerInv, Types
<1>10. WheelInv'
  BY <1>1, <1>6, <1>7 DEF WheelInv, Updated
<1>11. ClockInv'
  <2>1. /\ time \in Nat /\ clock \in Nat /\ polled \in Nat /\ start \in Nat /\ owed \in Nat
        /\ now = time + 1 /\ Period \in Nat /\ MaxTime \in Nat
    BY <1>1, <1>2, TimerAssumption DEF TimerInv, Types
  <2> QED BY <2>1, <1>7 DEF TimerInv, ClockInv
<1>12. Nodes = All(w) /\ Nodes' = All(v)
  BY <1>1, <1>7 DEF Nodes, All
<1>13. Abstract!Due = {x \in All(w) : x.expire = now}
  BY <1>1, <1>2, <1>12 DEF Abstract!Due
<1>14. Nodes' = Nodes \ Abstract!Due
  BY <1>6, <1>12, <1>13 DEF Updated
<1>15. ids \in Abstract!Sorted({x.id : x \in Abstract!Due})
  BY <1>6, <1>13 DEF Updated
<1>16. Abstract!Tick
  BY <1>1, <1>2, <1>7, <1>8, <1>14, <1>15 DEF Abstract!Tick
<1> QED BY <1>9, <1>10, <1>11, <1>16 DEF TimerInv

(* The other steps leave the timer as it is.                               *)
LEMMA UpdateTimeStep ==
    ASSUME TimerInv, UpdateTime
    PROVE  TimerInv'
<1>1. /\ clock \in Nat /\ polled \in Nat /\ polled <= clock /\ clock - polled < Period
      /\ current = polled % Period /\ Period \in Nat \ {0} /\ start \in Nat /\ time \in Nat
      /\ start <= polled /\ MaxTime \in Nat
  BY TimerAssumption DEF TimerInv, Types, ClockInv
<1>2. Elapsed(clock % Period) = clock - polled
  <2>1. Gap(Period, polled % Period, clock % Period) = clock - polled
    BY <1>1, ElapsedIs
  <2> QED BY <2>1, <1>1 DEF Elapsed, Gap
<1>3. /\ owed = 0 /\ current' = clock % Period /\ owed' = clock - polled /\ polled' = clock
      /\ UNCHANGED <<time, wheel, asked, fired, clock, start>>
  BY <1>2 DEF UpdateTime, Now
<1>4. time = polled - start /\ time + (clock - polled) <= MaxTime
  BY <1>1, <1>3 DEF TimerInv, ClockInv
<1>5. ClockInv'
  <2>1. /\ start <= clock /\ clock <= clock /\ clock - clock < Period
        /\ time + (clock - polled) = clock - start
        /\ time + (clock - polled) + (clock - clock) <= MaxTime
    BY <1>1, <1>4
  <2> QED BY <2>1, <1>1, <1>3 DEF ClockInv
<1>6. Types'
  BY <1>1, <1>3 DEF TimerInv, Types
<1>7. WheelInv'
  BY <1>3 DEF TimerInv, WheelInv
<1> QED BY <1>5, <1>6, <1>7 DEF TimerInv

LEMMA ClockStep ==
    ASSUME TimerInv, Clock
    PROVE  TimerInv'
<1>1. /\ clock \in Nat /\ polled \in Nat /\ polled <= clock /\ Period \in Nat
      /\ time \in Nat /\ owed \in Nat /\ MaxTime \in Nat
  BY TimerAssumption DEF TimerInv, Types, ClockInv
<1>2. /\ clock' = clock + 1 /\ clock + 1 - polled < Period
      /\ time + owed + (clock + 1 - polled) <= MaxTime
      /\ UNCHANGED <<time, wheel, asked, fired, current, owed, start, polled>>
  BY DEF Clock
<1>3. ClockInv'
  BY <1>1, <1>2 DEF TimerInv, ClockInv
<1>4. Types' /\ WheelInv'
  BY <1>1, <1>2 DEF TimerInv, Types, WheelInv
<1> QED BY <1>3, <1>4 DEF TimerInv

LEMMA StutterStep ==
    ASSUME TimerInv, UNCHANGED vars
    PROVE  TimerInv'
BY DEF TimerInv, Types, WheelInv, ClockInv, vars

(* The invariant holds always.                                             *)
THEOREM TimerInvariant == Spec => []TimerInv
<1>1. TimerInv /\ [Next]_vars => TimerInv'
  <2> SUFFICES ASSUME TimerInv, [Next]_vars PROVE TimerInv'
    OBVIOUS
  <2> QED BY TimeoutStep, TimerUpdateStep, UpdateTimeStep, ClockStep, StutterStep DEF Next
<1> QED BY <1>1, InitInv, PTL DEF Spec

(* skynet_updatetime gives the wheel a tick for every tick that passes on  *)
(* the clock, also over a wrap of the clock; and every place holds nodes.  *)
THEOREM ClockIsFollowed == Spec => []TicksMatchClock
<1>1. TimerInv => TicksMatchClock
  <2> SUFFICES ASSUME TimerInv PROVE TicksMatchClock
    OBVIOUS
  <2>1. wheel \in [Places -> Seq(Node)]
    BY DEF TimerInv, WheelInv, Good
  <2>2. Period \in Nat \ {0} /\ polled \in Nat /\ current = polled % Period
    BY TimerAssumption DEF TimerInv, Types, ClockInv
  <2>3. current \in 0..Period-1
    BY <2>2, DivMod
  <2>4. owed \in 0..Period
    BY <2>2 DEF TimerInv, Types, ClockInv
  <2> QED BY <2>1, <2>3, <2>4 DEF TimerInv, Types, ClockInv, TicksMatchClock, TypeOK
<1> QED BY <1>1, TimerInvariant, PTL

(* The wheel is an exact timer: with its levels and cascades it does what  *)
(* AbstractTimer says, for any delays and any size of the wheel.           *)
THEOREM WheelIsExact == Spec => ExactTimer
<1>1. Init => Abstract!Init
  <2> SUFFICES ASSUME Init PROVE Abstract!Init
    OBVIOUS
  <2>1. \A p \in Places: DOMAIN wheel[p] = {}
    BY DEF Init
  <2>2. Nodes = {}
    BY <2>1 DEF Nodes
  <2> QED BY <2>2 DEF Init, Abstract!Init
<1>2. TimerInv /\ [Next]_vars => [Abstract!Next]_(Abstract!vars)
  <2> SUFFICES ASSUME TimerInv, [Next]_vars PROVE [Abstract!Next]_(Abstract!vars)
    OBVIOUS
  <2>1. CASE Timeout
    BY <2>1, TimeoutStep DEF Abstract!Next
  <2>2. CASE TimerUpdate
    BY <2>2, TimerUpdateStep DEF Abstract!Next
  <2>3. CASE UpdateTime
    BY <2>3 DEF UpdateTime, Nodes, Abstract!vars
  <2>4. CASE Clock
    BY <2>4 DEF Clock, Nodes, Abstract!vars
  <2>5. CASE UNCHANGED vars
    BY <2>5 DEF vars, Nodes, Abstract!vars
  <2> QED BY <2>1, <2>2, <2>3, <2>4, <2>5 DEF Next
<1> QED BY <1>1, <1>2, TimerInvariant, PTL DEF Spec, ExactTimer, Abstract!Spec
=============================================================================
