---------------------------- MODULE HandleProofs ----------------------------
(***************************************************************************)
(* Theorems about Handle, for any threads and services, any sizes of the   *)
(* table that double up to Mask + 1, and any number of registrations.      *)
(***************************************************************************)
EXTENDS Handle, SequenceTheorems, FiniteSetTheorems, WellFoundedInduction, TLAPS

(* The smallest number of a set: what replaces an induction here.          *)
LEMMA Least ==
    ASSUME NEW T \in SUBSET Nat, T # {}
    PROVE  \E x \in T: \A y \in T: x <= y
<1> DEFINE R == {ss \in Nat \X Nat : ss[1] < ss[2]}
<1>1. IsWellFoundedOn(R, Nat)
  BY NatLessThanWellFounded DEF OpToRel
<1>2. PICK x \in T: \A y \in T: <<y, x>> \notin R
  <2> HIDE DEF R
  <2> QED BY <1>1, WFMin
<1>3. \A y \in T: ~(y < x)
  BY <1>2
<1> QED BY <1>3

-----------------------------------------------------------------------------
(* Handles modulo the size of the table.                                   *)
LEMMA DivMod ==
    ASSUME NEW m \in Nat \ {0}, NEW a \in Nat
    PROVE  \E q \in Nat, r \in 0..m-1: a = m * q + r /\ a % m = r
<1>1. a = m * (a \div m) + (a % m)
  OBVIOUS
<1>2. a % m \in 0..m-1
  OBVIOUS
<1>3. a \div m \in Nat
  OBVIOUS
<1> QED BY <1>1, <1>2, <1>3

LEMMA ModIs ==
    ASSUME NEW m \in Nat \ {0}, NEW a \in Nat, NEW q \in Nat, NEW r \in 0..m-1,
           a = m * q + r
    PROVE  a % m = r
OBVIOUS

LEMMA Product ==
    ASSUME NEW a \in Nat, NEW b \in Nat
    PROVE  a * b \in Nat
OBVIOUS

LEMMA Associative ==
    ASSUME NEW a \in Nat, NEW b \in Nat, NEW c \in Nat
    PROVE  (a * b) * c = a * (b * c)
OBVIOUS

LEMMA Distributive ==
    ASSUME NEW a \in Nat, NEW b \in Nat, NEW c \in Nat
    PROVE  a * (b + c) = a * b + a * c
OBVIOUS

(* A remainder by n has the same remainder by a divisor of n.              *)
LEMMA ModMod ==
    ASSUME NEW m \in Nat \ {0}, NEW d \in Nat, NEW w \in Nat \ {0}, w = m * d, NEW x \in Nat
    PROVE  (x % w) % m = x % m /\ x % w \in 0..w-1
<1>1. PICK q \in Nat, r \in 0..w-1: x = w * q + r /\ x % w = r
  BY DivMod
<1>2. r \in Nat
  OBVIOUS
<1>3. PICK p \in Nat, s \in 0..m-1: r = m * p + s /\ r % m = s
  BY <1>2, DivMod
<1>4. PICK u \in Nat: u = d * q
  BY Product
<1>5. w * q = m * u
  BY <1>4, Associative
<1>6. PICK v \in Nat: v = u + p
  OBVIOUS
<1>7. m * v = m * u + m * p
  BY <1>6, Distributive
<1>8. m * u \in Nat /\ m * p \in Nat
  BY Product
<1>9. x = m * v + s
  <2>1. x = m * u + r
    BY <1>1, <1>5
  <2>2. r = m * p + s
    BY <1>3
  <2> QED BY <2>1, <2>2, <1>7, <1>8
<1>10. x % m = s
  BY <1>9, ModIs
<1> QED BY <1>1, <1>3, <1>10

(* The handles from any one on meet every slot.                            *)
LEMMA Cover ==
    ASSUME NEW m \in Nat \ {0}, NEW f \in 0..m-1, NEW a \in Nat
    PROVE  \E k \in 0..m-1: (k + a) % m = f
<1>1. PICK q \in Nat, r \in 0..m-1: a = m * q + r
  BY DivMod
<1>2. CASE r <= f
  <2>1. PICK k \in 0..m-1: k = f - r
    <3>1. f - r \in 0..m-1
      BY <1>2
    <3> QED BY <3>1
  <2>2. k + a = m * q + f /\ k + a \in Nat
    <3>1. m * q \in Nat
      BY Product
    <3> QED BY <3>1, <2>1, <1>1
  <2> QED BY <2>2, ModIs
<1>3. CASE f < r
  <2>1. PICK k \in 0..m-1: k = f + m - r
    <3>1. f + m - r \in 0..m-1
      BY <1>3
    <3> QED BY <3>1
  <2>2. m * (q + 1) = m * q + m
    OBVIOUS
  <2>3. k + a = m * (q + 1) + f /\ k + a \in Nat /\ q + 1 \in Nat
    <3>1. m * q \in Nat
      BY Product
    <3> QED BY <3>1, <2>1, <2>2, <1>1
  <2> QED BY <2>3, ModIs
<1> QED BY <1>2, <1>3

-----------------------------------------------------------------------------
(* The sizes the table has.                                                *)
SizeOK(size) ==
    size \in 1..Mask+1 /\ size % SlotSize = 0 /\ (Mask + 1) % size = 0

LEMMA FirstSize == SizeOK(SlotSize)
<1>1. SlotSize \in Nat \ {0} /\ SlotSize = SlotSize * 1 + 0 /\ SlotSize \in 1..Mask+1
  BY HandleAssumption
<1>2. SlotSize % SlotSize = 0
  BY <1>1, ModIs
<1> QED BY <1>1, <1>2, HandleAssumption DEF SizeOK

LEMMA NextSize ==
    ASSUME NEW size \in Nat, SizeOK(size), 2 * size - 1 <= Mask
    PROVE  SizeOK(2 * size)
<1>1. size \in 1..Mask+1 /\ 2 * size \in 1..Mask+1 /\ 2 * size <= Mask + 1 /\ Mask \in Nat
  BY HandleAssumption DEF SizeOK
<1>2. (Mask + 1) % (2 * size) = 0
  BY <1>1, HandleAssumption DEF SizeOK
<1>3. SlotSize \in Nat \ {0} /\ size % SlotSize = 0
  BY HandleAssumption DEF SizeOK
<1>4. PICK q \in Nat: size = SlotSize * q
  <2>1. PICK q \in Nat, r \in 0..SlotSize-1: size = SlotSize * q + r /\ size % SlotSize = r
    BY <1>3, DivMod
  <2>2. SlotSize * q \in Nat
    BY <1>3, Product
  <2> QED BY <2>1, <2>2, <1>3
<1>5. PICK p \in Nat: p = q + q
  OBVIOUS
<1>6. SlotSize * p = SlotSize * q + SlotSize * q
  BY <1>3, <1>5, Distributive
<1>7. 2 * size = SlotSize * p + 0 /\ 2 * size \in Nat
  BY <1>4, <1>6
<1>8. (2 * size) % SlotSize = 0
  <2>1. 0 \in 0..SlotSize-1
    BY <1>3
  <2> QED BY <2>1, <1>3, <1>7, ModIs
<1> QED BY <1>1, <1>2, <1>8 DEF SizeOK

(* The slot of a handle does not depend on how it was cut off at Mask.     *)
LEMMA HashIs ==
    ASSUME NEW size \in Nat, SizeOK(size), NEW x \in Nat
    PROVE  /\ x % (Mask + 1) \in HandleOf
           /\ Hash(x % (Mask + 1), size) = x % size
           /\ \A h \in HandleOf: Hash(h, size) \in 0..size-1
<1>1. size \in Nat \ {0} /\ Mask \in Nat /\ (Mask + 1) % size = 0
  BY HandleAssumption DEF SizeOK
<1>2. PICK w \in Nat \ {0}: w = Mask + 1
  BY <1>1
<1>3. PICK d \in Nat: w = size * d
  <2>1. PICK q \in Nat, r \in 0..size-1: w = size * q + r /\ w % size = r
    BY <1>1, DivMod
  <2>2. size * q \in Nat
    BY Product
  <2> QED BY <2>1, <2>2, <1>1, <1>2
<1>4. (x % w) % size = x % size /\ x % w \in 0..w-1
  BY <1>1, <1>3, ModMod
<1>5. \A h \in HandleOf: h % size \in 0..size-1
  BY <1>1 DEF HandleOf
<1> QED BY <1>1, <1>2, <1>4, <1>5 DEF Hash, HandleOf

(* The slot in a table of double size.                                     *)
LEMMA HashDouble ==
    ASSUME NEW size \in Nat \ {0}, NEW h \in Nat
    PROVE  Hash(h, 2 * size) \in 0..2*size-1 /\ Hash(h, 2 * size) % size = Hash(h, size)
<1>1. PICK w \in Nat \ {0}, d \in Nat: w = 2 * size /\ w = size * d
  OBVIOUS
<1>2. (h % w) % size = h % size /\ h % w \in 0..w-1
  BY <1>1, ModMod
<1> QED BY <1>1, <1>2 DEF Hash
-----------------------------------------------------------------------------
(* The binary search.  Its recursion has one solution, and that is right:  *)
(* by the smallest span where it were not.                                 *)
Sorted(list) ==
    /\ list \in Seq([name: Name, handle: HandleOf])
    /\ \A j, k \in DOMAIN list: j < k => list[j].name < list[k].name
Ordered == Sorted(name)

Key(k) == name[k + 1].name

(* A right answer for x between the ends of a span.                        *)
Hit(x, b, e, r) == \E k \in b..e: r = [found |-> TRUE, at |-> k] /\ Key(k) = x
Miss(x, b, e, r) ==
    \E k \in 0..Len(name):
       /\ r = [found |-> FALSE, at |-> k] /\ b <= k /\ (k = b \/ k <= e + 1)
       /\ \A j \in b..k-1: Key(j) < x
       /\ \A j \in k..e: Key(j) > x
Right(x, span, r) == Hit(x, span[1], span[2], r) \/ Miss(x, span[1], span[2], r)

(* One step of the search, with f for the steps that follow.               *)
Step(f, x, span) ==
    LET begin == span[1]
        end   == span[2]
        mid   == (begin + end) \div 2
        y     == name[mid + 1].name
    IN IF begin > end THEN [found |-> FALSE, at |-> begin]
       ELSE IF y = x THEN [found |-> TRUE, at |-> mid]
       ELSE IF y < x THEN f[<<mid + 1, end>>]
       ELSE f[<<begin, mid - 1>>]

LEMMA KeysAre ==
    ASSUME Ordered
    PROVE  /\ Len(name) \in Nat /\ DOMAIN name = 1..Len(name)
           /\ \A k \in 0..Len(name)-1: Key(k) \in Nat
           /\ \A j, k \in 0..Len(name)-1: j < k => Key(j) < Key(k)
<1>1. Len(name) \in Nat /\ DOMAIN name = 1..Len(name)
  BY DEF Ordered, Sorted
<1>2. ASSUME NEW k \in 0..Len(name)-1 PROVE k + 1 \in DOMAIN name /\ Key(k) \in Nat
  <2>1. k + 1 \in 1..Len(name)
    BY <1>1
  <2>2. name[k + 1] \in [name: Name, handle: HandleOf]
    <3>1. name \in Seq([name: Name, handle: HandleOf])
      BY DEF Ordered, Sorted
    <3> QED BY <3>1, <2>1, ElementOfSeq
  <2> QED BY <1>1, <2>1, <2>2, HandleAssumption DEF Key
<1>3. ASSUME NEW j \in 0..Len(name)-1, NEW k \in 0..Len(name)-1, j < k PROVE Key(j) < Key(k)
  BY <1>2, <1>3 DEF Ordered, Sorted, Key
<1> QED BY <1>1, <1>2, <1>3

LEMMA Middle ==
    ASSUME NEW L \in Nat, NEW b \in 0..L, NEW e \in -1..L-1, b <= e,
           NEW mid, mid = (b + e) \div 2
    PROVE  mid \in b..e /\ mid + 1 \in 0..L /\ mid - 1 \in -1..L-1 /\ mid \in 0..L-1
OBVIOUS

(* A step is right when the step it goes on with is.                       *)
LEMMA StepRight ==
    ASSUME Ordered, NEW x \in Nat, NEW b \in 0..Len(name), NEW e \in -1..Len(name)-1, NEW f,
           NEW mid, mid = (b + e) \div 2,
           b <= e /\ Key(mid) < x => Right(x, <<mid + 1, e>>, f[<<mid + 1, e>>]),
           b <= e /\ Key(mid) > x => Right(x, <<b, mid - 1>>, f[<<b, mid - 1>>])
    PROVE  Right(x, <<b, e>>, Step(f, x, <<b, e>>))
<1>1. PICK L \in Nat: L = Len(name)
  BY KeysAre
<1>2. /\ \A k \in 0..L-1: Key(k) \in Nat
      /\ \A j, k \in 0..L-1: j < k => Key(j) < Key(k)
  BY KeysAre, <1>1
<1>3. PICK r: r = Step(f, x, <<b, e>>)
  OBVIOUS
<1>4. CASE b > e
  <2>1. r = [found |-> FALSE, at |-> b]
    BY <1>3, <1>4 DEF Step
  <2>2. /\ b \in 0..Len(name) /\ b <= b
        /\ \A j \in b..b-1: Key(j) < x
        /\ \A j \in b..e: Key(j) > x
    BY <1>1, <1>4
  <2>3. Miss(x, b, e, r)
    BY <2>1, <2>2 DEF Miss
  <2> QED BY <2>3, <1>3 DEF Right
<1>5. CASE b <= e
  <2>1. mid \in b..e /\ mid + 1 \in 0..L /\ mid - 1 \in -1..L-1 /\ mid \in 0..L-1
    BY <1>1, <1>5, Middle
  <2>2. ~(b > e)
    BY <1>5
  <2>3. r = IF Key(mid) = x THEN [found |-> TRUE, at |-> mid]
            ELSE IF Key(mid) < x THEN f[<<mid + 1, e>>]
            ELSE f[<<b, mid - 1>>]
    BY <2>2, <1>3 DEF Step, Key
  <2>4. Key(mid) \in Nat
    BY <1>2, <2>1
  <2>5. CASE Key(mid) = x
    <3>1. r = [found |-> TRUE, at |-> mid]
      BY <2>3, <2>5
    <3>2. Hit(x, b, e, r)
      BY <3>1, <2>1, <2>5 DEF Hit
    <3> QED BY <3>2, <1>3 DEF Right
  <2>6. CASE Key(mid) < x
    <3>1. r = f[<<mid + 1, e>>] /\ Right(x, <<mid + 1, e>>, r)
      BY <2>3, <2>4, <2>6, <1>5
    <3>2. CASE Hit(x, mid + 1, e, r)
      <4>1. PICK k \in mid+1..e: r = [found |-> TRUE, at |-> k] /\ Key(k) = x
        BY <3>2 DEF Hit
      <4>2. k \in b..e
        BY <1>1, <2>1
      <4>3. Hit(x, b, e, r)
        BY <4>1, <4>2 DEF Hit
      <4> QED BY <4>3, <1>3 DEF Right
    <3>3. CASE Miss(x, mid + 1, e, r)
      <4>1. PICK k \in 0..L: /\ r = [found |-> FALSE, at |-> k] /\ mid + 1 <= k /\ (k = mid + 1 \/ k <= e + 1)
                             /\ \A j \in mid+1..k-1: Key(j) < x
                             /\ \A j \in k..e: Key(j) > x
        BY <3>3, <1>1 DEF Miss
      <4>2. b <= k /\ k <= e + 1
        BY <4>1, <2>1
      <4>3. ASSUME NEW j \in b..k-1 PROVE Key(j) < x
        <5>1. CASE j \in mid+1..k-1
          BY <5>1, <4>1
        <5>2. CASE j = mid
          BY <5>2, <2>6
        <5>3. CASE j < mid
          <6>1. j \in 0..L-1
            BY <5>3, <2>1, <1>1
          <6>2. Key(j) < Key(mid) /\ Key(j) \in Nat
            BY <6>1, <5>3, <2>1, <1>2
          <6> QED BY <6>2, <2>4, <2>6
        <5> QED BY <5>1, <5>2, <5>3, <2>1
      <4>4. Miss(x, b, e, r)
        BY <4>1, <4>2, <4>3, <1>1 DEF Miss
      <4> QED BY <4>4, <1>3 DEF Right
    <3> QED BY <3>1, <3>2, <3>3 DEF Right
  <2>7. CASE Key(mid) > x
    <3>1. r = f[<<b, mid - 1>>] /\ Right(x, <<b, mid - 1>>, r)
      BY <2>3, <2>4, <2>7, <1>5
    <3>2. CASE Hit(x, b, mid - 1, r)
      <4>1. PICK k \in b..mid-1: r = [found |-> TRUE, at |-> k] /\ Key(k) = x
        BY <3>2 DEF Hit
      <4>2. k \in b..e
        BY <1>1, <2>1
      <4>3. Hit(x, b, e, r)
        BY <4>1, <4>2 DEF Hit
      <4> QED BY <4>3, <1>3 DEF Right
    <3>3. CASE Miss(x, b, mid - 1, r)
      <4>1. PICK k \in 0..L: /\ r = [found |-> FALSE, at |-> k] /\ b <= k /\ (k = b \/ k <= (mid - 1) + 1)
                             /\ \A j \in b..k-1: Key(j) < x
                             /\ \A j \in k..mid-1: Key(j) > x
        BY <3>3, <1>1 DEF Miss
      <4>2. k <= e + 1
        BY <4>1, <2>1
      <4>3. ASSUME NEW j \in k..e PROVE Key(j) > x
        <5>1. CASE j \in k..mid-1
          BY <5>1, <4>1
        <5>2. CASE j = mid
          BY <5>2, <2>7
        <5>3. CASE j > mid
          <6>1. j \in 0..L-1
            BY <4>1, <5>3, <2>1, <1>1
          <6>2. Key(mid) < Key(j) /\ Key(j) \in Nat
            BY <6>1, <5>3, <2>1, <1>2
          <6> QED BY <6>2, <2>4, <2>7
        <5> QED BY <5>1, <5>2, <5>3, <2>1
      <4>4. Miss(x, b, e, r)
        BY <4>1, <4>2, <4>3, <1>1 DEF Miss
      <4> QED BY <4>4, <1>3 DEF Right
    <3> QED BY <3>1, <3>2, <3>3 DEF Right
  <2> QED BY <2>4, <2>5, <2>6, <2>7
<1> QED BY <1>4, <1>5

(* There is one right answer.                                              *)
LEMMA RightIsOne ==
    ASSUME Ordered, NEW x \in Nat, NEW b \in 0..Len(name), NEW e \in -1..Len(name)-1,
           NEW r, NEW s, Right(x, <<b, e>>, r), Right(x, <<b, e>>, s)
    PROVE  r = s
<1>1. PICK L \in Nat: L = Len(name)
  BY KeysAre
<1>2. /\ \A k \in 0..L-1: Key(k) \in Nat
      /\ \A j, k \in 0..L-1: j < k => Key(j) < Key(k)
  BY KeysAre, <1>1
<1>3. ASSUME NEW u, NEW v, Hit(x, b, e, u), Hit(x, b, e, v) PROVE u = v
  <2>1. PICK k \in b..e: u = [found |-> TRUE, at |-> k] /\ Key(k) = x
    BY <1>3 DEF Hit
  <2>2. PICK l \in b..e: v = [found |-> TRUE, at |-> l] /\ Key(l) = x
    BY <1>3 DEF Hit
  <2>3. k \in 0..L-1 /\ l \in 0..L-1
    BY <1>1
  <2>4. ~(k < l) /\ ~(l < k)
    <3>1. ASSUME k < l PROVE FALSE
      <4>1. Key(k) < Key(l) /\ Key(k) \in Nat
        BY <3>1, <2>3, <1>2
      <4> QED BY <4>1, <2>1, <2>2
    <3>2. ASSUME l < k PROVE FALSE
      <4>1. Key(l) < Key(k) /\ Key(k) \in Nat
        BY <3>2, <2>3, <1>2
      <4> QED BY <4>1, <2>1, <2>2
    <3> QED BY <3>1, <3>2
  <2>5. k = l
    BY <2>3, <2>4, <1>1
  <2> QED BY <2>1, <2>2, <2>5
<1>4. ASSUME NEW u, NEW v, Hit(x, b, e, u), Miss(x, b, e, v) PROVE FALSE
  <2>1. PICK k \in b..e: u = [found |-> TRUE, at |-> k] /\ Key(k) = x
    BY <1>4 DEF Hit
  <2>2. PICK l \in 0..L: /\ \A j \in b..l-1: Key(j) < x
                         /\ \A j \in l..e: Key(j) > x
    BY <1>1, <1>4 DEF Miss
  <2>3. k \in b..l-1 \/ k \in l..e
    BY <1>1
  <2> QED BY <2>1, <2>2, <2>3
<1>5. ASSUME NEW u, NEW v, Miss(x, b, e, u), Miss(x, b, e, v) PROVE u = v
  <2>1. PICK k \in 0..L: /\ u = [found |-> FALSE, at |-> k] /\ b <= k /\ (k = b \/ k <= e + 1)
                         /\ \A j \in b..k-1: Key(j) < x
                         /\ \A j \in k..e: Key(j) > x
    BY <1>1, <1>5 DEF Miss
  <2>2. PICK l \in 0..L: /\ v = [found |-> FALSE, at |-> l] /\ b <= l /\ (l = b \/ l <= e + 1)
                         /\ \A j \in b..l-1: Key(j) < x
                         /\ \A j \in l..e: Key(j) > x
    BY <1>1, <1>5 DEF Miss
  <2>3. ASSUME k < l PROVE FALSE
    <3>1. k \in b..l-1 /\ k \in k..e /\ k \in 0..L-1
      BY <2>1, <2>2, <2>3, <1>1
    <3>2. Key(k) \in Nat /\ Key(k) < x /\ Key(k) > x
      BY <3>1, <2>1, <2>2, <1>2
    <3> QED BY <3>2
  <2>4. ASSUME l < k PROVE FALSE
    <3>1. l \in b..k-1 /\ l \in l..e /\ l \in 0..L-1
      BY <2>1, <2>2, <2>4, <1>1
    <3>2. Key(l) \in Nat /\ Key(l) < x /\ Key(l) > x
      BY <3>1, <2>1, <2>2, <1>2
    <3> QED BY <3>2
  <2>5. k = l
    BY <2>3, <2>4
  <2> QED BY <2>1, <2>2, <2>5
<1>6. Hit(x, b, e, r) \/ Miss(x, b, e, r)
  BY DEF Right
<1>7. Hit(x, b, e, s) \/ Miss(x, b, e, s)
  BY DEF Right
<1> QED BY <1>3, <1>4, <1>5, <1>6, <1>7

(* What is right wherever its steps are is right everywhere.               *)
LEMMA RightByStep ==
    ASSUME Ordered, NEW x \in Nat, NEW f,
           \A span \in Spans: Right(x, span, Step(f, x, span)) => Right(x, span, f[span])
    PROVE  \A span \in Spans: Right(x, span, f[span])
<1>1. PICK L \in Nat: L = Len(name)
  BY KeysAre
<1> DEFINE Wrong(k) == \E b \in 0..L, e \in -1..L-1:
                          /\ k = IF b <= e THEN e + 1 - b ELSE 0
                          /\ ~Right(x, <<b, e>>, f[<<b, e>>])
           T == {k \in Nat : Wrong(k)}
<1>2. ASSUME T # {} PROVE FALSE
  <2>1. PICK k \in T: \A l \in T: k <= l
    <3> HIDE DEF T
    <3>1. T \in SUBSET Nat
      BY DEF T
    <3> QED BY <3>1, <1>2, Least
  <2>2. PICK b \in 0..L, e \in -1..L-1: /\ k = IF b <= e THEN e + 1 - b ELSE 0
                                        /\ ~Right(x, <<b, e>>, f[<<b, e>>])
    BY <2>1
  <2>3. PICK mid: mid = (b + e) \div 2
    OBVIOUS
  <2>4. ASSUME NEW c \in 0..L, NEW d \in -1..L-1, b <= e, (IF c <= d THEN d + 1 - c ELSE 0) < e + 1 - b
        PROVE  Right(x, <<c, d>>, f[<<c, d>>])
    <3>1. PICK l \in Nat: l = IF c <= d THEN d + 1 - c ELSE 0
      <4>1. (IF c <= d THEN d + 1 - c ELSE 0) \in Nat
        OBVIOUS
      <4> QED BY <4>1
    <3>2. l < k
      BY <3>1, <2>2, <2>4
    <3>3. ~Wrong(l)
      <4> HIDE DEF Wrong
      <4>1. l \notin T
        <5> HIDE DEF T
        <5>1. k \in Nat
          BY <2>1 DEF T
        <5> QED BY <2>1, <3>2, <5>1
      <4> QED BY <4>1, <3>1
    <3> QED BY <3>1, <3>3
  <2> HIDE DEF Wrong, T
  <2>5. b <= e => mid \in b..e /\ mid + 1 \in 0..L /\ mid - 1 \in -1..L-1
    BY <2>3, Middle
  <2>6. b <= e => Right(x, <<mid + 1, e>>, f[<<mid + 1, e>>])
    <3> SUFFICES ASSUME b <= e PROVE Right(x, <<mid + 1, e>>, f[<<mid + 1, e>>])
      OBVIOUS
    <3>1. (IF mid + 1 <= e THEN e + 1 - (mid + 1) ELSE 0) < e + 1 - b
      BY <2>5
    <3> QED BY <3>1, <2>4, <2>5
  <2>7. b <= e => Right(x, <<b, mid - 1>>, f[<<b, mid - 1>>])
    <3> SUFFICES ASSUME b <= e PROVE Right(x, <<b, mid - 1>>, f[<<b, mid - 1>>])
      OBVIOUS
    <3>1. (IF b <= mid - 1 THEN (mid - 1) + 1 - b ELSE 0) < e + 1 - b
      BY <2>5
    <3> QED BY <3>1, <2>4, <2>5
  <2>8. Right(x, <<b, e>>, Step(f, x, <<b, e>>))
    <3>1. b \in 0..Len(name) /\ e \in -1..Len(name)-1
      BY <1>1
    <3> QED BY <3>1, <2>3, <2>6, <2>7, StepRight
  <2>9. <<b, e>> \in Spans
    BY <1>1 DEF Spans
  <2> QED BY <2>2, <2>8, <2>9
<1>3. ASSUME NEW span \in Spans PROVE Right(x, span, f[span])
  <2>1. PICK b \in 0..L, e \in -1..L-1: span = <<b, e>>
    BY <1>1 DEF Spans
  <2>2. PICK k \in Nat: k = IF b <= e THEN e + 1 - b ELSE 0
    <3>1. (IF b <= e THEN e + 1 - b ELSE 0) \in Nat
      OBVIOUS
    <3> QED BY <3>1
  <2>3. k \notin T
    BY <1>2
  <2>4. ~Wrong(k)
    <3> HIDE DEF Wrong
    <3> QED BY <2>2, <2>3
  <2> QED BY <2>1, <2>2, <2>4
<1> QED BY <1>3

LEMMA StepIsRight ==
    ASSUME Ordered, NEW x \in Nat, NEW f, \A span \in Spans: Right(x, span, f[span])
    PROVE  \A span \in Spans: Right(x, span, Step(f, x, span))
<1>1. PICK L \in Nat: L = Len(name)
  BY KeysAre
<1> SUFFICES ASSUME NEW span \in Spans PROVE Right(x, span, Step(f, x, span))
  OBVIOUS
<1>2. PICK b \in 0..L, e \in -1..L-1: span = <<b, e>>
  BY <1>1 DEF Spans
<1>3. PICK mid: mid = (b + e) \div 2
  OBVIOUS
<1>4. b <= e => mid \in b..e /\ mid + 1 \in 0..L /\ mid - 1 \in -1..L-1
  BY <1>3, Middle
<1>5. b <= e => <<mid + 1, e>> \in Spans /\ <<b, mid - 1>> \in Spans
  BY <1>1, <1>4 DEF Spans
<1>6. b \in 0..Len(name) /\ e \in -1..Len(name)-1
  BY <1>1
<1> QED BY <1>2, <1>3, <1>5, <1>6, StepRight

(* The answer of the search, between the ends of the array.                *)
LEMMA SearchIs ==
    ASSUME Ordered, NEW x \in Nat
    PROVE  Right(x, <<0, Len(name) - 1>>, Search(x))
<1>1. <<0, Len(name) - 1>> \in Spans
  BY KeysAre DEF Spans
<1> DEFINE Is(find) == find = [span \in Spans |->
          LET begin == span[1]
              end   == span[2]
              mid   == (begin + end) \div 2
              y     == name[mid + 1].name
          IN IF begin > end THEN [found |-> FALSE, at |-> begin]
             ELSE IF y = x THEN [found |-> TRUE, at |-> mid]
             ELSE IF y < x THEN find[<<mid + 1, end>>]
             ELSE find[<<begin, mid - 1>>]]
<1>2. Search(x) = (CHOOSE find: Is(find))[<<0, Len(name) - 1>>]
  BY DEF Search
<1>3. \A f: Is(f) <=> f = [span \in Spans |-> Step(f, x, span)]
  BY DEF Step
<1> HIDE DEF Is
<1>4. PICK g: g = [span \in Spans |-> CHOOSE r: Right(x, span, r)]
  OBVIOUS
<1>5. \A span \in Spans: Right(x, span, g[span])
  <2>1. \A span \in Spans: Right(x, span, Step(g, x, span)) => Right(x, span, g[span])
    BY <1>4
  <2> QED BY <2>1, RightByStep
<1>6. \A span \in Spans: Right(x, span, Step(g, x, span))
  BY <1>5, StepIsRight
<1>7. \A span \in Spans: g[span] = Step(g, x, span)
  <2> SUFFICES ASSUME NEW span \in Spans PROVE g[span] = Step(g, x, span)
    OBVIOUS
  <2>1. PICK b \in 0..Len(name), e \in -1..Len(name)-1: span = <<b, e>>
    BY DEF Spans
  <2> QED BY <2>1, <1>5, <1>6, RightIsOne
<1>8. Is(g)
  <2>1. g = [span \in Spans |-> g[span]]
    BY <1>4
  <2>2. g = [span \in Spans |-> Step(g, x, span)]
    BY <2>1, <1>7
  <2> QED BY <2>2, <1>3
<1>9. PICK f: Is(f) /\ f = CHOOSE find: Is(find)
  BY <1>8
<1>10. \A span \in Spans: f[span] = Step(f, x, span)
  BY <1>9, <1>3
<1>11. \A span \in Spans: Right(x, span, f[span])
  BY <1>10, RightByStep
<1> QED BY <1>1, <1>2, <1>9, <1>11

-----------------------------------------------------------------------------
(* What the search finds, in terms of the array.                           *)
Answer(x, r) ==
    IF \E k \in DOMAIN name: name[k].name = x
    THEN r.found /\ r.at \in 0..Len(name)-1 /\ name[r.at + 1].name = x
    ELSE /\ ~r.found /\ r.at \in 0..Len(name)
         /\ \A j \in 1..r.at: name[j].name < x
         /\ \A j \in r.at+1..Len(name): name[j].name > x

LEMMA SearchAnswers ==
    ASSUME Ordered, NEW x \in Nat
    PROVE  Answer(x, Search(x))
<1>1. PICK L \in Nat: L = Len(name)
  BY KeysAre
<1>2. /\ DOMAIN name = 1..L
      /\ \A k \in 0..L-1: Key(k) \in Nat
  BY KeysAre, <1>1
<1>3. PICK r: r = Search(x)
  OBVIOUS
<1>4. Hit(x, 0, L-1, r) \/ Miss(x, 0, L-1, r)
  <2>1. Right(x, <<0, L-1>>, r)
    BY <1>1, <1>3, SearchIs
  <2> QED BY <2>1 DEF Right
<1>5. CASE Hit(x, 0, L-1, r)
  <2>1. PICK k \in 0..L-1: r = [found |-> TRUE, at |-> k] /\ name[k + 1].name = x
    BY <1>5 DEF Hit, Key
  <2>2. k + 1 \in DOMAIN name
    BY <1>2, <1>1
  <2>3. r.found /\ r.at = k
    BY <2>1
  <2> QED BY <2>1, <2>2, <2>3, <1>1, <1>3 DEF Answer
<1>6. CASE Miss(x, 0, L-1, r)
  <2>1. PICK k \in 0..L: /\ r = [found |-> FALSE, at |-> k]
                         /\ \A j \in 0..k-1: Key(j) < x
                         /\ \A j \in k..L-1: Key(j) > x
    BY <1>1, <1>6 DEF Miss
  <2>2. ~r.found /\ r.at = k
    BY <2>1
  <2>3. ASSUME NEW j \in 1..k PROVE name[j].name < x
    <3>1. j - 1 \in 0..k-1 /\ (j - 1) + 1 = j
      BY <1>1
    <3> QED BY <3>1, <2>1 DEF Key
  <2>4. ASSUME NEW j \in k+1..L PROVE name[j].name > x
    <3>1. j - 1 \in k..L-1 /\ (j - 1) + 1 = j
      BY <1>1
    <3> QED BY <3>1, <2>1 DEF Key
  <2>5. \A j \in DOMAIN name: name[j].name # x
    <3> SUFFICES ASSUME NEW j \in DOMAIN name, name[j].name = x PROVE FALSE
      OBVIOUS
    <3>1. j \in 1..k \/ j \in k+1..L
      BY <1>2, <1>1
    <3>2. x < x
      BY <3>1, <2>3, <2>4
    <3> QED BY <3>2
  <2> QED BY <2>2, <2>3, <2>4, <2>5, <1>1, <1>3 DEF Answer
<1> QED BY <1>4, <1>5, <1>6

(* A name stands in an array once.                                         *)
LEMMA NameOnce ==
    ASSUME NEW list, Sorted(list), NEW j \in DOMAIN list, NEW k \in DOMAIN list,
           list[j].name = list[k].name
    PROVE  j = k
<1>1. list \in Seq([name: Name, handle: HandleOf])
  BY DEF Sorted
<1>2. j \in 1..Len(list) /\ k \in 1..Len(list)
  BY <1>1
<1>3. list[j] \in [name: Name, handle: HandleOf] /\ list[k] \in [name: Name, handle: HandleOf]
  BY <1>1, <1>2, ElementOfSeq
<1>4. list[j].name \in Nat /\ list[k].name \in Nat
  BY <1>3, HandleAssumption
<1>5. ASSUME j < k PROVE FALSE
  BY <1>4, <1>5 DEF Sorted
<1>6. ASSUME k < j PROVE FALSE
  BY <1>4, <1>6 DEF Sorted
<1> QED BY <1>2, <1>5, <1>6

(* The handle of a name.                                                   *)
LEMMA TheHandle ==
    ASSUME NEW list, Sorted(list), NEW k \in DOMAIN list
    PROVE  (CHOOSE r \in {list[l] : l \in DOMAIN list} : r.name = list[k].name) = list[k]
<1>1. PICK r: r = CHOOSE s \in {list[l] : l \in DOMAIN list} : s.name = list[k].name
  OBVIOUS
<1>2. r \in {list[l] : l \in DOMAIN list} /\ r.name = list[k].name
  <2>1. \E s \in {list[l] : l \in DOMAIN list} : s.name = list[k].name
    OBVIOUS
  <2> QED BY <2>1, <1>1
<1>3. PICK l \in DOMAIN list: r = list[l]
  BY <1>2
<1>4. l = k
  BY <1>2, <1>3, NameOnce
<1> QED BY <1>1, <1>3, <1>4

LEMMA OrderedFinds == Ordered => FindsNames
<1> SUFFICES ASSUME Ordered, NEW x \in Name
             PROVE  FindName(x) = IF \E k \in DOMAIN name: name[k].name = x
                                  THEN (CHOOSE r \in {name[k] : k \in DOMAIN name} : r.name = x).handle
                                  ELSE 0
  BY DEF FindsNames
<1>1. x \in Nat
  BY HandleAssumption
<1>2. Answer(x, Search(x))
  BY <1>1, SearchAnswers
<1>3. CASE \E k \in DOMAIN name: name[k].name = x
  <2>1. Search(x).found /\ Search(x).at \in 0..Len(name)-1 /\ name[Search(x).at + 1].name = x
    BY <1>2, <1>3 DEF Answer
  <2>2. PICK k: k = Search(x).at + 1
    OBVIOUS
  <2>3. k \in DOMAIN name
    BY <2>1, <2>2, KeysAre
  <2>4. (CHOOSE r \in {name[l] : l \in DOMAIN name} : r.name = x) = name[k]
    BY <2>1, <2>2, <2>3, TheHandle DEF Ordered
  <2>5. FindName(x) = name[k].handle
    BY <2>1, <2>2 DEF FindName
  <2> QED BY <2>4, <2>5, <1>3
<1>4. CASE ~\E k \in DOMAIN name: name[k].name = x
  <2>1. ~Search(x).found
    BY <1>2, <1>4 DEF Answer
  <2> QED BY <2>1, <1>4 DEF FindName
<1> QED BY <1>3, <1>4

-----------------------------------------------------------------------------
(* What becomes of the names.                                              *)
(* The members of a sublist are those at the positions, in their order.    *)
Chosen(list, at) ==
    \E f \in [1..Cardinality(at) -> at]:
       /\ Cardinality(at) \in Nat
       /\ Sublist(list, at) = [k \in 1..Cardinality(at) |-> list[f[k]]]
       /\ \A k, l \in 1..Cardinality(at): k < l => f[k] < f[l]
       /\ \A p \in at: \E k \in 1..Cardinality(at): f[k] = p

LEMMA SublistIs ==
    ASSUME NEW S, NEW list \in Seq(S), NEW at \in SUBSET DOMAIN list
    PROVE  Chosen(list, at)
<1> DEFINE N == Cardinality(at)
           Upto(p) == {q \in at : q <= p}
           Rank(p) == Cardinality(Upto(p))
<1>1. at \subseteq 1..Len(list) /\ Len(list) \in Nat
  OBVIOUS
<1>2. IsFiniteSet(at) /\ N \in Nat
  <2>1. IsFiniteSet(1..Len(list))
    BY <1>1, FS_Interval
  <2> QED BY <2>1, <1>1, FS_Subset, FS_CardinalityType
<1>3. \A p \in at: IsFiniteSet(Upto(p)) /\ Rank(p) \in Nat /\ Rank(p) \in 1..N
  <2> SUFFICES ASSUME NEW p \in at PROVE IsFiniteSet(Upto(p)) /\ Rank(p) \in Nat /\ Rank(p) \in 1..N
    OBVIOUS
  <2>1. Upto(p) \in SUBSET at
    OBVIOUS
  <2>2. p \in Upto(p)
    BY <1>1
  <2> HIDE DEF Upto
  <2>3. IsFiniteSet(Upto(p)) /\ Rank(p) <= N
    BY <2>1, <1>2, FS_Subset
  <2>4. Rank(p) \in Nat /\ Rank(p) # 0
    BY <2>2, <2>3, FS_CardinalityType, FS_EmptySet
  <2> QED BY <2>3, <2>4, <1>2
<1>4. \A p, q \in at: p < q => Rank(p) < Rank(q)
  <2> SUFFICES ASSUME NEW p \in at, NEW q \in at, p < q PROVE Rank(p) < Rank(q)
    OBVIOUS
  <2>1. Upto(p) \in SUBSET Upto(q) /\ q \in Upto(q) /\ q \notin Upto(p)
    BY <1>1
  <2>2. Rank(p) <= Rank(q) /\ (Rank(p) = Rank(q) => Upto(p) = Upto(q))
    <3> HIDE DEF Upto
    <3> QED BY <2>1, <1>3, FS_Subset
  <2>3. Rank(p) \in Nat /\ Rank(q) \in Nat /\ Rank(p) # Rank(q)
    BY <2>1, <2>2, <1>3
  <2> HIDE DEF Rank
  <2> QED BY <2>2, <2>3
<1> DEFINE g == [p \in at |-> Rank(p)]
<1>5. g \in Injection(at, 1..N)
  <2>1. g \in [at -> 1..N]
    BY <1>3
  <2>2. \A p, q \in at: Rank(p) = Rank(q) => p = q
    <3> SUFFICES ASSUME NEW p \in at, NEW q \in at, p # q PROVE Rank(p) # Rank(q)
      OBVIOUS
    <3>1. p < q \/ q < p
      BY <1>1
    <3>2. Rank(p) < Rank(q) \/ Rank(q) < Rank(p)
      BY <3>1, <1>4
    <3>3. Rank(p) \in Nat /\ Rank(q) \in Nat
      BY <1>3
    <3> HIDE DEF Rank
    <3> QED BY <3>2, <3>3
  <2> HIDE DEF Rank
  <2> QED BY <2>1, <2>2 DEF Injection, IsInjective
<1>6. g \in Surjection(at, 1..N)
  <2>1. IsFiniteSet(1..N) /\ Cardinality(1..N) = N
    BY <1>2, FS_Interval
  <2> HIDE DEF g, N
  <2>2. Cardinality(at) = N
    BY DEF N
  <2> QED BY <2>1, <2>2, <1>5, FS_Injection
<1>7. \A k \in 1..N: \E p \in at: Rank(p) = k
  <2> HIDE DEF Rank
  <2> QED BY <1>6 DEF Surjection
<1> DEFINE f == [k \in 1..N |-> CHOOSE p \in at: Rank(p) = k]
<1>8. \A k \in 1..N: f[k] \in at /\ Rank(f[k]) = k
  <2> HIDE DEF Rank
  <2> QED BY <1>7
<1>9. \A p \in at: f[Rank(p)] = p
  <2> SUFFICES ASSUME NEW p \in at PROVE f[Rank(p)] = p
    OBVIOUS
  <2> HIDE DEF Rank, f
  <2>1. Rank(p) \in 1..N /\ f[Rank(p)] \in at /\ Rank(f[Rank(p)]) = Rank(p)
    BY <1>3, <1>8
  <2>2. f[Rank(p)] \in Nat /\ p \in Nat
    BY <2>1, <1>1
  <2>3. Rank(p) \in Nat
    BY <2>1, <1>2
  <2> QED BY <2>1, <2>2, <2>3, <1>4
<1>10. \A k, l \in 1..N: k < l => f[k] < f[l]
  <2> SUFFICES ASSUME NEW k \in 1..N, NEW l \in 1..N, k < l PROVE f[k] < f[l]
    OBVIOUS
  <2> HIDE DEF Rank, f
  <2>1. /\ f[k] \in at /\ Rank(f[k]) = k /\ f[l] \in at /\ Rank(f[l]) = l
        /\ f[k] \in Nat /\ f[l] \in Nat
    BY <1>1, <1>8
  <2>2. f[k] = f[l] \/ f[l] < f[k] \/ f[k] < f[l]
    BY <2>1
  <2> QED BY <2>1, <2>2, <1>2, <1>4
<1>11. Sublist(list, at) = [k \in 1..N |-> list[f[k]]]
  BY DEF Sublist
<1>12. f \in [1..N -> at]
  BY <1>8
<1> HIDE DEF f, Rank
<1> QED BY <1>2, <1>3, <1>9, <1>10, <1>11, <1>12 DEF Chosen

LEMMA SublistSorted ==
    ASSUME NEW list, Sorted(list), NEW at \in SUBSET DOMAIN list
    PROVE  /\ Sorted(Sublist(list, at))
           /\ \A r: (\E k \in DOMAIN Sublist(list, at): Sublist(list, at)[k] = r)
                    <=> \E k \in at: list[k] = r
<1> DEFINE S == [name: Name, handle: HandleOf]
<1>1. list \in Seq(S) /\ \A j, k \in DOMAIN list: j < k => list[j].name < list[k].name
  BY DEF Sorted
<1>2. Chosen(list, at)
  BY <1>1, SublistIs
<1>3. PICK w: w = Sublist(list, at)
  OBVIOUS
<1>4. PICK f \in [1..Cardinality(at) -> at]:
       /\ Cardinality(at) \in Nat
       /\ w = [k \in 1..Cardinality(at) |-> list[f[k]]]
       /\ \A k, l \in 1..Cardinality(at): k < l => f[k] < f[l]
       /\ \A p \in at: \E k \in 1..Cardinality(at): f[k] = p
  BY <1>2, <1>3 DEF Chosen
<1>5. PICK N \in Nat: N = Cardinality(at)
  BY <1>4
<1>6. DOMAIN w = 1..N /\ \A k \in 1..N: f[k] \in at /\ f[k] \in DOMAIN list /\ w[k] = list[f[k]]
  BY <1>4, <1>5
<1>7. w \in Seq(S)
  <2>1. \A k \in 1..N: w[k] \in S
    <3> SUFFICES ASSUME NEW k \in 1..N PROVE w[k] \in S
      OBVIOUS
    <3>1. f[k] \in 1..Len(list) /\ w[k] = list[f[k]]
      BY <1>1, <1>6
    <3> QED BY <3>1, <1>1, ElementOfSeq
  <2>2. w = [k \in 1..N |-> w[k]]
    BY <1>4, <1>5
  <2> HIDE DEF S
  <2>3. w \in [1..N -> S]
    BY <2>1, <2>2
  <2> QED BY <2>3, SeqDef
<1>8. ASSUME NEW j \in DOMAIN w, NEW k \in DOMAIN w, j < k PROVE w[j].name < w[k].name
  <2>1. f[j] < f[k]
    BY <1>4, <1>5, <1>6, <1>8
  <2>2. w[j] = list[f[j]] /\ w[k] = list[f[k]] /\ f[j] \in DOMAIN list /\ f[k] \in DOMAIN list
    BY <1>6
  <2> QED BY <2>1, <2>2, <1>1
<1>9. Sorted(w)
  BY <1>7, <1>8 DEF Sorted
<1>10. ASSUME NEW r PROVE (\E k \in DOMAIN w: w[k] = r) <=> \E k \in at: list[k] = r
  <2>1. ASSUME NEW k \in DOMAIN w, w[k] = r PROVE \E l \in at: list[l] = r
    BY <2>1, <1>6
  <2>2. ASSUME NEW p \in at, list[p] = r PROVE \E k \in DOMAIN w: w[k] = r
    <3>1. PICK k \in 1..N: f[k] = p
      BY <1>4, <1>5
    <3> QED BY <3>1, <2>2, <1>6
  <2> QED BY <2>1, <2>2
<1> QED BY <1>3, <1>9, <1>10

(* A record put between two positions of an array.                         *)
Inserted(list, r, b, w) ==
    /\ Len(w) = Len(list) + 1 /\ DOMAIN w = 1..Len(list)+1
    /\ \A k \in 1..b: w[k] = list[k]
    /\ w[b + 1] = r
    /\ \A k \in b+2..Len(list)+1: w[k] = list[k - 1]

LEMMA InsertIs ==
    ASSUME NEW S, NEW list \in Seq(S), NEW r \in S, NEW b \in 0..Len(list), NEW w,
           w = SubSeq(list, 1, b) \o <<r>> \o SubSeq(list, b + 1, Len(list))
    PROVE  w \in Seq(S) /\ Inserted(list, r, b, w)
<1>1. PICK L \in Nat: L = Len(list)
  OBVIOUS
<1>2. PICK u: u = SubSeq(list, 1, b)
  OBVIOUS
<1>3. PICK v: v = SubSeq(list, b + 1, L)
  OBVIOUS
<1>4. u \in Seq(S) /\ Len(u) = b /\ \A k \in 1..b: u[k] = list[k]
  BY <1>1, <1>2
<1>5. v \in Seq(S) /\ Len(v) = L - b /\ \A k \in 1..L-b: v[k] = list[b + k]
  BY <1>1, <1>3
<1>6. PICK m: m = u \o <<r>>
  OBVIOUS
<1>7. m \in Seq(S) /\ Len(m) = b + 1 /\ m[b + 1] = r /\ \A k \in 1..b: m[k] = u[k]
  BY <1>4, <1>6
<1>8. w = m \o v
  BY <1>1, <1>2, <1>3, <1>6
<1>9. /\ w \in Seq(S) /\ Len(w) = L + 1 /\ DOMAIN w = 1..L+1
      /\ \A k \in 1..b+1: w[k] = m[k]
      /\ \A k \in b+2..L+1: w[k] = v[k - (b + 1)]
  <2>0. /\ m \o v \in Seq(S) /\ Len(m \o v) = Len(m) + Len(v)
        /\ \A k \in 1..Len(m)+Len(v): (m \o v)[k] = IF k <= Len(m) THEN m[k] ELSE v[k - Len(m)]
    <3>1. m \in Seq(S) /\ v \in Seq(S)
      BY <1>5, <1>7
    <3> QED BY <3>1, ConcatProperties
  <2>1. w \in Seq(S) /\ Len(w) = Len(m) + Len(v)
    BY <2>0, <1>8
  <2>2. \A k \in 1..Len(m)+Len(v): w[k] = IF k <= Len(m) THEN m[k] ELSE v[k - Len(m)]
    BY <2>0, <1>8
  <2>3. Len(m) = b + 1 /\ Len(m) + Len(v) = L + 1 /\ b \in 0..L
    BY <1>5, <1>7, <1>1
  <2>4. DOMAIN w = 1..L+1 /\ Len(w) = L + 1
    <3>1. Len(w) = L + 1
      BY <2>1, <2>3
    <3>2. DOMAIN w = 1..Len(w)
      BY <2>1
    <3> QED BY <3>1, <3>2
  <2>5. \A k \in 1..L+1: w[k] = IF k <= b + 1 THEN m[k] ELSE v[k - (b + 1)]
    BY <2>2, <2>3
  <2>6. ASSUME NEW k \in 1..b+1 PROVE w[k] = m[k]
    <3>1. k \in 1..L+1 /\ k <= b + 1
      BY <2>3, <1>1
    <3> QED BY <3>1, <2>5
  <2>7. ASSUME NEW k \in b+2..L+1 PROVE w[k] = v[k - (b + 1)]
    <3>1. k \in 1..L+1 /\ ~(k <= b + 1)
      BY <2>3, <1>1
    <3> QED BY <3>1, <2>5
  <2> QED BY <2>1, <2>4, <2>6, <2>7
<1>10. ASSUME NEW k \in b+2..L+1 PROVE w[k] = list[k - 1]
  <2>1. PICK j \in 1..L-b: j = k - (b + 1) /\ b + j = k - 1
    <3>1. k - (b + 1) \in 1..L-b /\ b + (k - (b + 1)) = k - 1
      BY <1>1
    <3> QED BY <3>1
  <2> QED BY <2>1, <1>5, <1>9
<1>11. ASSUME NEW k \in 1..b PROVE w[k] = list[k]
  <2>1. k \in 1..b+1
    BY <1>1
  <2> QED BY <2>1, <1>4, <1>7, <1>9
<1>12. w[b + 1] = r
  <2>1. b + 1 \in 1..b+1
    BY <1>1
  <2> QED BY <2>1, <1>7, <1>9
<1> QED BY <1>1, <1>9, <1>10, <1>11, <1>12 DEF Inserted

(* A name the search does not find is put where the order wants it.        *)
Put(w, r) ==
    /\ Sorted(w)
    /\ \A k \in DOMAIN name: name[k].name # r.name
    /\ \A q: (\E k \in DOMAIN w: w[k] = q) <=> q = r \/ \E k \in DOMAIN name: name[k] = q

LEMMA InsertSorted ==
    ASSUME Ordered, NEW x \in Name, NEW h \in HandleOf, ~Search(x).found,
           NEW r, r = [name |-> x, handle |-> h], NEW w, w = InsertBefore(r, Search(x).at)
    PROVE  Put(w, r)
<1> DEFINE S == [name: Name, handle: HandleOf]
<1>1. name \in Seq(S) /\ \A j, k \in DOMAIN name: j < k => name[j].name < name[k].name
  BY DEF Ordered, Sorted
<1>2. PICK L \in Nat: L = Len(name) /\ DOMAIN name = 1..L
  BY KeysAre
<1>3. r \in S /\ r.name = x /\ x \in Nat
  BY HandleAssumption
<1>4. Answer(x, Search(x))
  BY <1>3, SearchAnswers
<1>5. PICK b: b = Search(x).at
  OBVIOUS
<1>6. ~\E k \in DOMAIN name: name[k].name = x
  BY <1>4 DEF Answer
<1>7. /\ b \in 0..L
      /\ \A j \in 1..b: name[j].name < x
      /\ \A j \in b+1..L: name[j].name > x
  BY <1>2, <1>4, <1>5, <1>6 DEF Answer
<1>8. w \in Seq(S) /\ Inserted(name, r, b, w)
  <2> HIDE DEF S
  <2>1. w = SubSeq(name, 1, b) \o <<r>> \o SubSeq(name, b + 1, Len(name))
    BY <1>5 DEF InsertBefore
  <2>2. b \in 0..Len(name)
    BY <1>2, <1>7
  <2> QED BY <2>1, <2>2, <1>1, <1>3, InsertIs
<1>9. /\ DOMAIN w = 1..L+1
      /\ \A k \in 1..b: w[k] = name[k]
      /\ w[b + 1] = r
      /\ \A k \in b+2..L+1: w[k] = name[k - 1]
  BY <1>2, <1>8 DEF Inserted
<1>10. ASSUME NEW j \in 1..L+1, NEW k \in 1..L+1, j < k PROVE w[j].name < w[k].name
  <2>1. CASE k <= b
    <3>1. j \in 1..b /\ k \in 1..b /\ j \in DOMAIN name /\ k \in DOMAIN name
      BY <2>1, <1>2, <1>7, <1>10
    <3> QED BY <3>1, <1>9, <1>1, <1>10
  <2>2. CASE k = b + 1
    <3>1. j \in 1..b
      BY <2>2, <1>2, <1>7, <1>10
    <3> QED BY <3>1, <2>2, <1>3, <1>7, <1>9
  <2>3. CASE k \in b+2..L+1
    <3>1. k - 1 \in b+1..L /\ k - 1 \in DOMAIN name /\ w[k] = name[k - 1]
      BY <2>3, <1>2, <1>7, <1>9
    <3>2. CASE j = b + 1
      BY <3>1, <3>2, <1>3, <1>7, <1>9
    <3>3. CASE j \in 1..b
      <4>1. j \in DOMAIN name /\ j < k - 1 /\ w[j] = name[j]
        BY <2>3, <3>3, <1>2, <1>7, <1>9
      <4> QED BY <4>1, <3>1, <1>1
    <3>4. CASE j \in b+2..L+1
      <4>1. j - 1 \in DOMAIN name /\ j - 1 < k - 1 /\ w[j] = name[j - 1]
        BY <3>4, <2>3, <1>2, <1>7, <1>9, <1>10
      <4> QED BY <4>1, <3>1, <1>1
    <3>5. j = b + 1 \/ j \in 1..b \/ j \in b+2..L+1
      BY <1>2, <1>7
    <3> QED BY <3>2, <3>3, <3>4, <3>5
  <2>4. k <= b \/ k = b + 1 \/ k \in b+2..L+1
    BY <1>2, <1>7
  <2> QED BY <2>1, <2>2, <2>3, <2>4
<1>11. Sorted(w)
  BY <1>8, <1>9, <1>10 DEF Sorted
<1>12. ASSUME NEW q PROVE (\E k \in DOMAIN w: w[k] = q) <=> q = r \/ \E k \in DOMAIN name: name[k] = q
  <2>1. ASSUME NEW k \in 1..L+1, w[k] = q PROVE q = r \/ \E l \in DOMAIN name: name[l] = q
    <3>1. CASE k \in 1..b
      <4>1. k \in DOMAIN name
        BY <3>1, <1>2, <1>7
      <4> QED BY <4>1, <3>1, <2>1, <1>9
    <3>2. CASE k \in b+2..L+1
      <4>1. k - 1 \in DOMAIN name
        BY <3>2, <1>2, <1>7
      <4> QED BY <4>1, <3>2, <2>1, <1>9
    <3>3. k \in 1..b \/ k = b + 1 \/ k \in b+2..L+1
      BY <1>2, <1>7
    <3> QED BY <3>1, <3>2, <3>3, <2>1, <1>9
  <2>2. ASSUME NEW k \in 1..L, name[k] = q PROVE \E l \in 1..L+1: w[l] = q
    <3>1. CASE k \in 1..b
      <4>1. k \in 1..L+1
        BY <1>2
      <4> QED BY <4>1, <3>1, <2>2, <1>9
    <3>2. CASE k \in b+1..L
      <4>1. k + 1 \in b+2..L+1 /\ k + 1 \in 1..L+1 /\ (k + 1) - 1 = k
        BY <3>2, <1>2, <1>7
      <4> QED BY <4>1, <2>2, <1>9
    <3>3. k \in 1..b \/ k \in b+1..L
      BY <1>2, <1>7
    <3> QED BY <3>1, <3>2, <3>3
  <2>3. b + 1 \in 1..L+1
    BY <1>2, <1>7
  <2> QED BY <2>1, <2>2, <2>3, <1>2, <1>9
<1> QED BY <1>3, <1>6, <1>11, <1>12 DEF Put

-----------------------------------------------------------------------------
(* The inductive invariant.                                                *)
Typed ==
    /\ SizeOK(slot_size)
    /\ slot \in [0..slot_size-1 -> Ctx \cup {None}]
    /\ handle_index \in 1..Mask+1
    /\ handle \in [Ctx -> HandleOf]
    /\ ref \in [Ctx -> Nat]
    /\ pc \in [Thread -> {"idle", "init", "use", "scan", "retire"}]
    /\ ctx \in [Thread -> Ctx \cup {None}]
    /\ new \in [Thread -> HandleOf]
    /\ i \in [Thread -> 0..Mask+1] /\ n \in [Thread -> {0, 1}]
    /\ moved \in SUBSET Ctx

(* The references of a service are its users and the table. *)
Holders(c) == {t \in Thread : pc[t] \in {"init", "use"} /\ ctx[t] = c}
Counted ==
    \A c \in Ctx: ref[c] = Cardinality(Holders(c)) + (IF InTable(c) THEN 1 ELSE 0)

OneSlot == \A s, u \in DOMAIN slot: slot[s] # None /\ slot[s] = slot[u] => s = u

(* A service that the growth of the table has not moved is in the slot of  *)
(* its handle, or of the one it waits for, unless it was retired meanwhile. *)
OneInit == \A t, u \in Thread: pc[t] = "init" /\ pc[u] = "init" /\ ctx[t] = ctx[u] => t = u
Given ==
    \A t \in Thread:
        pc[t] = "init" /\ ctx[t] \notin moved /\ InTable(ctx[t])
        => slot[Hash(new[t], slot_size)] = ctx[t]
Placed ==
    \A s \in DOMAIN slot:
        slot[s] # None /\ Ready(slot[s]) /\ slot[s] \notin moved
        => Hash(handle[slot[s]], slot_size) = s

Working ==
    \A t \in Thread:
        /\ pc[t] \in {"init", "use", "retire"} => ctx[t] \in Ctx
        /\ pc[t] = "retire" => i[t] < slot_size

Inv == Typed /\ Ordered /\ Counted /\ OneSlot /\ OneInit /\ Given /\ Placed /\ Working

LEMMA SizeIs ==
    ASSUME NEW m \in Nat, NEW S, NEW f \in [0..m-1 -> S]
    PROVE  Cardinality(DOMAIN f) = m
<1>1. DOMAIN f = 0..m-1
  OBVIOUS
<1>2. Cardinality(0..m-1) = m
  BY FS_Interval
<1> QED BY <1>1, <1>2

(* What the types say of the table.                                        *)
LEMMA TableIs ==
    ASSUME Typed
    PROVE  /\ slot_size \in Nat \ {0} /\ SizeOK(slot_size) /\ DOMAIN slot = 0..slot_size-1
           /\ slot_size <= Mask + 1 /\ Mask \in Nat
           /\ \A s \in DOMAIN slot: slot[s] \in Ctx \cup {None}
           /\ \A h \in HandleOf: Hash(h, slot_size) \in DOMAIN slot
<1>1. slot_size \in Nat \ {0} /\ slot_size <= Mask + 1 /\ Mask \in Nat
  BY HandleAssumption DEF Typed, SizeOK
<1>2. DOMAIN slot = 0..slot_size-1
  BY DEF Typed
<1>3. \A s \in DOMAIN slot: slot[s] \in Ctx \cup {None}
  BY DEF Typed
<1>4. \A h \in HandleOf: Hash(h, slot_size) \in DOMAIN slot
  BY <1>1, <1>2, HashIs DEF Typed
<1> QED BY <1>1, <1>2, <1>3, <1>4 DEF Typed

(* A handle that is found is the handle of the service in its slot.        *)
LEMMA FoundIs ==
    ASSUME Typed, NEW h \in HandleOf, Found(h) # None
    PROVE  /\ Found(h) \in Ctx /\ slot[Hash(h, slot_size)] = Found(h)
           /\ handle[Found(h)] = h /\ InTable(Found(h)) /\ Hash(h, slot_size) \in DOMAIN slot
<1>1. Hash(h, slot_size) \in DOMAIN slot /\ slot[Hash(h, slot_size)] \in Ctx \cup {None}
  BY TableIs
<1> QED BY <1>1 DEF Found, InTable

LEMMA HoldersFinite == \A c: IsFiniteSet(Holders(c))
BY HandleAssumption, FS_Subset DEF Holders

LEMMA NewcomerIs == \A c: c \in Newcomers <=> \E t \in Thread: pc[t] = "init" /\ ctx[t] = c
BY DEF Newcomers

(* Steps after which the same threads wait for the handles of the same     *)
(* services.                                                               *)
LEMMA SameNewcomers ==
    ASSUME \A u \in Thread: /\ (pc'[u] = "init") <=> (pc[u] = "init")
                            /\ pc[u] = "init" => ctx'[u] = ctx[u]
    PROVE  Newcomers' = Newcomers
BY DEF Newcomers

LEMMA QuietPlaces ==
    ASSUME Inv, slot' = slot, handle' = handle, new' = new, moved' = moved,
           \A u \in Thread: /\ (pc'[u] = "init") <=> (pc[u] = "init")
                            /\ pc[u] = "init" => ctx'[u] = ctx[u]
    PROVE  OneSlot' /\ OneInit' /\ Given' /\ Placed'
<1>1. slot_size' = slot_size /\ \A c: InTable(c)' <=> InTable(c)
  BY DEF slot_size, InTable
<1>2. OneSlot' /\ OneInit'
  BY DEF Inv, OneSlot, OneInit
<1>3. Given'
  BY <1>1 DEF Inv, Given
<1>4. Placed'
  BY <1>1, SameNewcomers DEF Inv, Placed, Ready
<1> QED BY <1>2, <1>3, <1>4

(* Steps that change no table, reference or user of a service.             *)
LEMMA QuietStep ==
    ASSUME Inv, slot' = slot, ref' = ref, handle' = handle, new' = new, moved' = moved,
           \A u \in Thread: /\ (pc'[u] = "init") <=> (pc[u] = "init")
                            /\ (pc'[u] = "use") <=> (pc[u] = "use")
                            /\ pc[u] \in {"init", "use"} => ctx'[u] = ctx[u]
    PROVE  Counted' /\ OneSlot' /\ OneInit' /\ Given' /\ Placed'
<1>1. \A c \in Ctx: Holders(c)' = Holders(c)
  BY DEF Holders
<1>2. \A c \in Ctx: InTable(c)' <=> InTable(c)
  BY DEF InTable
<1>3. Counted'
  BY <1>1, <1>2 DEF Inv, Counted
<1> QED BY <1>3, QuietPlaces

LEMMA ContextInitStep ==
    ASSUME Inv, NEW t \in Thread, ContextInit(t)
    PROVE  Inv'
<1>1. PICK c \in Ctx: c = ctx[t]
  BY DEF Inv, Working, ContextInit
<1>2. /\ pc[t] = "init" /\ handle' = [handle EXCEPT ![c] = new[t]]
      /\ pc' = [pc EXCEPT ![t] = "use"]
      /\ slot' = slot /\ handle_index' = handle_index /\ name' = name /\ ref' = ref /\ ctx' = ctx
      /\ new' = new /\ i' = i /\ n' = n /\ moved' = moved
  BY <1>1 DEF ContextInit, table
<1>3. slot_size' = slot_size
  BY <1>2 DEF slot_size
<1>4. Typed'
  <2>1. Typed
    BY DEF Inv
  <2>2. handle' \in [Ctx -> HandleOf] /\ pc' \in [Thread -> {"idle", "init", "use", "scan", "retire"}]
    BY <2>1, <1>2 DEF Typed
  <2> QED BY <2>1, <2>2, <1>2, <1>3 DEF Typed
<1>5. Ordered'
  BY <1>2 DEF Inv, Ordered
<1>6. pc \in [Thread -> {"idle", "init", "use", "scan", "retire"}]
  BY DEF Inv, Typed
<1>7. \A d \in Ctx: Holders(d)' = Holders(d) /\ (InTable(d)' <=> InTable(d))
  BY <1>2, <1>6 DEF Holders, InTable
<1>8. Counted'
  BY <1>2, <1>7 DEF Inv, Counted
<1>9. OneSlot'
  BY <1>2 DEF Inv, OneSlot
<1>10. \A u \in Thread: pc'[u] = "init" <=> pc[u] = "init" /\ u # t
  BY <1>2, <1>6
<1>11. \A d: d \in Newcomers <=> d \in Newcomers' \/ d = c
  BY <1>1, <1>2, <1>10, NewcomerIs DEF Newcomers
<1>12. OneInit' /\ Given'
  <2>1. OneInit'
    BY <1>2, <1>10 DEF Inv, OneInit
  <2>2. \A d: InTable(d)' <=> InTable(d)
    BY <1>2 DEF InTable
  <2>3. Given'
    BY <1>2, <1>3, <1>10, <2>2 DEF Inv, Given
  <2> QED BY <2>1, <2>3
<1>13. Placed'
  <2> SUFFICES ASSUME NEW s \in DOMAIN slot, slot[s] # None, Ready(slot[s])', slot[s] \notin moved
               PROVE  Hash(handle'[slot[s]], slot_size) = s
    BY <1>2, <1>3 DEF Placed
  <2>1. PICK d \in Ctx: d = slot[s]
    BY TableIs DEF Inv
  <2>2. CASE d = c
    <3>1. handle'[c] = new[t]
      BY <1>2 DEF Inv, Typed
    <3>2. PICK u: u = Hash(new[t], slot_size)
      OBVIOUS
    <3>3. u \in DOMAIN slot
      BY <3>2, TableIs DEF Inv, Typed
    <3>4. slot[u] = c
      BY <3>2, <1>1, <1>2, <2>1, <2>2 DEF Inv, Given, InTable
    <3>5. u = s
      BY <3>3, <3>4, <2>1, <2>2 DEF Inv, OneSlot
    <3> QED BY <3>1, <3>2, <3>5, <2>1, <2>2
  <2>3. CASE d # c
    <3>1. handle'[d] = handle[d]
      BY <1>2, <2>3 DEF Inv, Typed
    <3>2. Ready(d)
      BY <2>1, <2>3, <1>2, <1>11 DEF Ready, InTable
    <3> QED BY <3>1, <3>2, <2>1 DEF Inv, Placed
  <2> QED BY <2>2, <2>3
<1>14. Working'
  <2> SUFFICES ASSUME NEW u \in Thread
               PROVE  /\ pc'[u] \in {"init", "use", "retire"} => ctx[u] \in Ctx
                      /\ pc'[u] = "retire" => i[u] < slot_size
    BY <1>2, <1>3 DEF Working
  <2>1. CASE u = t
    BY <2>1, <1>1, <1>2, <1>6
  <2>2. CASE u # t
    BY <2>2, <1>2 DEF Inv, Working
  <2> QED BY <2>1, <2>2
<1> QED BY <1>4, <1>5, <1>8, <1>9, <1>12, <1>13, <1>14 DEF Inv

LEMMA GrabStep ==
    ASSUME Inv, NEW t \in Thread, Grab(t)
    PROVE  Inv'
<1>1. PICK h \in HandleOf: /\ Found(h) # None
                           /\ ref' = [ref EXCEPT ![Found(h)] = @ + 1]
                           /\ ctx' = [ctx EXCEPT ![t] = Found(h)]
  BY DEF Grab
<1>2. PICK c \in Ctx: c = Found(h) /\ InTable(c)
  BY <1>1, FoundIs DEF Inv
<1>3. /\ pc[t] = "idle" /\ pc' = [pc EXCEPT ![t] = "use"]
      /\ slot' = slot /\ handle_index' = handle_index /\ name' = name /\ handle' = handle
      /\ new' = new /\ i' = i /\ n' = n /\ moved' = moved
  BY DEF Grab, table
<1>4. slot_size' = slot_size
  BY <1>3 DEF slot_size
<1>5. Typed'
  <2>1. Typed
    BY DEF Inv
  <2>2. ref' \in [Ctx -> Nat] /\ ctx' \in [Thread -> Ctx \cup {None}]
    BY <2>1, <1>1, <1>2 DEF Typed
  <2>3. pc' \in [Thread -> {"idle", "init", "use", "scan", "retire"}]
    BY <2>1, <1>3 DEF Typed
  <2> QED BY <2>1, <2>2, <2>3, <1>3, <1>4 DEF Typed
<1>6. Ordered'
  BY <1>3 DEF Inv, Ordered
<1>7. /\ pc \in [Thread -> {"idle", "init", "use", "scan", "retire"}]
      /\ ctx \in [Thread -> Ctx \cup {None}] /\ ref \in [Ctx -> Nat]
  BY DEF Inv, Typed
<1>8. \A d \in Ctx: InTable(d)' <=> InTable(d)
  BY <1>3 DEF InTable
<1>9. Counted'
  <2> SUFFICES ASSUME NEW d \in Ctx
               PROVE  ref'[d] = Cardinality(Holders(d)') + (IF InTable(d) THEN 1 ELSE 0)
    BY <1>8 DEF Counted
  <2>1. ref[d] = Cardinality(Holders(d)) + (IF InTable(d) THEN 1 ELSE 0)
    BY DEF Inv, Counted
  <2>2. CASE d = c
    <3>1. Holders(c)' = Holders(c) \cup {t}
      BY <1>1, <1>2, <1>3, <1>7 DEF Holders
    <3>2. t \notin Holders(c)
      BY <1>3 DEF Holders
    <3>3. Cardinality(Holders(c)') = Cardinality(Holders(c)) + 1 /\ Cardinality(Holders(c)) \in Nat
      BY <3>1, <3>2, HoldersFinite, FS_AddElement, FS_CardinalityType
    <3>4. ref'[c] = ref[c] + 1
      BY <1>1, <1>2, <1>7
    <3> QED BY <3>3, <3>4, <2>1, <2>2
  <2>3. CASE d # c
    <3>1. Holders(d)' = Holders(d)
      BY <2>3, <1>1, <1>2, <1>3, <1>7 DEF Holders
    <3>2. ref'[d] = ref[d]
      BY <2>3, <1>1, <1>2, <1>7
    <3> QED BY <3>1, <3>2, <2>1
  <2> QED BY <2>2, <2>3
<1>10. OneSlot' /\ OneInit' /\ Given' /\ Placed'
  <2>1. \A u \in Thread: /\ (pc'[u] = "init") <=> (pc[u] = "init")
                         /\ pc[u] = "init" => ctx'[u] = ctx[u]
    BY <1>1, <1>3, <1>7
  <2> QED BY <2>1, <1>3, QuietPlaces
<1>11. Working'
  <2> SUFFICES ASSUME NEW u \in Thread
               PROVE  /\ pc'[u] \in {"init", "use", "retire"} => ctx'[u] \in Ctx
                      /\ pc'[u] = "retire" => i[u] < slot_size
    BY <1>3, <1>4 DEF Working
  <2>1. CASE u = t
    BY <2>1, <1>1, <1>2, <1>3, <1>7
  <2>2. CASE u # t
    BY <2>2, <1>1, <1>3, <1>7 DEF Inv, Working
  <2> QED BY <2>1, <2>2
<1> QED BY <1>5, <1>6, <1>9, <1>10, <1>11 DEF Inv

LEMMA ReleaseStep ==
    ASSUME Inv, NEW t \in Thread, Release(t)
    PROVE  Inv'
<1>1. PICK c \in Ctx: c = ctx[t]
  BY DEF Inv, Working, Release
<1>2. /\ pc[t] = "use" /\ ref' = [ref EXCEPT ![c] = @ - 1]
      /\ pc' = [pc EXCEPT ![t] = "idle"] /\ ctx' = [ctx EXCEPT ![t] = None]
      /\ slot' = slot /\ handle_index' = handle_index /\ name' = name /\ handle' = handle
      /\ new' = new /\ i' = i /\ n' = n /\ moved' = moved
  BY <1>1 DEF Release, table
<1>3. slot_size' = slot_size
  BY <1>2 DEF slot_size
<1>4. /\ pc \in [Thread -> {"idle", "init", "use", "scan", "retire"}]
      /\ ctx \in [Thread -> Ctx \cup {None}] /\ ref \in [Ctx -> Nat]
  BY DEF Inv, Typed
<1>5. \A d \in Ctx: InTable(d)' <=> InTable(d)
  BY <1>2 DEF InTable
<1>6. /\ ref'[c] = ref[c] - 1 /\ ref[c] - 1 \in Nat
      /\ ref[c] - 1 = Cardinality(Holders(c)') + (IF InTable(c) THEN 1 ELSE 0)
  <2>1. Holders(c)' = Holders(c) \ {t} /\ t \in Holders(c)
    BY <1>1, <1>2, <1>4, HandleAssumption DEF Holders
  <2>2. Cardinality(Holders(c)') = Cardinality(Holders(c)) - 1
    BY <2>1, HoldersFinite, FS_RemoveElement
  <2>3. Cardinality(Holders(c)') \in Nat /\ Cardinality(Holders(c)) \in Nat
    <3>1. IsFiniteSet(Holders(c)) /\ IsFiniteSet(Holders(c) \ {t})
      BY HoldersFinite, FS_Subset
    <3> QED BY <3>1, <2>1, FS_CardinalityType
  <2>4. ref[c] = Cardinality(Holders(c)) + (IF InTable(c) THEN 1 ELSE 0)
    BY DEF Inv, Counted
  <2>5. ref'[c] = ref[c] - 1
    BY <1>2, <1>4
  <2> QED BY <2>2, <2>3, <2>4, <2>5
<1>7. Typed'
  <2>1. Typed
    BY DEF Inv
  <2>2. ref' \in [Ctx -> Nat]
    BY <1>2, <1>4, <1>6
  <2>3. pc' \in [Thread -> {"idle", "init", "use", "scan", "retire"}] /\ ctx' \in [Thread -> Ctx \cup {None}]
    BY <1>2, <1>4
  <2> QED BY <2>1, <2>2, <2>3, <1>2, <1>3 DEF Typed
<1>8. Ordered'
  BY <1>2 DEF Inv, Ordered
<1>9. Counted'
  <2> SUFFICES ASSUME NEW d \in Ctx
               PROVE  ref'[d] = Cardinality(Holders(d)') + (IF InTable(d) THEN 1 ELSE 0)
    BY <1>5 DEF Counted
  <2>1. CASE d = c
    BY <2>1, <1>6
  <2>2. CASE d # c
    <3>1. Holders(d)' = Holders(d)
      BY <2>2, <1>1, <1>2, <1>4, HandleAssumption DEF Holders
    <3>2. ref'[d] = ref[d]
      BY <2>2, <1>2, <1>4
    <3> QED BY <3>1, <3>2 DEF Inv, Counted
  <2> QED BY <2>1, <2>2
<1>10. OneSlot' /\ OneInit' /\ Given' /\ Placed'
  <2>1. \A u \in Thread: /\ (pc'[u] = "init") <=> (pc[u] = "init")
                         /\ pc[u] = "init" => ctx'[u] = ctx[u]
    BY <1>2, <1>4
  <2> QED BY <2>1, <1>2, QuietPlaces
<1>11. Working'
  <2> SUFFICES ASSUME NEW u \in Thread
               PROVE  /\ pc'[u] \in {"init", "use", "retire"} => ctx'[u] \in Ctx
                      /\ pc'[u] = "retire" => i[u] < slot_size
    BY <1>2, <1>3 DEF Working
  <2>1. CASE u = t
    BY <2>1, <1>2, <1>4
  <2>2. CASE u # t
    BY <2>2, <1>2, <1>4 DEF Inv, Working
  <2> QED BY <2>1, <2>2
<1> QED BY <1>7, <1>8, <1>9, <1>10, <1>11 DEF Inv

(* skynet_handle_retire, whatever service it takes for that of the handle. *)
LEMMA RetireStep ==
    ASSUME Inv, NEW h \in HandleOf, RetireHandle(h),
           handle_index' = handle_index, handle' = handle, new' = new, moved' = moved,
           \A u \in Thread: /\ (pc'[u] = "init") <=> (pc[u] = "init")
                            /\ (pc'[u] = "use") <=> (pc[u] = "use")
                            /\ pc[u] \in {"init", "use"} => ctx'[u] = ctx[u]
    PROVE  /\ Ordered' /\ Counted' /\ OneSlot' /\ OneInit' /\ Given' /\ Placed'
           /\ slot' \in [0..slot_size-1 -> Ctx \cup {None}] /\ slot_size' = slot_size
           /\ ref' \in [Ctx -> Nat]
<1>1. /\ slot \in [0..slot_size-1 -> Ctx \cup {None}] /\ slot_size \in Nat
      /\ ref \in [Ctx -> Nat] /\ DOMAIN slot = 0..slot_size-1
  BY TableIs DEF Inv, Typed
<1>2. Newcomers' = Newcomers
  BY SameNewcomers
<1>3. \A c: Holders(c)' = Holders(c)
  BY DEF Holders
<1>4. OneInit'
  BY DEF Inv, OneInit
<1>5. CASE Found(h) = None
  <2>1. slot' = slot /\ ref' = ref /\ name' = name
    BY <1>5 DEF RetireHandle
  <2>2. slot_size' = slot_size
    BY <2>1 DEF slot_size
  <2>3. Ordered'
    BY <2>1 DEF Inv, Ordered
  <2>4. Counted'
    BY <2>1, <1>3 DEF Inv, Counted, InTable
  <2>5. OneSlot' /\ Given' /\ Placed'
    BY <2>1, QuietPlaces
  <2> QED BY <2>1, <2>2, <2>3, <2>4, <2>5, <1>1, <1>4
<1>6. CASE Found(h) # None
  <2>1. PICK c \in Ctx, f \in 0..slot_size-1: c = Found(h) /\ f = Hash(h, slot_size) /\ slot[f] = c
    BY <1>1, <1>6, FoundIs DEF Inv
  <2>2. /\ ref' = [ref EXCEPT ![c] = @ - 1]
        /\ slot' = [slot EXCEPT ![f] = None]
        /\ name' = Sublist(name, {k \in DOMAIN name : name[k].handle # h})
    BY <2>1, <1>6 DEF RetireHandle
  <2>3. slot' \in [0..slot_size-1 -> Ctx \cup {None}] /\ DOMAIN slot' = DOMAIN slot
    BY <2>2, <1>1
  <2>4. slot_size' = slot_size
    BY <2>3 DEF slot_size
  <2>5. Ordered'
    <3>1. Sorted(Sublist(name, {k \in DOMAIN name : name[k].handle # h}))
      BY SublistSorted DEF Inv, Ordered
    <3> QED BY <3>1, <2>2 DEF Ordered
  <2>6. c # None
    BY HandleAssumption
  <2>7. \A s \in DOMAIN slot: slot'[s] # None => s # f /\ slot'[s] = slot[s]
    BY <2>2, <1>1
  <2>8. OneSlot'
    BY <2>3, <2>7 DEF Inv, OneSlot
  <2>9. Placed'
    <3> SUFFICES ASSUME NEW s \in DOMAIN slot, slot'[s] # None, Ready(slot[s])', slot'[s] = slot[s],
                        slot'[s] \notin moved
                 PROVE  Hash(handle[slot'[s]], slot_size) = s
      BY <2>3, <2>4, <2>7 DEF Placed
    <3>1. Ready(slot[s])
      BY <1>2 DEF Ready, InTable
    <3> QED BY <3>1 DEF Inv, Placed
  <2>10. InTable(c) /\ ~InTable(c)'
    <3>1. InTable(c)
      BY <2>1, <1>1 DEF InTable
    <3>2. ASSUME NEW s \in DOMAIN slot, slot'[s] = c PROVE FALSE
      <4>1. s # f /\ slot[s] = c
        BY <3>2, <2>6, <2>7
      <4> QED BY <4>1, <2>1, <2>6, <1>1 DEF Inv, OneSlot
    <3> QED BY <3>1, <3>2, <2>3 DEF InTable
  <2>11. \A d \in Ctx: d # c => (InTable(d)' <=> InTable(d))
    <3> SUFFICES ASSUME NEW d \in Ctx, d # c PROVE InTable(d)' <=> InTable(d)
      OBVIOUS
    <3>1. d # None
      BY HandleAssumption
    <3>2. \A s \in DOMAIN slot: slot'[s] = d <=> slot[s] = d
      BY <3>1, <2>1, <2>2, <1>1
    <3> QED BY <3>2, <2>3 DEF InTable
  <2>12. Cardinality(Holders(c)) \in Nat
    BY HoldersFinite, FS_CardinalityType
  <2>13. ref[c] = Cardinality(Holders(c)) + 1
    BY <2>10 DEF Inv, Counted
  <2>14. ref'[c] = Cardinality(Holders(c)) /\ \A d \in Ctx: d # c => ref'[d] = ref[d]
    BY <2>2, <2>12, <2>13, <1>1
  <2>15. Counted'
    <3> SUFFICES ASSUME NEW d \in Ctx
                 PROVE  ref'[d] = Cardinality(Holders(d)) + (IF InTable(d)' THEN 1 ELSE 0)
      BY <1>3 DEF Counted
    <3>1. CASE d = c
      BY <3>1, <2>10, <2>12, <2>14
    <3>2. CASE d # c
      BY <3>2, <2>11, <2>14 DEF Inv, Counted
    <3> QED BY <3>1, <3>2
  <2>16. ref' \in [Ctx -> Nat]
    <3>1. ref[c] - 1 \in Nat
      BY <2>12, <2>13
    <3> QED BY <3>1, <2>2, <1>1
  <2>17. Given'
    <3> SUFFICES ASSUME NEW u \in Thread, pc[u] = "init", ctx[u] \notin moved, InTable(ctx[u])'
                 PROVE  slot'[Hash(new[u], slot_size)] = ctx[u]
      BY <2>4 DEF Given
    <3>1. ctx[u] \in Ctx /\ ctx[u] # c
      BY <2>10 DEF Inv, Working
    <3>2. InTable(ctx[u])
      BY <3>1, <2>11
    <3>3. PICK g: g = Hash(new[u], slot_size)
      OBVIOUS
    <3>4. g \in DOMAIN slot
      BY <3>3, TableIs DEF Inv, Typed
    <3>5. slot[g] = ctx[u]
      BY <3>2, <3>3 DEF Inv, Given
    <3>6. g # f
      BY <3>1, <3>5, <2>1
    <3> QED BY <3>3, <3>4, <3>5, <3>6, <2>2, <1>1
  <2> QED BY <2>3, <2>4, <2>5, <2>8, <2>9, <2>15, <2>16, <2>17, <1>4
<1> QED BY <1>5, <1>6

LEMMA NoRefForgotten ==
    ASSUME Inv, NEW c \in Ctx, ref[c] = 0
    PROVE  Holders(c) = {} /\ ~InTable(c)
<1>1. ref[c] = Cardinality(Holders(c)) + (IF InTable(c) THEN 1 ELSE 0)
  BY DEF Inv, Counted
<1>2. Cardinality(Holders(c)) \in Nat /\ IsFiniteSet(Holders(c))
  BY HoldersFinite, FS_CardinalityType
<1>3. Cardinality(Holders(c)) = 0 /\ ~InTable(c)
  BY <1>1, <1>2
<1> QED BY <1>2, <1>3, FS_EmptySet

(* The other steps of a thread.                                            *)
LEMMA RetireActionStep ==
    ASSUME Inv, NEW t \in Thread, Retire(t)
    PROVE  Inv'
<1>1. PICK h \in HandleOf: RetireHandle(h)
  BY DEF Retire
<1>2. /\ handle_index' = handle_index /\ handle' = handle /\ new' = new /\ pc' = pc
      /\ ctx' = ctx /\ i' = i /\ n' = n /\ moved' = moved
  BY DEF Retire, thread
<1>4. /\ Ordered' /\ Counted' /\ OneSlot' /\ OneInit' /\ Given' /\ Placed'
      /\ slot' \in [0..slot_size-1 -> Ctx \cup {None}] /\ slot_size' = slot_size
      /\ ref' \in [Ctx -> Nat]
  BY <1>1, <1>2, RetireStep
<1>5. Typed'
  BY <1>2, <1>4 DEF Inv, Typed
<1>6. Working'
  BY <1>2, <1>4 DEF Inv, Working
<1> QED BY <1>4, <1>5, <1>6 DEF Inv

LEMMA AbortRetireStep ==
    ASSUME Inv, NEW t \in Thread, AbortRetire(t)
    PROVE  Inv'
<1>1. /\ pc[t] = "retire" /\ handle_index' = handle_index /\ handle' = handle
      /\ new' = new /\ n' = n /\ pc' = [pc EXCEPT ![t] = "scan"]
      /\ ctx' = [ctx EXCEPT ![t] = None] /\ i' = [i EXCEPT ![t] = @ + 1] /\ moved' = moved
  BY DEF AbortRetire
<1>2. Typed
  BY DEF Inv
<1>3. ctx[t] \in Ctx /\ i[t] < slot_size
  BY <1>1 DEF Inv, Working
<1>4. PICK h \in HandleOf: RetireHandle(h)
  BY <1>2, <1>3 DEF AbortRetire, Typed
<1>5. /\ pc \in [Thread -> {"idle", "init", "use", "scan", "retire"}]
      /\ ctx \in [Thread -> Ctx \cup {None}] /\ i \in [Thread -> 0..Mask+1]
  BY <1>2 DEF Typed
<1>7. \A u \in Thread: /\ (pc'[u] = "init") <=> (pc[u] = "init")
                       /\ (pc'[u] = "use") <=> (pc[u] = "use")
                       /\ pc[u] \in {"init", "use"} => ctx'[u] = ctx[u]
  BY <1>1, <1>5
<1>8. /\ Ordered' /\ Counted' /\ OneSlot' /\ OneInit' /\ Given' /\ Placed'
      /\ slot' \in [0..slot_size-1 -> Ctx \cup {None}] /\ slot_size' = slot_size
      /\ ref' \in [Ctx -> Nat]
  BY <1>1, <1>4, <1>7, RetireStep
<1>9. i' \in [Thread -> 0..Mask+1]
  <2>1. i[t] + 1 \in 0..Mask+1
    BY <1>2, <1>3, <1>5, TableIs
  <2> QED BY <2>1, <1>1, <1>5
<1>10. pc' \in [Thread -> {"idle", "init", "use", "scan", "retire"}] /\ ctx' \in [Thread -> Ctx \cup {None}]
  BY <1>1, <1>5
<1>11. Typed'
  BY <1>1, <1>2, <1>8, <1>9, <1>10 DEF Typed
<1>12. Working'
  <2> SUFFICES ASSUME NEW u \in Thread
               PROVE  /\ pc'[u] \in {"init", "use", "retire"} => ctx'[u] \in Ctx
                      /\ pc'[u] = "retire" => i'[u] < slot_size
    BY <1>8 DEF Working
  <2>1. CASE u = t
    BY <2>1, <1>1, <1>5
  <2>2. CASE u # t
    BY <2>2, <1>1, <1>5 DEF Inv, Working
  <2> QED BY <2>1, <2>2
<1> QED BY <1>8, <1>11, <1>12 DEF Inv

LEMMA NameHandleStep ==
    ASSUME Inv, NEW t \in Thread, NameHandle(t)
    PROVE  Inv'
<1>1. PICK x \in Name: /\ ~Search(x).found
                       /\ name' = InsertBefore([name |-> x, handle |-> handle[ctx[t]]], Search(x).at)
  BY DEF NameHandle
<1>2. /\ pc[t] = "use" /\ slot' = slot /\ handle_index' = handle_index /\ handle' = handle /\ ref' = ref
      /\ pc' = pc /\ ctx' = ctx /\ new' = new /\ i' = i /\ n' = n
      /\ moved' = moved
  BY DEF NameHandle, thread
<1>3. handle[ctx[t]] \in HandleOf
  BY <1>2 DEF Inv, Working, Typed
<1>4. Ordered'
  <2>1. PICK r: r = [name |-> x, handle |-> handle[ctx[t]]]
    OBVIOUS
  <2>2. PICK w: w = InsertBefore(r, Search(x).at)
    OBVIOUS
  <2>3. Put(w, r)
    BY <2>1, <2>2, <1>1, <1>3, InsertSorted DEF Inv
  <2>4. name' = w
    BY <2>1, <2>2, <1>1
  <2> QED BY <2>3, <2>4 DEF Ordered, Put
<1>5. Counted' /\ OneSlot' /\ OneInit' /\ Given' /\ Placed'
  BY <1>2, QuietStep
<1>6. slot_size' = slot_size
  BY <1>2 DEF slot_size
<1>7. Typed' /\ Working'
  BY <1>2, <1>6 DEF Inv, Typed, Working
<1> QED BY <1>4, <1>5, <1>7 DEF Inv

LEMMA AbortStep ==
    ASSUME Inv, NEW t \in Thread, AbortStart(t) \/ AbortLook(t) \/ AbortRound(t)
    PROVE  Inv'
<1>1. Typed
  BY DEF Inv
<1>2. /\ slot' = slot /\ handle_index' = handle_index /\ name' = name /\ handle' = handle
      /\ ref' = ref /\ new' = new /\ moved' = moved
  BY DEF AbortStart, AbortLook, AbortRound, table
<1>3. slot_size' = slot_size /\ slot_size <= Mask + 1 /\ slot_size \in Nat /\ Mask \in Nat
  BY <1>1, <1>2, TableIs DEF slot_size
<1>4. /\ pc \in [Thread -> {"idle", "init", "use", "scan", "retire"}]
      /\ ctx \in [Thread -> Ctx \cup {None}]
      /\ i \in [Thread -> 0..Mask+1] /\ n \in [Thread -> {0, 1}]
  BY <1>1 DEF Typed
<1> DEFINE Fine ==
      /\ pc' \in [Thread -> {"idle", "init", "use", "scan", "retire"}]
      /\ ctx' \in [Thread -> Ctx \cup {None}]
      /\ i' \in [Thread -> 0..Mask+1] /\ n' \in [Thread -> {0, 1}]
      /\ pc[t] \in {"idle", "scan"} /\ pc'[t] \in {"idle", "scan", "retire"}
      /\ pc'[t] = "retire" => ctx'[t] \in Ctx /\ i'[t] < slot_size
      /\ \A u \in Thread: u # t => pc'[u] = pc[u] /\ ctx'[u] = ctx[u] /\ i'[u] = i[u]
<1>5. Fine
  <2>1. CASE AbortStart(t)
    <3>1. 0 \in 0..Mask+1
      BY <1>3
    <3> QED BY <3>1, <2>1, <1>4 DEF AbortStart
  <2>2. CASE AbortLook(t)
    <3>1. pc[t] = "scan" /\ i[t] < slot_size
      BY <2>2 DEF AbortLook
    <3>2. i[t] + 1 \in 0..Mask+1 /\ i[t] \in DOMAIN slot
      BY <3>1, <1>1, <1>3, <1>4, TableIs
    <3>3. CASE slot[i[t]] = None
      <4>1. i' = [i EXCEPT ![t] = @ + 1] /\ pc' = pc /\ ctx' = ctx /\ n' = n
        BY <2>2, <3>3 DEF AbortLook
      <4> QED BY <4>1, <3>1, <3>2, <1>4
    <3>4. CASE slot[i[t]] # None
      <4>1. /\ n' = [n EXCEPT ![t] = 1] /\ pc' = [pc EXCEPT ![t] = "retire"]
            /\ ctx' = [ctx EXCEPT ![t] = slot[i[t]]] /\ i' = i
        BY <2>2, <3>4 DEF AbortLook
      <4>2. slot[i[t]] \in Ctx
        BY <3>2, <3>4, <1>1, TableIs
      <4> QED BY <4>1, <4>2, <3>1, <1>4
    <3> QED BY <3>3, <3>4
  <2>3. CASE AbortRound(t)
    <3>1. 0 \in 0..Mask+1
      BY <1>3
    <3>2. /\ pc[t] = "scan" /\ i' = [i EXCEPT ![t] = 0] /\ n' = [n EXCEPT ![t] = 0] /\ ctx' = ctx
          /\ \E p \in {"idle", "scan"}: pc' = [pc EXCEPT ![t] = p]
      BY <2>3 DEF AbortRound
    <3> QED BY <3>1, <3>2, <1>4
  <2> QED BY <2>1, <2>2, <2>3
<1>6. \A u \in Thread: /\ (pc'[u] = "init") <=> (pc[u] = "init")
                       /\ (pc'[u] = "use") <=> (pc[u] = "use")
                       /\ pc[u] \in {"init", "use"} => ctx'[u] = ctx[u]
  BY <1>5
<1>7. Counted' /\ OneSlot' /\ OneInit' /\ Given' /\ Placed'
  BY <1>2, <1>6, QuietStep
<1>8. Typed'
  BY <1>1, <1>2, <1>3, <1>5 DEF Typed
<1>9. Ordered'
  BY <1>2 DEF Inv, Ordered
<1>10. Working'
  <2> SUFFICES ASSUME NEW u \in Thread
               PROVE  /\ pc'[u] \in {"init", "use", "retire"} => ctx'[u] \in Ctx
                      /\ pc'[u] = "retire" => i'[u] < slot_size
    BY <1>3 DEF Working
  <2>1. CASE u = t
    BY <2>1, <1>5
  <2>2. CASE u # t
    BY <2>2, <1>5 DEF Inv, Working
  <2> QED BY <2>1, <2>2
<1> QED BY <1>7, <1>8, <1>9, <1>10 DEF Inv

-----------------------------------------------------------------------------
(* skynet_handle_register. *)

(* A table with a free slot.                                               *)
Room(s, m) ==
    /\ m \in Nat \ {0} /\ SizeOK(m) /\ s \in [0..m-1 -> Ctx \cup {None}]
    /\ \E k \in 0..m-1: s[k] = None

(* A table that has grown has one: its services are fewer than its slots.  *)
LEMMA GrownRoom ==
    ASSUME NEW m \in Nat \ {0}, m = slot_size, SizeOK(m), slot \in [0..m-1 -> Ctx \cup {None}],
           2 * m - 1 <= Mask
    PROVE  Room(Doubled, 2 * m)
<1>1. PICK w \in Nat \ {0}: w = 2 * m
  OBVIOUS
<1>2. SizeOK(w)
  BY <1>1, NextSize
<1>3. PICK D: D = Doubled
  OBVIOUS
<1>4. D = [k \in 0..w-1 |->
              IF \E s \in 0..m-1: NewSlot(s) = k
              THEN slot[CHOOSE s \in 0..m-1: NewSlot(s) = k]
              ELSE None]
  BY <1>1, <1>3 DEF Doubled
<1>5. D \in [0..w-1 -> Ctx \cup {None}]
  <2>1. ASSUME NEW k \in 0..w-1 PROVE D[k] \in Ctx \cup {None}
    <3>1. CASE \E s \in 0..m-1: NewSlot(s) = k
      <4>1. PICK u: u = CHOOSE s \in 0..m-1: NewSlot(s) = k
        OBVIOUS
      <4>2. u \in 0..m-1
        BY <3>1, <4>1
      <4> QED BY <3>1, <4>1, <4>2, <1>4
    <3>2. CASE ~\E s \in 0..m-1: NewSlot(s) = k
      BY <3>2, <1>4
    <3> QED BY <3>1, <3>2
  <2>2. D = [k \in 0..w-1 |-> D[k]]
    BY <1>4
  <2> QED BY <2>1, <2>2
<1>6. ASSUME \A k \in 0..w-1: \E s \in 0..m-1: NewSlot(s) = k PROVE FALSE
  <2>1. PICK f: f = [s \in {u \in 0..m-1 : NewSlot(u) \in 0..w-1} |-> NewSlot(s)]
    OBVIOUS
  <2>2. PICK T \in SUBSET (0..m-1): T = {u \in 0..m-1 : NewSlot(u) \in 0..w-1}
    OBVIOUS
  <2>3. f \in Surjection(T, 0..w-1)
    BY <2>1, <2>2, <1>6 DEF Surjection
  <2>4. IsFiniteSet(0..m-1) /\ Cardinality(0..m-1) = m /\ Cardinality(0..w-1) = w
    BY FS_Interval
  <2>5. IsFiniteSet(T) /\ Cardinality(T) <= m
    <3>1. T \in SUBSET (0..m-1) /\ IsFiniteSet(0..m-1)
      BY <2>4
    <3>2. IsFiniteSet(T) /\ Cardinality(T) <= Cardinality(0..m-1)
      BY <3>1, FS_Subset
    <3> QED BY <3>2, <2>4
  <2>6. w <= Cardinality(T) /\ Cardinality(T) \in Nat
    BY <2>3, <2>4, <2>5, FS_Surjection, FS_CardinalityType
  <2> QED BY <2>5, <2>6, <1>1
<1>7. \E k \in 0..w-1: D[k] = None
  <2>1. PICK k \in 0..w-1: ~\E s \in 0..m-1: NewSlot(s) = k
    BY <1>6
  <2> QED BY <2>1, <1>4
<1> QED BY <1>1, <1>2, <1>3, <1>5, <1>7 DEF Room

(* One that has the services of the table, each in one slot.               *)
Fits(s, m) ==
    /\ Room(s, m)
    /\ \A k, l \in 0..m-1: s[k] # None /\ s[k] = s[l] => k = l
    /\ \A c \in Ctx: InTable(c) <=> \E k \in 0..m-1: s[k] = c

(* Where the assertion holds, every service gets the slot of its handle.   *)
LEMMA GrownFits ==
    ASSUME Inv, NoClash, Full, 2 * slot_size - 1 <= Mask
    PROVE  /\ Fits(Doubled, 2 * slot_size)
           /\ \A k \in 0..2*slot_size-1:
                 Doubled[k] # None => Hash(handle[Doubled[k]], 2 * slot_size) = k
           /\ \A s \in DOMAIN slot:
                 /\ Hash(handle[slot[s]], 2 * slot_size) \in 0..2*slot_size-1
                 /\ Doubled[Hash(handle[slot[s]], 2 * slot_size)] = slot[s]
<1>1. PICK m \in Nat \ {0}: m = slot_size
  BY TableIs DEF Inv
<1>2. /\ SizeOK(m) /\ DOMAIN slot = 0..m-1 /\ slot \in [0..m-1 -> Ctx \cup {None}]
      /\ \A s \in 0..m-1: slot[s] \in Ctx /\ slot[s] # None
  BY <1>1, TableIs DEF Inv, Full, Typed
<1>3. PICK w \in Nat \ {0}: w = 2 * m
  OBVIOUS
<1>4. PICK D: D = Doubled
  OBVIOUS
<1>5. Room(D, w)
  BY <1>1, <1>2, <1>3, <1>4, GrownRoom
<1>6. ASSUME NEW s \in 0..m-1 PROVE NewSlot(s) \in 0..w-1 /\ NewSlot(s) = Hash(handle[slot[s]], w)
  <2>1. handle[slot[s]] \in HandleOf
    BY <1>2, <1>6 DEF Inv, Typed
  <2>2. SizeOK(w)
    BY <1>5 DEF Room
  <2>3. Hash(handle[slot[s]], w) \in 0..w-1
    BY <2>1, <2>2, HashIs
  <2> QED BY <2>3, <1>1, <1>3 DEF NewSlot
<1>7. \A s, u \in 0..m-1: NewSlot(s) = NewSlot(u) => s = u
  BY <1>2 DEF NoClash
<1>8. D = [k \in 0..w-1 |->
              IF \E s \in 0..m-1: NewSlot(s) = k
              THEN slot[CHOOSE s \in 0..m-1: NewSlot(s) = k]
              ELSE None]
  BY <1>1, <1>2, <1>3, <1>4 DEF Doubled
<1>9. ASSUME NEW s \in 0..m-1 PROVE D[NewSlot(s)] = slot[s]
  <2>1. PICK k \in 0..w-1: k = NewSlot(s)
    BY <1>6
  <2>2. PICK u: u = CHOOSE v \in 0..m-1: NewSlot(v) = k
    OBVIOUS
  <2>3. u \in 0..m-1 /\ NewSlot(u) = k
    BY <2>1, <2>2
  <2>4. u = s
    BY <2>1, <2>3, <1>7
  <2> QED BY <2>1, <2>2, <2>4, <1>8
<1>10. ASSUME NEW k \in 0..w-1, D[k] # None
       PROVE  \E s \in 0..m-1: NewSlot(s) = k /\ D[k] = slot[s]
  <2>1. PICK s \in 0..m-1: NewSlot(s) = k
    BY <1>8, <1>10
  <2> QED BY <2>1, <1>9
<1>11. ASSUME NEW k \in 0..w-1, D[k] # None PROVE Hash(handle[D[k]], w) = k
  <2>1. PICK s \in 0..m-1: NewSlot(s) = k /\ D[k] = slot[s]
    BY <1>10, <1>11
  <2> QED BY <2>1, <1>6
<1>12. ASSUME NEW c \in Ctx PROVE InTable(c) <=> \E k \in 0..w-1: D[k] = c
  <2>1. c # None
    BY HandleAssumption
  <2>2. InTable(c) <=> \E s \in 0..m-1: slot[s] = c
    BY <1>2 DEF InTable
  <2>3. ASSUME NEW s \in 0..m-1, slot[s] = c PROVE \E k \in 0..w-1: D[k] = c
    BY <2>3, <1>6, <1>9
  <2>4. ASSUME NEW k \in 0..w-1, D[k] = c PROVE \E s \in 0..m-1: slot[s] = c
    BY <2>1, <2>4, <1>10
  <2> QED BY <2>2, <2>3, <2>4
<1>13. \A k, l \in 0..w-1: D[k] # None /\ D[k] = D[l] => k = l
  BY <1>11
<1>14. \A s \in 0..m-1: Hash(handle[slot[s]], w) \in 0..w-1 /\ D[Hash(handle[slot[s]], w)] = slot[s]
  BY <1>6, <1>9
<1>15. Fits(D, w)
  BY <1>5, <1>12, <1>13 DEF Fits
<1> QED BY <1>1, <1>2, <1>3, <1>4, <1>11, <1>14, <1>15

(* The table in which a new service is put: that of before, or a grown one *)
(* where every service found before is found again.                        *)
Grown(s, m) ==
    /\ slot_size <= m /\ Fits(s, m)
    /\ \/ ~Full /\ s = slot /\ m = slot_size
       \/ Full /\ \A k \in 0..m-1: s[k] # None => Hash(handle[s[k]], m) = k
    /\ \A h \in HandleOf: Found(h) # None => s[Hash(h, m)] = Found(h)

LEMMA TableGrown ==
    ASSUME Inv, Full => 2 * slot_size - 1 <= Mask /\ NoClash
    PROVE  \E m \in Nat: Grown(IF Full THEN Doubled ELSE slot, m)
<1>1. PICK m \in Nat \ {0}: m = slot_size
  BY TableIs DEF Inv
<1>2. /\ SizeOK(m) /\ DOMAIN slot = 0..m-1 /\ slot \in [0..m-1 -> Ctx \cup {None}]
  BY <1>1, TableIs DEF Inv, Typed
<1>3. CASE Full
  <2>1. PICK w \in Nat: w = 2 * m
    OBVIOUS
  <2>2. /\ Fits(Doubled, w) /\ m <= w
        /\ \A k \in 0..w-1: Doubled[k] # None => Hash(handle[Doubled[k]], w) = k
        /\ \A s \in DOMAIN slot: Doubled[Hash(handle[slot[s]], w)] = slot[s]
    BY <1>1, <1>3, <2>1, GrownFits
  <2>3. ASSUME NEW h \in HandleOf, Found(h) # None PROVE Doubled[Hash(h, w)] = Found(h)
    <3>1. PICK f \in DOMAIN slot: f = Hash(h, slot_size)
      BY <2>3, FoundIs DEF Inv
    <3>2. slot[f] = Found(h) /\ handle[Found(h)] = h
      BY <2>3, <3>1, FoundIs DEF Inv
    <3> QED BY <2>2, <3>2
  <2>4. Grown(Doubled, w)
    BY <1>1, <1>3, <2>2, <2>3 DEF Grown
  <2> QED BY <2>4, <1>3
<1>4. CASE ~Full
  <2>1. \E k \in 0..m-1: slot[k] = None
    BY <1>2, <1>4 DEF Full
  <2>2. \A c \in Ctx: InTable(c) <=> \E k \in 0..m-1: slot[k] = c
    BY <1>2 DEF InTable
  <2>3. \A k, l \in 0..m-1: slot[k] # None /\ slot[k] = slot[l] => k = l
    BY <1>2 DEF Inv, OneSlot
  <2>4. Fits(slot, m)
    BY <1>2, <2>1, <2>2, <2>3 DEF Fits, Room
  <2>5. \A h \in HandleOf: Found(h) # None => slot[Hash(h, m)] = Found(h)
    BY <1>1, FoundIs DEF Inv
  <2>6. Grown(slot, m)
    BY <1>1, <1>4, <2>4, <2>5 DEF Grown
  <2> QED BY <2>6, <1>4
<1> QED BY <1>3, <1>4

(* The loop finds a free slot within one round.                            *)
LEMMA FreeIs ==
    ASSUME NEW m \in Nat \ {0}, NEW s, Room(s, m), handle_index \in Nat
    PROVE  /\ FreeHandle(s) \in HandleOf /\ Hash(FreeHandle(s), m) \in 0..m-1
           /\ s[Hash(FreeHandle(s), m)] = None
<1>1. SizeOK(m) /\ s \in [0..m-1 -> Ctx \cup {None}]
  BY DEF Room
<1>2. Cardinality(DOMAIN s) = m
  BY <1>1, SizeIs
<1> DEFINE Try(k) == (k + handle_index) % (Mask + 1)
           Free == {k \in 0..m-1 : s[Hash(Try(k), m)] = None}
<1>3. FreeHandle(s) = Try(CHOOSE k \in Free: \A l \in Free: k <= l)
  BY <1>2 DEF FreeHandle
<1>4. \A k \in 0..m-1: /\ Try(k) \in HandleOf /\ Hash(Try(k), m) \in 0..m-1
                       /\ Hash(Try(k), m) = (k + handle_index) % m
  <2> SUFFICES ASSUME NEW k \in 0..m-1
               PROVE  /\ Try(k) \in HandleOf /\ Hash(Try(k), m) \in 0..m-1
                      /\ Hash(Try(k), m) = (k + handle_index) % m
    OBVIOUS
  <2>1. k + handle_index \in Nat
    OBVIOUS
  <2> QED BY <2>1, <1>1, HashIs
<1>5. PICK f \in 0..m-1: s[f] = None
  BY DEF Room
<1>6. PICK k \in 0..m-1: (k + handle_index) % m = f
  BY Cover
<1> HIDE DEF Try
<1>7. k \in Free
  BY <1>4, <1>5, <1>6
<1>8. PICK l \in Free: \A j \in Free: l <= j
  <2>1. Free \in SUBSET Nat /\ Free # {}
    BY <1>7
  <2> HIDE DEF Free
  <2> QED BY <2>1, Least
<1>9. PICK j: j = CHOOSE p \in Free: \A q \in Free: p <= q
  OBVIOUS
<1>10. j \in Free
  <2> HIDE DEF Free
  <2> QED BY <1>8, <1>9
<1> QED BY <1>3, <1>4, <1>9, <1>10

(* What a registration does: the service c, whose memory holds g, gets     *)
(* handle h in slot f of the table s with m slots.                         *)
Registers(t, s, m, h, f, c, g) ==
    /\ m \in Nat \ {0} /\ Grown(s, m)
    /\ h \in HandleOf /\ f = Hash(h, m) /\ f \in 0..m-1 /\ s[f] = None
    /\ c \in Ctx /\ g \in HandleOf /\ ref[c] = 0
    /\ slot' = [s EXCEPT ![f] = c] /\ slot' \in [0..m-1 -> Ctx \cup {None}] /\ slot_size' = m
    /\ handle_index' = h + 1 /\ name' = name
    /\ new' = [new EXCEPT ![t] = h] /\ ctx' = [ctx EXCEPT ![t] = c]
    /\ handle' = [handle EXCEPT ![c] = g] /\ ref' = [ref EXCEPT ![c] = 2]
    /\ moved' = (IF Full THEN Newcomers ELSE moved) \ {c}
    /\ pc[t] = "idle" /\ pc' = [pc EXCEPT ![t] = "init"] /\ i' = i /\ n' = n

LEMMA RegisterIs ==
    ASSUME Inv, NEW t \in Thread, Register(t)
    PROVE  \E s, m, h, f, c, g: Registers(t, s, m, h, f, c, g)
<1>1. /\ pc[t] = "idle" /\ pc' = [pc EXCEPT ![t] = "init"] /\ name' = name /\ i' = i /\ n' = n
      /\ Full => 2 * slot_size - 1 <= Mask /\ NoClash
  BY DEF Register
<1>2. PICK s: s = IF Full THEN Doubled ELSE slot
  OBVIOUS
<1>3. PICK m \in Nat: Grown(s, m)
  BY <1>1, <1>2, TableGrown
<1>4. m \in Nat \ {0} /\ s \in [0..m-1 -> Ctx \cup {None}] /\ Room(s, m)
  BY <1>3 DEF Grown, Fits, Room
<1>5. PICK h: h = FreeHandle(s)
  OBVIOUS
<1>6. PICK f: f = Hash(h, m)
  OBVIOUS
<1>7. h \in HandleOf /\ f \in 0..m-1 /\ s[f] = None
  <2>1. handle_index \in Nat
    BY HandleAssumption DEF Inv, Typed
  <2> QED BY <2>1, <1>4, <1>5, <1>6, FreeIs
<1>8. Cardinality(DOMAIN s) = m
  BY <1>4, SizeIs
<1>9. PICK c \in Ctx, g \in HandleOf:
          /\ ref[c] = 0
          /\ slot' = [s EXCEPT ![f] = c]
          /\ handle_index' = h + 1
          /\ new' = [new EXCEPT ![t] = h]
          /\ ctx' = [ctx EXCEPT ![t] = c]
          /\ handle' = [handle EXCEPT ![c] = g]
          /\ ref' = [ref EXCEPT ![c] = 2]
          /\ moved' = (IF Full THEN Newcomers ELSE moved) \ {c}
  BY <1>2, <1>5, <1>6, <1>8 DEF Register
<1>10. slot' \in [0..m-1 -> Ctx \cup {None}]
  BY <1>4, <1>9
<1>11. slot_size' = m
  BY <1>10, <1>4, SizeIs DEF slot_size
<1>12. Registers(t, s, m, h, f, c, g)
  BY <1>1, <1>3, <1>4, <1>6, <1>7, <1>9, <1>10, <1>11 DEF Registers
<1> QED BY <1>12

LEMMA RegisterStep ==
    ASSUME Inv, NEW t \in Thread, Register(t)
    PROVE  Inv'
<1>1. PICK s, m, h, f, c, g: Registers(t, s, m, h, f, c, g)
  BY RegisterIs
<1>2. /\ m \in Nat \ {0} /\ Grown(s, m) /\ h \in HandleOf /\ f = Hash(h, m) /\ f \in 0..m-1
      /\ s[f] = None /\ c \in Ctx /\ g \in HandleOf /\ ref[c] = 0 /\ slot_size' = m
      /\ slot' = [s EXCEPT ![f] = c] /\ slot' \in [0..m-1 -> Ctx \cup {None}]
  BY <1>1 DEF Registers
<1>3. /\ handle_index' = h + 1 /\ name' = name /\ i' = i /\ n' = n /\ pc[t] = "idle"
      /\ new' = [new EXCEPT ![t] = h] /\ ctx' = [ctx EXCEPT ![t] = c]
      /\ handle' = [handle EXCEPT ![c] = g] /\ ref' = [ref EXCEPT ![c] = 2]
      /\ moved' = (IF Full THEN Newcomers ELSE moved) \ {c} /\ pc' = [pc EXCEPT ![t] = "init"]
  BY <1>1 DEF Registers
<1>4. /\ slot_size <= m /\ SizeOK(m) /\ s \in [0..m-1 -> Ctx \cup {None}]
      /\ \A k, l \in 0..m-1: s[k] # None /\ s[k] = s[l] => k = l
      /\ \A d \in Ctx: InTable(d) <=> \E k \in 0..m-1: s[k] = d
      /\ \/ ~Full /\ s = slot /\ m = slot_size
         \/ Full /\ \A k \in 0..m-1: s[k] # None => Hash(handle[s[k]], m) = k
  BY <1>2 DEF Grown, Fits, Room
<1>5. Typed
  BY DEF Inv
<1>6. /\ pc \in [Thread -> {"idle", "init", "use", "scan", "retire"}]
      /\ ctx \in [Thread -> Ctx \cup {None}] /\ new \in [Thread -> HandleOf]
      /\ handle \in [Ctx -> HandleOf] /\ ref \in [Ctx -> Nat] /\ moved \in SUBSET Ctx
  BY <1>5 DEF Typed
<1>7. Newcomers \in SUBSET Ctx
  BY DEF Inv, Working, Newcomers
<1>8. Typed'
  <2>1. h + 1 \in 1..Mask+1
    BY <1>2, HandleAssumption DEF HandleOf
  <2>2. /\ pc' \in [Thread -> {"idle", "init", "use", "scan", "retire"}]
        /\ ctx' \in [Thread -> Ctx \cup {None}] /\ new' \in [Thread -> HandleOf]
    BY <1>2, <1>3, <1>6
  <2>3. ref' \in [Ctx -> Nat] /\ handle' \in [Ctx -> HandleOf]
    BY <1>2, <1>3, <1>6
  <2>4. moved' \in SUBSET Ctx
    BY <1>3, <1>6, <1>7
  <2> QED BY <2>1, <2>2, <2>3, <2>4, <1>2, <1>3, <1>4, <1>5 DEF Typed
<1>9. Ordered'
  BY <1>3 DEF Inv, Ordered
<1>10. Holders(c) = {} /\ ~InTable(c) /\ c # None
  BY <1>2, NoRefForgotten, HandleAssumption
<1>11. \A k \in 0..m-1: IF k = f THEN slot'[k] = c ELSE slot'[k] = s[k] /\ s[k] # c
  BY <1>2, <1>4, <1>10
<1>12. /\ \A u \in Thread: pc'[u] = "init" <=> u = t \/ pc[u] = "init"
       /\ \A u \in Thread: pc[u] = "init" => u # t /\ ctx[u] # c /\ ctx'[u] = ctx[u] /\ new'[u] = new[u]
  BY <1>3, <1>6, <1>10 DEF Holders
<1>13. \A d: d \in Newcomers' <=> d \in Newcomers \/ d = c
  BY <1>3, <1>6, <1>12 DEF Newcomers
<1>14. InTable(c)' /\ \A d \in Ctx: d # c => (InTable(d)' <=> InTable(d))
  <2>1. InTable(c)'
    BY <1>2, <1>11 DEF InTable
  <2>2. ASSUME NEW d \in Ctx, d # c PROVE InTable(d)' <=> InTable(d)
    <3>1. d # None
      BY HandleAssumption
    <3>2. \A k \in 0..m-1: slot'[k] = d <=> s[k] = d
      BY <3>1, <2>2, <1>2, <1>11
    <3>3. InTable(d)' <=> \E k \in 0..m-1: slot'[k] = d
      BY <1>2 DEF InTable
    <3> QED BY <3>2, <3>3, <1>4
  <2> QED BY <2>1, <2>2
<1>15. Counted'
  <2> SUFFICES ASSUME NEW d \in Ctx
               PROVE  ref'[d] = Cardinality(Holders(d)') + (IF InTable(d)' THEN 1 ELSE 0)
    BY DEF Counted
  <2>1. CASE d = c
    <3>1. Holders(c)' = {t}
      BY <1>3, <1>6, <1>10 DEF Holders
    <3>2. Cardinality({t}) = 1
      BY FS_Singleton
    <3>3. ref'[c] = 2 /\ InTable(c)'
      BY <1>2, <1>3, <1>6, <1>14
    <3> QED BY <3>1, <3>2, <3>3, <2>1
  <2>2. CASE d # c
    <3>1. Holders(d)' = Holders(d)
      BY <2>2, <1>3, <1>6 DEF Holders
    <3>2. ref'[d] = ref[d]
      BY <2>2, <1>3, <1>6
    <3> QED BY <3>1, <3>2, <2>2, <1>14 DEF Inv, Counted
  <2> QED BY <2>1, <2>2
<1>16. OneSlot'
  <2> SUFFICES ASSUME NEW k \in 0..m-1, NEW l \in 0..m-1, slot'[k] # None, slot'[k] = slot'[l]
               PROVE  k = l
    BY <1>2 DEF OneSlot
  <2>1. CASE k = f \/ l = f
    BY <2>1, <1>11
  <2>2. CASE k # f /\ l # f
    <3>1. s[k] # None /\ s[k] = s[l]
      BY <2>2, <1>11
    <3> QED BY <3>1, <1>4
  <2> QED BY <2>1, <2>2
<1>17. ctx'[t] = c /\ new'[t] = h
  BY <1>3, <1>6
<1>18. OneInit'
  BY <1>12, <1>17 DEF Inv, OneInit
<1>19. Given'
  <2> SUFFICES ASSUME NEW u \in Thread, pc'[u] = "init", ctx'[u] \notin moved', \E k \in 0..m-1: slot'[k] = ctx'[u]
               PROVE  slot'[Hash(new'[u], m)] = ctx'[u]
    BY <1>2 DEF Given, InTable
  <2>1. CASE u = t
    BY <2>1, <1>2, <1>11, <1>17
  <2>2. CASE u # t
    <3>1. pc[u] = "init" /\ ctx[u] # c /\ ctx'[u] = ctx[u] /\ new'[u] = new[u]
      BY <2>2, <1>12
    <3>2. ctx[u] \in Ctx /\ ctx[u] \in Newcomers
      BY <3>1 DEF Inv, Working, Newcomers
    <3>3. ~Full /\ s = slot /\ m = slot_size /\ ctx[u] \notin moved
      BY <3>1, <3>2, <1>3, <1>4
    <3>4. InTable(ctx[u])
      <4>1. PICK k \in 0..m-1: slot'[k] = ctx[u]
        BY <3>1
      <4>2. s[k] = ctx[u]
        BY <4>1, <3>1, <1>11
      <4> QED BY <4>2, <3>2, <1>4
    <3>5. PICK k: k = Hash(new[u], m)
      OBVIOUS
    <3>6. k \in 0..m-1
      BY <3>3, <3>5, <1>5, <1>6, TableIs
    <3>7. s[k] = ctx[u] /\ ctx[u] # None
      BY <3>1, <3>2, <3>3, <3>4, <3>5, HandleAssumption DEF Inv, Given
    <3> QED BY <3>1, <3>5, <3>6, <3>7, <1>2, <1>11
  <2> QED BY <2>1, <2>2
<1>20. Placed'
  <2> SUFFICES ASSUME NEW k \in 0..m-1, slot'[k] # None, Ready(slot[k])', slot'[k] \notin moved'
               PROVE  Hash(handle'[slot'[k]], m) = k
    BY <1>2 DEF Placed
  <2>1. slot'[k] # c
    BY <1>13 DEF Ready
  <2>2. slot'[k] = s[k] /\ s[k] \in Ctx
    BY <2>1, <1>4, <1>11
  <2>3. handle'[s[k]] = handle[s[k]]
    BY <2>1, <2>2, <1>3, <1>6
  <2>4. CASE ~Full /\ s = slot /\ m = slot_size
    <3>1. Ready(s[k])
      BY <2>1, <2>2, <1>13, <1>14 DEF Ready
    <3>2. s[k] \notin moved /\ k \in DOMAIN slot
      BY <2>1, <2>2, <2>4, <1>3, <1>5, TableIs
    <3> QED BY <2>2, <2>3, <2>4, <3>1, <3>2 DEF Inv, Placed
  <2>5. CASE \A l \in 0..m-1: s[l] # None => Hash(handle[s[l]], m) = l
    BY <2>2, <2>3, <2>5
  <2> QED BY <2>4, <2>5, <1>4
<1>21. Working'
  <2> SUFFICES ASSUME NEW u \in Thread
               PROVE  /\ pc'[u] \in {"init", "use", "retire"} => ctx'[u] \in Ctx
                      /\ pc'[u] = "retire" => i[u] < m
    BY <1>2, <1>3 DEF Working
  <2>1. CASE u = t
    BY <2>1, <1>2, <1>3, <1>6
  <2>2. CASE u # t
    <3>1. pc'[u] = pc[u] /\ ctx'[u] = ctx[u]
      BY <2>2, <1>3, <1>6
    <3>2. pc[u] = "retire" => i[u] < m
      <4>1. i[u] \in Nat /\ slot_size \in Nat
        BY <1>5, TableIs, HandleAssumption DEF Typed
      <4>2. pc[u] = "retire" => i[u] < slot_size
        BY DEF Inv, Working
      <4> QED BY <4>1, <4>2, <1>2, <1>4
    <3> QED BY <3>1, <3>2 DEF Inv, Working
  <2> QED BY <2>1, <2>2
<1> QED BY <1>8, <1>9, <1>15, <1>16, <1>18, <1>19, <1>20, <1>21 DEF Inv

-----------------------------------------------------------------------------
LEMMA InitInv == Init => Inv
<1> SUFFICES ASSUME Init PROVE Inv
  OBVIOUS
<1>1. SlotSize \in Nat \ {0} /\ Mask \in Nat /\ None \notin Ctx
  BY HandleAssumption
<1>2. slot \in [0..SlotSize-1 -> Ctx \cup {None}] /\ \A s \in DOMAIN slot: slot[s] = None
  BY DEF Init
<1>3. slot_size = SlotSize
  BY <1>1, <1>2, SizeIs DEF slot_size
<1>4. Typed
  <2>1. 0 \in HandleOf /\ 1 \in 1..Mask+1 /\ 0 \in 0..Mask+1
    BY <1>1 DEF HandleOf
  <2>2. moved \in SUBSET Ctx
    BY DEF Init
  <2> QED BY <2>1, <2>2, <1>2, <1>3, FirstSize DEF Init, Typed
<1>5. Ordered
  <2>1. name = <<>>
    BY DEF Init
  <2> QED BY <2>1 DEF Ordered, Sorted
<1>6. \A t \in Thread: pc[t] = "idle"
  BY DEF Init
<1>7. Counted
  <2> SUFFICES ASSUME NEW c \in Ctx
               PROVE  ref[c] = Cardinality(Holders(c)) + (IF InTable(c) THEN 1 ELSE 0)
    BY DEF Counted
  <2>1. Holders(c) = {}
    BY <1>6 DEF Holders
  <2>2. Cardinality(Holders(c)) = 0
    BY <2>1, FS_EmptySet
  <2>3. ~InTable(c)
    BY <1>1, <1>2 DEF InTable
  <2> QED BY <2>2, <2>3 DEF Init
<1>8. OneSlot /\ Placed
  BY <1>2 DEF OneSlot, Placed
<1>9. OneInit /\ Given /\ Working
  BY <1>6 DEF OneInit, Given, Working
<1> QED BY <1>4, <1>5, <1>7, <1>8, <1>9 DEF Inv

LEMMA StepInv == Inv /\ [Next]_vars => Inv'
<1> SUFFICES ASSUME Inv, [Next]_vars PROVE Inv'
  OBVIOUS
<1>1. CASE UNCHANGED vars
  BY <1>1 DEF Inv, Typed, Ordered, Counted, OneSlot, OneInit, Given, Placed, Working, Ready, InTable,
     Newcomers, Holders, slot_size, vars, table, thread
<1>2. ASSUME NEW t \in Thread, Register(t) PROVE Inv'
  BY <1>2, RegisterStep
<1>3. ASSUME NEW t \in Thread, Grab(t) PROVE Inv'
  BY <1>3, GrabStep
<1>4. ASSUME NEW t \in Thread, Retire(t) PROVE Inv'
  BY <1>4, RetireActionStep
<1>5. ASSUME NEW t \in Thread, NameHandle(t) PROVE Inv'
  BY <1>5, NameHandleStep
<1>6. ASSUME NEW t \in Thread, AbortStart(t) \/ AbortLook(t) \/ AbortRound(t) PROVE Inv'
  BY <1>6, AbortStep
<1>7. ASSUME NEW t \in Thread, ContextInit(t) PROVE Inv'
  BY <1>7, ContextInitStep
<1>8. ASSUME NEW t \in Thread, Release(t) PROVE Inv'
  BY <1>8, ReleaseStep
<1>9. ASSUME NEW t \in Thread, AbortRetire(t) PROVE Inv'
  BY <1>9, AbortRetireStep
<1> QED BY <1>1, <1>2, <1>3, <1>4, <1>5, <1>6, <1>7, <1>8, <1>9 DEF Next, GoOn

(* The table, its counts and its names stay in order.                      *)
THEOREM HandleInvariant == Spec => []Inv
<1>1. Init => Inv
  BY InitInv
<1>2. Inv /\ [Next]_vars => Inv'
  BY StepInv
<1> QED BY <1>1, <1>2, PTL DEF Spec

LEMMA InvReachable == Inv => Reachable
<1> SUFFICES ASSUME Inv PROVE Reachable
  OBVIOUS
<1>1. TypeOK
  <2>1. slot_size \in 1..Mask+1
    BY DEF Inv, Typed, SizeOK
  <2>2. name \in Seq([name: Name, handle: HandleOf])
    BY DEF Inv, Ordered, Sorted
  <2> QED BY <2>1, <2>2 DEF TypeOK, Inv, Typed
<1>2. ASSUME Full, Settled PROVE NoClash
  <2> SUFFICES ASSUME NEW s \in DOMAIN slot, NEW u \in DOMAIN slot, NewSlot(s) = NewSlot(u)
               PROVE  s = u
    BY DEF NoClash
  <2>1. ASSUME NEW k \in DOMAIN slot PROVE NewSlot(k) % slot_size = k
    <3>1. slot_size \in Nat \ {0} /\ slot[k] \in Ctx /\ slot[k] # None
      BY <1>2, TableIs DEF Inv, Full
    <3>2. handle[slot[k]] \in Nat
      <4>1. handle[slot[k]] \in HandleOf
        BY <3>1 DEF Inv, Typed
      <4> QED BY <4>1, HandleAssumption DEF HandleOf
    <3>3. InTable(slot[k])
      BY DEF InTable
    <3>4. Ready(slot[k]) /\ slot[k] \notin moved
      BY <1>2, <3>1, <3>3 DEF Settled
    <3>5. Hash(handle[slot[k]], slot_size) = k
      BY <3>1, <3>4 DEF Inv, Placed
    <3> QED BY <3>1, <3>2, <3>5, HashDouble DEF NewSlot
  <2> QED BY <2>1
<1>3. ASSUME NEW c \in Ctx, Ready(c), c \notin moved PROVE Found(handle[c]) = c
  <2>1. PICK s \in DOMAIN slot: slot[s] = c
    BY <1>3 DEF Ready, InTable
  <2>2. c # None
    BY HandleAssumption
  <2>3. Hash(handle[c], slot_size) = s
    BY <1>3, <2>1, <2>2 DEF Inv, Placed
  <2> QED BY <2>1, <2>2, <2>3 DEF Found
<1> QED BY <1>1, <1>2, <1>3 DEF Reachable

(* Whatever others do to the table while services wait for their handles,  *)
(* a service with a handle is found under it after any wraps of the        *)
(* counter, retirements and growth of the table, unless the last growth    *)
(* hashed it without its handle.                                           *)
THEOREM EveryServiceIsFound == Spec => []Reachable
<1>1. Inv => Reachable
  BY InvReachable
<1> QED BY <1>1, HandleInvariant, PTL

-----------------------------------------------------------------------------
(* The refinement of Directory.                                            *)
LEMMA Looked ==
    ASSUME NEW list, Sorted(list), NEW x
    PROVE  /\ \A k \in DOMAIN list: list[k].name = x => Lookup(list, x) = list[k].handle
           /\ (\A k \in DOMAIN list: list[k].name # x) => Lookup(list, x) = None
<1>1. ASSUME NEW k \in DOMAIN list, list[k].name = x PROVE Lookup(list, x) = list[k].handle
  <2>1. (CHOOSE r \in {list[l] : l \in DOMAIN list} : r.name = x) = list[k]
    BY <1>1, TheHandle
  <2> QED BY <2>1, <1>1 DEF Lookup
<1>2. (\A k \in DOMAIN list: list[k].name # x) => Lookup(list, x) = None
  BY DEF Lookup
<1> QED BY <1>1, <1>2

LEMMA LookupRetired ==
    ASSUME NEW list, Sorted(list), NEW h, NEW w,
           w = Sublist(list, {k \in DOMAIN list : list[k].handle # h}), NEW x
    PROVE  Lookup(w, x) = IF Lookup(list, x) = h THEN None ELSE Lookup(list, x)
<1>1. PICK at \in SUBSET DOMAIN list: at = {k \in DOMAIN list : list[k].handle # h}
  <2>1. {k \in DOMAIN list : list[k].handle # h} \in SUBSET DOMAIN list
    OBVIOUS
  <2> QED BY <2>1
<1>2. /\ Sorted(w)
      /\ \A r: (\E k \in DOMAIN w: w[k] = r) <=> \E k \in at: list[k] = r
  BY <1>1, SublistSorted
<1>3. CASE \A k \in DOMAIN list: list[k].name # x
  <2>1. Lookup(list, x) = None
    BY <1>3, Looked
  <2>2. ASSUME NEW k \in DOMAIN w PROVE w[k].name # x
    <3>1. PICK j \in at: list[j] = w[k]
      BY <1>2
    <3> QED BY <3>1, <1>3
  <2>3. Lookup(w, x) = None
    BY <1>2, <2>2, Looked
  <2> QED BY <2>1, <2>3
<1>4. ASSUME NEW k \in DOMAIN list, list[k].name = x
      PROVE  Lookup(w, x) = IF Lookup(list, x) = h THEN None ELSE Lookup(list, x)
  <2>1. Lookup(list, x) = list[k].handle
    BY <1>4, Looked
  <2>2. CASE list[k].handle = h
    <3>1. ASSUME NEW l \in DOMAIN w, w[l].name = x PROVE FALSE
      <4>1. PICK j \in at: list[j] = w[l]
        BY <1>2
      <4>2. j = k
        BY <4>1, <3>1, <1>1, <1>4, NameOnce
      <4> QED BY <4>1, <4>2, <2>2, <1>1
    <3>2. Lookup(w, x) = None
      BY <1>2, <3>1, Looked
    <3> QED BY <3>2, <2>1, <2>2
  <2>3. CASE list[k].handle # h
    <3>1. PICK l \in DOMAIN w: w[l] = list[k]
      BY <2>3, <1>1, <1>2
    <3>2. Lookup(w, x) = list[k].handle
      BY <1>2, <1>4, <3>1, Looked
    <3> QED BY <3>2, <2>1, <2>3
  <2> QED BY <2>2, <2>3
<1> QED BY <1>3, <1>4

LEMMA LookupInserted ==
    ASSUME Ordered, NEW x \in Name, NEW h \in HandleOf, ~Search(x).found,
           NEW r, r = [name |-> x, handle |-> h], NEW w, w = InsertBefore(r, Search(x).at)
    PROVE  /\ Lookup(name, x) = None
           /\ \A y: Lookup(w, y) = IF y = x THEN h ELSE Lookup(name, y)
<1>1. /\ Sorted(w)
      /\ \A k \in DOMAIN name: name[k].name # x
      /\ \A q: (\E k \in DOMAIN w: w[k] = q) <=> q = r \/ \E k \in DOMAIN name: name[k] = q
  <2>1. Put(w, r)
    BY InsertSorted
  <2>2. r.name = x
    OBVIOUS
  <2> QED BY <2>1, <2>2 DEF Put
<1>2. Sorted(name)
  BY DEF Ordered
<1>3. Lookup(name, x) = None
  BY <1>1, <1>2, Looked
<1>4. Lookup(w, x) = h
  <2>1. PICK k \in DOMAIN w: w[k] = r
    BY <1>1
  <2> QED BY <2>1, <1>1, Looked
<1>5. ASSUME NEW y, y # x PROVE Lookup(w, y) = Lookup(name, y)
  <2>1. CASE \A k \in DOMAIN name: name[k].name # y
    <3>1. \A k \in DOMAIN w: w[k].name # y
      BY <2>1, <1>1, <1>5
    <3> QED BY <3>1, <2>1, <1>1, <1>2, Looked
  <2>2. ASSUME NEW k \in DOMAIN name, name[k].name = y PROVE Lookup(w, y) = Lookup(name, y)
    <3>1. PICK l \in DOMAIN w: w[l] = name[k]
      BY <1>1
    <3>2. Lookup(w, y) = name[k].handle
      BY <3>1, <2>2, <1>1, Looked
    <3>3. Lookup(name, y) = name[k].handle
      BY <2>2, <1>2, Looked
    <3> QED BY <3>2, <3>3
  <2> QED BY <2>1, <2>2
<1> QED BY <1>3, <1>4, <1>5

LEMMA BoundIs ==
    ASSUME NEW h \in HandleOf
    PROVE  /\ Bound[h] = IF Found(h) \in Newcomers THEN None ELSE Found(h)
           /\ Bound'[h] = IF Found(h)' \in Newcomers' THEN None ELSE Found(h)'
BY DEF Bound

LEMMA QuietBound ==
    ASSUME slot' = slot, handle' = handle, Newcomers' = Newcomers
    PROVE  Bound' = Bound
<1>1. \A h: Found(h)' = Found(h)
  BY DEF Found, slot_size
<1> QED BY <1>1 DEF Bound

LEMMA InitDirectory ==
    ASSUME Init
    PROVE  Dir!Init
<1>1. Inv
  BY InitInv
<1>2. \A s \in DOMAIN slot: slot[s] = None
  BY DEF Init
<1>3. \A h \in HandleOf: Found(h) = None
  BY <1>1, <1>2, TableIs DEF Inv, Found
<1>4. Newcomers = {}
  BY DEF Init, Newcomers
<1>5. Bound = [h \in HandleOf |-> None]
  BY <1>3, <1>4 DEF Bound
<1>6. \A x: Lookup(name, x) = None
  BY DEF Init, Lookup
<1> QED BY <1>5, <1>6 DEF Dir!Init, Named

LEMMA RetireDirectory ==
    ASSUME Inv, NEW h \in HandleOf, RetireHandle(h), handle' = handle, Newcomers' = Newcomers
    PROVE  [Dir!Next]_(Dir!vars)
<1>1. CASE Found(h) = None
  <2>1. slot' = slot /\ name' = name
    BY <1>1 DEF RetireHandle
  <2>2. Bound' = Bound
    BY <2>1, QuietBound
  <2>3. Named' = Named
    BY <2>1 DEF Named
  <2> QED BY <2>2, <2>3 DEF Dir!vars
<1>2. CASE Found(h) # None
  <2>1. PICK f \in DOMAIN slot: f = Hash(h, slot_size) /\ slot[f] = Found(h) /\ handle[slot[f]] = h
    BY <1>2, FoundIs DEF Inv
  <2>2. /\ slot' = [slot EXCEPT ![f] = None]
        /\ name' = Sublist(name, {k \in DOMAIN name : name[k].handle # h})
    BY <1>2, <2>1 DEF RetireHandle
  <2>3. DOMAIN slot' = DOMAIN slot /\ \A s \in DOMAIN slot: slot'[s] = IF s = f THEN None ELSE slot[s]
    BY <2>2 DEF Inv, Typed
  <2>4. slot_size' = slot_size
    BY <2>3 DEF slot_size
  <2>5. \A k \in HandleOf: Bound'[k] = IF k = h THEN None ELSE Bound[k]
    <3> SUFFICES ASSUME NEW k \in HandleOf PROVE Bound'[k] = IF k = h THEN None ELSE Bound[k]
      OBVIOUS
    <3>1. PICK l \in DOMAIN slot: l = Hash(k, slot_size)
      BY TableIs DEF Inv
    <3>2. /\ Found(k)  = IF slot[l] # None /\ handle[slot[l]] = k THEN slot[l] ELSE None
          /\ Found(k)' = IF slot'[l] # None /\ handle[slot'[l]] = k THEN slot'[l] ELSE None
      BY <3>1, <2>4 DEF Found
    <3>3. CASE l = f
      <4>1. Found(k)' = None /\ (k # h => Found(k) = None)
        BY <3>2, <3>3, <2>1, <2>3
      <4> QED BY <4>1, BoundIs
    <3>4. CASE l # f
      <4>1. Found(k)' = Found(k) /\ k # h
        BY <3>1, <3>2, <3>4, <2>1, <2>3
      <4> QED BY <4>1, BoundIs
    <3> QED BY <3>3, <3>4
  <2>6. Named' = [x \in Name |-> IF Named[x] = h THEN None ELSE Named[x]]
    <3>1. Sorted(name)
      BY DEF Inv, Ordered
    <3>2. PICK w: w = Sublist(name, {k \in DOMAIN name : name[k].handle # h})
      OBVIOUS
    <3>3. \A x: Lookup(w, x) = IF Lookup(name, x) = h THEN None ELSE Lookup(name, x)
      BY <3>1, <3>2, LookupRetired
    <3>4. Named' = [x \in Name |-> Lookup(w, x)]
      BY <3>2, <2>2 DEF Named
    <3>5. \A x \in Name: Named[x] = Lookup(name, x)
      BY DEF Named
    <3> QED BY <3>3, <3>4, <3>5
  <2>7. Bound' = [Bound EXCEPT ![h] = None]
    <3>1. Bound' = [k \in HandleOf |-> Bound'[k]] /\ Bound = [k \in HandleOf |-> Bound[k]]
      BY DEF Bound
    <3>2. [Bound EXCEPT ![h] = None] = [k \in HandleOf |-> IF k = h THEN None ELSE Bound[k]]
      BY <3>1
    <3> QED BY <3>1, <3>2, <2>5
  <2>8. Dir!Retire(h)
    BY <2>6, <2>7 DEF Dir!Retire
  <2> QED BY <2>8 DEF Dir!Next
<1> QED BY <1>1, <1>2

(* Steps that only bind handles.                                           *)
LEMMA BindDirectory ==
    ASSUME Typed', name' = name, \A h \in HandleOf: Bound[h] # None => Bound'[h] = Bound[h]
    PROVE  [Dir!Next]_(Dir!vars)
<1>1. ASSUME NEW h \in HandleOf
      PROVE  /\ Found(h)' \in Ctx \cup {None}
             /\ Found(h)' # None => handle'[Found(h)'] = h
  <2>1. PICK m: m = slot_size'
    OBVIOUS
  <2>2. SizeOK(m) /\ slot' \in [0..m-1 -> Ctx \cup {None}]
    BY <2>1 DEF Typed
  <2>3. m \in Nat
    BY <2>2, HandleAssumption DEF SizeOK
  <2>4. Hash(h, m) \in 0..m-1
    BY <2>2, <2>3, HandleAssumption, HashIs
  <2>5. PICK c: c = slot'[Hash(h, m)]
    OBVIOUS
  <2>6. c \in Ctx \cup {None}
    BY <2>2, <2>4, <2>5
  <2>7. Found(h)' = IF c # None /\ handle'[c] = h THEN c ELSE None
    BY <2>1, <2>5 DEF Found
  <2> QED BY <2>6, <2>7
<1>2. \A h \in HandleOf: Bound'[h] \in Ctx \cup {None} /\ (Bound'[h] # None => Bound'[h] = Found(h)')
  BY <1>1, BoundIs
<1>3. Bound' \in [HandleOf -> Ctx \cup {None}]
  <2>1. Bound' = [h \in HandleOf |-> Bound'[h]]
    BY DEF Bound
  <2> QED BY <2>1, <1>2
<1>4. \A g, h \in HandleOf: Bound'[g] = Bound'[h] /\ Bound'[g] # None => g = h
  BY <1>1, <1>2
<1>5. Named' = Named
  BY DEF Named
<1>6. Dir!Register
  BY <1>3, <1>4, <1>5 DEF Dir!Register
<1> QED BY <1>6 DEF Dir!Next

LEMMA RegisterDirectory ==
    ASSUME Inv, NEW t \in Thread, Register(t)
    PROVE  [Dir!Next]_(Dir!vars)
<1>1. PICK s, m, h, f, c, g: Registers(t, s, m, h, f, c, g)
  BY RegisterIs
<1>2. /\ m \in Nat \ {0} /\ Grown(s, m) /\ f = Hash(h, m) /\ s[f] = None
      /\ c \in Ctx /\ ref[c] = 0 /\ slot_size' = m /\ slot' = [s EXCEPT ![f] = c]
      /\ slot' \in [0..m-1 -> Ctx \cup {None}]
  BY <1>1 DEF Registers
<1>3. /\ name' = name /\ pc[t] = "idle" /\ ctx' = [ctx EXCEPT ![t] = c]
      /\ handle' = [handle EXCEPT ![c] = g] /\ pc' = [pc EXCEPT ![t] = "init"]
  BY <1>1 DEF Registers
<1>4. ~InTable(c) /\ c # None
  BY <1>2, NoRefForgotten, HandleAssumption
<1>5. \A d: d \in Newcomers' => d \in Newcomers \/ d = c
  BY <1>3 DEF Newcomers, Inv, Typed
<1>6. /\ SizeOK(m) /\ s \in [0..m-1 -> Ctx \cup {None}]
      /\ \A k \in HandleOf: Found(k) # None => s[Hash(k, m)] = Found(k)
  BY <1>2 DEF Grown, Fits, Room
<1>7. ASSUME NEW k \in HandleOf, Bound[k] # None PROVE Bound'[k] = Bound[k]
  <2>1. PICK d: d = Found(k)
    OBVIOUS
  <2>2. d # None /\ d \notin Newcomers /\ Bound[k] = d
    BY <1>7, <2>1, BoundIs
  <2>3. d \in Ctx /\ handle[d] = k /\ InTable(d)
    BY <2>1, <2>2, FoundIs DEF Inv
  <2>4. d # c /\ handle'[d] = k
    BY <2>3, <1>3, <1>4 DEF Inv, Typed
  <2>5. PICK l \in 0..m-1: l = Hash(k, m)
    BY <1>2, <1>6, HashIs
  <2>6. s[l] = d
    BY <2>1, <2>2, <2>5, <1>6
  <2>7. slot'[l] = d
    BY <2>2, <2>6, <1>2, <1>6
  <2>8. Found(k)' = d
    BY <2>2, <2>4, <2>5, <2>7, <1>2 DEF Found
  <2> QED BY <2>2, <2>4, <2>8, <1>5, BoundIs
<1>8. Typed'
  BY RegisterStep DEF Inv
<1> QED BY <1>3, <1>7, <1>8, BindDirectory

LEMMA ContextInitDirectory ==
    ASSUME Inv, NEW t \in Thread, ContextInit(t)
    PROVE  [Dir!Next]_(Dir!vars)
<1>1. PICK c \in Ctx: c = ctx[t]
  BY DEF Inv, Working, ContextInit
<1>2. /\ pc[t] = "init" /\ handle' = [handle EXCEPT ![c] = new[t]]
      /\ pc' = [pc EXCEPT ![t] = "use"] /\ slot' = slot /\ name' = name /\ ctx' = ctx
  BY <1>1 DEF ContextInit, table
<1>3. slot_size' = slot_size /\ c \in Newcomers
  BY <1>1, <1>2 DEF slot_size, Newcomers
<1>4. \A d: d \in Newcomers' => d \in Newcomers
  BY <1>2 DEF Newcomers, Inv, Typed
<1>5. ASSUME NEW k \in HandleOf, Bound[k] # None PROVE Bound'[k] = Bound[k]
  <2>1. PICK d: d = Found(k)
    OBVIOUS
  <2>2. d # None /\ d \notin Newcomers /\ Bound[k] = d
    BY <1>5, <2>1, BoundIs
  <2>3. d \in Ctx /\ handle[d] = k /\ slot[Hash(k, slot_size)] = d
    BY <2>1, <2>2, FoundIs DEF Inv
  <2>4. d # c /\ handle'[d] = k
    BY <2>2, <2>3, <1>2, <1>3 DEF Inv, Typed
  <2>5. Found(k)' = d
    BY <2>2, <2>3, <2>4, <1>2, <1>3 DEF Found
  <2> QED BY <2>2, <2>5, <1>4, BoundIs
<1>6. Typed'
  BY ContextInitStep DEF Inv
<1> QED BY <1>2, <1>5, <1>6, BindDirectory

LEMMA NameHandleDirectory ==
    ASSUME Inv, NEW t \in Thread, NameHandle(t)
    PROVE  [Dir!Next]_(Dir!vars)
<1>1. PICK x \in Name: /\ ~Search(x).found
                       /\ name' = InsertBefore([name |-> x, handle |-> handle[ctx[t]]], Search(x).at)
  BY DEF NameHandle
<1>2. pc[t] = "use" /\ slot' = slot /\ handle' = handle /\ pc' = pc /\ ctx' = ctx /\ new' = new
  BY DEF NameHandle, thread
<1>3. PICK h \in HandleOf: h = handle[ctx[t]]
  BY <1>2 DEF Inv, Working, Typed
<1>4. PICK r: r = [name |-> x, handle |-> h]
  OBVIOUS
<1>5. PICK w: w = InsertBefore(r, Search(x).at)
  OBVIOUS
<1>6. /\ Lookup(name, x) = None
      /\ \A y: Lookup(w, y) = IF y = x THEN h ELSE Lookup(name, y)
  BY <1>1, <1>4, <1>5, LookupInserted DEF Inv
<1>7. Named' = [y \in Name |-> Lookup(w, y)]
  BY <1>1, <1>3, <1>4, <1>5 DEF Named
<1>8. Named = [y \in Name |-> Lookup(name, y)]
  BY DEF Named
<1>9. Named[x] = None /\ Named' = [Named EXCEPT ![x] = h]
  BY <1>6, <1>7, <1>8
<1>10. Newcomers' = Newcomers
  BY <1>2 DEF Newcomers
<1>11. Bound' = Bound
  BY <1>2, <1>10, QuietBound
<1>12. Dir!NameHandle(h, x)
  BY <1>9, <1>11 DEF Dir!NameHandle
<1> QED BY <1>12 DEF Dir!Next

LEMMA StutterDirectory ==
    ASSUME Inv, NEW t \in Thread,
           Grab(t) \/ Release(t) \/ AbortStart(t) \/ AbortLook(t) \/ AbortRound(t)
    PROVE  [Dir!Next]_(Dir!vars)
<1>1. slot' = slot /\ handle' = handle /\ name' = name /\ new' = new
  BY DEF Grab, Release, AbortStart, AbortLook, AbortRound, table
<1>2. /\ pc \in [Thread -> {"idle", "init", "use", "scan", "retire"}]
      /\ ctx \in [Thread -> Ctx \cup {None}]
  BY DEF Inv, Typed
<1>3. /\ pc[t] # "init" /\ pc'[t] # "init"
      /\ \A u \in Thread: u # t => pc'[u] = pc[u] /\ ctx'[u] = ctx[u]
  <2>1. CASE Grab(t)
    BY <2>1, <1>2 DEF Grab
  <2>2. CASE Release(t)
    BY <2>2, <1>2 DEF Release
  <2>3. CASE AbortStart(t)
    BY <2>3, <1>2 DEF AbortStart
  <2>4. CASE AbortLook(t)
    BY <2>4, <1>2 DEF AbortLook
  <2>5. CASE AbortRound(t)
    <3>1. pc[t] = "scan" /\ ctx' = ctx /\ \E p \in {"idle", "scan"}: pc' = [pc EXCEPT ![t] = p]
      BY <2>5 DEF AbortRound
    <3> QED BY <3>1, <1>2
  <2> QED BY <2>1, <2>2, <2>3, <2>4, <2>5
<1>4. \A u \in Thread: /\ (pc'[u] = "init") <=> (pc[u] = "init")
                       /\ pc[u] = "init" => ctx'[u] = ctx[u]
  BY <1>3
<1>5. Bound' = Bound
  BY <1>1, <1>4, SameNewcomers, QuietBound
<1>6. Named' = Named
  BY <1>1 DEF Named
<1> QED BY <1>5, <1>6 DEF Dir!vars

LEMMA StepDirectory == Inv /\ [Next]_vars => [Dir!Next]_(Dir!vars)
<1> SUFFICES ASSUME Inv, [Next]_vars PROVE [Dir!Next]_(Dir!vars)
  OBVIOUS
<1>1. CASE UNCHANGED vars
  <2>1. slot' = slot /\ handle' = handle /\ name' = name /\ pc' = pc /\ ctx' = ctx
    BY <1>1 DEF vars, table, thread
  <2>2. Bound' = Bound
    BY <2>1, SameNewcomers, QuietBound
  <2>3. Named' = Named
    BY <2>1 DEF Named
  <2> QED BY <2>2, <2>3 DEF Dir!vars
<1>2. ASSUME NEW t \in Thread, Register(t) PROVE [Dir!Next]_(Dir!vars)
  BY <1>2, RegisterDirectory
<1>3. ASSUME NEW t \in Thread, ContextInit(t) PROVE [Dir!Next]_(Dir!vars)
  BY <1>3, ContextInitDirectory
<1>4. ASSUME NEW t \in Thread, Retire(t) PROVE [Dir!Next]_(Dir!vars)
  <2>1. PICK h \in HandleOf: RetireHandle(h)
    BY <1>4 DEF Retire
  <2>2. handle' = handle /\ pc' = pc /\ ctx' = ctx
    BY <1>4 DEF Retire, thread
  <2>3. Newcomers' = Newcomers
    BY <2>2, SameNewcomers
  <2> QED BY <2>1, <2>2, <2>3, RetireDirectory
<1>5. ASSUME NEW t \in Thread, AbortRetire(t) PROVE [Dir!Next]_(Dir!vars)
  <2>1. /\ pc[t] = "retire" /\ handle' = handle /\ pc' = [pc EXCEPT ![t] = "scan"]
        /\ ctx' = [ctx EXCEPT ![t] = None]
    BY <1>5 DEF AbortRetire
  <2>2. ctx[t] \in Ctx /\ handle \in [Ctx -> HandleOf]
    BY <2>1 DEF Inv, Working, Typed
  <2>3. PICK h \in HandleOf: RetireHandle(h)
    BY <1>5, <2>2 DEF AbortRetire
  <2>4. Newcomers' = Newcomers
    BY <2>1, SameNewcomers DEF Inv, Typed
  <2> QED BY <2>1, <2>3, <2>4, RetireDirectory
<1>6. ASSUME NEW t \in Thread, NameHandle(t) PROVE [Dir!Next]_(Dir!vars)
  BY <1>6, NameHandleDirectory
<1>7. ASSUME NEW t \in Thread,
             Grab(t) \/ Release(t) \/ AbortStart(t) \/ AbortLook(t) \/ AbortRound(t)
      PROVE  [Dir!Next]_(Dir!vars)
  BY <1>7, StutterDirectory
<1> QED BY <1>1, <1>2, <1>3, <1>4, <1>5, <1>6, <1>7 DEF Next, GoOn

(* The table implements Directory: a handle names one live service until   *)
(* it is retired, its names go with it, and a taken name stays.            *)
THEOREM TableIsDirectory == Spec => ImplementsDirectory
<1>1. Init => Dir!Init
  BY InitDirectory
<1>2. Inv /\ [Next]_vars => [Dir!Next]_(Dir!vars)
  BY StepDirectory
<1> QED BY <1>1, <1>2, HandleInvariant, PTL DEF Spec, ImplementsDirectory, Dir!Spec

-----------------------------------------------------------------------------
(* The binary search of skynet_handle_findname is exact: the names stay in *)
(* order through every insertion and every retirement.                     *)
THEOREM SearchIsExact == Spec => []FindsNames
<1>1. Inv => FindsNames
  BY OrderedFinds DEF Inv
<1> QED BY <1>1, HandleInvariant, PTL
=============================================================================
