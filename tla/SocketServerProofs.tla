------------------------- MODULE SocketServerProofs -------------------------
(***************************************************************************)
(* Theorems about SocketServer, for every number of slots, ids and         *)
(* requests and every length of a package.                                 *)
(***************************************************************************)
EXTENDS SocketServer, SequenceTheorems, FiniteSetTheorems, TLAPS

-----------------------------------------------------------------------------
(* Blocks of Length units.                                                 *)
LEMMA Division ==
    ASSUME NEW n \in Nat \ {0}, NEW x \in Nat
    PROVE  /\ x \div n \in Nat /\ x % n \in 0..n-1
           /\ x = n * (x \div n) + (x % n)
OBVIOUS

LEMMA BlockIs ==
    ASSUME NEW j \in Nat \ {0}
    PROVE  /\ Block(j) \in Nat
           /\ Length * Block(j) < j /\ j <= Length * Block(j) + Length
<1>1. Length \in Nat \ {0} /\ j - 1 \in Nat
  BY SocketAssumption
<1>2. PICK b \in Nat, c \in 0..Length-1: b = (j - 1) \div Length /\ j - 1 = Length * b + c
  BY <1>1, Division
<1>3. PICK lb \in Nat: lb = Length * b
  BY <1>1
<1> QED BY <1>1, <1>2, <1>3 DEF Block

LEMMA Scale ==
    ASSUME NEW n \in Nat \ {0}, NEW a \in Int, NEW b \in Int, a < b
    PROVE  n * a + n <= n * b
<1>1. a + 1 <= b
  OBVIOUS
<1>2. n * (a + 1) <= n * b
  BY <1>1
<1> QED BY <1>2

LEMMA BlockOnly ==
    ASSUME NEW j \in Nat \ {0}, NEW b \in Nat, Length * b < j, j <= Length * b + Length
    PROVE  Block(j) = b
<1>1. PICK n \in Nat \ {0}: n = Length
  BY SocketAssumption
<1>2. PICK c \in Nat: c = Block(j) /\ n * c < j /\ j <= n * c + n
  BY <1>1, BlockIs
<1>3. PICK nb \in Nat, nc \in Nat: nb = n * b /\ nc = n * c
  OBVIOUS
<1>4. ~(b < c)
  <2>1. SUFFICES ASSUME b < c PROVE FALSE
    OBVIOUS
  <2>2. nb + n <= nc
    BY <2>1, <1>3, Scale
  <2> QED BY <2>2, <1>1, <1>2, <1>3
<1>5. ~(c < b)
  <2>1. SUFFICES ASSUME c < b PROVE FALSE
    OBVIOUS
  <2>2. nc + n <= nb
    BY <2>1, <1>3, Scale
  <2> QED BY <2>2, <1>1, <1>2, <1>3
<1> QED BY <1>2, <1>4, <1>5

(* A number of whole packages.                                             *)
LEMMA WholeIs ==
    ASSUME NEW x \in Nat
    PROVE  x % Length = 0 <=> \E q \in Nat: x = Length * q
<1>1. PICK n \in Nat \ {0}: n = Length
  BY SocketAssumption
<1>2. ASSUME x % n = 0 PROVE \E q \in Nat: x = n * q
  <2>1. PICK d \in Nat, c \in 0..n-1: c = x % n /\ x = n * d + c
    BY Division
  <2> QED BY <2>1, <1>2
<1>3. ASSUME NEW q \in Nat, x = n * q PROVE x % n = 0
  <2>1. PICK d \in Nat, c \in 0..n-1: c = x % n /\ x = n * d + c
    BY Division
  <2>2. PICK nd \in Nat, nq \in Nat: nd = n * d /\ nq = n * q
    OBVIOUS
  <2>6. x = nd + c /\ x = nq /\ c < n
    <3>1. x = nq
      BY <2>2, <1>3
    <3>2. x = n * d + c /\ c < n
      BY <2>1
    <3> HIDE <2>1
    <3>3. x = nd + c
      BY <3>2, <2>2
    <3> QED BY <3>1, <3>2, <3>3
  <2>3. ~(d < q)
    <3>1. SUFFICES ASSUME d < q PROVE FALSE
      OBVIOUS
    <3>2. nd + n <= nq
      BY <3>1, <2>2, Scale
    <3> QED BY <3>2, <2>6
  <2>4. ~(q < d)
    <3>1. SUFFICES ASSUME q < d PROVE FALSE
      OBVIOUS
    <3>2. nq + n <= nd
      BY <3>1, <2>2, Scale
    <3> QED BY <3>2, <2>6
  <2>5. d = q
    BY <2>3, <2>4
  <2> QED BY <2>1, <2>5, <1>3
<1> QED BY <1>1, <1>2, <1>3

LEMMA WholeAdds ==
    ASSUME NEW x \in Nat, NEW y \in Nat, x % Length = 0
    PROVE  (x + y) % Length = 0 <=> y % Length = 0
<1>1. PICK n \in Nat \ {0}: n = Length
  BY SocketAssumption
<1>2. PICK p \in Nat: x = n * p
  BY <1>1, WholeIs
<1>3. ASSUME y % Length = 0 PROVE (x + y) % Length = 0
  <2>1. PICK q \in Nat: y = n * q
    BY <1>1, <1>3, WholeIs
  <2>2. p + q \in Nat /\ x + y = n * (p + q) /\ x + y \in Nat
    BY <2>1, <1>2
  <2> QED BY <2>2, <1>1, WholeIs
<1>4. ASSUME (x + y) % Length = 0 PROVE y % Length = 0
  <2>1. x + y \in Nat
    OBVIOUS
  <2>2. PICK q \in Nat: x + y = n * q
    BY <2>1, <1>1, <1>4, WholeIs
  <2>3. ~(q < p)
    <3>1. SUFFICES ASSUME q < p PROVE FALSE
      OBVIOUS
    <3>2. n * q + n <= n * p
      BY <3>1, Scale
    <3>3. PICK np \in Nat, nq \in Nat: np = n * p /\ nq = n * q
      OBVIOUS
    <3> QED BY <3>2, <3>3, <2>2, <1>2
  <2>4. q - p \in Nat /\ y = n * (q - p)
    BY <2>2, <2>3, <1>2
  <2> QED BY <2>4, <1>1, WholeIs
<1> QED BY <1>3, <1>4

(* Where the blocks of m = Length * q units and more are.                  *)
LEMMA BlockAt ==
    ASSUME NEW q \in Nat, NEW m \in Nat, m = Length * q, NEW j \in Nat \ {0}
    PROVE  /\ j <= m => Block(j) < q
           /\ m < j /\ j <= m + Length => Block(j) = q
           /\ m + Length < j => Block(j) > q /\ Block(j - Length) = Block(j) - 1
<1>1. PICK n \in Nat \ {0}: n = Length
  BY SocketAssumption
<1>2. PICK b \in Nat: b = Block(j) /\ n * b < j /\ j <= n * b + n
  BY <1>1, BlockIs
<1>3. PICK nb \in Nat, nq \in Nat: nb = n * b /\ nq = n * q
  OBVIOUS
<1>4. m = nq /\ nb < j /\ j <= nb + n
  BY <1>1, <1>2, <1>3
<1>5. ASSUME j <= m PROVE b < q
  <2>1. SUFFICES ASSUME ~(b < q) PROVE FALSE
    OBVIOUS
  <2>2. b = q \/ q < b
    BY <2>1
  <2>3. nq <= nb
    <3>1. CASE b = q
      BY <3>1, <1>3
    <3>2. CASE q < b
      <4>1. nq + n <= nb
        BY <3>2, <1>3, Scale
      <4> QED BY <4>1
    <3> QED BY <2>2, <3>1, <3>2
  <2> QED BY <2>3, <1>4, <1>5
<1>6. ASSUME m < j, j <= m + n PROVE Block(j) = q
  <2>1. Length * q < j /\ j <= Length * q + Length
    BY <1>1, <1>6
  <2> QED BY <2>1, BlockOnly
<1>7. ASSUME m + n < j PROVE b > q /\ Block(j - n) = b - 1
  <2>1. b > q
    <3>1. SUFFICES ASSUME ~(b > q) PROVE FALSE
      OBVIOUS
    <3>2. b = q \/ b < q
      BY <3>1
    <3>3. nb <= nq
      <4>1. CASE b = q
        BY <4>1, <1>3
      <4>2. CASE b < q
        <5>1. nb + n <= nq
          BY <4>2, <1>3, Scale
        <5> QED BY <5>1
      <4> QED BY <3>2, <4>1, <4>2
    <3> QED BY <3>3, <1>4, <1>7
  <2>2. b - 1 \in Nat /\ n * (b - 1) = nb - n
    BY <2>1, <1>3
  <2>3. j - n \in Nat \ {0}
    BY <1>7
  <2>4. n * (b - 1) < j - n /\ j - n <= n * (b - 1) + n
    BY <2>2, <1>4
  <2>5. Length * (b - 1) < j - n /\ j - n <= Length * (b - 1) + Length
    BY <2>4, <1>1
  <2> QED BY <2>1, <2>2, <2>3, <2>5, BlockOnly
<1> QED BY <1>1, <1>2, <1>5, <1>6, <1>7

-----------------------------------------------------------------------------
(* Rows of whole packages.                                                 *)
Row(u) ==
    /\ Len(u) % Length = 0
    /\ \A j, k \in DOMAIN u: Block(j) = Block(k) <=> u[j] = u[k]
    /\ \A j, k \in DOMAIN u: j < k /\ u[j].low = u[k].low => u[j].n <= u[k].n

(* v is u with a package p after its first m units.                        *)
Inserted(v, u, m, p) ==
    /\ Len(v) = Len(u) + Length
    /\ \A k \in 1..m: v[k] = u[k]
    /\ \A k \in m+1..m+Length: v[k] = p
    /\ \A k \in m+Length+1..Len(v): v[k] = u[k - Length]

LEMMA RowGrows ==
    ASSUME NEW u \in Seq(Package), NEW v \in Seq(Package), NEW p \in Package, NEW m \in 0..Len(u),
           Row(u), m % Length = 0, Inserted(v, u, m, p),
           \A k \in 1..Len(u): u[k].n < p.n,
           \A k \in m+1..Len(u): u[k].low # p.low
    PROVE  Row(v)
<1>1. PICK L \in Nat \ {0}: L = Length
  BY SocketAssumption
<1>2. PICK q \in Nat: m = L * q
  <2>1. m \in Nat
    OBVIOUS
  <2>2. \E q \in Nat: m = Length * q
    BY <2>1, WholeIs
  <2> QED BY <2>2, <1>1
<1>3. PICK nu \in Nat, nv \in Nat: nu = Len(u) /\ nv = Len(v)
  OBVIOUS
<1>4. nv = nu + L /\ m \in 0..nu /\ DOMAIN v = 1..nv /\ DOMAIN u = 1..nu
  BY <1>1, <1>3 DEF Inserted
<1>5. nv % Length = 0
  <2>1. Length % Length = 0
    <3>1. L \in Nat /\ 1 \in Nat /\ L = L * 1
      OBVIOUS
    <3>2. \E c \in Nat: L = Length * c
      BY <3>1, <1>1
    <3> QED BY <3>2, <1>1, WholeIs
  <2>2. nu % Length = 0
    BY <1>3 DEF Row
  <2>3. (nu + L) % Length = 0 <=> L % Length = 0
    BY <2>2, WholeAdds
  <2> QED BY <2>1, <2>3, <1>1, <1>4
<1> DEFINE New(k) == m < k /\ k <= m + L
           Old(k) == IF k <= m THEN k ELSE k - L
<1>6. ASSUME NEW k \in 1..nv
      PROVE  /\ New(k) => v[k] = p /\ Block(k) = q
             /\ ~New(k) => /\ Old(k) \in 1..nu /\ v[k] = u[Old(k)] /\ Block(k) # q
                           /\ Block(Old(k)) = IF Block(k) < q THEN Block(k) ELSE Block(k) - 1
                           /\ (k <= m <=> Block(k) < q)
                           /\ Block(k) \in Nat
  <2>1. k \in Nat \ {0}
    OBVIOUS
  <2>2. PICK b \in Nat: b = Block(k)
    BY <2>1, BlockIs
  <2>3. CASE k <= m
    <3>1. b < q
      BY <1>1, <1>2, <2>1, <2>2, <2>3, BlockAt
    <3>2. v[k] = u[k]
      BY <2>3 DEF Inserted
    <3> QED BY <3>1, <3>2, <2>2, <2>3, <1>4
  <2>4. CASE New(k)
    <3>1. b = q
      BY <1>1, <1>2, <2>1, <2>2, <2>4, BlockAt
    <3>2. v[k] = p
      BY <1>1, <2>4 DEF Inserted
    <3> QED BY <3>1, <3>2, <2>2, <2>4
  <2>5. CASE m + L < k
    <3>1. b > q /\ Block(k - L) = b - 1
      <4>1. m \in Nat /\ m = Length * q /\ m + Length < k
        BY <1>1, <1>2, <2>5
      <4>2. Block(k) > q /\ Block(k - Length) = Block(k) - 1
        BY <4>1, <2>1, BlockAt
      <4> QED BY <4>2, <1>1, <2>2
    <3>2. v[k] = u[k - L]
      <4>1. \A j \in m+Length+1..Len(v): v[j] = u[j - Length]
        BY DEF Inserted
      <4>2. k \in m+Length+1..Len(v)
        <5>1. k \in m+L+1..nv
          BY <2>5
        <5> QED BY <5>1, <1>1, <1>3
      <4> QED BY <4>1, <4>2, <1>1
    <3>3. k - L \in 1..nu
      BY <2>5, <1>4
    <3> QED BY <3>1, <3>2, <3>3, <2>2, <2>5
  <2> QED BY <2>3, <2>4, <2>5
<1>7. ASSUME NEW k \in 1..nu PROVE u[k] # p /\ u[k].n < p.n /\ u[k] \in Package
  <2>1. u[k] \in Package
    BY <1>3
  <2>2. u[k].n < p.n /\ p.n \in Int
    BY <1>3 DEF Package
  <2> QED BY <2>1, <2>2
<1>8. ASSUME NEW j \in 1..nu, NEW k \in 1..nu
      PROVE  /\ Block(j) = Block(k) <=> u[j] = u[k]
             /\ j < k /\ u[j].low = u[k].low => u[j].n <= u[k].n
  BY <1>4 DEF Row
<1>9. ASSUME NEW j \in 1..nv, NEW k \in 1..nv PROVE Block(j) = Block(k) <=> v[j] = v[k]
  <2> HIDE DEF New
  <2>1. CASE New(j) /\ New(k)
    BY <2>1, <1>6
  <2>2. CASE New(j) /\ ~New(k)
    <3> HIDE DEF Old
    <3> QED BY <2>2, <1>6, <1>7
  <2>3. CASE ~New(j) /\ New(k)
    <3> HIDE DEF Old
    <3> QED BY <2>3, <1>6, <1>7
  <2>4. CASE ~New(j) /\ ~New(k)
    <3> HIDE DEF Old
    <3>1. PICK oj \in 1..nu, ok \in 1..nu, bj \in Nat, bk \in Nat:
             /\ oj = Old(j) /\ ok = Old(k) /\ bj = Block(j) /\ bk = Block(k)
             /\ v[j] = u[oj] /\ v[k] = u[ok] /\ bj # q /\ bk # q
             /\ Block(oj) = (IF bj < q THEN bj ELSE bj - 1)
             /\ Block(ok) = (IF bk < q THEN bk ELSE bk - 1)
      BY <2>4, <1>6
    <3>2. Block(oj) = Block(ok) <=> bj = bk
      BY <3>1
    <3> QED BY <3>1, <3>2, <1>8
  <2> QED BY <2>1, <2>2, <2>3, <2>4
<1>10. ASSUME NEW j \in 1..nv, NEW k \in 1..nv, j < k, v[j].low = v[k].low PROVE v[j].n <= v[k].n
  <2>0. p.n \in Int
    BY DEF Package
  <2>1. CASE New(j) /\ New(k)
    BY <2>0, <2>1, <1>6
  <2>2. CASE New(j) /\ ~New(k)
    <3>1. Old(k) \in m+1..nu /\ v[k] = u[Old(k)] /\ v[j] = p
      BY <2>2, <1>6, <1>10
    <3>2. u[Old(k)].low # p.low
      BY <3>1, <1>3
    <3> QED BY <3>1, <3>2, <1>10
  <2>3. CASE ~New(j) /\ New(k)
    <3>1. Old(j) \in 1..nu /\ v[j] = u[Old(j)] /\ v[k] = p
      BY <2>3, <1>6
    <3>2. u[Old(j)].n < p.n /\ u[Old(j)].n \in Int
      BY <3>1, <1>7 DEF Package
    <3> QED BY <3>1, <3>2, <2>0
  <2>4. CASE ~New(j) /\ ~New(k)
    <3>1. Old(j) \in 1..nu /\ Old(k) \in 1..nu /\ v[j] = u[Old(j)] /\ v[k] = u[Old(k)]
      BY <2>4, <1>6
    <3>2. Old(j) < Old(k)
      BY <2>4, <1>4, <1>10
    <3> HIDE DEF Old
    <3>3. PICK oj \in 1..nu, ok \in 1..nu: oj = Old(j) /\ ok = Old(k)
      BY <3>1
    <3>4. oj < ok /\ u[oj].low = u[ok].low /\ v[j].n = u[oj].n /\ v[k].n = u[ok].n
      BY <3>1, <3>2, <3>3, <1>10
    <3> QED BY <3>4, <1>8
  <2> QED BY <2>1, <2>2, <2>3, <2>4
<1> QED BY <1>3, <1>4, <1>5, <1>9, <1>10 DEF Row

(* The head of the rest of a row ends with a package.                      *)
LEMMA HeadLeftIs ==
    ASSUME NEW u \in Seq(Package), Row(u), NEW w \in Nat, w < Len(u), NEW list \in Seq(Package),
           Len(list) = Len(u) - w, \A k \in 1..Len(list): list[k] = u[w + k]
    PROVE  /\ HeadLeft(list) \in 1..Length /\ HeadLeft(list) <= Len(list)
           /\ (w + HeadLeft(list)) % Length = 0
<1>1. PICK L \in Nat \ {0}: L = Length
  BY SocketAssumption
<1>2. PICK nu \in Nat, nl \in Nat: nu = Len(u) /\ nl = Len(list)
  OBVIOUS
<1>3. DOMAIN u = 1..nu /\ DOMAIN list = 1..nl /\ nl = nu - w /\ w < nu
  BY <1>2
<1>4. PICK b \in Nat: b = Block(w + 1) /\ L * b < w + 1 /\ w + 1 <= L * b + L
  <2>1. w + 1 \in Nat \ {0}
    OBVIOUS
  <2>2. PICK c \in Nat: c = Block(w + 1)
    BY <2>1, BlockIs
  <2>3. Length * Block(w + 1) < w + 1 /\ w + 1 <= Length * Block(w + 1) + Length
    BY <2>1, BlockIs
  <2> QED BY <2>2, <2>3, <1>1
<1>5. PICK lb \in Nat: lb = L * b
  OBVIOUS
<1>6. PICK m \in 1..L: m = lb + L - w
  <2>1. lb < w + 1 /\ w + 1 <= lb + L
    BY <1>4, <1>5
  <2>2. lb + L - w \in 1..L
    BY <2>1
  <2> QED BY <2>2
<1>7. m <= nl
  <2>1. PICK c \in Nat: nu = L * c
    BY <1>1, <1>2, WholeIs DEF Row
  <2>2. PICK lc \in Nat: lc = L * c
    OBVIOUS
  <2>3. b < c
    <3>1. SUFFICES ASSUME ~(b < c) PROVE FALSE
      OBVIOUS
    <3>2. lc <= lb
      <4>1. CASE b = c
        BY <4>1, <2>2, <1>5
      <4>2. CASE c < b
        <5>1. lc + L <= lb
          BY <4>2, <2>2, <1>5, Scale
        <5> QED BY <5>1
      <4> QED BY <3>1, <4>1, <4>2
    <3>3. lb <= w /\ w < lc
      BY <1>3, <1>4, <1>5, <2>1, <2>2
    <3> QED BY <3>2, <3>3
  <2>4. lb + L <= lc
    BY <2>2, <2>3, <1>5, Scale
  <2> QED BY <2>1, <2>2, <2>4, <1>3, <1>6
<1>8. ASSUME NEW k \in 1..nl PROVE list[k] = list[1] <=> k \in 1..m
  <2>1. list[k] = u[w + k] /\ list[1] = u[w + 1] /\ w + k \in 1..nu /\ w + 1 \in 1..nu
    BY <1>2, <1>3
  <2>2. list[k] = list[1] <=> Block(w + k) = b
    BY <2>1, <1>3, <1>4 DEF Row
  <2>3. PICK c \in Nat: c = Block(w + k) /\ L * c < w + k /\ w + k <= L * c + L
    <3>1. w + k \in Nat \ {0}
      OBVIOUS
    <3>2. PICK c \in Nat: c = Block(w + k)
      BY <3>1, BlockIs
    <3>3. Length * Block(w + k) < w + k /\ w + k <= Length * Block(w + k) + Length
      BY <3>1, BlockIs
    <3> QED BY <3>2, <3>3, <1>1
  <2>4. ASSUME c = b PROVE k <= m
    <3>1. w + k <= lb + L
      BY <2>3, <2>4, <1>5
    <3> QED BY <3>1, <1>6
  <2>5. ASSUME k <= m PROVE c = b
    <3>1. L * b < w + k /\ w + k <= L * b + L
      <4>1. lb < w + 1 /\ w + 1 <= w + k /\ w + k <= w + m /\ w + m = lb + L
        <5>1. lb < w + 1
          BY <1>4, <1>5
        <5>2. w + m = lb + L /\ 1 <= k /\ k <= m
          BY <2>5, <1>6
        <5> QED BY <5>1, <5>2
      <4>2. lb < w + k /\ w + k <= lb + L
        BY <4>1
      <4> QED BY <4>2, <1>5
    <3>2. Length * b < w + k /\ w + k <= Length * b + Length
      BY <3>1, <1>1
    <3> QED BY <3>2, <2>3, BlockOnly
  <2> QED BY <2>2, <2>3, <2>4, <2>5
<1>9. {k \in DOMAIN list : list[k] = list[1]} = 1..m
  BY <1>3, <1>7, <1>8
<1>10. HeadLeft(list) = m
  <2>1. Cardinality(1..m) = m
    BY FS_Interval
  <2> QED BY <2>1, <1>9 DEF HeadLeft
<1>11. (w + m) % Length = 0
  <2>1. w + m = L * (b + 1) /\ b + 1 \in Nat /\ w + m \in Nat
    BY <1>5, <1>6
  <2>2. \E c \in Nat: w + m = Length * c
    BY <2>1, <1>1
  <2> QED BY <2>1, <2>2, WholeIs
<1> QED BY <1>1, <1>2, <1>7, <1>10, <1>11

-----------------------------------------------------------------------------
(* What a slot holds.                                                      *)
SlotRec == [type : Type, id : 0..MaxId, high : Seq(Package), low : Seq(Package),
            wb_size : Nat, polled : BOOLEAN, armed : BOOLEAN, wire : Seq(Package),
            early : BOOLEAN]

(* What was written to the connection and what is left to write.           *)
Stream(r) == r.wire \o Pending(r)

Good(r) ==
    /\ Row(Stream(r))
    /\ InUse(r) => r.wb_size = Len(Pending(r))
    /\ Len(r.low) % Length = 0
    /\ \A k \in DOMAIN r.low: r.low[k].low

Alike(x, r) ==
    x \in SlotRec /\ x.type = r.type /\ x.id = r.id /\ x.polled = r.polled /\ (r.early => x.early)

Three(u, a, b, c) ==
    /\ u \in Seq(Package) /\ Len(u) = Len(a) + Len(b) + Len(c)
    /\ \A k \in 1..Len(a): u[k] = a[k]
    /\ \A k \in 1..Len(b): u[Len(a) + k] = b[k]
    /\ \A k \in 1..Len(c): u[Len(a) + Len(b) + k] = c[k]

LEMMA TwoIs ==
    ASSUME NEW a \in Seq(Package), NEW b \in Seq(Package)
    PROVE  /\ a \o b \in Seq(Package) /\ Len(a \o b) = Len(a) + Len(b)
           /\ \A k \in 1..Len(a): (a \o b)[k] = a[k]
           /\ \A k \in 1..Len(b): (a \o b)[Len(a) + k] = b[k]
<1>1. /\ a \o b \in Seq(Package) /\ Len(a \o b) = Len(a) + Len(b)
      /\ \A k \in 1..Len(a)+Len(b): (a \o b)[k] = IF k <= Len(a) THEN a[k] ELSE b[k - Len(a)]
  BY ConcatProperties
<1>2. PICK u: u = a \o b
  OBVIOUS
<1>3. PICK na \in Nat, nb \in Nat: na = Len(a) /\ nb = Len(b)
  OBVIOUS
<1>4. \A k \in 1..na+nb: u[k] = IF k <= na THEN a[k] ELSE b[k - na]
  BY <1>1, <1>2, <1>3
<1>5. ASSUME NEW k \in 1..na PROVE u[k] = a[k]
  BY <1>4
<1>6. ASSUME NEW k \in 1..nb PROVE u[na + k] = b[k]
  <2>1. na + k \in 1..na+nb /\ ~(na + k <= na) /\ (na + k) - na = k
    OBVIOUS
  <2>2. u[na + k] = b[(na + k) - na]
    BY <2>1, <1>4
  <2> QED BY <2>1, <2>2
<1> QED BY <1>1, <1>2, <1>3, <1>5, <1>6

Two(v, a, b) ==
    /\ v \in Seq(Package) /\ Len(v) = Len(a) + Len(b)
    /\ \A k \in 1..Len(a): v[k] = a[k]
    /\ \A k \in 1..Len(b): v[Len(a) + k] = b[k]

LEMMA TwoAre ==
    ASSUME NEW a \in Seq(Package), NEW b \in Seq(Package)
    PROVE  Two(a \o b, a, b)
BY TwoIs DEF Two

LEMMA Associative ==
    ASSUME NEW a \in Seq(Package), NEW b \in Seq(Package), NEW c \in Seq(Package)
    PROVE  (a \o b) \o c = a \o (b \o c)
<1>1. PICK S: S = Package
  OBVIOUS
<1>2. a \in Seq(S) /\ b \in Seq(S) /\ c \in Seq(S)
  BY <1>1
<1> QED BY <1>2, ConcatAssociative

LEMMA ThreeIs ==
    ASSUME NEW a \in Seq(Package), NEW b \in Seq(Package), NEW c \in Seq(Package)
    PROVE  Three(a \o (b \o c), a, b, c)
<1>1. PICK d: d = b \o c
  OBVIOUS
<1>2. /\ d \in Seq(Package) /\ Len(d) = Len(b) + Len(c)
      /\ \A k \in 1..Len(b): d[k] = b[k]
      /\ \A k \in 1..Len(c): d[Len(b) + k] = c[k]
  BY <1>1, TwoIs
<1>3. PICK u: u = a \o d
  OBVIOUS
<1>4. /\ u \in Seq(Package) /\ Len(u) = Len(a) + Len(d)
      /\ \A k \in 1..Len(a): u[k] = a[k]
      /\ \A k \in 1..Len(d): u[Len(a) + k] = d[k]
  BY <1>2, <1>3, TwoIs
<1>5. PICK na \in Nat, nb \in Nat, nc \in Nat: na = Len(a) /\ nb = Len(b) /\ nc = Len(c)
  OBVIOUS
<1>6. ASSUME NEW k \in 1..nb PROVE u[na + k] = b[k]
  BY <1>2, <1>4, <1>5
<1>7. ASSUME NEW k \in 1..nc PROVE u[na + nb + k] = c[k]
  <2>1. nb + k \in 1..Len(d) /\ na + (nb + k) = na + nb + k
    BY <1>2, <1>5
  <2>2. u[na + (nb + k)] = d[nb + k]
    BY <2>1, <1>4, <1>5
  <2>3. d[nb + k] = c[k]
    BY <1>2, <1>5
  <2> QED BY <2>1, <2>2, <2>3
<1>8. Three(u, a, b, c)
  BY <1>2, <1>4, <1>5, <1>6, <1>7 DEF Three
<1> QED BY <1>1, <1>3, <1>8

LEMMA StreamIs ==
    ASSUME NEW r \in SlotRec
    PROVE  /\ Pending(r) \in Seq(Package) /\ Len(Pending(r)) = Len(r.high) + Len(r.low)
           /\ Three(Stream(r), r.wire, r.high, r.low)
<1>1. r.wire \in Seq(Package) /\ r.high \in Seq(Package) /\ r.low \in Seq(Package)
  BY DEF SlotRec
<1>2. Pending(r) \in Seq(Package) /\ Len(Pending(r)) = Len(r.high) + Len(r.low)
  BY <1>1, TwoIs DEF Pending
<1>3. Three(r.wire \o (r.high \o r.low), r.wire, r.high, r.low)
  BY <1>1, ThreeIs
<1> QED BY <1>2, <1>3 DEF Stream, Pending

LEMMA DropIs ==
    ASSUME NEW list \in Seq(Package), NEW k \in 0..Len(list)
    PROVE  /\ Drop(list, k) \in Seq(Package) /\ Len(Drop(list, k)) = Len(list) - k
           /\ \A j \in 1..Len(list)-k: Drop(list, k)[j] = list[k + j]
           /\ SubSeq(list, 1, k) \in Seq(Package) /\ Len(SubSeq(list, 1, k)) = k
           /\ \A j \in 1..k: SubSeq(list, 1, k)[j] = list[j]
           /\ SubSeq(list, 1, k) \o Drop(list, k) = list
<1>1. PICK n \in Nat: n = Len(list)
  OBVIOUS
<1>2. k \in 0..n /\ k \in Int /\ k + 1 \in Int /\ n \in Int /\ 1 \in Int
  BY <1>1
<1>3. \A i \in 1..n: list[i] \in Package
  BY <1>1
<1>4. /\ SubSeq(list, k + 1, n) \in Seq(Package)
      /\ Len(SubSeq(list, k + 1, n)) = IF k + 1 <= n THEN n - (k + 1) + 1 ELSE 0
      /\ \A i \in 1..n-(k+1)+1: SubSeq(list, k + 1, n)[i] = list[(k + 1) + i - 1]
  <2>1. \A i \in k+1..n: list[i] \in Package
    BY <1>2, <1>3
  <2> QED BY <2>1, <1>2, SubSeqProperties
<1>5. /\ SubSeq(list, 1, k) \in Seq(Package)
      /\ Len(SubSeq(list, 1, k)) = IF 1 <= k THEN k - 1 + 1 ELSE 0
      /\ \A i \in 1..k-1+1: SubSeq(list, 1, k)[i] = list[1 + i - 1]
  <2>1. \A i \in 1..k: list[i] \in Package
    BY <1>2, <1>3
  <2> QED BY <2>1, <1>2, SubSeqProperties
<1>6. SubSeq(list, 1, k) \o SubSeq(list, k + 1, n) = list
  <2>1. 1 \in 1..Len(list)+1 /\ k \in 1-1..Len(list) /\ n \in k..Len(list)
    BY <1>1
  <2>2. SubSeq(list, 1, k) \o SubSeq(list, k + 1, n) = SubSeq(list, 1, n)
    BY <2>1, ConcatAdjacentSubSeq
  <2> QED BY <2>2, <1>1, SubSeqFull
<1>7. PICK d: d = SubSeq(list, k + 1, n)
  OBVIOUS
<1>8. d = Drop(list, k)
  BY <1>1, <1>7 DEF Drop
<1>9. d \in Seq(Package) /\ Len(d) = n - k
  BY <1>2, <1>4, <1>7
<1>10. ASSUME NEW j \in 1..n-k PROVE d[j] = list[k + j]
  <2>1. j \in 1..n-(k+1)+1 /\ (k + 1) + j - 1 = k + j
    BY <1>2
  <2>2. d[j] = list[(k + 1) + j - 1]
    BY <2>1, <1>4, <1>7
  <2> QED BY <2>1, <2>2
<1>11. PICK e: e = SubSeq(list, 1, k)
  OBVIOUS
<1>12. e \in Seq(Package) /\ Len(e) = k
  BY <1>2, <1>5, <1>11
<1>13. ASSUME NEW j \in 1..k PROVE e[j] = list[j]
  <2>1. j \in 1..k-1+1 /\ 1 + j - 1 = j
    BY <1>2
  <2>2. e[j] = list[1 + j - 1]
    BY <2>1, <1>5, <1>11
  <2> QED BY <2>1, <2>2
<1>14. e \o d = list
  BY <1>6, <1>7, <1>11
<1> QED BY <1>1, <1>8, <1>9, <1>10, <1>11, <1>12, <1>13, <1>14

-----------------------------------------------------------------------------
(* send_buffer moves the boundary between what was written and what is     *)
(* left, and never starts a package of high priority inside one of low.    *)
Left(r, k) ==
    [r EXCEPT !.wb_size = @ - k,
              !.wire = @ \o SubSeq(Pending(r), 1, k),
              !.high = Drop(@, k),
              !.low  = IF k > Len(r.high) THEN Drop(@, k - Len(r.high)) ELSE @]

LEMMA AfterSendCases ==
    ASSUME NEW r \in SlotRec, NEW k \in Nat
    PROVE  AfterSend(r, k) = IF k < Len(r.high) THEN Left(r, k)
                             ELSE IF Done(r, k) THEN [Left(r, k) EXCEPT !.armed = FALSE]
                             ELSE Raise(Left(r, k))
BY DEF AfterSend, Left

LEMMA LeftIs ==
    ASSUME NEW r \in SlotRec, r.wb_size = Len(Pending(r)), NEW k \in 0..Len(Pending(r))
    PROVE  /\ Alike(Left(r, k), r) /\ Left(r, k).armed = r.armed
           /\ Left(r, k).wb_size = Len(Pending(Left(r, k)))
           /\ Stream(Left(r, k)) = Stream(r)
           /\ k <= Len(r.high) => Left(r, k).low = r.low /\ Len(Left(r, k).high) = Len(r.high) - k
           /\ k > Len(r.high) => /\ Left(r, k).high = <<>>
                                 /\ Len(Left(r, k).low) = Len(r.low) - (k - Len(r.high))
                                 /\ \A j \in 1..Len(Left(r, k).low):
                                      Left(r, k).low[j] = r.low[(k - Len(r.high)) + j]
<1>1. PICK wire \in Seq(Package), high \in Seq(Package), low \in Seq(Package):
           wire = r.wire /\ high = r.high /\ low = r.low
  BY DEF SlotRec
<1>2. PICK h \in Nat, l \in Nat: h = Len(high) /\ l = Len(low)
  OBVIOUS
<1>3. PICK P \in Seq(Package): P = Pending(r) /\ Len(P) = h + l /\ P = high \o low
  <2>1. Pending(r) \in Seq(Package) /\ Len(Pending(r)) = h + l
    BY <1>1, <1>2, StreamIs
  <2> QED BY <2>1, <1>1 DEF Pending
<1>4. k \in 0..h+l /\ k \in Nat
  BY <1>3
<1>5. PICK X, D: X = SubSeq(P, 1, k) /\ D = Drop(P, k)
  OBVIOUS
<1>6. /\ X \in Seq(Package) /\ D \in Seq(Package) /\ Len(D) = h + l - k
      /\ \A j \in 1..h+l-k: D[j] = P[k + j]
      /\ X \o D = P
  <2>1. k \in 0..Len(P)
    BY <1>3
  <2>2. /\ Drop(P, k) \in Seq(Package) /\ Len(Drop(P, k)) = Len(P) - k
        /\ \A j \in 1..Len(P)-k: Drop(P, k)[j] = P[k + j]
    BY <2>1, DropIs
  <2>3. SubSeq(P, 1, k) \in Seq(Package) /\ SubSeq(P, 1, k) \o Drop(P, k) = P
    BY <2>1, DropIs
  <2>4. D \in Seq(Package) /\ Len(D) = Len(P) - k /\ \A j \in 1..Len(P)-k: D[j] = P[k + j]
    BY <2>2, <1>5
  <2>5. X \in Seq(Package) /\ X \o D = P
    BY <2>3, <1>5
  <2>6. Len(P) = h + l
    BY <1>3
  <2> QED BY <2>4, <2>5, <2>6
<1>7. PICK x: x = Left(r, k)
  OBVIOUS
<1>8. /\ x.wire = wire \o X /\ x.high = Drop(high, k)
      /\ x.low = (IF k > h THEN Drop(low, k - h) ELSE low)
      /\ x.wb_size = h + l - k /\ x.armed = r.armed
      /\ x.type = r.type /\ x.id = r.id /\ x.polled = r.polled /\ x.early = r.early
      /\ x = [type |-> r.type, id |-> r.id, high |-> x.high, low |-> x.low, wb_size |-> x.wb_size,
              polled |-> r.polled, armed |-> r.armed, early |-> r.early, wire |-> x.wire]
  <2>1. r = [type |-> r.type, id |-> r.id, high |-> r.high, low |-> r.low, wb_size |-> r.wb_size,
             polled |-> r.polled, armed |-> r.armed, early |-> r.early, wire |-> r.wire]
    BY DEF SlotRec
  <2>2. r.wb_size = h + l
    BY <1>3
  <2>3. PICK a, b, c, d: /\ a = wire \o X /\ b = Drop(high, k) /\ d = h + l - k
                         /\ c = (IF k > h THEN Drop(low, k - h) ELSE low)
    OBVIOUS
  <2>4. x = [r EXCEPT !.wb_size = d, !.wire = a, !.high = b, !.low = c]
    <3>1. /\ r.wb_size - k = d /\ r.wire \o SubSeq(Pending(r), 1, k) = a /\ Drop(r.high, k) = b
          /\ (IF k > Len(r.high) THEN Drop(r.low, k - Len(r.high)) ELSE r.low) = c
      <4>1. r.wb_size - k = d
        BY <2>2, <2>3
      <4>2. r.wire \o SubSeq(Pending(r), 1, k) = a
        BY <1>1, <1>3, <1>5, <2>3
      <4>3. Drop(r.high, k) = b
        BY <1>1, <2>3
      <4>4. (IF k > Len(r.high) THEN Drop(r.low, k - Len(r.high)) ELSE r.low) = c
        BY <1>1, <1>2, <2>3
      <4> QED BY <4>1, <4>2, <4>3, <4>4
    <3> QED BY <1>7, <3>1 DEF Left
  <2>5. /\ x.wire = a /\ x.high = b /\ x.low = c /\ x.wb_size = d /\ x.armed = r.armed
        /\ x.type = r.type /\ x.id = r.id /\ x.polled = r.polled /\ x.early = r.early
        /\ x = [type |-> r.type, id |-> r.id, high |-> b, low |-> c, wb_size |-> d,
                polled |-> r.polled, armed |-> r.armed, early |-> r.early, wire |-> a]
    BY <2>1, <2>4
  <2> QED BY <2>3, <2>5
<1>9. /\ x.high \in Seq(Package) /\ x.low \in Seq(Package)
      /\ k <= h => x.low = low /\ Len(x.high) = h - k
                   /\ \A j \in 1..h-k: x.high[j] = high[k + j]
      /\ k > h => x.high = <<>> /\ Len(x.low) = l - (k - h)
                  /\ \A j \in 1..l-(k-h): x.low[j] = low[(k - h) + j]
  <2>1. CASE k <= h
    <3>1. k \in 0..Len(high)
      BY <2>1, <1>2
    <3>2. /\ Drop(high, k) \in Seq(Package) /\ Len(Drop(high, k)) = h - k
          /\ \A j \in 1..h-k: Drop(high, k)[j] = high[k + j]
      BY <3>1, <1>2, DropIs
    <3> QED BY <3>2, <2>1, <1>8
  <2>2. CASE k > h
    <3>1. PICK d \in 0..l: d = k - h
      <4>1. k - h \in 0..l
        BY <2>2, <1>4
      <4> QED BY <4>1
    <3>2. /\ Drop(low, d) \in Seq(Package) /\ Len(Drop(low, d)) = l - d
          /\ \A j \in 1..l-d: Drop(low, d)[j] = low[d + j]
      BY <1>2, DropIs
    <3>3. Drop(high, k) = <<>>
      <4>1. h \in Int /\ k + 1 \in Int /\ h < k + 1
        BY <2>2
      <4>2. SubSeq(high, k + 1, h) = <<>>
        BY <4>1, SubSeqEmpty
      <4> QED BY <4>2, <1>2 DEF Drop
    <3>4. x.high = <<>> /\ x.low = Drop(low, d)
      BY <3>1, <3>3, <2>2, <1>8
    <3>5. <<>> \in Seq(Package)
      OBVIOUS
    <3>6. x.low \in Seq(Package) /\ Len(x.low) = l - d /\ \A j \in 1..l-d: x.low[j] = low[d + j]
      BY <3>2, <3>4
    <3>7. x.low \in Seq(Package) /\ Len(x.low) = l - (k - h)
          /\ \A j \in 1..l-(k-h): x.low[j] = low[(k - h) + j]
      BY <3>1, <3>6
    <3>8. x.high \in Seq(Package)
      BY <3>4, <3>5
    <3>9. ~(k <= h)
      BY <2>2, <1>4
    <3> QED BY <3>4, <3>7, <3>8, <3>9
  <2> QED BY <2>1, <2>2
<1>10. x \in SlotRec
  <2>1. wire \o X \in Seq(Package)
    BY <1>6, TwoIs
  <2>2. h + l - k \in Nat
    BY <1>4
  <2> QED BY <2>1, <2>2, <1>8, <1>9 DEF SlotRec
<1>11. Pending(x) = D
  <2>7. PICK xh \in Seq(Package), xl \in Seq(Package): xh = x.high /\ xl = x.low
    BY <1>9
  <2>8. PICK nh \in Nat, nl \in Nat: nh = Len(xh) /\ nl = Len(xl)
    OBVIOUS
  <2>1. PICK Q \in Seq(Package): Q = Pending(x) /\ Q = xh \o xl /\ Len(Q) = nh + nl
    <3>1. xh \o xl \in Seq(Package) /\ Len(xh \o xl) = nh + nl
      BY <2>8, TwoIs
    <3> QED BY <3>1, <2>7 DEF Pending
  <2>2. /\ \A j \in 1..Len(x.high): Q[j] = x.high[j]
        /\ \A j \in 1..Len(x.low): Q[Len(x.high) + j] = x.low[j]
    <3>1. /\ \A j \in 1..Len(xh): Q[j] = xh[j]
          /\ \A j \in 1..Len(xl): Q[Len(xh) + j] = xl[j]
      BY <2>1, TwoIs
    <3> QED BY <3>1, <2>7
  <2>3. /\ \A j \in 1..h: P[j] = high[j]
        /\ \A j \in 1..l: P[h + j] = low[j]
    BY <1>2, <1>3, TwoIs
  <2>4. Len(Q) = h + l - k
    <3>1. CASE k <= h
      <4>1. nh = h - k /\ nl = l
        BY <3>1, <2>7, <2>8, <1>2, <1>9
      <4> QED BY <4>1, <2>1, <1>4
    <3>2. CASE k > h
      <4>1. nh = 0 /\ nl = l - (k - h)
        BY <3>2, <2>7, <2>8, <1>9
      <4> QED BY <4>1, <2>1, <1>4
    <3> QED BY <3>1, <3>2, <1>4
  <2>5. ASSUME NEW j \in 1..h+l-k PROVE Q[j] = P[k + j]
    <3>1. CASE k <= h
      <4>1. Len(x.high) = h - k /\ Len(x.low) = l /\ x.low = low
        BY <3>1, <1>2, <1>9
      <4>2. CASE j <= h - k
        <5>1. j \in 1..h-k /\ k + j \in 1..h
          BY <4>2, <1>4
        <5> QED BY <5>1, <4>1, <3>1, <2>2, <2>3, <1>9
      <4>3. CASE ~(j <= h - k)
        <5>1. PICK i \in 1..l: i = j - (h - k)
          <6>1. j - (h - k) \in 1..l
            BY <4>3, <3>1, <1>4
          <6> QED BY <6>1
        <5>2. j = (h - k) + i /\ k + j = h + i
          BY <5>1, <1>4
        <5>3. Q[(h - k) + i] = low[i]
          BY <4>1, <2>2
        <5>4. P[h + i] = low[i]
          BY <2>3
        <5> QED BY <5>2, <5>3, <5>4
      <4> QED BY <4>2, <4>3
    <3>2. CASE k > h
      <4>1. Len(x.high) = 0 /\ Len(x.low) = l - (k - h)
        BY <3>2, <1>9
      <4>2. j \in 1..l-(k-h) /\ 0 + j = j
        BY <3>2, <1>4
      <4>3. Q[j] = x.low[j]
        BY <4>1, <4>2, <2>2
      <4>4. x.low[j] = low[(k - h) + j]
        BY <4>2, <3>2, <1>9
      <4>5. (k - h) + j \in 1..l /\ h + ((k - h) + j) = k + j
        BY <4>2, <3>2, <1>4
      <4>6. P[h + ((k - h) + j)] = low[(k - h) + j]
        BY <4>5, <2>3
      <4> QED BY <4>3, <4>4, <4>5, <4>6
    <3> QED BY <3>1, <3>2, <1>4
  <2>6. \A j \in 1..Len(Q): Q[j] = D[j]
    BY <2>4, <2>5, <1>6
  <2> QED BY <2>1, <2>4, <2>6, <1>6, SeqEqual
<1>12. Stream(x) = Stream(r)
  <2>1. Stream(x) = (wire \o X) \o D
    BY <1>8, <1>11 DEF Stream
  <2>2. (wire \o X) \o D = wire \o (X \o D)
    <3>1. X \in Seq(Package) /\ D \in Seq(Package)
      BY <1>6
    <3> QED BY <3>1, Associative
  <2> QED BY <2>1, <2>2, <1>1, <1>3, <1>6 DEF Stream
<1>13. x.wb_size = Len(Pending(x))
  BY <1>6, <1>8, <1>11
<1>14. Alike(x, r)
  BY <1>8, <1>10 DEF Alike
<1>15. k > h => \A j \in 1..Len(x.low): x.low[j] = low[(k - h) + j]
  BY <1>9
<1> QED BY <1>1, <1>2, <1>7, <1>8, <1>9, <1>12, <1>13, <1>14, <1>15

(* raise_uncomplete: what is left of a package that was sent in part goes  *)
(* to the high list, so that the low list starts with a whole package.     *)
LEMMA RaiseIs ==
    ASSUME NEW x \in SlotRec, x.high = <<>>, Row(Stream(x)), \A k \in DOMAIN x.low: x.low[k].low
    PROVE  /\ Alike(Raise(x), x) /\ Raise(x).armed = x.armed /\ Raise(x).wb_size = x.wb_size
           /\ Raise(x).wire = x.wire /\ Pending(Raise(x)) = Pending(x)
           /\ Len(Raise(x).low) % Length = 0
           /\ \A k \in DOMAIN Raise(x).low: Raise(x).low[k].low
<1>1. PICK wire \in Seq(Package), low \in Seq(Package): wire = x.wire /\ low = x.low
  BY DEF SlotRec
<1>2. PICK w \in Nat, l \in Nat: w = Len(wire) /\ l = Len(low)
  OBVIOUS
<1>3. PICK u \in Seq(Package): u = Stream(x) /\ Len(u) = w + l /\ \A k \in 1..l: u[w + k] = low[k]
  <2>1. Three(Stream(x), wire, <<>>, low)
    BY <1>1, StreamIs
  <2>2. PICK v: v = Stream(x)
    OBVIOUS
  <2>3. v \in Seq(Package) /\ Len(v) = w + 0 + l /\ \A k \in 1..l: v[w + 0 + k] = low[k]
    BY <2>1, <2>2, <1>2 DEF Three
  <2>4. \A k \in 1..l: w + 0 + k = w + k
    OBVIOUS
  <2>5. Len(v) = w + l /\ \A k \in 1..l: v[w + k] = low[k]
    BY <2>3, <2>4
  <2> QED BY <2>2, <2>3, <2>5
<1>4. (w + l) % Length = 0
  BY <1>3 DEF Row
<1>5. Pending(x) = low
  <2>1. Pending(x) = <<>> \o low
    BY <1>1 DEF Pending
  <2> QED BY <2>1
<1>6. \A k \in 1..l: low[k].low
  BY <1>1, <1>2
<1>7. CASE low = <<>>
  <2>1. Raise(x) = x
    BY <1>1, <1>7 DEF Raise, Uncomplete
  <2>2. 0 % Length = 0
    <3>1. 0 \in Nat /\ 0 = Length * 0
      BY SocketAssumption
    <3> QED BY <3>1, WholeIs
  <2>3. Len(x.low) = 0
    BY <1>1, <1>7
  <2> QED BY <2>1, <2>2, <2>3 DEF Alike
<1>8. CASE low # <<>>
  <2>1. w < Len(u) /\ Len(low) = Len(u) - w /\ \A k \in 1..Len(low): low[k] = u[w + k]
    BY <1>2, <1>3, <1>8
  <2>2. PICK m: m = HeadLeft(low)
    OBVIOUS
  <2>3. m \in 1..Length /\ m <= l /\ (w + m) % Length = 0
    <3>1. Row(u)
      BY <1>3
    <3>2. HeadLeft(low) \in 1..Length /\ HeadLeft(low) <= Len(low) /\ (w + HeadLeft(low)) % Length = 0
      BY <2>1, <3>1, HeadLeftIs
    <3> QED BY <3>2, <2>2, <1>2
  <2>4. Length \in Nat \ {0}
    BY SocketAssumption
  <2>5. CASE m < Length
    <3>1. Uncomplete(x.low)
      BY <2>2, <2>5, <1>1, <1>8 DEF Uncomplete
    <3>2. m \in 0..Len(low)
      BY <2>3, <1>2
    <3>3. PICK a \in Seq(Package), b \in Seq(Package):
             /\ a = SubSeq(low, 1, m) /\ b = Drop(low, m) /\ a \o b = low
             /\ Len(b) = l - m /\ \A j \in 1..l-m: b[j] = low[m + j]
      <4>1. Drop(low, m) \in Seq(Package) /\ Len(Drop(low, m)) = Len(low) - m
            /\ \A j \in 1..Len(low)-m: Drop(low, m)[j] = low[m + j]
        BY <3>2, DropIs
      <4>2. SubSeq(low, 1, m) \in Seq(Package) /\ SubSeq(low, 1, m) \o Drop(low, m) = low
        BY <3>2, DropIs
      <4> QED BY <4>1, <4>2, <1>2
    <3>4. PICK y: y = Raise(x)
      OBVIOUS
    <3>5. y = [x EXCEPT !.high = a, !.low = b]
      BY <3>1, <3>3, <3>4, <2>2, <1>1 DEF Raise
    <3>6. Alike(y, x) /\ y.armed = x.armed /\ y.wb_size = x.wb_size /\ y.wire = x.wire
          /\ y.high = a /\ y.low = b
      BY <3>5 DEF SlotRec, Alike
    <3>7. Pending(y) = Pending(x)
      BY <3>3, <3>6, <1>5 DEF Pending
    <3>8. (l - m) % Length = 0
      <4>1. w + m \in Nat /\ l - m \in Nat /\ (w + m) + (l - m) = w + l
        BY <2>3
      <4> QED BY <4>1, <2>3, <1>4, WholeAdds
    <3>9. \A k \in DOMAIN b: b[k].low
      <4>1. TAKE k \in DOMAIN b
      <4>2. k \in 1..l-m /\ m + k \in 1..l
        BY <3>3, <2>3
      <4> QED BY <4>2, <3>3, <1>6
    <3> QED BY <3>3, <3>4, <3>6, <3>7, <3>8, <3>9
  <2>6. CASE ~(m < Length)
    <3>1. m = Length
      BY <2>3, <2>4, <2>6
    <3>2. ~Uncomplete(x.low)
      BY <3>1, <2>2, <2>4, <1>1 DEF Uncomplete
    <3>3. Raise(x) = x
      BY <3>2 DEF Raise
    <3>4. Length % Length = 0
      <4>1. Length \in Nat /\ Length = Length * 1
        BY <2>4
      <4> QED BY <4>1, WholeIs
    <3>5. w % Length = 0
      <4>1. Length + w = w + Length /\ Length \in Nat
        BY <2>4
      <4>2. (Length + w) % Length = 0
        BY <4>1, <3>1, <2>3
      <4> QED BY <4>1, <4>2, <3>4, WholeAdds
    <3>6. l % Length = 0
      BY <3>5, <1>4, WholeAdds
    <3> QED BY <3>3, <3>6, <1>1, <1>2, <1>6 DEF Alike
  <2> QED BY <2>5, <2>6
<1> QED BY <1>7, <1>8

LEMMA AfterSendIs ==
    ASSUME NEW r \in SlotRec, Good(r), InUse(r), NEW k \in 0..Len(Pending(r))
    PROVE  /\ Alike(AfterSend(r, k), r)
           /\ (~Empty(r) /\ AfterSend(r, k).armed = r.armed) \/ Empty(AfterSend(r, k))
           /\ Good(AfterSend(r, k)) /\ Stream(AfterSend(r, k)) = Stream(r)
<1>1. PICK high \in Seq(Package), low \in Seq(Package): high = r.high /\ low = r.low
  BY DEF SlotRec
<1>2. PICK h \in Nat, l \in Nat: h = Len(high) /\ l = Len(low)
  OBVIOUS
<1>3. /\ k \in 0..h+l /\ r.wb_size = Len(Pending(r)) /\ Row(Stream(r)) /\ l % Length = 0
      /\ \A j \in 1..l: low[j].low
  <2>1. Len(Pending(r)) = h + l
    BY <1>1, <1>2, StreamIs
  <2>2. r.wb_size = Len(Pending(r)) /\ Row(Stream(r)) /\ l % Length = 0
    BY <1>1, <1>2 DEF Good
  <2>3. \A j \in DOMAIN low: low[j].low
    BY <1>1 DEF Good
  <2>4. DOMAIN low = 1..l
    BY <1>2
  <2> QED BY <2>1, <2>2, <2>3, <2>4
<1>4. PICK x: x = Left(r, k)
  OBVIOUS
<1>5. /\ Alike(x, r) /\ x.armed = r.armed /\ x.wb_size = Len(Pending(x)) /\ Stream(x) = Stream(r)
      /\ k <= h => x.low = low /\ Len(x.high) = h - k
      /\ k > h => /\ x.high = <<>> /\ Len(x.low) = l - (k - h)
                  /\ \A j \in 1..Len(x.low): x.low[j] = low[(k - h) + j]
  BY <1>1, <1>2, <1>3, <1>4, LeftIs
<1>6. x \in SlotRec /\ InUse(x) /\ x.low \in Seq(Package) /\ x.high \in Seq(Package)
  BY <1>5 DEF Alike, InUse, SlotRec
<1>7. \A j \in DOMAIN x.low: x.low[j].low
  <2>1. CASE k <= h
    BY <2>1, <1>2, <1>3, <1>5
  <2>2. CASE k > h
    <3>1. TAKE j \in DOMAIN x.low
    <3>2. j \in 1..Len(x.low) /\ Len(x.low) = l - (k - h)
      BY <2>2, <1>5, <1>6
    <3>3. (k - h) + j \in 1..l
      BY <3>2, <2>2, <1>3
    <3> QED BY <3>2, <3>3, <2>2, <1>3, <1>5
  <2> QED BY <2>1, <2>2, <1>3
<1>8. PICK y: y = AfterSend(r, k)
  OBVIOUS
<1>9. y = IF k < h THEN x ELSE IF Done(r, k) THEN [x EXCEPT !.armed = FALSE] ELSE Raise(x)
  <2>1. k \in Nat
    BY <1>3
  <2> QED BY <2>1, <1>1, <1>2, <1>4, <1>8, AfterSendCases
<1>10. CASE k < h
  <2>1. y = x /\ x.low = low
    BY <1>3, <1>5, <1>9, <1>10
  <2>2. Good(x)
    BY <2>1, <1>2, <1>3, <1>5, <1>6, <1>7 DEF Good
  <2>3. ~Empty(r)
    BY <1>1, <1>2, <1>3, <1>10 DEF Empty
  <2> QED BY <2>1, <2>2, <2>3, <1>5, <1>8
<1>11. CASE ~(k < h) /\ Done(r, k)
  <2>1. y = [x EXCEPT !.armed = FALSE]
    BY <1>9, <1>11
  <2>2. Alike(y, x) /\ y.high = x.high /\ y.low = x.low /\ y.wire = x.wire /\ y.wb_size = x.wb_size
    BY <2>1, <1>6 DEF SlotRec, Alike
  <2>3. low = <<>> /\ k = h
    BY <1>1, <1>2, <1>11 DEF Done
  <2>4. x.low = <<>> /\ x.high = <<>>
    BY <2>3, <1>5, <1>6
  <2>5. Empty(y)
    BY <2>2, <2>4 DEF Empty
  <2>6. Stream(y) = Stream(x) /\ Pending(y) = Pending(x)
    BY <2>2 DEF Stream, Pending
  <2>7. Len(y.low) % Length = 0
    BY <2>2, <2>3, <2>4, <1>2, <1>3
  <2>8. Good(y)
    BY <2>2, <2>6, <2>7, <1>3, <1>5, <1>6, <1>7 DEF Good
  <2> QED BY <2>2, <2>5, <2>6, <2>8, <1>5, <1>8 DEF Alike
<1>12. CASE ~(k < h) /\ ~Done(r, k)
  <2>1. y = Raise(x)
    BY <1>9, <1>12
  <2>2. x.high = <<>>
    <3>1. CASE k > h
      BY <3>1, <1>5
    <3>2. CASE k = h
      <4>1. Len(x.high) = 0
        BY <3>2, <1>5
      <4> QED BY <4>1, <1>6
    <3> QED BY <3>1, <3>2, <1>3, <1>12
  <2>3. /\ Alike(y, x) /\ y.armed = x.armed /\ y.wb_size = x.wb_size
        /\ y.wire = x.wire /\ Pending(y) = Pending(x)
        /\ Len(y.low) % Length = 0 /\ \A j \in DOMAIN y.low: y.low[j].low
    BY <2>1, <2>2, <1>3, <1>5, <1>6, <1>7, RaiseIs
  <2>4. Stream(y) = Stream(x)
    BY <2>3 DEF Stream
  <2>5. Good(y)
    BY <2>3, <2>4, <1>3, <1>5 DEF Good
  <2>6. ~Empty(r)
    <3>1. SUFFICES ASSUME Empty(r) PROVE FALSE
      OBVIOUS
    <3>2. h = 0 /\ l = 0 /\ r.low = <<>>
      BY <3>1, <1>1, <1>2 DEF Empty
    <3>3. k = Len(r.high)
      BY <3>2, <1>1, <1>2, <1>3
    <3> QED BY <3>2, <3>3, <1>12 DEF Done
  <2> QED BY <2>3, <2>4, <2>5, <2>6, <1>5, <1>8 DEF Alike
<1> QED BY <1>10, <1>11, <1>12

-----------------------------------------------------------------------------
(* A package is added whole: at the end of a list, or the first part of it *)
(* to the connection and the rest to the high list.                        *)
LEMMA UnitsIs ==
    ASSUME NEW p \in Package, NEW k \in Nat
    PROVE  /\ Units(p, k) \in Seq(Package) /\ Len(Units(p, k)) = k
           /\ \A j \in 1..k: Units(p, k)[j] = p
BY DEF Units

Grown(v, u, p) == \A j \in DOMAIN v: v[j] = p \/ \E i \in DOMAIN u: v[j] = u[i]

LEMMA InsertedGrows ==
    ASSUME NEW u \in Seq(Package), NEW v \in Seq(Package), NEW p, NEW m \in 0..Len(u), Inserted(v, u, m, p)
    PROVE  Grown(v, u, p)
<1>1. PICK L \in Nat \ {0}: L = Length
  BY SocketAssumption
<1>2. PICK nu \in Nat: nu = Len(u) /\ DOMAIN u = 1..nu
  OBVIOUS
<1>3. DOMAIN v = 1..nu+L
  BY <1>1, <1>2 DEF Inserted
<1>4. ASSUME NEW j \in 1..nu+L PROVE v[j] = p \/ \E i \in 1..nu: v[j] = u[i]
  <2>1. CASE j <= m
    <3>1. j \in 1..m /\ j \in 1..nu
      BY <2>1, <1>2
    <3> QED BY <3>1 DEF Inserted
  <2>2. CASE m < j /\ j <= m + L
    BY <2>2, <1>1 DEF Inserted
  <2>3. CASE m + L < j
    <3>1. j - L \in 1..nu /\ j \in m+L+1..nu+L
      BY <2>3, <1>2
    <3>2. v[j] = u[j - L]
      BY <3>1, <1>1, <1>2 DEF Inserted
    <3> QED BY <3>1, <3>2
  <2> QED BY <2>1, <2>2, <2>3
<1> QED BY <1>2, <1>3, <1>4 DEF Grown

LEMMA LengthWhole == Length \in Nat \ {0} /\ Length % Length = 0 /\ 0 % Length = 0
<1>1. Length \in Nat \ {0}
  BY SocketAssumption
<1>2. Length = Length * 1 /\ 0 = Length * 0
  BY <1>1
<1> QED BY <1>1, <1>2, WholeIs

LEMMA AppendedIs ==
    ASSUME NEW r \in SlotRec, Good(r), InUse(r), ~Empty(r), NEW p \in Package,
           \A j \in DOMAIN Stream(r): Stream(r)[j].n < p.n
    PROVE  /\ Alike(Appended(r, p, Length), r) /\ Appended(r, p, Length).armed = r.armed
           /\ r.type = "CONNECTING" => Appended(r, p, Length).early
           /\ Good(Appended(r, p, Length))
           /\ Grown(Stream(Appended(r, p, Length)), Stream(r), p)
<1>1. PICK wire \in Seq(Package), high \in Seq(Package), low \in Seq(Package):
           wire = r.wire /\ high = r.high /\ low = r.low
  BY DEF SlotRec
<1>2. PICK w \in Nat, h \in Nat, l \in Nat: w = Len(wire) /\ h = Len(high) /\ l = Len(low)
  OBVIOUS
<1>3. PICK L \in Nat \ {0}: L = Length
  BY SocketAssumption
<1>4. PICK U \in Seq(Package): U = Units(p, Length) /\ Len(U) = L /\ \A j \in 1..L: U[j] = p
  BY <1>3, UnitsIs
<1>5. PICK u \in Seq(Package): u = Stream(r) /\ Three(u, wire, high, low)
  <2>1. Three(Stream(r), wire, high, low)
    BY <1>1, StreamIs
  <2> QED BY <2>1 DEF Three
<1>6. /\ Len(u) = w + h + l /\ DOMAIN u = 1..w+h+l
      /\ \A k \in 1..w: u[k] = wire[k]
      /\ \A k \in 1..h: u[w + k] = high[k]
      /\ \A k \in 1..l: u[w + h + k] = low[k]
  BY <1>2, <1>5 DEF Three
<1>7. /\ Row(u) /\ (w + h + l) % Length = 0 /\ l % Length = 0
      /\ \A k \in 1..l: low[k].low
      /\ \A k \in 1..Len(u): u[k].n < p.n
  <2>1. Row(u) /\ Len(u) % Length = 0 /\ l % Length = 0 /\ \A k \in DOMAIN low: low[k].low
    BY <1>1, <1>2, <1>5 DEF Good, Row
  <2>2. \A k \in DOMAIN u: u[k].n < p.n
    BY <1>5
  <2>3. DOMAIN low = 1..l /\ DOMAIN u = 1..Len(u)
    BY <1>2
  <2>4. \A k \in 1..l: low[k].low
    BY <2>1, <2>3
  <2>5. \A k \in 1..Len(u): u[k].n < p.n
    BY <2>2, <2>3
  <2>6. (w + h + l) % Length = 0
    BY <2>1, <1>6
  <2> QED BY <2>1, <2>4, <2>5, <2>6
<1>8. (w + h) % Length = 0
  <2>1. l + (w + h) = w + h + l /\ w + h \in Nat
    OBVIOUS
  <2>2. (l + (w + h)) % Length = 0
    BY <2>1, <1>7
  <2> QED BY <2>1, <2>2, <1>7, WholeAdds
<1>9. r.wb_size = h + l
  <2>1. Len(Pending(r)) = h + l
    BY <1>1, <1>2, StreamIs
  <2> QED BY <2>1 DEF Good
<1>10. PICK x: x = Appended(r, p, Length)
  OBVIOUS
<1>14. PICK e \in BOOLEAN: e = (r.early \/ r.type = "CONNECTING")
  OBVIOUS
<1>11. CASE ~p.low
  <2>1. PICK H \in Seq(Package): H = high \o U /\ Len(H) = h + L
          /\ (\A k \in 1..h: H[k] = high[k]) /\ (\A k \in 1..L: H[h + k] = p)
    <3>1. PICK v: v = high \o U
      OBVIOUS
    <3>2. Two(v, high, U)
      BY <3>1, TwoAre
    <3>3. v \in Seq(Package) /\ Len(v) = h + L /\ \A k \in 1..h: v[k] = high[k]
      BY <3>2, <1>2, <1>4 DEF Two
    <3>4. \A k \in 1..L: v[h + k] = p
      BY <3>2, <1>2, <1>4 DEF Two
    <3> QED BY <3>1, <3>3, <3>4
  <2>2. PICK b: b = h + l + L /\ b \in Nat
    OBVIOUS
  <2>3. x = [r EXCEPT !.wb_size = b, !.early = e, !.high = H]
    <3>1. r.wb_size + Length = b /\ r.high \o Units(p, Length) = H /\ ToHigh(r, p)
      BY <2>1, <2>2, <1>1, <1>3, <1>4, <1>9, <1>11 DEF ToHigh
    <3> QED BY <3>1, <1>10, <1>14 DEF Appended, SlotRec
  <2>4. Alike(x, r) /\ (r.type = "CONNECTING" => x.early) /\ x.armed = r.armed /\ x.high = H /\ x.low = low /\ x.wire = wire /\ x.wb_size = b
    BY <2>2, <2>3, <1>1, <1>14 DEF SlotRec, Alike
  <2>5. x \in SlotRec
    BY <2>4 DEF Alike
  <2>6. PICK v \in Seq(Package): v = Stream(x) /\ Three(v, wire, H, low)
    <3>1. Three(Stream(x), wire, H, low)
      BY <2>4, <2>5, StreamIs
    <3> QED BY <3>1 DEF Three
  <2>7. /\ Len(v) = w + (h + L) + l
        /\ \A k \in 1..w: v[k] = wire[k]
        /\ \A k \in 1..h+L: v[w + k] = H[k]
        /\ \A k \in 1..l: v[w + (h + L) + k] = low[k]
    BY <2>1, <2>6, <1>2 DEF Three
  <2>8. PICK m \in 0..Len(u): m = w + h
    <3>1. w + h \in 0..w+h+l
      OBVIOUS
    <3> QED BY <3>1, <1>6
  <2>9. Inserted(v, u, m, p)
    <3>1. Len(v) = Len(u) + L
      BY <2>7, <1>6
    <3>2. ASSUME NEW k \in 1..m PROVE v[k] = u[k]
      <4>1. CASE k <= w
        BY <4>1, <2>7, <1>6
      <4>2. CASE ~(k <= w)
        <5>1. PICK i \in 1..h: i = k - w /\ k = w + i
          <6>1. k - w \in 1..h /\ k = w + (k - w)
            BY <4>2, <2>8
          <6> QED BY <6>1
        <5>2. i \in 1..h+L
          OBVIOUS
        <5>3. v[w + i] = H[i]
          BY <5>2, <2>7
        <5> QED BY <5>1, <5>3, <2>1, <1>6
      <4> QED BY <4>1, <4>2
    <3>3. ASSUME NEW k \in m+1..m+L PROVE v[k] = p
      <4>1. PICK i \in 1..L: k = m + i
        <5>1. k - m \in 1..L /\ k = m + (k - m)
          OBVIOUS
        <5> QED BY <5>1
      <4>2. h + i \in 1..h+L /\ w + (h + i) = k
        BY <4>1, <2>8
      <4>3. v[w + (h + i)] = H[h + i]
        BY <4>2, <2>7
      <4> QED BY <4>2, <4>3, <2>1
    <3>4. ASSUME NEW k \in m+L+1..Len(v) PROVE v[k] = u[k - L]
      <4>1. PICK i \in 1..l: k = w + (h + L) + i
        <5>1. k - (m + L) \in 1..l /\ k = w + (h + L) + (k - (m + L))
          <6>1. k <= w + (h + L) + l /\ m + L + 1 <= k /\ k \in Int
            BY <2>7
          <6> QED BY <6>1, <2>8
        <5> QED BY <5>1
      <4>2. k - L = w + h + i
        BY <4>1
      <4>3. v[w + (h + L) + i] = low[i]
        BY <2>7
      <4> QED BY <4>1, <4>2, <4>3, <1>6
    <3> QED BY <3>1, <3>2, <3>3, <3>4, <1>3 DEF Inserted
  <2>10. \A k \in m+1..Len(u): u[k].low # p.low
    <3>1. TAKE k \in m+1..Len(u)
    <3>2. PICK i \in 1..l: k = w + h + i
      <4>1. k - m \in 1..l /\ k = w + h + (k - m)
        BY <2>8, <1>6
      <4> QED BY <4>1
    <3>3. u[k].low
      BY <3>2, <1>6, <1>7
    <3> QED BY <3>3, <1>11
  <2>11. Row(v)
    BY <2>8, <2>9, <2>10, <1>7, <1>8, RowGrows
  <2>12. Grown(v, u, p)
    BY <2>9, InsertedGrows
  <2>13. Len(Pending(x)) = b
    <3>1. Len(Pending(x)) = (h + L) + l
      BY <2>1, <2>4, <2>5, <1>2, StreamIs
    <3> QED BY <3>1, <2>2
  <2>14. Good(x)
    BY <2>4, <2>6, <2>11, <2>13, <1>1, <1>2, <1>7 DEF Good
  <2> QED BY <2>4, <2>6, <2>12, <2>14, <1>5, <1>10
<1>12. CASE p.low
  <2>1. PICK W \in Seq(Package): W = low \o U /\ Len(W) = l + L
          /\ (\A k \in 1..l: W[k] = low[k]) /\ (\A k \in 1..L: W[l + k] = p)
    <3>1. PICK v: v = low \o U
      OBVIOUS
    <3>2. Two(v, low, U)
      BY <3>1, TwoAre
    <3>3. v \in Seq(Package) /\ Len(v) = l + L /\ \A k \in 1..l: v[k] = low[k]
      BY <3>2, <1>2, <1>4 DEF Two
    <3>4. \A k \in 1..L: v[l + k] = p
      BY <3>2, <1>2, <1>4 DEF Two
    <3> QED BY <3>1, <3>3, <3>4
  <2>2. PICK b: b = h + l + L /\ b \in Nat
    OBVIOUS
  <2>3. x = [r EXCEPT !.wb_size = b, !.early = e, !.low = W]
    <3>1. r.wb_size + Length = b /\ r.low \o Units(p, Length) = W /\ ~ToHigh(r, p)
      BY <2>1, <2>2, <1>1, <1>3, <1>4, <1>9, <1>12 DEF ToHigh
    <3> QED BY <3>1, <1>10, <1>14 DEF Appended, SlotRec
  <2>4. Alike(x, r) /\ (r.type = "CONNECTING" => x.early) /\ x.armed = r.armed /\ x.high = high /\ x.low = W /\ x.wire = wire /\ x.wb_size = b
    BY <2>2, <2>3, <1>1, <1>14 DEF SlotRec, Alike
  <2>5. x \in SlotRec
    BY <2>4 DEF Alike
  <2>6. PICK v \in Seq(Package): v = Stream(x) /\ Three(v, wire, high, W)
    <3>1. Three(Stream(x), wire, high, W)
      BY <2>4, <2>5, StreamIs
    <3> QED BY <3>1 DEF Three
  <2>7. /\ Len(v) = w + h + (l + L)
        /\ \A k \in 1..w: v[k] = wire[k]
        /\ \A k \in 1..h: v[w + k] = high[k]
        /\ \A k \in 1..l+L: v[w + h + k] = W[k]
    BY <2>1, <2>6, <1>2 DEF Three
  <2>8. PICK m \in 0..Len(u): m = w + h + l /\ m = Len(u)
    BY <1>6
  <2>9. Inserted(v, u, m, p)
    <3>1. Len(v) = Len(u) + L
      BY <2>7, <1>6
    <3>2. ASSUME NEW k \in 1..m PROVE v[k] = u[k]
      <4>1. CASE k <= w
        BY <4>1, <2>7, <1>6
      <4>2. CASE w < k /\ k <= w + h
        <5>1. PICK i \in 1..h: k = w + i
          <6>1. k - w \in 1..h /\ k = w + (k - w)
            BY <4>2
          <6> QED BY <6>1
        <5> QED BY <5>1, <2>7, <1>6
      <4>3. CASE w + h < k
        <5>1. PICK i \in 1..l: k = w + h + i
          <6>1. k - (w + h) \in 1..l /\ k = w + h + (k - (w + h))
            BY <4>3, <2>8
          <6> QED BY <6>1
        <5>2. i \in 1..l+L
          OBVIOUS
        <5>3. v[w + h + i] = W[i]
          BY <5>2, <2>7
        <5> QED BY <5>1, <5>3, <2>1, <1>6
      <4> QED BY <4>1, <4>2, <4>3
    <3>3. ASSUME NEW k \in m+1..m+L PROVE v[k] = p
      <4>1. PICK i \in 1..L: k = m + i
        <5>1. k - m \in 1..L /\ k = m + (k - m)
          OBVIOUS
        <5> QED BY <5>1
      <4>2. l + i \in 1..l+L /\ w + h + (l + i) = k
        BY <4>1, <2>8
      <4>3. v[w + h + (l + i)] = W[l + i]
        BY <4>2, <2>7
      <4> QED BY <4>2, <4>3, <2>1
    <3>4. ASSUME NEW k \in m+L+1..Len(v) PROVE v[k] = u[k - L]
      <4>1. Len(v) = m + L
        BY <2>7, <2>8
      <4>2. m + L \in Nat
        OBVIOUS
      <4> QED BY <4>1, <4>2
    <3> QED BY <3>1, <3>2, <3>3, <3>4, <1>3 DEF Inserted
  <2>10. \A k \in m+1..Len(u): u[k].low # p.low
    BY <2>8
  <2>11. Row(v)
    BY <2>8, <2>9, <2>10, <1>6, <1>7, RowGrows
  <2>12. Grown(v, u, p)
    BY <2>9, InsertedGrows
  <2>13. Len(Pending(x)) = b
    <3>1. Len(Pending(x)) = h + (l + L)
      BY <2>1, <2>4, <2>5, <1>2, StreamIs
    <3> QED BY <3>1, <2>2
  <2>14. Len(x.low) % Length = 0
    <3>1. (l + Length) % Length = 0
      BY <1>7, LengthWhole, WholeAdds
    <3> QED BY <3>1, <2>1, <2>4, <1>3
  <2>15. \A k \in DOMAIN W: W[k].low
    <3>1. TAKE k \in DOMAIN W
    <3>2. k \in 1..l+L
      BY <2>1
    <3>3. CASE k <= l
      <4>1. k \in 1..l
        BY <3>2, <3>3
      <4> QED BY <4>1, <2>1, <1>7
    <3>4. CASE ~(k <= l)
      <4>1. PICK i \in 1..L: k = l + i
        <5>1. k - l \in 1..L /\ k = l + (k - l)
          BY <3>2, <3>4
        <5> QED BY <5>1
      <4> QED BY <4>1, <2>1, <1>12
    <3> QED BY <3>3, <3>4
  <2>16. Good(x)
    BY <2>4, <2>6, <2>11, <2>13, <2>14, <2>15 DEF Good
  <2> QED BY <2>4, <2>6, <2>12, <2>16, <1>5, <1>10
<1>13. p.low \in BOOLEAN
  BY DEF Package
<1> QED BY <1>11, <1>12, <1>13

(* send_socket on an empty socket: k units of package p are written now.   *)
Wrote(r, p, k) ==
    IF k = Length THEN [r EXCEPT !.wire = @ \o Units(p, k)]
    ELSE [Appended([r EXCEPT !.wire = @ \o Units(p, k)], p, Length - k) EXCEPT !.armed = TRUE]

LEMMA WroteIs ==
    ASSUME NEW r \in SlotRec, Good(r), InUse(r), Empty(r), NEW p \in Package, NEW k \in 0..Length,
           \A j \in DOMAIN Stream(r): Stream(r)[j].n < p.n
    PROVE  /\ Alike(Wrote(r, p, k), r) /\ (Wrote(r, p, k).armed \/ Empty(Wrote(r, p, k)))
           /\ r.type = "CONNECTING" => /\ r.armed => Wrote(r, p, k).armed
                                       /\ Empty(Wrote(r, p, k)) \/ Wrote(r, p, k).early
           /\ Good(Wrote(r, p, k))
           /\ Grown(Stream(Wrote(r, p, k)), Stream(r), p)
<1>1. PICK wire \in Seq(Package): wire = r.wire /\ r.high = <<>> /\ r.low = <<>>
  BY DEF SlotRec, Empty
<1>2. PICK w \in Nat: w = Len(wire)
  OBVIOUS
<1>3. PICK L \in Nat \ {0}: L = Length /\ k \in 0..L
  BY SocketAssumption
<1>4. PICK A \in Seq(Package): A = Units(p, k) /\ Len(A) = k /\ \A j \in 1..k: A[j] = p
  <2>1. k \in Nat
    BY <1>3
  <2> QED BY <2>1, UnitsIs
<1>5. PICK B \in Seq(Package): B = Units(p, Length - k) /\ Len(B) = L - k /\ \A j \in 1..L-k: B[j] = p
  <2>1. L - k \in Nat
    BY <1>3
  <2> QED BY <2>1, <1>3, UnitsIs
<1>6. <<>> \in Seq(Package) /\ Len(<<>>) = 0
  OBVIOUS
<1>7. PICK u \in Seq(Package): u = Stream(r) /\ Len(u) = w /\ \A j \in 1..w: u[j] = wire[j]
  <2>1. Three(Stream(r), wire, <<>>, <<>>)
    BY <1>1, StreamIs
  <2>2. PICK v: v = Stream(r)
    OBVIOUS
  <2>3. v \in Seq(Package) /\ Len(v) = w + 0 + 0 /\ \A j \in 1..w: v[j] = wire[j]
    BY <2>1, <2>2, <1>2, <1>6 DEF Three
  <2>4. w + 0 + 0 = w
    OBVIOUS
  <2> QED BY <2>2, <2>3, <2>4
<1>8. Row(u) /\ w % Length = 0 /\ \A j \in 1..Len(u): u[j].n < p.n
  <2>1. Row(u)
    BY <1>7 DEF Good
  <2>2. w % Length = 0
    BY <2>1, <1>7 DEF Row
  <2>3. \A j \in DOMAIN u: u[j].n < p.n
    BY <1>7
  <2>4. DOMAIN u = 1..Len(u)
    OBVIOUS
  <2> QED BY <2>1, <2>2, <2>3, <2>4
<1>9. r.wb_size = 0
  <2>1. Len(Pending(r)) = 0 + 0
    BY <1>1, <1>6, StreamIs
  <2> QED BY <2>1 DEF Good
<1>10. PICK C \in Seq(Package): C = wire \o A /\ Len(C) = w + k
         /\ (\A j \in 1..w: C[j] = wire[j]) /\ (\A j \in 1..k: C[w + j] = p)
  <2>1. PICK v: v = wire \o A
    OBVIOUS
  <2>2. Two(v, wire, A)
    BY <2>1, TwoAre
  <2>3. v \in Seq(Package) /\ Len(v) = w + k /\ \A j \in 1..w: v[j] = wire[j]
    BY <2>2, <1>2, <1>4 DEF Two
  <2>4. \A j \in 1..k: v[w + j] = p
    BY <2>2, <1>2, <1>4 DEF Two
  <2> QED BY <2>1, <2>3, <2>4
<1>11. PICK x: x = Wrote(r, p, k)
  OBVIOUS
<1>12. PICK y: y = [r EXCEPT !.wire = C]
  OBVIOUS
<1>13. /\ y \in SlotRec /\ y.type = r.type /\ y.id = r.id /\ y.polled = r.polled
       /\ y.high = <<>> /\ y.low = <<>> /\ y.wire = C /\ y.wb_size = 0
       /\ y.early = r.early /\ y.armed = r.armed
  BY <1>1, <1>9, <1>12 DEF SlotRec
<1>14. x = IF k = L THEN y ELSE [Appended(y, p, L - k) EXCEPT !.armed = TRUE]
  <2>1. y = [r EXCEPT !.wire = @ \o Units(p, k)]
    BY <1>1, <1>4, <1>10, <1>12
  <2> QED BY <2>1, <1>3, <1>11 DEF Wrote
<1>15. PICK D \in Seq(Package):
          /\ x.high = D /\ Len(D) = L - k /\ (\A j \in 1..L-k: D[j] = p)
          /\ x.low = <<>> /\ x.wire = C /\ x.wb_size = L - k
          /\ Alike(x, r) /\ (x.armed \/ Empty(x))
          /\ r.type = "CONNECTING" => (r.armed => x.armed) /\ (Empty(x) \/ x.early)
  <2>1. CASE k = L
    <3>1. x = y /\ Len(<<>>) = L - k
      BY <2>1, <1>3, <1>6, <1>14
    <3>2. \A j \in 1..L-k: <<>>[j] = p
      BY <2>1, <1>3
    <3>3. Alike(x, r) /\ Empty(x) /\ x.wb_size = L - k /\ x.armed = r.armed
      BY <2>1, <3>1, <1>3, <1>13 DEF Alike, Empty
    <3> QED BY <3>1, <3>2, <3>3, <1>6, <1>13
  <2>2. CASE k # L
    <3>1. Empty(y) /\ ToHigh(y, p)
      BY <1>13 DEF Empty, ToHigh
    <3>2. PICK D \in Seq(Package): D = <<>> \o B /\ D = B
      <4>1. <<>> \o B = B
        OBVIOUS
      <4> QED BY <4>1
    <3>3. PICK b \in Nat: b = L - k /\ 0 + (L - k) = b
      BY <1>3
    <3>7. PICK e \in BOOLEAN: e = (r.early \/ r.type = "CONNECTING")
      OBVIOUS
    <3>4. Appended(y, p, L - k) = [y EXCEPT !.wb_size = b, !.early = e, !.high = D]
      <4>1. y.wb_size + (L - k) = b /\ y.high \o Units(p, L - k) = D
        BY <3>2, <3>3, <1>3, <1>5, <1>13
      <4> QED BY <4>1, <3>1, <3>7, <1>13 DEF Appended, SlotRec
    <3>5. x = [y EXCEPT !.wb_size = b, !.early = e, !.high = D, !.armed = TRUE]
      BY <2>2, <3>4, <1>13, <1>14 DEF SlotRec
    <3>6. /\ Alike(x, r) /\ x.armed /\ x.high = D /\ x.low = <<>> /\ x.wire = C /\ x.wb_size = b
          /\ r.type = "CONNECTING" => x.early
      BY <3>5, <3>7, <1>13 DEF SlotRec, Alike
    <3> QED BY <3>2, <3>3, <3>6, <1>5
  <2> QED BY <2>1, <2>2
<1>16. PICK v \in Seq(Package): v = Stream(x) /\ Three(v, C, D, <<>>)
  <2>1. x \in SlotRec
    BY <1>15 DEF Alike
  <2>2. Three(Stream(x), C, D, <<>>)
    BY <2>1, <1>15, StreamIs
  <2> QED BY <2>2 DEF Three
<1>17. /\ Len(v) = w + L
       /\ \A j \in 1..w+k: v[j] = C[j]
       /\ \A j \in 1..L-k: v[w + k + j] = D[j]
  <2>3. Len(C) = w + k
    BY <1>10
  <2>4. Len(D) = L - k
    BY <1>15
  <2>5. Len(<<>>) = 0
    OBVIOUS
  <2>6. Three(v, C, D, <<>>)
    BY <1>16
  <2>1. /\ Len(v) = (w + k) + (L - k) + 0
        /\ \A j \in 1..w+k: v[j] = C[j]
        /\ \A j \in 1..L-k: v[w + k + j] = D[j]
    BY <2>3, <2>4, <2>5, <2>6 DEF Three
  <2>2. (w + k) + (L - k) + 0 = w + L
    BY <1>3
  <2> QED BY <2>1, <2>2
<1>18. PICK m \in 0..Len(u): m = w /\ m = Len(u)
  BY <1>7
<1>19. Inserted(v, u, m, p)
  <2>1. Len(v) = Len(u) + L
    BY <1>7, <1>17
  <2>2. ASSUME NEW j \in 1..m PROVE v[j] = u[j]
    <3>1. j \in 1..w /\ j \in 1..w+k
      BY <1>3, <1>18
    <3> QED BY <3>1, <1>7, <1>10, <1>17
  <2>3. ASSUME NEW j \in m+1..m+L PROVE v[j] = p
    <3>1. CASE j <= w + k
      <4>1. PICK i \in 1..k: j = w + i
        <5>1. j - w \in 1..k /\ j = w + (j - w)
          BY <3>1, <1>18
        <5> QED BY <5>1
      <4>2. j \in 1..w+k
        BY <3>1, <1>18
      <4> QED BY <4>1, <4>2, <1>10, <1>17
    <3>2. CASE ~(j <= w + k)
      <4>1. PICK i \in 1..L-k: j = w + k + i
        <5>1. j - (w + k) \in 1..L-k /\ j = w + k + (j - (w + k))
          BY <3>2, <1>3, <1>18
        <5> QED BY <5>1
      <4> QED BY <4>1, <1>15, <1>17
    <3> QED BY <3>1, <3>2
  <2>4. ASSUME NEW j \in m+L+1..Len(v) PROVE v[j] = u[j - L]
    BY <1>17, <1>18
  <2> QED BY <2>1, <2>2, <2>3, <2>4, <1>3 DEF Inserted
<1>20. Row(v)
  <2>1. \A j \in m+1..Len(u): u[j].low # p.low
    BY <1>18
  <2>2. m % Length = 0
    BY <1>8, <1>18
  <2> QED BY <2>1, <2>2, <1>8, <1>19, RowGrows
<1>21. Grown(v, u, p)
  BY <1>19, InsertedGrows
<1>22. Good(x)
  <2>1. Len(Pending(x)) = (L - k) + 0
    <3>1. x \in SlotRec
      BY <1>15 DEF Alike
    <3> QED BY <3>1, <1>6, <1>15, StreamIs
  <2>2. x.wb_size = Len(Pending(x))
    BY <2>1, <1>3, <1>15
  <2>3. Len(x.low) % Length = 0 /\ \A j \in DOMAIN x.low: x.low[j].low
    <3>1. DOMAIN x.low = {}
      BY <1>15
    <3>2. Len(x.low) = 0
      BY <1>6, <1>15
    <3> QED BY <3>1, <3>2, LengthWhole
  <2> QED BY <2>2, <2>3, <1>16, <1>20 DEF Good
<1> QED BY <1>7, <1>11, <1>15, <1>16, <1>21, <1>22

(* A slot that carries nothing.                                            *)
Idle(r) == r.high = <<>> /\ r.low = <<>> /\ r.wire = <<>>

LEMMA IdleIs ==
    ASSUME NEW r \in SlotRec, Idle(r), InUse(r) => r.wb_size = 0
    PROVE  Good(r) /\ Stream(r) = <<>> /\ Empty(r)
<1>1. <<>> \in Seq(Package) /\ Len(<<>>) = 0 /\ DOMAIN <<>> = {}
  OBVIOUS
<1>2. Pending(r) = <<>>
  <2>1. <<>> \o <<>> = <<>>
    OBVIOUS
  <2> QED BY <2>1 DEF Idle, Pending
<1>3. Stream(r) = <<>>
  <2>1. <<>> \o <<>> = <<>>
    OBVIOUS
  <2> QED BY <2>1, <1>2 DEF Idle, Stream
<1>4. Row(<<>>)
  BY <1>1, LengthWhole DEF Row
<1> QED BY <1>1, <1>2, <1>3, <1>4, LengthWhole DEF Good, Idle, Empty

LEMMA SameData ==
    ASSUME NEW r \in SlotRec, NEW x \in SlotRec, InUse(r), Good(r),
           x.wire = r.wire, x.high = r.high, x.low = r.low, x.wb_size = r.wb_size
    PROVE  Good(x) /\ Stream(x) = Stream(r) /\ (Empty(x) <=> Empty(r)) /\ (Idle(x) <=> Idle(r))
BY DEF Good, Stream, Pending, Empty, Idle

LEMMA IdleStream ==
    ASSUME NEW r \in SlotRec, Stream(r) = <<>>
    PROVE  Idle(r)
<1>1. Three(<<>>, r.wire, r.high, r.low)
  BY StreamIs
<1>2. r.wire \in Seq(Package) /\ r.high \in Seq(Package) /\ r.low \in Seq(Package)
  BY DEF SlotRec
<1>3. Len(r.wire) = 0 /\ Len(r.high) = 0 /\ Len(r.low) = 0
  <2>1. PICK u: u = <<>> /\ Len(u) = 0
    OBVIOUS
  <2>2. Three(u, r.wire, r.high, r.low)
    BY <1>1, <2>1
  <2>3. Len(u) = Len(r.wire) + Len(r.high) + Len(r.low)
    BY <2>2 DEF Three
  <2>4. PICK a \in Nat, b \in Nat, c \in Nat: a = Len(r.wire) /\ b = Len(r.high) /\ c = Len(r.low)
    BY <1>2
  <2>5. Len(u) = a + b + c
    BY <2>3, <2>4
  <2>6. PICK n \in Nat: n = Len(u) /\ n = 0
    BY <2>1
  <2>7. n = a + b + c
    BY <2>5, <2>6
  <2>8. a = 0 /\ b = 0 /\ c = 0
    BY <2>6, <2>7
  <2> QED BY <2>4, <2>8
<1> QED BY <1>2, <1>3 DEF Idle

-----------------------------------------------------------------------------
(* The invariant.  Requests that make a socket, requests that use one, and *)
(* those of them that send.                                                *)
Requests == [cmd : {"O", "L", "B", "S", "K", "D", "X"}, id : Id \cup {None},
             pkg : Package \cup {None}]
Events   == [slot : Slot \cup {None}, write : BOOLEAN]
Making(k) == pipe[k].cmd \in {"O", "L", "B"}
Using(k)  == pipe[k].cmd \in {"S", "K", "D"}
Sends(k)  == pipe[k].cmd = "D"

(* The ids that have been issued; an id has its slot.                      *)
Issued == 1..alloc_id
Has(i) == InUse(slot[At(i)]) /\ slot[At(i)].id = i

PipeInv ==
    /\ \A k \in DOMAIN pipe: pipe[k].cmd # "X" => pipe[k].id \in Issued
    /\ \A k \in DOMAIN pipe: Sends(k) => pipe[k].pkg \in Package
    /\ \A k \in DOMAIN pipe: pipe[k].cmd = "X" => k = Len(pipe)
    /\ pc \in {"exit", "released"} => pipe = <<>> /\ ev = <<>>

(* A slot in use is that of its id; the poll set; what carries no data.    *)
SlotFits(s, r) ==
    /\ r.id \in 0..alloc_id
    /\ InUse(r) => r.id \in Issued /\ At(r.id) = s
    /\ r.polled <=> InUse(r) /\ r.type \notin {"PLISTEN", "PACCEPT"}
    /\ r.type \in {"INVALID", "RESERVE", "PLISTEN", "LISTEN", "PACCEPT"} => Idle(r)
SlotInv == \A s \in Slot, r \in SlotRec: slot[s] = r => SlotFits(s, r)

(* A reserved slot has one request that makes its socket, and no other     *)
(* request and no event finds it.                                          *)
ReserveInv ==
    /\ \A k \in DOMAIN pipe, i \in Id:
         Making(k) /\ pipe[k].id = i => slot[At(i)].type = "RESERVE"
    /\ \A j, k \in DOMAIN pipe: \A h, i \in Id:
         Making(j) /\ Making(k) /\ pipe[j].id = h /\ pipe[k].id = i /\ At(h) = At(i) => j = k
    /\ \A s \in Slot: slot[s].type = "RESERVE" =>
         \E k \in DOMAIN pipe, i \in Id: Making(k) /\ pipe[k].id = i /\ At(i) = s
    /\ \A j, k \in DOMAIN pipe:
         Using(j) /\ Making(k) /\ (j < k \/ Sends(j)) => pipe[j].id # pipe[k].id
    /\ \A k \in DOMAIN pipe, i \in Id: Using(k) /\ pipe[k].id = i => ~Outdated(i)
    /\ \A k \in DOMAIN pipe, i \in Id:
         Sends(k) /\ pipe[k].id = i /\ Has(i) => slot[At(i)].type \notin {"PLISTEN", "LISTEN"}
    /\ \A k \in DOMAIN ev, s \in Slot: ev[k].slot = s => slot[s].type # "RESERVE"

(* Who has each descriptor.                                                *)
Counted(i) ==
    \/ Has(i) /\ slot[At(i)].type # "BIND"
    \/ \E k \in DOMAIN pipe: pipe[k].cmd = "L" /\ pipe[k].id = i
    \/ i \in lost
OpenInv ==
    /\ open \subseteq Issued /\ lost \subseteq open
    /\ \A s \in Slot: slot[s].type \notin {"INVALID", "RESERVE", "BIND", "HALFCLOSE"} =>
                        slot[s].id \in open
    /\ \A k \in DOMAIN pipe: pipe[k].cmd = "L" => pipe[k].id \in open
    /\ \A i \in open: Counted(i)
    /\ \A i \in lost: ~Has(i) /\ \A k \in DOMAIN pipe: Making(k) => pipe[k].id # i
    /\ pc = "released" => open = lost

(* What was told about each id.                                            *)
ToldInv ==
    /\ \A i \in Id: i > alloc_id => told[i] = "none"
    /\ \A s \in Slot: InUse(slot[s]) => told[slot[s].id] # "end"
    /\ \A k \in DOMAIN pipe: Making(k) => told[pipe[k].id] = "none"

(* What is left to write waits for the write event, unless it was queued   *)
(* before the socket was connected.                                        *)
Waits(r) ==
    /\ Empty(r) \/ r.armed \/ r.early
    /\ r.type = "CONNECTING" => r.armed /\ (Empty(r) \/ r.early)
ArmInv == \A s \in Slot, r \in SlotRec: slot[s] = r => Waits(r)

(* Packages are numbered in the order in which they were sent.             *)
Older(n) == n <= asked /\ \A k \in DOMAIN pipe: Sends(k) => n < pipe[k].pkg.n
StreamInv ==
    /\ \A s \in Slot, r \in SlotRec: slot[s] = r =>
         Good(r) /\ \A k \in DOMAIN Stream(r): Older(Stream(r)[k].n)
    /\ \A k \in DOMAIN pipe: Sends(k) => pipe[k].pkg.n <= asked
    /\ \A j, k \in DOMAIN pipe: j < k /\ Sends(j) /\ Sends(k) => pipe[j].pkg.n < pipe[k].pkg.n

Inv ==
    /\ TypeOK /\ PipeInv /\ SlotInv /\ ReserveInv /\ OpenInv /\ ToldInv /\ StreamInv
    /\ ArmInv

-----------------------------------------------------------------------------
(* The kinds of step of the socket thread.                                 *)
Runs ==
    /\ pc' \in {"ctrl", "first", "event"} /\ asked' = asked
    /\ ev' = ev \/ (ev # <<>> /\ ev' = Tail(ev))

(* No request is read, or one that uses a socket.                          *)
Passes == pipe' = pipe \/ (pipe # <<>> /\ pipe' = Tail(pipe) /\ Using(1))

Silent ==
    Runs /\ Passes /\ UNCHANGED <<slot, alloc_id, open, lost, told>>

(* A service is told something about an id.                                *)
Says(i, what) ==
    /\ Runs /\ Passes /\ UNCHANGED <<slot, alloc_id, open, lost>>
    /\ i \in Issued /\ told' = [told EXCEPT ![i] = what]
    /\ \/ what = "live" /\ Has(i) /\ slot[At(i)].type # "CONNECTING"
       \/ what = "end" /\ ~Has(i) /\ pipe # <<>> /\ pipe' = Tail(pipe) /\ pipe[1].id = i

(* A slot in use stays in use.                                             *)
Retypes(old, new) ==
    \/ new \in {old, "HALFCLOSE"}
    \/ old \in {"PACCEPT", "CONNECTING"} /\ new = "CONNECTED"
    \/ old = "PLISTEN" /\ new = "LISTEN"
Works(s, x) ==
    /\ Runs /\ Passes /\ UNCHANGED <<alloc_id, open, lost>>
    /\ s \in Slot /\ InUse(slot[s]) /\ slot' = [slot EXCEPT ![s] = x]
    /\ x \in SlotRec /\ x.id = slot[s].id /\ InUse(x) /\ Retypes(slot[s].type, x.type)
    /\ x.polled <=> x.type \notin {"PLISTEN", "PACCEPT"}
    /\ x.type \in {"PLISTEN", "LISTEN", "PACCEPT"} => Idle(x)
    /\ told' \in {told, [told EXCEPT ![x.id] = "live"]}
    /\ Good(x)
    /\ \/ Stream(x) = Stream(slot[s])
       \/ pipe # <<>> /\ pipe' = Tail(pipe) /\ Sends(1) /\ Grown(Stream(x), Stream(slot[s]), pipe[1].pkg)
    /\ Waits(x)

(* A slot in use becomes free.                                             *)
Frees(s, x) ==
    /\ Runs /\ Passes /\ UNCHANGED alloc_id
    /\ s \in Slot /\ InUse(slot[s]) /\ slot' = [slot EXCEPT ![s] = x]
    /\ x \in SlotRec /\ x.id = slot[s].id /\ x.type = "INVALID" /\ ~x.polled /\ Idle(x)
    /\ told' = [told EXCEPT ![x.id] = "end"]
    /\ \/ lost' = lost /\ open' = IF slot[s].type = "BIND" THEN open ELSE open \ {x.id}
       \/ lost' = lost \cup {x.id} /\ open' = open /\ slot[s].type \in {"PACCEPT", "PLISTEN"}

(* A reserved slot becomes free, or the slot of its socket.                *)
Makes(i) == pipe # <<>> /\ pipe' = Tail(pipe) /\ Making(1) /\ i = pipe[1].id
Fails(i) ==
    /\ Runs /\ Makes(i) /\ pipe[1].cmd # "L" /\ UNCHANGED <<alloc_id, open, lost>>
    /\ slot' = [slot EXCEPT ![At(i)] = [slot[At(i)] EXCEPT !.type = "INVALID"]]
    /\ told' = [told EXCEPT ![i] = "end"]
Fresh(x, i) ==
    /\ x \in SlotRec /\ x.id = i /\ InUse(x) /\ Idle(x) /\ x.wb_size = 0
    /\ x.polled <=> x.type \notin {"PLISTEN", "PACCEPT"}
Opens(i, x) ==
    /\ Runs /\ Makes(i) /\ UNCHANGED <<alloc_id, lost>>
    /\ Fresh(x, i) /\ x.type \in {"CONNECTED", "CONNECTING", "PLISTEN", "BIND"}
    /\ pipe[1].cmd = "L" => x.type # "BIND"
    /\ slot' = [slot EXCEPT ![At(i)] = x]
    /\ told' \in {told, [told EXCEPT ![i] = "live"]}
    /\ x.type = "CONNECTING" => x.armed
    /\ open' = IF x.type = "BIND" THEN open ELSE open \cup {i}

(* A connection is accepted at id l: it takes a free slot.                 *)
Accepts(i, l, x) ==
    /\ Runs /\ pipe' = pipe /\ UNCHANGED lost
    /\ i \in Id /\ Reserves(i) /\ Has(l) /\ slot[At(l)].type = "LISTEN"
    /\ Fresh(x, i) /\ x.type = "PACCEPT"
    /\ slot' = [slot EXCEPT ![At(i)] = x]
    /\ told' = [told EXCEPT ![l] = "live", ![i] = "live"]
    /\ open' = open \cup {i}

(* The request to end.                                                     *)
Ends ==
    /\ pipe # <<>> /\ pipe' = Tail(pipe) /\ pipe[1].cmd = "X"
    /\ pc' = "exit" /\ ev' = <<>>
    /\ UNCHANGED <<slot, alloc_id, open, lost, told, asked>>

Kind ==
    \/ Silent
    \/ \E i \in Id: Says(i, "live") \/ Says(i, "end")
    \/ \E s \in Slot, x \in SlotRec: Works(s, x) \/ Frees(s, x)
    \/ \E i \in Id: Fails(i) \/ \E x \in SlotRec: Opens(i, x)
    \/ \E i, l \in Id, x \in SlotRec: Accepts(i, l, x)
    \/ Ends

-----------------------------------------------------------------------------
(* Sequences that lose their head.                                         *)
LEMMA AtSlot == \A i \in Nat: At(i) \in Slot
<1>1. PICK M \in Nat \ {0}: M = MaxSocket
  BY SocketAssumption
<1>2. ASSUME NEW i \in Nat PROVE i % M \in 0..M-1
  BY <1>1
<1> QED BY <1>1, <1>2 DEF At, Slot

LEMMA TailIs ==
    ASSUME NEW S, NEW q \in Seq(S), q # <<>>
    PROVE  /\ Tail(q) \in Seq(S) /\ Head(q) = q[1] /\ q[1] \in S
           /\ Len(q) \in Nat \ {0} /\ DOMAIN q = 1..Len(q) /\ 1 \in DOMAIN q
           /\ Len(Tail(q)) = Len(q) - 1 /\ DOMAIN Tail(q) = 1..Len(q) - 1
           /\ \A k \in DOMAIN Tail(q): Tail(q)[k] = q[k + 1]
<1>1. Len(q) \in Nat \ {0} /\ DOMAIN q = 1..Len(q)
  OBVIOUS
<1>2. Tail(q) \in Seq(S) /\ Head(q) = q[1] /\ Len(Tail(q)) = Len(q) - 1
  OBVIOUS
<1>3. DOMAIN Tail(q) = 1..Len(q) - 1
  BY <1>2
<1>4. 1 \in DOMAIN q
  BY <1>1
<1>5. ASSUME NEW k \in DOMAIN Tail(q) PROVE Tail(q)[k] = q[k + 1]
  BY <1>2
<1> QED BY <1>1, <1>2, <1>3, <1>4, <1>5

(* What a step of the socket thread does to the pipe, of which it reads d  *)
(* requests, and to the events.                                            *)
Moves(d) ==
    /\ pipe' \in Seq(Requests) /\ ev' \in Seq(Events)
    /\ pc' \in {"ctrl", "first", "event"} /\ asked' = asked
    /\ Len(pipe') = Len(pipe) - d
    /\ \A k \in DOMAIN pipe: k \in Nat \ {0}
    /\ \A k \in DOMAIN pipe': k \in Nat \ {0} /\ k + d \in DOMAIN pipe /\ pipe'[k] = pipe[k + d]
    /\ \A k \in DOMAIN pipe: k > d => k - d \in DOMAIN pipe' /\ pipe'[k - d] = pipe[k]
    /\ \A k \in DOMAIN ev': \E j \in DOMAIN ev: ev'[k] = ev[j]

LEMMA MovesZero ==
    ASSUME TypeOK, Runs, pipe' = pipe
    PROVE  Moves(0)
<1>1. pipe \in Seq(Requests) /\ ev \in Seq(Events)
  BY DEF TypeOK, Requests, Events
<1>2. \A k \in DOMAIN pipe: k \in Nat \ {0}
  BY <1>1
<1>3. ev' \in Seq(Events) /\ \A k \in DOMAIN ev': \E j \in DOMAIN ev: ev'[k] = ev[j]
  <2>1. CASE ev' = ev
    BY <2>1, <1>1
  <2>2. CASE ev # <<>> /\ ev' = Tail(ev)
    <3>1. PICK q, v: q = ev /\ v = Tail(q)
      OBVIOUS
    <3>2. /\ v \in Seq(Events) /\ Len(q) \in Nat /\ DOMAIN q = 1..Len(q)
          /\ DOMAIN v = 1..Len(q)-1 /\ \A k \in DOMAIN v: v[k] = q[k + 1]
      BY <1>1, <2>2, <3>1, TailIs
    <3>3. \A k \in DOMAIN v: k + 1 \in DOMAIN q
      BY <3>2
    <3>4. ev' = v /\ ev = q
      BY <2>2, <3>1
    <3> QED BY <3>2, <3>3, <3>4
  <2> QED BY <2>1, <2>2 DEF Runs
<1>4. PICK n \in Nat: n = Len(pipe)
  BY <1>1
<1>5. \A k \in Nat: k + 0 = k /\ k - 0 = k
  OBVIOUS
<1>6. n = n - 0
  OBVIOUS
<1> QED BY <1>1, <1>2, <1>3, <1>4, <1>5, <1>6 DEF Moves, Runs

LEMMA MovesOne ==
    ASSUME TypeOK, Runs, pipe # <<>>, pipe' = Tail(pipe)
    PROVE  Moves(1) /\ 1 \in DOMAIN pipe /\ pipe[1] \in Requests
<1>1. pipe \in Seq(Requests) /\ ev \in Seq(Events)
  BY DEF TypeOK, Requests, Events
<1>3. ev' \in Seq(Events) /\ \A k \in DOMAIN ev': \E j \in DOMAIN ev: ev'[k] = ev[j]
  <2>1. CASE ev' = ev
    BY <2>1, <1>1
  <2>2. CASE ev # <<>> /\ ev' = Tail(ev)
    <3>1. PICK q, v: q = ev /\ v = Tail(q)
      OBVIOUS
    <3>2. /\ v \in Seq(Events) /\ Len(q) \in Nat /\ DOMAIN q = 1..Len(q)
          /\ DOMAIN v = 1..Len(q)-1 /\ \A k \in DOMAIN v: v[k] = q[k + 1]
      BY <1>1, <2>2, <3>1, TailIs
    <3>3. \A k \in DOMAIN v: k + 1 \in DOMAIN q
      BY <3>2
    <3>4. ev' = v /\ ev = q
      BY <2>2, <3>1
    <3> QED BY <3>2, <3>3, <3>4
  <2> QED BY <2>1, <2>2 DEF Runs
<1>4. PICK q, v: q = pipe /\ v = Tail(q)
  OBVIOUS
<1>5. /\ v \in Seq(Requests) /\ Len(v) = Len(q) - 1 /\ DOMAIN q = 1..Len(q) /\ 1 \in DOMAIN q
      /\ DOMAIN v = 1..Len(q)-1 /\ \A k \in DOMAIN v: v[k] = q[k + 1]
  BY <1>1, <1>4, TailIs
<1>6. PICK n \in Nat: n = Len(q)
  BY <1>1, <1>4
<1>7. \A k \in DOMAIN q: k \in Nat \ {0}
  BY <1>5, <1>6
<1>8. \A k \in DOMAIN v: k \in Nat \ {0} /\ k + 1 \in DOMAIN q /\ v[k] = q[k + 1]
  BY <1>5, <1>6
<1>9. ASSUME NEW k \in DOMAIN q, k > 1 PROVE k - 1 \in DOMAIN v /\ v[k - 1] = q[k]
  <2>1. k - 1 \in DOMAIN v /\ (k - 1) + 1 = k
    BY <1>5, <1>6, <1>9
  <2> QED BY <2>1, <1>8
<1>10. pipe' = v /\ pipe = q
  BY <1>4
<1>11. q[1] \in Requests
  BY <1>1, <1>4, TailIs
<1> QED BY <1>3, <1>5, <1>7, <1>8, <1>9, <1>10, <1>11 DEF Moves, Runs

(* The request that is read, if any, satisfies one of the two kinds.       *)
LEMMA PassesIs ==
    ASSUME TypeOK, Runs, Passes
    PROVE  \E d \in {0, 1}: Moves(d) /\ (d = 1 => 1 \in DOMAIN pipe /\ Using(1))
BY MovesZero, MovesOne DEF Passes

-----------------------------------------------------------------------------
(* The pipe after a step of the socket thread.                             *)
LEMMA PipeKept ==
    ASSUME TypeOK, PipeInv, NEW d \in {0, 1}, Moves(d), alloc_id' \in Nat, alloc_id <= alloc_id'
    PROVE  PipeInv'
<1>1. PICK n \in Nat: n = Len(pipe)
  BY DEF TypeOK
<1>2. ASSUME NEW k \in DOMAIN pipe', pipe'[k].cmd # "X" PROVE pipe'[k].id \in 1..alloc_id'
  <2>1. k + d \in DOMAIN pipe /\ pipe'[k] = pipe[k + d]
    BY DEF Moves
  <2>2. pipe[k + d].id \in 1..alloc_id
    BY <2>1, <1>2 DEF PipeInv, Issued
  <2>3. alloc_id \in Nat
    BY DEF TypeOK
  <2> QED BY <2>1, <2>2, <2>3
<1>3. \A k \in DOMAIN pipe': pipe'[k].cmd = "D" => pipe'[k].pkg \in Package
  BY DEF Moves, PipeInv, Sends
<1>4. ASSUME NEW k \in DOMAIN pipe', pipe'[k].cmd = "X" PROVE k = Len(pipe')
  <2>1. k + d \in DOMAIN pipe /\ pipe'[k] = pipe[k + d] /\ k \in Nat /\ Len(pipe') = Len(pipe) - d
    BY DEF Moves
  <2>2. k + d = n
    BY <2>1, <1>1, <1>4 DEF PipeInv
  <2> QED BY <2>1, <2>2, <1>1
<1>5. pc' \notin {"exit", "released"}
  BY DEF Moves
<1> QED BY <1>2, <1>3, <1>4, <1>5 DEF PipeInv, Issued, Sends

(* No slot is reserved or freed for another id.                            *)
Keeps ==
    /\ \A t \in Slot: slot'[t].id = slot[t].id
    /\ \A t \in Slot: slot'[t].type = "RESERVE" <=> slot[t].type = "RESERVE"
    /\ \A t \in Slot: InUse(slot'[t]) =>
         /\ InUse(slot[t])
         /\ slot'[t].type \in {"PLISTEN", "LISTEN"} => slot[t].type \in {"PLISTEN", "LISTEN"}

LEMMA IdSlot == \A i \in Id: At(i) \in Slot
  <1>1. \A i \in Id: i \in Nat
    BY SocketAssumption DEF Id
  <1> QED BY <1>1, AtSlot

LEMMA ReserveKept ==
    ASSUME TypeOK, ReserveInv, NEW d \in {0, 1}, Moves(d), d = 1 => 1 \in DOMAIN pipe /\ Using(1), Keeps
    PROVE  ReserveInv'
<1>1. \A k \in DOMAIN pipe': k \in Nat /\ k + d \in DOMAIN pipe /\ pipe'[k] = pipe[k + d]
  BY DEF Moves
<1>2. ASSUME NEW k \in DOMAIN pipe', NEW i \in Id, pipe'[k].cmd \in {"O", "L", "B"}, pipe'[k].id = i
      PROVE  slot'[At(i)].type = "RESERVE"
  BY <1>1, <1>2, IdSlot DEF ReserveInv, Making, Keeps
<1>3. ASSUME NEW j \in DOMAIN pipe', NEW k \in DOMAIN pipe', NEW h \in Id, NEW i \in Id,
             pipe'[j].cmd \in {"O", "L", "B"}, pipe'[k].cmd \in {"O", "L", "B"},
             pipe'[j].id = h, pipe'[k].id = i, At(h) = At(i)
      PROVE  j = k
  <2>1. j + d = k + d
    BY <1>1, <1>3 DEF ReserveInv, Making
  <2> QED BY <2>1, <1>1
<1>4. ASSUME NEW s \in Slot, slot'[s].type = "RESERVE"
      PROVE  \E k \in DOMAIN pipe', i \in Id: pipe'[k].cmd \in {"O", "L", "B"} /\ pipe'[k].id = i /\ At(i) = s
  <2>1. slot[s].type = "RESERVE"
    BY <1>4 DEF Keeps
  <2>2. PICK k \in DOMAIN pipe, i \in Id: Making(k) /\ pipe[k].id = i /\ At(i) = s
    BY <2>1 DEF ReserveInv
  <2>3. k > d
    <3>1. k \in Nat \ {0}
      BY DEF Moves
    <3>2. CASE d = 1
      <4>1. k # 1
        BY <2>2, <3>2 DEF Making, Using
      <4> QED BY <3>1, <3>2, <4>1
    <3> QED BY <3>1, <3>2
  <2>4. k - d \in DOMAIN pipe' /\ pipe'[k - d] = pipe[k]
    BY <2>3 DEF Moves
  <2> QED BY <2>2, <2>4 DEF Making
<1>5. ASSUME NEW j \in DOMAIN pipe', NEW k \in DOMAIN pipe',
             pipe'[j].cmd \in {"S", "K", "D"}, pipe'[k].cmd \in {"O", "L", "B"},
             j < k \/ pipe'[j].cmd = "D"
      PROVE  pipe'[j].id # pipe'[k].id
  <2>1. j + d < k + d \/ pipe[j + d].cmd = "D"
    BY <1>1, <1>5
  <2> QED BY <1>1, <1>5, <2>1 DEF ReserveInv, Making, Using, Sends
<1>6. ASSUME NEW k \in DOMAIN pipe', NEW i \in Id, pipe'[k].cmd \in {"S", "K", "D"}, pipe'[k].id = i
      PROVE  ~(slot'[At(i)].type = "RESERVE" /\ slot'[At(i)].id = i)
  <2>1. ~Outdated(i)
    BY <1>1, <1>6 DEF ReserveInv, Using
  <2> QED BY <2>1, IdSlot DEF Outdated, Keeps
<1>7. ASSUME NEW k \in DOMAIN pipe', NEW i \in Id, pipe'[k].cmd = "D", pipe'[k].id = i,
             InUse(slot'[At(i)]), slot'[At(i)].id = i
      PROVE  slot'[At(i)].type \notin {"PLISTEN", "LISTEN"}
  <2>1. Has(i) /\ At(i) \in Slot
    BY <1>7, IdSlot DEF Has, Keeps
  <2>2. slot[At(i)].type \notin {"PLISTEN", "LISTEN"}
    BY <1>1, <1>7, <2>1 DEF ReserveInv, Sends
  <2> QED BY <1>7, <2>1, <2>2 DEF Keeps
<1>8. ASSUME NEW k \in DOMAIN ev', NEW s \in Slot, ev'[k].slot = s
      PROVE  slot'[s].type # "RESERVE"
  BY <1>8 DEF Moves, ReserveInv, Keeps
<1> QED BY <1>2, <1>3, <1>4, <1>5, <1>6, <1>7, <1>8 DEF ReserveInv, Making, Using, Sends, Has, Outdated

(* A reserved slot gets its socket, or is free again.                      *)
LEMMA ReserveMade ==
    ASSUME TypeOK, ReserveInv, Moves(1), 1 \in DOMAIN pipe, Making(1),
           NEW i \in Id, pipe[1].id = i, NEW x \in SlotRec,
           slot' = [slot EXCEPT ![At(i)] = x], x.type \notin {"RESERVE", "LISTEN"},
           x.type = "PLISTEN" => x.id = i
    PROVE  ReserveInv'
<1>1. \A k \in DOMAIN pipe': k \in Nat \ {0} /\ k + 1 \in DOMAIN pipe /\ pipe'[k] = pipe[k + 1] /\ k + 1 # 1
  BY DEF Moves
<1>0. slot \in [Slot -> SlotRec] /\ At(i) \in Slot
  BY IdSlot DEF TypeOK, SlotRec
<1>9. \A t \in Slot: slot'[t] = IF t = At(i) THEN x ELSE slot[t]
  BY <1>0
<1>2. ASSUME NEW k \in DOMAIN pipe', NEW h \in Id, pipe'[k].cmd \in {"O", "L", "B"}, pipe'[k].id = h
      PROVE  slot'[At(h)].type = "RESERVE" /\ At(h) # At(i)
  <2>1. At(h) # At(i)
    BY <1>1, <1>2 DEF ReserveInv, Making
  <2> QED BY <1>1, <1>2, <1>9, <2>1, IdSlot DEF ReserveInv, Making
<1>3. ASSUME NEW j \in DOMAIN pipe', NEW k \in DOMAIN pipe', NEW h \in Id, NEW g \in Id,
             pipe'[j].cmd \in {"O", "L", "B"}, pipe'[k].cmd \in {"O", "L", "B"},
             pipe'[j].id = h, pipe'[k].id = g, At(h) = At(g)
      PROVE  j = k
  <2>1. j + 1 = k + 1
    BY <1>1, <1>3 DEF ReserveInv, Making
  <2> QED BY <2>1, <1>1
<1>4. ASSUME NEW s \in Slot, slot'[s].type = "RESERVE"
      PROVE  \E k \in DOMAIN pipe', h \in Id: pipe'[k].cmd \in {"O", "L", "B"} /\ pipe'[k].id = h /\ At(h) = s
  <2>1. slot[s].type = "RESERVE" /\ s # At(i)
    BY <1>4, <1>9
  <2>2. PICK k \in DOMAIN pipe, h \in Id: Making(k) /\ pipe[k].id = h /\ At(h) = s
    BY <2>1 DEF ReserveInv
  <2>3. k > 1
    <3>1. k \in Nat \ {0}
      BY DEF Moves
    <3>2. k # 1
      BY <2>1, <2>2
    <3> QED BY <3>1, <3>2
  <2>4. k - 1 \in DOMAIN pipe' /\ pipe'[k - 1] = pipe[k]
    BY <2>3 DEF Moves
  <2> QED BY <2>2, <2>4 DEF Making
<1>5. ASSUME NEW j \in DOMAIN pipe', NEW k \in DOMAIN pipe',
             pipe'[j].cmd \in {"S", "K", "D"}, pipe'[k].cmd \in {"O", "L", "B"},
             j < k \/ pipe'[j].cmd = "D"
      PROVE  pipe'[j].id # pipe'[k].id
  <2>1. j + 1 < k + 1 \/ pipe[j + 1].cmd = "D"
    BY <1>1, <1>5
  <2> QED BY <1>1, <1>5, <2>1 DEF ReserveInv, Making, Using, Sends
<1>6. ASSUME NEW k \in DOMAIN pipe', NEW h \in Id, pipe'[k].cmd \in {"S", "K", "D"}, pipe'[k].id = h
      PROVE  ~(slot'[At(h)].type = "RESERVE" /\ slot'[At(h)].id = h)
  <2>1. ~Outdated(h)
    BY <1>1, <1>6 DEF ReserveInv, Using
  <2> QED BY <2>1, <1>9, IdSlot DEF Outdated
<1>7. ASSUME NEW k \in DOMAIN pipe', NEW h \in Id, pipe'[k].cmd = "D", pipe'[k].id = h,
             InUse(slot'[At(h)]), slot'[At(h)].id = h
      PROVE  slot'[At(h)].type \notin {"PLISTEN", "LISTEN"}
  <2>1. h # i
    BY <1>1, <1>7 DEF ReserveInv, Sends, Using
  <2>2. CASE At(h) = At(i)
    BY <2>1, <2>2, <1>7, <1>9, IdSlot
  <2>3. CASE At(h) # At(i)
    <3>1. slot'[At(h)] = slot[At(h)]
      BY <2>3, <1>9, IdSlot
    <3> QED BY <3>1, <1>1, <1>7 DEF ReserveInv, Sends, Has
  <2> QED BY <2>2, <2>3
<1>8. ASSUME NEW k \in DOMAIN ev', NEW s \in Slot, ev'[k].slot = s
      PROVE  slot'[s].type # "RESERVE"
  BY <1>8, <1>9 DEF Moves, ReserveInv
<1> QED BY <1>2, <1>3, <1>4, <1>5, <1>6, <1>7, <1>8 DEF ReserveInv, Making, Using, Sends, Has, Outdated

(* A free slot is taken by the id of an accepted connection.               *)
LEMMA ReserveAccepted ==
    ASSUME TypeOK, PipeInv, ReserveInv, Moves(0), NEW i \in Id, i > alloc_id, slot[At(i)].type = "INVALID",
           NEW x \in SlotRec, x.type = "PACCEPT", x.id = i, slot' = [slot EXCEPT ![At(i)] = x]
    PROVE  ReserveInv'
<1>1. \A k \in DOMAIN pipe': k \in Nat \ {0} /\ k \in DOMAIN pipe /\ pipe'[k] = pipe[k]
  BY DEF Moves
<1>0. slot \in [Slot -> SlotRec] /\ At(i) \in Slot
  BY IdSlot DEF TypeOK, SlotRec
<1>9. \A t \in Slot: slot'[t] = IF t = At(i) THEN x ELSE slot[t]
  BY <1>0
<1>2. ASSUME NEW k \in DOMAIN pipe', NEW h \in Id, pipe'[k].cmd \in {"O", "L", "B"}, pipe'[k].id = h
      PROVE  slot'[At(h)].type = "RESERVE"
  BY <1>1, <1>2, <1>9, IdSlot DEF ReserveInv, Making
<1>3. ASSUME NEW j \in DOMAIN pipe', NEW k \in DOMAIN pipe', NEW h \in Id, NEW g \in Id,
             pipe'[j].cmd \in {"O", "L", "B"}, pipe'[k].cmd \in {"O", "L", "B"},
             pipe'[j].id = h, pipe'[k].id = g, At(h) = At(g)
      PROVE  j = k
  BY <1>1, <1>3 DEF ReserveInv, Making
<1>4. ASSUME NEW s \in Slot, slot'[s].type = "RESERVE"
      PROVE  \E k \in DOMAIN pipe', h \in Id: pipe'[k].cmd \in {"O", "L", "B"} /\ pipe'[k].id = h /\ At(h) = s
  <2>1. slot[s].type = "RESERVE"
    BY <1>4, <1>9
  <2>2. PICK k \in DOMAIN pipe, h \in Id: Making(k) /\ pipe[k].id = h /\ At(h) = s
    BY <2>1 DEF ReserveInv
  <2>3. k > 0 /\ k - 0 = k
    BY DEF Moves
  <2>4. k - 0 \in DOMAIN pipe' /\ pipe'[k - 0] = pipe[k]
    BY <2>3 DEF Moves
  <2> QED BY <2>2, <2>3, <2>4 DEF Making
<1>5. ASSUME NEW j \in DOMAIN pipe', NEW k \in DOMAIN pipe',
             pipe'[j].cmd \in {"S", "K", "D"}, pipe'[k].cmd \in {"O", "L", "B"},
             j < k \/ pipe'[j].cmd = "D"
      PROVE  pipe'[j].id # pipe'[k].id
  BY <1>1, <1>5 DEF ReserveInv, Making, Using, Sends
<1>6. ASSUME NEW k \in DOMAIN pipe', NEW h \in Id, pipe'[k].cmd \in {"S", "K", "D"}, pipe'[k].id = h
      PROVE  ~(slot'[At(h)].type = "RESERVE" /\ slot'[At(h)].id = h)
  <2>1. ~Outdated(h)
    BY <1>1, <1>6 DEF ReserveInv, Using
  <2> QED BY <2>1, <1>9, IdSlot DEF Outdated
<1>7. ASSUME NEW k \in DOMAIN pipe', NEW h \in Id, pipe'[k].cmd = "D", pipe'[k].id = h,
             InUse(slot'[At(h)]), slot'[At(h)].id = h
      PROVE  slot'[At(h)].type \notin {"PLISTEN", "LISTEN"}
  <2>2. CASE At(h) = At(i)
    BY <2>2, <1>7, <1>9, IdSlot
  <2>3. CASE At(h) # At(i)
    <3>1. slot'[At(h)] = slot[At(h)]
      BY <2>3, <1>9, IdSlot
    <3> QED BY <3>1, <1>1, <1>7 DEF ReserveInv, Sends, Has
  <2> QED BY <2>2, <2>3
<1>8. ASSUME NEW k \in DOMAIN ev', NEW s \in Slot, ev'[k].slot = s
      PROVE  slot'[s].type # "RESERVE"
  BY <1>8, <1>9 DEF Moves, ReserveInv
<1> QED BY <1>2, <1>3, <1>4, <1>5, <1>6, <1>7, <1>8 DEF ReserveInv, Making, Using, Sends, Has, Outdated

-----------------------------------------------------------------------------
(* The slots.                                                              *)
Slots == slot \in [Slot -> SlotRec]

LEMMA SlotsTyped == ASSUME TypeOK PROVE Slots
BY DEF TypeOK, SlotRec, Slots

LEMMA UseIs ==
    ASSUME TypeOK, SlotInv, NEW s \in Slot, InUse(slot[s])
    PROVE  slot[s].id \in Issued /\ slot[s].id \in Id /\ At(slot[s].id) = s /\ Has(slot[s].id)
<1>1. PICK r \in SlotRec: r = slot[s]
  BY SlotsTyped DEF Slots
<1>2. r.id \in 1..alloc_id /\ At(r.id) = s
  BY <1>1 DEF SlotInv, SlotFits, Issued
<1>3. alloc_id \in Nat /\ alloc_id <= MaxId /\ MaxId \in Nat
  BY SocketAssumption DEF TypeOK
<1>4. r.id \in Id
  BY <1>2, <1>3 DEF Id
<1> QED BY <1>1, <1>2, <1>4 DEF Has, Issued

LEMMA SlotSet ==
    ASSUME TypeOK, SlotInv, alloc_id' \in Nat, alloc_id <= alloc_id',
           NEW s \in Slot, NEW x \in SlotRec, slot' = [slot EXCEPT ![s] = x],
           x.id \in 0..alloc_id', InUse(x) => x.id # 0 /\ At(x.id) = s,
           x.polled <=> InUse(x) /\ x.type \notin {"PLISTEN", "PACCEPT"},
           x.type \in {"INVALID", "RESERVE", "PLISTEN", "LISTEN", "PACCEPT"} => Idle(x)
    PROVE  SlotInv'
<1>1. Slots
  BY SlotsTyped
<1>2. \A t \in Slot: slot'[t] = IF t = s THEN x ELSE slot[t]
  BY <1>1 DEF Slots
<1>3. alloc_id \in Nat
  BY DEF TypeOK
<1>4. ASSUME NEW t \in Slot, NEW r \in SlotRec, slot'[t] = r
      PROVE  /\ r.id \in 0..alloc_id'
             /\ InUse(r) => r.id \in 1..alloc_id' /\ At(r.id) = t
             /\ r.polled <=> InUse(r) /\ r.type \notin {"PLISTEN", "PACCEPT"}
             /\ r.type \in {"INVALID", "RESERVE", "PLISTEN", "LISTEN", "PACCEPT"} => Idle(r)
  <2>1. CASE t = s
    <3>1. r = x
      BY <2>1, <1>2, <1>4
    <3>2. InUse(x) => x.id \in 1..alloc_id'
      OBVIOUS
    <3> QED BY <3>1, <3>2, <2>1
  <2>2. CASE t # s
    <3>1. SlotFits(t, r)
      BY <2>2, <1>2, <1>4 DEF SlotInv
    <3>2. r.id \in 0..alloc_id' /\ (InUse(r) => r.id \in 1..alloc_id')
      BY <3>1, <1>3 DEF SlotFits, Issued
    <3> QED BY <3>1, <3>2 DEF SlotFits
  <2> QED BY <2>1, <2>2
<1> QED BY <1>4 DEF SlotInv, SlotFits, Issued

LEMMA SlotsKept ==
    ASSUME SlotInv, UNCHANGED <<slot, alloc_id>>
    PROVE  SlotInv'
BY DEF SlotInv, SlotFits, Issued

-----------------------------------------------------------------------------
(* The descriptors.                                                        *)
LEMMA OpenKept ==
    ASSUME TypeOK, ReserveInv, OpenInv, NEW d \in {0, 1}, Moves(d), d = 1 => 1 \in DOMAIN pipe /\ Using(1),
           UNCHANGED <<alloc_id, open, lost>>,
           \A t \in Slot: /\ slot'[t].id = slot[t].id
                          /\ InUse(slot'[t]) <=> InUse(slot[t])
                          /\ slot'[t].type = "BIND" => slot[t].type = "BIND"
                          /\ slot'[t].type \notin {"INVALID", "RESERVE", "BIND", "HALFCLOSE"} =>
                             slot[t].type \notin {"INVALID", "RESERVE", "BIND", "HALFCLOSE"}
    PROVE  OpenInv'
<1>1. \A k \in DOMAIN pipe': k + d \in DOMAIN pipe /\ pipe'[k] = pipe[k + d]
  BY DEF Moves
<1>0. open \subseteq Id
  BY DEF TypeOK
<1>2. ASSUME NEW i \in open
      PROVE  \/ InUse(slot'[At(i)]) /\ slot'[At(i)].id = i /\ slot'[At(i)].type # "BIND"
             \/ \E k \in DOMAIN pipe': pipe'[k].cmd = "L" /\ pipe'[k].id = i
             \/ i \in lost
  <2>1. Counted(i) /\ At(i) \in Slot
    BY <1>0, IdSlot DEF OpenInv
  <2>2. CASE Has(i) /\ slot[At(i)].type # "BIND"
    BY <2>1, <2>2 DEF Has
  <2>3. ASSUME NEW k \in DOMAIN pipe, pipe[k].cmd = "L" /\ pipe[k].id = i
        PROVE  \E j \in DOMAIN pipe': pipe'[j].cmd = "L" /\ pipe'[j].id = i
    <3>1. k > d
      <4>1. k \in Nat \ {0}
        BY DEF Moves
      <4>2. d = 1 => k # 1
        BY <2>3 DEF Using
      <4> QED BY <4>1, <4>2
    <3>2. k - d \in DOMAIN pipe' /\ pipe'[k - d] = pipe[k]
      BY <3>1 DEF Moves
    <3> QED BY <2>3, <3>2
  <2> QED BY <2>1, <2>2, <2>3 DEF Counted
<1>3. \A i \in lost: ~(InUse(slot'[At(i)]) /\ slot'[At(i)].id = i)
  <2>1. \A i \in lost: At(i) \in Slot /\ ~Has(i)
    BY IdSlot, <1>0 DEF OpenInv
  <2> QED BY <2>1 DEF Has
<1>4. \A i \in lost: \A k \in DOMAIN pipe': pipe'[k].cmd \in {"O", "L", "B"} => pipe'[k].id # i
  BY <1>1 DEF OpenInv, Making
<1>5. pc' # "released"
  BY DEF Moves
<1>6. \A s \in Slot: slot'[s].type \notin {"INVALID", "RESERVE", "BIND", "HALFCLOSE"} => slot'[s].id \in open
  BY DEF OpenInv
<1>7. \A k \in DOMAIN pipe': pipe'[k].cmd = "L" => pipe'[k].id \in open
  BY <1>1 DEF OpenInv
<1> QED BY <1>2, <1>3, <1>4, <1>5, <1>6, <1>7 DEF OpenInv, Counted, Has, Issued, Making

LEMMA OpenFreed ==
    ASSUME TypeOK, SlotInv, ReserveInv, OpenInv, NEW s \in Slot, NEW x \in SlotRec, Frees(s, x)
    PROVE  OpenInv'
<1>1. PICK d \in {0, 1}: Moves(d) /\ (d = 1 => 1 \in DOMAIN pipe /\ Using(1))
  BY PassesIs DEF Frees
<1>2. \A k \in DOMAIN pipe': k + d \in DOMAIN pipe /\ pipe'[k] = pipe[k + d]
  BY <1>1 DEF Moves
<1>3. PICK n \in Id: n = x.id /\ n = slot[s].id /\ At(n) = s /\ Has(n)
  BY UseIs DEF Frees
<1>4. Slots /\ open \subseteq Id
  BY SlotsTyped DEF TypeOK
<1>5. \A t \in Slot: slot'[t] = IF t = s THEN x ELSE slot[t]
  BY <1>4 DEF Slots, Frees
<1>6. \A t \in Slot: InUse(slot[t]) /\ t # s => slot[t].id # n
  BY <1>3, UseIs
<1>7. slot[s].type \notin {"INVALID", "RESERVE"} /\ x.type = "INVALID"
  BY DEF Frees, InUse
<1>8. \A k \in DOMAIN pipe: Making(k) => pipe[k].id # n
  BY <1>3, <1>7 DEF ReserveInv
<1>9. /\ n \notin lost
      /\ \/ lost' = lost /\ open' = open \ {n} /\ slot[s].type # "BIND"
         \/ lost' = lost /\ open' = open /\ slot[s].type = "BIND"
         \/ lost' = lost \cup {n} /\ open' = open /\ n \in open
  <2>1. n \notin lost
    BY <1>3 DEF OpenInv
  <2>2. slot[s].type \in {"PACCEPT", "PLISTEN"} => n \in open
    BY <1>3 DEF OpenInv
  <2> QED BY <1>3, <2>1, <2>2 DEF Frees
<1>10. open' \subseteq open /\ lost' \subseteq open'
  BY <1>9 DEF OpenInv
<1>11. ASSUME NEW t \in Slot, slot'[t].type \notin {"INVALID", "RESERVE", "BIND", "HALFCLOSE"}
       PROVE  slot'[t].id \in open'
  <2>1. t # s /\ slot'[t] = slot[t]
    BY <1>5, <1>7, <1>11
  <2>2. slot[t].id \in open /\ slot[t].id # n
    BY <2>1, <1>6, <1>11 DEF OpenInv, InUse
  <2> QED BY <2>1, <2>2, <1>9
<1>12. ASSUME NEW k \in DOMAIN pipe', pipe'[k].cmd = "L" PROVE pipe'[k].id \in open'
  <2>1. pipe'[k].id \in open /\ pipe'[k].id # n
    BY <1>2, <1>8, <1>12 DEF OpenInv, Making
  <2> QED BY <2>1, <1>9
<1>13. ASSUME NEW i \in open'
      PROVE  \/ InUse(slot'[At(i)]) /\ slot'[At(i)].id = i /\ slot'[At(i)].type # "BIND"
             \/ \E k \in DOMAIN pipe': pipe'[k].cmd = "L" /\ pipe'[k].id = i
             \/ i \in lost'
  <2>1. Counted(i) /\ At(i) \in Slot
    BY <1>4, <1>10, IdSlot DEF OpenInv
  <2>2. CASE Has(i) /\ slot[At(i)].type # "BIND"
    <3>1. CASE At(i) = s
      <4>1. i = n
        BY <2>2, <3>1, <1>3 DEF Has
      <4> QED BY <4>1, <2>2, <3>1, <1>9
    <3>2. CASE At(i) # s
      BY <3>2, <1>5, <2>1, <2>2 DEF Has
    <3> QED BY <3>1, <3>2
  <2>3. ASSUME NEW k \in DOMAIN pipe, pipe[k].cmd = "L" /\ pipe[k].id = i
        PROVE  \E j \in DOMAIN pipe': pipe'[j].cmd = "L" /\ pipe'[j].id = i
    <3>1. k > d
      <4>1. k \in Nat \ {0}
        BY <1>1 DEF Moves
      <4>2. d = 1 => k # 1
        BY <2>3, <1>1 DEF Using
      <4> QED BY <4>1, <4>2
    <3>2. k - d \in DOMAIN pipe' /\ pipe'[k - d] = pipe[k]
      BY <3>1, <1>1 DEF Moves
    <3> QED BY <2>3, <3>2
  <2>4. i \in lost => i \in lost'
    BY <1>9
  <2> QED BY <2>1, <2>2, <2>3, <2>4 DEF Counted
<1>14. ASSUME NEW i \in lost'
       PROVE  /\ ~(InUse(slot'[At(i)]) /\ slot'[At(i)].id = i)
              /\ \A k \in DOMAIN pipe': pipe'[k].cmd \in {"O", "L", "B"} => pipe'[k].id # i
  <2>1. CASE i = n
    <3>1. slot'[At(i)] = x
      BY <2>1, <1>3, <1>5
    <3>2. ~InUse(slot'[At(i)])
      BY <3>1, <1>7 DEF InUse
    <3> QED BY <3>2, <2>1, <1>2, <1>8 DEF Making
  <2>2. CASE i # n
    <3>1. i \in lost /\ i \in Id
      BY <2>2, <1>4, <1>9, <1>10, <1>14 DEF OpenInv
    <3>2. ~(InUse(slot'[At(i)]) /\ slot'[At(i)].id = i)
      <4>1. ~Has(i) /\ At(i) \in Slot
        BY <3>1, IdSlot DEF OpenInv
      <4>2. ~InUse(x)
        BY <1>7 DEF InUse
      <4> QED BY <4>1, <4>2, <1>5 DEF Has
    <3> QED BY <3>1, <3>2, <1>2 DEF OpenInv, Making
  <2> QED BY <2>1, <2>2
<1>15. pc' # "released"
  BY <1>1 DEF Moves
<1>16. alloc_id' = alloc_id /\ open' \subseteq 1..alloc_id
  BY <1>10 DEF OpenInv, Issued, Frees
<1> QED BY <1>10, <1>11, <1>12, <1>13, <1>14, <1>15, <1>16 DEF OpenInv, Counted, Has, Issued, Making

LEMMA MakesIs ==
    ASSUME TypeOK, PipeInv, ReserveInv, Runs, NEW i, Makes(i)
    PROVE  /\ Moves(1) /\ 1 \in DOMAIN pipe /\ Making(1) /\ pipe[1].id = i
           /\ i \in Id /\ i \in Issued /\ At(i) \in Slot /\ slot[At(i)].type = "RESERVE"
<1>1. Moves(1) /\ 1 \in DOMAIN pipe
  BY MovesOne DEF Makes
<1>2. pipe[1].id = i /\ Making(1)
  BY DEF Makes
<1>3. i \in Issued
  BY <1>1, <1>2 DEF PipeInv, Making
<1>4. i \in Id
  <2>1. alloc_id \in Nat /\ alloc_id <= MaxId /\ MaxId \in Nat
    BY SocketAssumption DEF TypeOK
  <2> QED BY <2>1, <1>3 DEF Issued, Id
<1>5. slot[At(i)].type = "RESERVE" /\ At(i) \in Slot
  BY <1>1, <1>2, <1>4, IdSlot DEF ReserveInv
<1> QED BY <1>1, <1>2, <1>3, <1>4, <1>5

LEMMA OpenFailed ==
    ASSUME TypeOK, PipeInv, SlotInv, ReserveInv, OpenInv, NEW i \in Id, Fails(i)
    PROVE  OpenInv'
<1>1. Moves(1) /\ 1 \in DOMAIN pipe /\ Making(1) /\ pipe[1].id = i /\ At(i) \in Slot /\ slot[At(i)].type = "RESERVE"
  BY MakesIs DEF Fails
<1>2. \A k \in DOMAIN pipe': k + 1 \in DOMAIN pipe /\ pipe'[k] = pipe[k + 1]
  BY <1>1 DEF Moves
<1>3. /\ \A t \in Slot: t # At(i) => slot'[t] = slot[t]
      /\ slot'[At(i)].type = "INVALID"
  BY SlotsTyped, <1>1 DEF Slots, Fails, SlotRec
<1>4. UNCHANGED <<alloc_id, open, lost>> /\ pc' # "released" /\ pipe[1].cmd # "L"
  BY <1>1 DEF Fails, Moves
<1>5. ASSUME NEW j \in Id
      PROVE  (InUse(slot'[At(j)]) /\ slot'[At(j)].id = j) <=> Has(j)
  <2>1. CASE At(j) = At(i)
    <3>1. ~InUse(slot[At(i)]) /\ ~InUse(slot'[At(i)])
      BY <1>1, <1>3 DEF InUse
    <3> QED BY <2>1, <3>1 DEF Has
  <2>2. CASE At(j) # At(i)
    BY <2>2, <1>3, IdSlot DEF Has
  <2> QED BY <2>1, <2>2
<1>6. open \subseteq Id /\ lost \subseteq Id
  BY DEF TypeOK
<1>7. ASSUME NEW j \in open
      PROVE  \/ InUse(slot'[At(j)]) /\ slot'[At(j)].id = j /\ slot'[At(j)].type # "BIND"
             \/ \E k \in DOMAIN pipe': pipe'[k].cmd = "L" /\ pipe'[k].id = j
             \/ j \in lost
  <2>1. Counted(j) /\ j \in Id
    BY <1>6 DEF OpenInv
  <2>2. CASE Has(j) /\ slot[At(j)].type # "BIND"
    <3>1. At(j) # At(i)
      BY <2>2, <1>1 DEF Has, InUse
    <3>2. slot'[At(j)] = slot[At(j)]
      BY <2>1, <3>1, <1>3, IdSlot
    <3> QED BY <2>2, <3>2 DEF Has
  <2>3. ASSUME NEW k \in DOMAIN pipe, pipe[k].cmd = "L" /\ pipe[k].id = j
        PROVE  \E h \in DOMAIN pipe': pipe'[h].cmd = "L" /\ pipe'[h].id = j
    <3>1. k > 1
      <4>1. k \in Nat \ {0}
        BY <1>1 DEF Moves
      <4>2. k # 1
        BY <2>3, <1>4
      <4> QED BY <4>1, <4>2
    <3>2. k - 1 \in DOMAIN pipe' /\ pipe'[k - 1] = pipe[k]
      BY <3>1, <1>1 DEF Moves
    <3> QED BY <2>3, <3>2
  <2> QED BY <2>1, <2>2, <2>3 DEF Counted
<1>8. \A j \in lost: /\ ~(InUse(slot'[At(j)]) /\ slot'[At(j)].id = j)
                     /\ \A k \in DOMAIN pipe': pipe'[k].cmd \in {"O", "L", "B"} => pipe'[k].id # j
  BY <1>2, <1>5, <1>6 DEF OpenInv, Making
<1>9. ASSUME NEW t \in Slot, slot'[t].type \notin {"INVALID", "RESERVE", "BIND", "HALFCLOSE"}
      PROVE  slot'[t].id \in open
  BY <1>3, <1>9 DEF OpenInv
<1>10. \A k \in DOMAIN pipe': pipe'[k].cmd = "L" => pipe'[k].id \in open
  BY <1>2 DEF OpenInv
<1> QED BY <1>4, <1>7, <1>8, <1>9, <1>10 DEF OpenInv, Counted, Has, Issued, Making

LEMMA OpenOpened ==
    ASSUME TypeOK, PipeInv, SlotInv, ReserveInv, OpenInv, NEW i \in Id, NEW x \in SlotRec, Opens(i, x)
    PROVE  OpenInv'
<1>1. /\ Moves(1) /\ 1 \in DOMAIN pipe /\ Making(1) /\ pipe[1].id = i /\ At(i) \in Slot
      /\ slot[At(i)].type = "RESERVE" /\ i \in Issued
  BY MakesIs DEF Opens
<1>2. \A k \in DOMAIN pipe': k + 1 \in DOMAIN pipe /\ pipe'[k] = pipe[k + 1] /\ k + 1 # 1
  BY <1>1 DEF Moves
<1>3. /\ \A t \in Slot: t # At(i) => slot'[t] = slot[t]
      /\ slot'[At(i)] = x
  BY SlotsTyped, <1>1 DEF Slots, Opens
<1>4. UNCHANGED <<alloc_id, lost>> /\ pc' # "released"
  BY <1>1 DEF Opens, Moves
<1>5. x.id = i /\ InUse(x) /\ (x.type = "BIND" => pipe[1].cmd # "L" /\ open' = open)
      /\ (x.type # "BIND" => open' = open \cup {i})
  BY DEF Opens, Fresh
<1>6. open \subseteq Id /\ lost \subseteq Id /\ open \subseteq Issued /\ lost \subseteq open /\ i \notin lost
  BY <1>1 DEF TypeOK, OpenInv
<1>7. ASSUME NEW j \in Id, j # i
      PROVE  /\ (InUse(slot'[At(j)]) /\ slot'[At(j)].id = j) <=> Has(j)
             /\ Has(j) => slot'[At(j)] = slot[At(j)]
  <2>1. CASE At(j) = At(i)
    <3>1. ~InUse(slot[At(i)])
      BY <1>1 DEF InUse
    <3> QED BY <2>1, <3>1, <1>3, <1>5, <1>7 DEF Has
  <2>2. CASE At(j) # At(i)
    BY <2>2, <1>3, IdSlot DEF Has
  <2> QED BY <2>1, <2>2
<1>8. ASSUME NEW j \in open'
      PROVE  \/ InUse(slot'[At(j)]) /\ slot'[At(j)].id = j /\ slot'[At(j)].type # "BIND"
             \/ \E k \in DOMAIN pipe': pipe'[k].cmd = "L" /\ pipe'[k].id = j
             \/ j \in lost
  <2>1. CASE j = i /\ x.type # "BIND"
    BY <2>1, <1>3, <1>5
  <2>2. CASE ~(j = i /\ x.type # "BIND")
    <3>1. Counted(j) /\ j \in Id
      BY <2>2, <1>5, <1>6 DEF OpenInv
    <3>2. CASE Has(j) /\ slot[At(j)].type # "BIND"
      <4>1. j # i
        BY <3>2, <1>1 DEF Has, InUse
      <4> QED BY <4>1, <3>1, <3>2, <1>7 DEF Has
    <3>3. ASSUME NEW k \in DOMAIN pipe, pipe[k].cmd = "L" /\ pipe[k].id = j
          PROVE  \E h \in DOMAIN pipe': pipe'[h].cmd = "L" /\ pipe'[h].id = j
      <4>1. k > 1
        <5>1. k \in Nat \ {0}
          BY <1>1 DEF Moves
        <5>2. k # 1
          BY <2>2, <3>3, <1>1, <1>5
        <5> QED BY <5>1, <5>2
      <4>2. k - 1 \in DOMAIN pipe' /\ pipe'[k - 1] = pipe[k]
        BY <4>1, <1>1 DEF Moves
      <4> QED BY <3>3, <4>2
    <3> QED BY <3>1, <3>2, <3>3 DEF Counted
  <2> QED BY <2>1, <2>2
<1>9. \A j \in lost: /\ ~(InUse(slot'[At(j)]) /\ slot'[At(j)].id = j)
                     /\ \A k \in DOMAIN pipe': pipe'[k].cmd \in {"O", "L", "B"} => pipe'[k].id # j
  BY <1>2, <1>6, <1>7 DEF OpenInv, Making
<1>10. open \subseteq open'
  BY <1>5
<1>11. ASSUME NEW t \in Slot, slot'[t].type \notin {"INVALID", "RESERVE", "BIND", "HALFCLOSE"}
      PROVE  slot'[t].id \in open'
  <2>1. CASE t = At(i)
    BY <2>1, <1>3, <1>5, <1>11
  <2>2. CASE t # At(i)
    BY <2>2, <1>3, <1>10, <1>11 DEF OpenInv
  <2> QED BY <2>1, <2>2
<1>12. \A k \in DOMAIN pipe': pipe'[k].cmd = "L" => pipe'[k].id \in open'
  BY <1>2, <1>10 DEF OpenInv
<1>13. open' \subseteq 1..alloc_id
  BY <1>1, <1>5, <1>6 DEF Issued
<1> QED BY <1>4, <1>6, <1>8, <1>9, <1>10, <1>11, <1>12, <1>13 DEF OpenInv, Counted, Has, Issued, Making

LEMMA FirstFree ==
    ASSUME TypeOK, NEW i \in Id, Reserves(i)
    PROVE  /\ i > alloc_id /\ alloc_id' = i /\ slot[At(i)].type = "INVALID" /\ Quiet(At(i))
           /\ At(i) \in Slot /\ alloc_id \in Nat /\ i \in Nat /\ i <= MaxId
<1>1. i \in Candidates /\ alloc_id' = i
  BY DEF Reserves
<1>2. i \in alloc_id+1..alloc_id+MaxSocket /\ alloc_id \in Nat /\ MaxSocket \in Nat
  BY <1>1, SocketAssumption DEF Candidates, TypeOK
<1>3. i > alloc_id
  BY <1>2
<1>4. i \in Nat /\ i <= MaxId
  BY SocketAssumption DEF Id
<1> QED BY <1>1, <1>2, <1>3, <1>4, IdSlot DEF Candidates

LEMMA OpenAccepted ==
    ASSUME TypeOK, PipeInv, SlotInv, ReserveInv, OpenInv, NEW i \in Id, NEW l \in Id, NEW x \in SlotRec,
           Accepts(i, l, x)
    PROVE  OpenInv'
<1>1. Moves(0)
  BY MovesZero DEF Accepts
<1>2. \A k \in DOMAIN pipe': k \in DOMAIN pipe /\ pipe'[k] = pipe[k]
  BY DEF Accepts
<1>3. /\ i > alloc_id /\ alloc_id' = i /\ slot[At(i)].type = "INVALID" /\ At(i) \in Slot
      /\ alloc_id \in Nat /\ i \in Nat
  BY FirstFree DEF Accepts
<1>4. /\ \A t \in Slot: t # At(i) => slot'[t] = slot[t]
      /\ slot'[At(i)] = x
  BY SlotsTyped, <1>3 DEF Slots, Accepts
<1>5. /\ lost' = lost /\ pc' # "released" /\ open' = open \cup {i} /\ pipe' = pipe
      /\ x.id = i /\ InUse(x) /\ x.type = "PACCEPT"
  BY <1>1 DEF Accepts, Fresh, Moves
<1>6. open \subseteq Id /\ lost \subseteq Id /\ open \subseteq 1..alloc_id /\ lost \subseteq open
  BY DEF TypeOK, OpenInv, Issued
<1>7. i \notin open /\ i \notin lost
  <2>1. \A j \in 1..alloc_id: j # i
    BY <1>3
  <2> QED BY <2>1, <1>6
<1>8. ASSUME NEW j \in Id, j # i
      PROVE  /\ (InUse(slot'[At(j)]) /\ slot'[At(j)].id = j) <=> Has(j)
             /\ Has(j) => slot'[At(j)] = slot[At(j)]
  <2>1. CASE At(j) = At(i)
    <3>1. ~InUse(slot[At(i)])
      BY <1>3 DEF InUse
    <3> QED BY <2>1, <3>1, <1>4, <1>5, <1>8 DEF Has
  <2>2. CASE At(j) # At(i)
    BY <2>2, <1>4, IdSlot DEF Has
  <2> QED BY <2>1, <2>2
<1>9. ASSUME NEW j \in open'
      PROVE  \/ InUse(slot'[At(j)]) /\ slot'[At(j)].id = j /\ slot'[At(j)].type # "BIND"
             \/ \E k \in DOMAIN pipe': pipe'[k].cmd = "L" /\ pipe'[k].id = j
             \/ j \in lost
  <2>1. CASE j = i
    BY <2>1, <1>4, <1>5
  <2>2. CASE j # i
    <3>1. Counted(j) /\ j \in Id
      BY <2>2, <1>5, <1>6 DEF OpenInv
    <3>2. CASE Has(j) /\ slot[At(j)].type # "BIND"
      BY <2>2, <3>1, <3>2, <1>8 DEF Has
    <3> QED BY <3>1, <3>2, <1>5 DEF Counted
  <2> QED BY <2>1, <2>2
<1>10. \A j \in lost: /\ ~(InUse(slot'[At(j)]) /\ slot'[At(j)].id = j)
                      /\ \A k \in DOMAIN pipe': pipe'[k].cmd \in {"O", "L", "B"} => pipe'[k].id # j
  BY <1>2, <1>6, <1>7, <1>8 DEF OpenInv, Making
<1>11. ASSUME NEW t \in Slot, slot'[t].type \notin {"INVALID", "RESERVE", "BIND", "HALFCLOSE"}
      PROVE  slot'[t].id \in open'
  <2>1. CASE t = At(i)
    BY <2>1, <1>4, <1>5, <1>11
  <2>2. CASE t # At(i)
    BY <2>2, <1>4, <1>5, <1>11 DEF OpenInv
  <2> QED BY <2>1, <2>2
<1>12. \A k \in DOMAIN pipe': pipe'[k].cmd = "L" => pipe'[k].id \in open'
  BY <1>2, <1>5 DEF OpenInv
<1>13. open' \subseteq 1..alloc_id'
  <2>1. 1..alloc_id \subseteq 1..i /\ i \in 1..i
    BY <1>3 DEF Id
  <2> QED BY <2>1, <1>3, <1>5, <1>6
<1> QED BY <1>5, <1>6, <1>9, <1>10, <1>11, <1>12, <1>13 DEF OpenInv, Counted, Has, Issued, Making

-----------------------------------------------------------------------------
(* What is told.                                                           *)
LEMMA MadeIsNot ==
    ASSUME TypeOK, ReserveInv, NEW k \in DOMAIN pipe, Making(k), NEW i \in Id, Has(i)
    PROVE  pipe[k].id # i
BY DEF ReserveInv, Has, InUse

LEMMA ToldKept ==
    ASSUME TypeOK, PipeInv, SlotInv, ReserveInv, ToldInv, NEW d \in {0, 1}, Moves(d),
           UNCHANGED alloc_id,
           \A t \in Slot: InUse(slot'[t]) => InUse(slot[t]) /\ slot'[t].id = slot[t].id,
           NEW i \in Id, NEW what \in {"none", "live", "end"}, told' = [told EXCEPT ![i] = what],
           i \in Issued, what = "end" => \A t \in Slot: InUse(slot'[t]) => slot[t].id # i,
           \A k \in DOMAIN pipe: k > d /\ Making(k) => pipe[k].id # i
    PROVE  ToldInv'
<1>1. \A k \in DOMAIN pipe': k \in Nat \ {0} /\ k + d \in DOMAIN pipe /\ pipe'[k] = pipe[k + d]
  BY DEF Moves
<1>2. \A k \in Nat \ {0}: k + d > d
  OBVIOUS
<1>3. told \in [Id -> {"none", "live", "end"}]
  BY DEF TypeOK
<1>4. \A j \in Id: told'[j] = IF j = i THEN what ELSE told[j]
  BY <1>3
<1>5. ASSUME NEW j \in Id, j > alloc_id PROVE told'[j] = "none"
  <2>1. \A h \in 1..alloc_id: ~(h > alloc_id)
    BY DEF TypeOK
  <2>2. j # i
    BY <2>1, <1>5 DEF Issued
  <2> QED BY <2>2, <1>4, <1>5 DEF ToldInv
<1>6. ASSUME NEW s \in Slot, InUse(slot'[s]) PROVE told'[slot'[s].id] # "end"
  <2>1. PICK h \in Id: h = slot[s].id /\ h = slot'[s].id
    BY <1>6, UseIs
  <2>2. told[h] # "end"
    BY <1>6, <2>1 DEF ToldInv
  <2>3. told'[h] # "end"
    BY <1>4, <1>6, <2>1, <2>2
  <2> QED BY <2>1, <2>3
<1>7. ASSUME NEW k \in DOMAIN pipe', pipe'[k].cmd \in {"O", "L", "B"} PROVE told'[pipe'[k].id] = "none"
  <2>1. k + d \in DOMAIN pipe /\ Making(k + d) /\ k + d > d /\ pipe'[k].id = pipe[k + d].id
    BY <1>1, <1>2, <1>7 DEF Making
  <2>2. PICK h \in Id: h = pipe[k + d].id
    <3>1. pipe[k + d].id \in 1..alloc_id
      BY <2>1 DEF PipeInv, Making, Issued
    <3>2. 1..alloc_id \subseteq Id
      BY SocketAssumption DEF TypeOK, Id
    <3> QED BY <3>1, <3>2
  <2>3. told[h] = "none" /\ h # i
    BY <2>1, <2>2 DEF ToldInv
  <2> QED BY <2>1, <2>2, <2>3, <1>4
<1> QED BY <1>5, <1>6, <1>7 DEF ToldInv, Making

LEMMA ToldSame ==
    ASSUME TypeOK, ToldInv, NEW d \in {0, 1}, Moves(d), UNCHANGED <<alloc_id, told>>,
           \A t \in Slot: InUse(slot'[t]) => InUse(slot[t]) /\ slot'[t].id = slot[t].id
    PROVE  ToldInv'
<1>1. \A k \in DOMAIN pipe': k + d \in DOMAIN pipe /\ pipe'[k] = pipe[k + d]
  BY DEF Moves
<1> QED BY <1>1 DEF ToldInv, Making

LEMMA ToldSays ==
    ASSUME TypeOK, PipeInv, SlotInv, ReserveInv, ToldInv, NEW i \in Id, Says(i, "live") \/ Says(i, "end")
    PROVE  ToldInv'
<1>1. PICK d \in {0, 1}: Moves(d) /\ (d = 1 => 1 \in DOMAIN pipe /\ Using(1))
  BY PassesIs DEF Says
<1>2. PICK what \in {"live", "end"}: Says(i, what)
  OBVIOUS
<1>3. what = "end" => \A t \in Slot: InUse(slot'[t]) => slot[t].id # i
  <2>1. ASSUME what = "end", NEW t \in Slot, InUse(slot[t]) PROVE slot[t].id # i
    <3>1. Has(slot[t].id)
      BY <2>1, UseIs
    <3>2. ~Has(i)
      BY <1>2, <2>1 DEF Says
    <3> QED BY <3>1, <3>2
  <2> QED BY <2>1, <1>2 DEF Says
<1>4. ASSUME NEW k \in DOMAIN pipe, k > d, Making(k) PROVE pipe[k].id # i
  <2>1. CASE what = "live"
    BY <2>1, <1>2, <1>4, MadeIsNot DEF Says
  <2>2. CASE what = "end"
    <3>1. pipe # <<>> /\ pipe' = Tail(pipe) /\ pipe[1].id = i
      BY <1>2, <2>2 DEF Says
    <3>2. Len(pipe') = Len(pipe) - 1 /\ Len(pipe') = Len(pipe) - d /\ Len(pipe) \in Nat
      BY <1>1, <3>1, MovesOne, <1>2 DEF Moves, TypeOK, Says
    <3>3. d = 1
      BY <3>2
    <3>4. 1 < k /\ Using(1) /\ 1 \in DOMAIN pipe
      BY <1>1, <1>4, <3>3
    <3> QED BY <3>1, <3>4, <1>4 DEF ReserveInv
  <2> QED BY <2>1, <2>2
<1> QED BY <1>1, <1>2, <1>3, <1>4, ToldKept DEF Says

LEMMA ToldWorks ==
    ASSUME TypeOK, PipeInv, SlotInv, ReserveInv, ToldInv, NEW s \in Slot, NEW x \in SlotRec, Works(s, x)
    PROVE  ToldInv'
<1>1. PICK d \in {0, 1}: Moves(d) /\ (d = 1 => 1 \in DOMAIN pipe /\ Using(1))
  BY PassesIs DEF Works
<1>2. \A t \in Slot: slot'[t] = IF t = s THEN x ELSE slot[t]
  BY SlotsTyped DEF Slots, Works
<1>3. PICK n \in Id: n = slot[s].id /\ Has(n) /\ n \in Issued /\ n = x.id
  BY UseIs DEF Works
<1>4. \A t \in Slot: InUse(slot'[t]) => InUse(slot[t]) /\ slot'[t].id = slot[t].id
  BY <1>2 DEF Works
<1>5. \A k \in DOMAIN pipe: Making(k) => pipe[k].id # n
  BY <1>3, MadeIsNot
<1>6. CASE told' = told
  BY <1>1, <1>4, <1>6, ToldSame DEF Works
<1>7. CASE told' = [told EXCEPT ![n] = "live"]
  <2>1. PICK what \in {"none", "live", "end"}: what = "live" /\ what # "end"
    OBVIOUS
  <2>2. told' = [told EXCEPT ![n] = what] /\ alloc_id' = alloc_id
    BY <1>7, <2>1 DEF Works
  <2> HIDE <1>7
  <2> QED BY <1>1, <1>3, <1>4, <1>5, <2>1, <2>2, ToldKept
<1> QED BY <1>3, <1>6, <1>7 DEF Works

LEMMA ToldFrees ==
    ASSUME TypeOK, PipeInv, SlotInv, ReserveInv, ToldInv, NEW s \in Slot, NEW x \in SlotRec, Frees(s, x)
    PROVE  ToldInv'
<1>1. PICK d \in {0, 1}: Moves(d) /\ (d = 1 => 1 \in DOMAIN pipe /\ Using(1))
  BY PassesIs DEF Frees
<1>2. \A t \in Slot: slot'[t] = IF t = s THEN x ELSE slot[t]
  BY SlotsTyped DEF Slots, Frees
<1>3. PICK n \in Id: n = slot[s].id /\ Has(n) /\ n \in Issued /\ n = x.id /\ At(n) = s
  BY UseIs DEF Frees
<1>4. ~InUse(x) /\ alloc_id' = alloc_id
  BY DEF Frees, InUse
<1>5. \A t \in Slot: InUse(slot'[t]) => InUse(slot[t]) /\ slot'[t].id = slot[t].id
  BY <1>2, <1>4
<1>6. \A k \in DOMAIN pipe: Making(k) => pipe[k].id # n
  BY <1>3, MadeIsNot
<1>7. \A t \in Slot: InUse(slot'[t]) => slot[t].id # n
  <2>1. ASSUME NEW t \in Slot, InUse(slot'[t]) PROVE slot[t].id # n
    <3>1. t # s /\ InUse(slot[t])
      BY <2>1, <1>2, <1>4
    <3>2. At(slot[t].id) = t
      BY <3>1, UseIs
    <3> QED BY <3>1, <3>2, <1>3
  <2> QED BY <2>1
<1>8. PICK what \in {"none", "live", "end"}: what = "end"
  OBVIOUS
<1>9. told' = [told EXCEPT ![n] = what]
  BY <1>3, <1>8 DEF Frees
<1> QED BY <1>1, <1>3, <1>4, <1>5, <1>6, <1>7, <1>9, ToldKept

LEMMA ToldFails ==
    ASSUME TypeOK, PipeInv, SlotInv, ReserveInv, ToldInv, NEW i \in Id, Fails(i)
    PROVE  ToldInv'
<1>1. /\ Moves(1) /\ 1 \in DOMAIN pipe /\ Making(1) /\ pipe[1].id = i /\ At(i) \in Slot
      /\ slot[At(i)].type = "RESERVE" /\ i \in Issued
  BY MakesIs DEF Fails
<1>2. /\ \A t \in Slot: t # At(i) => slot'[t] = slot[t]
      /\ slot'[At(i)].type = "INVALID"
  BY SlotsTyped, <1>1 DEF Slots, Fails, SlotRec
<1>3. \A t \in Slot: InUse(slot'[t]) => t # At(i) /\ InUse(slot[t]) /\ slot'[t].id = slot[t].id
  BY <1>2 DEF InUse
<1>4. \A t \in Slot: InUse(slot'[t]) => slot[t].id # i
  BY <1>3, UseIs
<1>5. \A k \in DOMAIN pipe: k > 1 /\ Making(k) => pipe[k].id # i
  <2>1. \A k \in DOMAIN pipe: Making(k) /\ pipe[k].id = i => k = 1
    BY <1>1 DEF ReserveInv
  <2> QED BY <2>1
<1>6. PICK what \in {"none", "live", "end"}: what = "end"
  OBVIOUS
<1>7. told' = [told EXCEPT ![i] = what] /\ alloc_id' = alloc_id
  BY <1>6 DEF Fails
<1>8. PICK d \in {0, 1}: d = 1
  OBVIOUS
<1>9. Moves(d) /\ \A k \in DOMAIN pipe: k > d /\ Making(k) => pipe[k].id # i
  BY <1>1, <1>5, <1>8
<1> QED BY <1>1, <1>3, <1>4, <1>7, <1>9, ToldKept

LEMMA ToldOpens ==
    ASSUME TypeOK, PipeInv, SlotInv, ReserveInv, ToldInv, NEW i \in Id, NEW x \in SlotRec, Opens(i, x)
    PROVE  ToldInv'
<1>1. /\ Moves(1) /\ 1 \in DOMAIN pipe /\ Making(1) /\ pipe[1].id = i /\ At(i) \in Slot
      /\ slot[At(i)].type = "RESERVE" /\ i \in Issued
  BY MakesIs DEF Opens
<1>2. /\ \A t \in Slot: t # At(i) => slot'[t] = slot[t]
      /\ slot'[At(i)] = x /\ x.id = i /\ alloc_id' = alloc_id
  BY SlotsTyped, <1>1 DEF Slots, Opens, Fresh
<1>3. \A k \in DOMAIN pipe': k + 1 \in DOMAIN pipe /\ pipe'[k] = pipe[k + 1] /\ k + 1 # 1
  BY <1>1 DEF Moves
<1>4. told \in [Id -> {"none", "live", "end"}]
  BY DEF TypeOK
<1>5. told[i] = "none"
  BY <1>1 DEF ToldInv
<1>6. told'[i] \in {"none", "live"} /\ \A j \in Id: j # i => told'[j] = told[j]
  BY <1>4, <1>5 DEF Opens
<1>7. ASSUME NEW j \in Id, j > alloc_id PROVE told'[j] = "none"
  <2>1. \A h \in 1..alloc_id: ~(h > alloc_id)
    BY DEF TypeOK
  <2>2. j # i
    BY <2>1, <1>1, <1>7 DEF Issued
  <2> QED BY <2>2, <1>6, <1>7 DEF ToldInv
<1>8. ASSUME NEW s \in Slot, InUse(slot'[s]) PROVE told'[slot'[s].id] # "end"
  <2>1. CASE s = At(i)
    BY <2>1, <1>2, <1>6
  <2>2. CASE s # At(i)
    <3>1. slot'[s] = slot[s] /\ InUse(slot[s])
      BY <2>2, <1>2, <1>8
    <3>2. PICK h \in Id: h = slot[s].id /\ At(h) = s
      BY <3>1, UseIs
    <3>3. told[h] # "end" /\ h # i
      BY <2>2, <3>1, <3>2 DEF ToldInv
    <3> QED BY <3>1, <3>2, <3>3, <1>6
  <2> QED BY <2>1, <2>2
<1>9. ASSUME NEW k \in DOMAIN pipe', pipe'[k].cmd \in {"O", "L", "B"} PROVE told'[pipe'[k].id] = "none"
  <2>1. k + 1 \in DOMAIN pipe /\ Making(k + 1) /\ k + 1 # 1 /\ pipe'[k].id = pipe[k + 1].id
    BY <1>3, <1>9 DEF Making
  <2>2. PICK h \in Id: h = pipe[k + 1].id
    <3>1. pipe[k + 1].id \in 1..alloc_id
      BY <2>1 DEF PipeInv, Making, Issued
    <3>2. 1..alloc_id \subseteq Id
      BY SocketAssumption DEF TypeOK, Id
    <3> QED BY <3>1, <3>2
  <2>3. h # i
    BY <1>1, <2>1, <2>2 DEF ReserveInv
  <2>4. told[h] = "none"
    BY <2>1, <2>2 DEF ToldInv
  <2> QED BY <2>1, <2>2, <2>3, <2>4, <1>6
<1> QED BY <1>2, <1>7, <1>8, <1>9 DEF ToldInv, Making

LEMMA ToldAccepts ==
    ASSUME TypeOK, PipeInv, SlotInv, ReserveInv, ToldInv, NEW i \in Id, NEW l \in Id, NEW x \in SlotRec,
           Accepts(i, l, x)
    PROVE  ToldInv'
<1>1. /\ i > alloc_id /\ alloc_id' = i /\ slot[At(i)].type = "INVALID" /\ At(i) \in Slot
      /\ alloc_id \in Nat /\ i \in Nat
  BY FirstFree DEF Accepts
<1>2. /\ \A t \in Slot: t # At(i) => slot'[t] = slot[t]
      /\ slot'[At(i)] = x /\ x.id = i
  BY SlotsTyped, <1>1 DEF Slots, Accepts, Fresh
<1>3. told \in [Id -> {"none", "live", "end"}]
  BY DEF TypeOK
<1>4. \A j \in Id: told'[j] = IF j \in {i, l} THEN "live" ELSE told[j]
  BY <1>3 DEF Accepts
<1>5. PICK t \in Slot: t = At(l) /\ Has(l)
  BY IdSlot DEF Accepts
<1>6. l \in 1..alloc_id
  BY <1>5, UseIs DEF Has, Issued
<1>7. ASSUME NEW j \in Id, j > i PROVE told'[j] = "none"
  <2>1. j \in Nat /\ j > alloc_id /\ j # i /\ j # l
    BY <1>1, <1>6, <1>7 DEF Id
  <2> QED BY <2>1, <1>4 DEF ToldInv
<1>8. ASSUME NEW s \in Slot, InUse(slot'[s]) PROVE told'[slot'[s].id] # "end"
  <2>1. CASE s = At(i)
    BY <2>1, <1>2, <1>4
  <2>2. CASE s # At(i)
    <3>1. slot'[s] = slot[s] /\ InUse(slot[s])
      BY <2>2, <1>2, <1>8
    <3>2. PICK h \in Id: h = slot[s].id
      BY <3>1, UseIs
    <3>3. told[h] # "end"
      BY <3>1, <3>2 DEF ToldInv
    <3> QED BY <3>1, <3>2, <3>3, <1>4
  <2> QED BY <2>1, <2>2
<1>9. ASSUME NEW k \in DOMAIN pipe', pipe'[k].cmd \in {"O", "L", "B"} PROVE told'[pipe'[k].id] = "none"
  <2>1. pipe' = pipe /\ k \in DOMAIN pipe /\ Making(k)
    BY <1>9 DEF Making, Accepts
  <2>2. PICK h \in Id: h = pipe[k].id /\ h \in 1..alloc_id
    <3>1. pipe[k].id \in 1..alloc_id
      BY <2>1 DEF PipeInv, Making, Issued
    <3>2. 1..alloc_id \subseteq Id
      BY SocketAssumption DEF TypeOK, Id
    <3> QED BY <3>1, <3>2
  <2>3. h # i
    BY <2>2, <1>1
  <2>4. h # l
    BY <2>1, <2>2, <1>5, MadeIsNot
  <2>5. told[h] = "none"
    BY <2>1, <2>2 DEF ToldInv
  <2> QED BY <2>1, <2>2, <2>3, <2>4, <2>5, <1>4
<1> QED BY <1>1, <1>7, <1>8, <1>9 DEF ToldInv, Making

-----------------------------------------------------------------------------
(* What was sent.                                                          *)
LEMMA StreamKept ==
    ASSUME TypeOK, StreamInv, NEW d \in {0, 1}, Moves(d),
           \A t \in Slot, r \in SlotRec: slot'[t] = r =>
             Good(r) /\ \A k \in DOMAIN Stream(r):
                \/ Older(Stream(r)[k].n)
                \/ d = 1 /\ 1 \in DOMAIN pipe /\ Sends(1) /\ Stream(r)[k] = pipe[1].pkg
    PROVE  StreamInv'
<1>1. \A k \in DOMAIN pipe': k \in Nat \ {0} /\ k + d \in DOMAIN pipe /\ pipe'[k] = pipe[k + d]
  BY DEF Moves
<1>2. asked' = asked
  BY DEF Moves
<1>3. ASSUME NEW t \in Slot, NEW r \in SlotRec, slot'[t] = r
      PROVE  Good(r) /\ \A k \in DOMAIN Stream(r):
                /\ Stream(r)[k].n <= asked'
                /\ \A j \in DOMAIN pipe': pipe'[j].cmd = "D" => Stream(r)[k].n < pipe'[j].pkg.n
  <2>1. Good(r)
    BY <1>3
  <2>2. ASSUME NEW k \in DOMAIN Stream(r)
        PROVE  /\ Stream(r)[k].n <= asked'
               /\ \A j \in DOMAIN pipe': pipe'[j].cmd = "D" => Stream(r)[k].n < pipe'[j].pkg.n
    <3>1. PICK n: n = Stream(r)[k].n
      OBVIOUS
    <3>2. CASE Older(n)
      BY <3>1, <3>2, <1>1, <1>2 DEF Older, Sends
    <3>3. CASE d = 1 /\ 1 \in DOMAIN pipe /\ Sends(1) /\ Stream(r)[k] = pipe[1].pkg
      <4>1. n = pipe[1].pkg.n
        BY <3>1, <3>3
      <4>2. n <= asked
        BY <4>1, <3>3 DEF StreamInv
      <4>3. ASSUME NEW j \in DOMAIN pipe', pipe'[j].cmd = "D" PROVE n < pipe'[j].pkg.n
        <5>1. j \in Nat \ {0} /\ j + 1 \in DOMAIN pipe /\ pipe'[j] = pipe[j + 1]
          BY <3>3, <1>1
        <5>2. 1 < j + 1
          BY <5>1
        <5> QED BY <3>3, <4>1, <4>3, <5>1, <5>2 DEF StreamInv, Sends
      <4> QED BY <3>1, <4>2, <4>3, <1>2
    <3> QED BY <1>3, <3>1, <3>2, <3>3
  <2> QED BY <2>1, <2>2
<1>4. \A k \in DOMAIN pipe': pipe'[k].cmd = "D" => pipe'[k].pkg.n <= asked'
  BY <1>1, <1>2 DEF StreamInv, Sends
<1>5. ASSUME NEW j \in DOMAIN pipe', NEW k \in DOMAIN pipe', j < k, pipe'[j].cmd = "D", pipe'[k].cmd = "D"
      PROVE  pipe'[j].pkg.n < pipe'[k].pkg.n
  <2>1. j + d < k + d
    BY <1>1, <1>5
  <2> QED BY <2>1, <1>1, <1>5 DEF StreamInv, Sends
<1> QED BY <1>3, <1>4, <1>5 DEF StreamInv, Older, Sends

LEMMA StreamSame ==
    ASSUME TypeOK, StreamInv, NEW d \in {0, 1}, Moves(d), slot' = slot
    PROVE  StreamInv'
<1>1. \A t \in Slot, r \in SlotRec: slot'[t] = r => Good(r) /\ \A k \in DOMAIN Stream(r): Older(Stream(r)[k].n)
  BY DEF StreamInv
<1> QED BY <1>1, StreamKept

LEMMA StreamIdle ==
    ASSUME TypeOK, StreamInv, NEW d \in {0, 1}, Moves(d), NEW s \in Slot, NEW x \in SlotRec,
           slot' = [slot EXCEPT ![s] = x], Idle(x), InUse(x) => x.wb_size = 0
    PROVE  StreamInv'
<1>1. \A t \in Slot: slot'[t] = IF t = s THEN x ELSE slot[t]
  BY SlotsTyped DEF Slots
<1>2. Good(x) /\ Stream(x) = <<>>
  BY IdleIs
<1>3. ASSUME NEW k \in DOMAIN Stream(x) PROVE FALSE
  <2>1. PICK u: u = Stream(x) /\ u = <<>> /\ k \in DOMAIN u
    BY <1>2
  <2> QED BY <2>1
<1>4. ASSUME NEW t \in Slot, NEW r \in SlotRec, slot'[t] = r
      PROVE  Good(r) /\ \A k \in DOMAIN Stream(r): Older(Stream(r)[k].n)
  <2>1. CASE t = s
    <3>1. r = x
      BY <2>1, <1>1, <1>4
    <3> QED BY <3>1, <1>2, <1>3
  <2>2. CASE t # s
    BY <2>2, <1>1, <1>4 DEF StreamInv
  <2> QED BY <2>1, <2>2
<1> QED BY <1>4, StreamKept

LEMMA StreamWorks ==
    ASSUME TypeOK, StreamInv, NEW s \in Slot, NEW x \in SlotRec, Works(s, x)
    PROVE  StreamInv'
<1>1. PICK d \in {0, 1}: Moves(d) /\ (d = 1 => 1 \in DOMAIN pipe /\ Using(1))
  BY PassesIs DEF Works
<1>2. \A t \in Slot: slot'[t] = IF t = s THEN x ELSE slot[t]
  BY SlotsTyped DEF Slots, Works
<1>3. PICK y \in SlotRec: y = slot[s]
  BY SlotsTyped DEF Slots
<1>4. \A k \in DOMAIN Stream(y): Older(Stream(y)[k].n)
  BY <1>3 DEF StreamInv
<1>5. ASSUME NEW t \in Slot, NEW r \in SlotRec, slot'[t] = r
      PROVE  Good(r) /\ \A k \in DOMAIN Stream(r):
                \/ Older(Stream(r)[k].n)
                \/ d = 1 /\ 1 \in DOMAIN pipe /\ Sends(1) /\ Stream(r)[k] = pipe[1].pkg
  <2>1. CASE t = s
    <3>1. r = x /\ Good(r)
      BY <2>1, <1>2, <1>5 DEF Works
    <3>2. CASE Stream(x) = Stream(slot[s])
      BY <3>1, <3>2, <1>3, <1>4
    <3>3. CASE pipe # <<>> /\ pipe' = Tail(pipe) /\ Sends(1) /\ Grown(Stream(x), Stream(slot[s]), pipe[1].pkg)
      <4>1. d = 1 /\ 1 \in DOMAIN pipe
        <5>1. Runs
          BY DEF Works
        <5>3. pipe \in Seq(Requests)
          BY DEF TypeOK, Requests
        <5>4. Len(pipe') = Len(pipe) - 1 /\ Len(pipe) \in Nat /\ 1 \in DOMAIN pipe
          BY <3>3, <5>3, TailIs
        <5>5. Len(pipe') = Len(pipe) - d
          BY <1>1 DEF Moves
        <5>2. Len(pipe') = Len(pipe) - 1 /\ Len(pipe') = Len(pipe) - d /\ Len(pipe) \in Nat /\ 1 \in DOMAIN pipe
          BY <5>4, <5>5
        <5> QED BY <5>2
      <4>2. ASSUME NEW k \in DOMAIN Stream(x)
            PROVE  Older(Stream(x)[k].n) \/ Stream(x)[k] = pipe[1].pkg
        <5>1. Stream(x)[k] = pipe[1].pkg \/ \E i \in DOMAIN Stream(y): Stream(x)[k] = Stream(y)[i]
          BY <1>3, <3>3 DEF Grown
        <5> QED BY <5>1, <1>4
      <4> QED BY <3>1, <3>3, <4>1, <4>2
    <3> QED BY <3>2, <3>3 DEF Works
  <2>2. CASE t # s
    BY <2>2, <1>2, <1>5 DEF StreamInv
  <2> QED BY <2>1, <2>2
<1> QED BY <1>1, <1>5, StreamKept

-----------------------------------------------------------------------------
(* What waits for the write event.                                         *)
LEMMA ArmSame == ASSUME ArmInv, slot' = slot PROVE ArmInv'
BY DEF ArmInv

LEMMA ArmSet ==
    ASSUME TypeOK, ArmInv, NEW s \in Slot, NEW x \in SlotRec, slot' = [slot EXCEPT ![s] = x], Waits(x)
    PROVE  ArmInv'
<1>1. \A t \in Slot: slot'[t] = IF t = s THEN x ELSE slot[t]
  BY SlotsTyped DEF Slots
<1> QED BY <1>1 DEF ArmInv

-----------------------------------------------------------------------------
(* The kinds of step preserve the invariant.                               *)
Words == {"none", "live", "end"}

LEMMA TypeKept ==
    ASSUME TypeOK, NEW d, Moves(d), slot' \in [Slot -> SlotRec], alloc_id' \in 0..MaxId,
           open' \subseteq Id, lost' \subseteq Id, told' \in [Id -> Words]
    PROVE  TypeOK'
<1>1. pc' \in {"ctrl", "first", "event", "exit", "released"} /\ asked' \in 0..MaxAsk
  BY DEF Moves, TypeOK
<1>2. pipe' \in Seq(Requests) /\ ev' \in Seq(Events)
  BY DEF Moves
<1> QED BY <1>1, <1>2 DEF TypeOK, SlotRec, Words, Requests, Events

LEMMA TypedIs ==
    ASSUME TypeOK
    PROVE  /\ slot \in [Slot -> SlotRec] /\ alloc_id \in 0..MaxId /\ alloc_id \in Nat
           /\ open \subseteq Id /\ lost \subseteq Id /\ told \in [Id -> Words]
<1>1. slot \in [Slot -> SlotRec]
  BY SlotsTyped DEF Slots
<1> QED BY <1>1, SocketAssumption DEF TypeOK, Words

LEMMA SilentKeeps ==
    ASSUME Inv, Silent
    PROVE  Inv'
<1>1. PICK d \in {0, 1}: Moves(d) /\ (d = 1 => 1 \in DOMAIN pipe /\ Using(1))
  BY PassesIs DEF Silent, Inv
<1>2. UNCHANGED <<slot, alloc_id, open, lost, told>>
  BY DEF Silent
<1>3. TypeOK'
  BY <1>1, <1>2, TypedIs, TypeKept DEF Inv
<1>4. PipeInv'
  <2>1. alloc_id' \in Nat /\ alloc_id <= alloc_id'
    BY <1>2, TypedIs DEF Inv
  <2> QED BY <2>1, <1>1, PipeKept DEF Inv
<1>5. SlotInv'
  BY <1>2, SlotsKept DEF Inv
<1>6. ReserveInv'
  <2>1. Keeps
    BY <1>2 DEF Keeps
  <2> QED BY <2>1, <1>1, ReserveKept DEF Inv
<1>7. OpenInv'
  BY <1>1, <1>2, OpenKept DEF Inv
<1>8. ToldInv'
  BY <1>1, <1>2, ToldSame DEF Inv
<1>9. StreamInv'
  BY <1>1, <1>2, StreamSame DEF Inv
<1>10. ArmInv'
  BY <1>2, ArmSame DEF Inv
<1> QED BY <1>3, <1>4, <1>5, <1>6, <1>7, <1>8, <1>9, <1>10 DEF Inv

LEMMA SaysKeeps ==
    ASSUME Inv, NEW i \in Id, Says(i, "live") \/ Says(i, "end")
    PROVE  Inv'
<1>1. PICK d \in {0, 1}: Moves(d) /\ (d = 1 => 1 \in DOMAIN pipe /\ Using(1))
  BY PassesIs DEF Says, Inv
<1>2. UNCHANGED <<slot, alloc_id, open, lost>>
  BY DEF Says
<1>0. PICK what \in {"live", "end"}: Says(i, what)
  OBVIOUS
<1>11. told \in [Id -> Words] /\ told' = [told EXCEPT ![i] = what] /\ what \in Words
  BY <1>0, TypedIs DEF Says, Inv, Words
<1>3. TypeOK'
  <2>1. told' \in [Id -> Words]
    BY <1>11
  <2> QED BY <2>1, <1>1, <1>2, TypedIs, TypeKept DEF Inv
<1>4. PipeInv'
  <2>1. alloc_id' \in Nat /\ alloc_id <= alloc_id'
    BY <1>2, TypedIs DEF Inv
  <2> QED BY <2>1, <1>1, PipeKept DEF Inv
<1>5. SlotInv'
  BY <1>2, SlotsKept DEF Inv
<1>6. ReserveInv'
  <2>1. Keeps
    BY <1>2 DEF Keeps
  <2> QED BY <2>1, <1>1, ReserveKept DEF Inv
<1>7. OpenInv'
  BY <1>1, <1>2, OpenKept DEF Inv
<1>8. ToldInv'
  BY ToldSays DEF Inv
<1>9. StreamInv'
  BY <1>1, <1>2, StreamSame DEF Inv
<1>10. ArmInv'
  BY <1>2, ArmSame DEF Inv
<1> QED BY <1>3, <1>4, <1>5, <1>6, <1>7, <1>8, <1>9, <1>10 DEF Inv

LEMMA WorksKeeps ==
    ASSUME Inv, NEW s \in Slot, NEW x \in SlotRec, Works(s, x)
    PROVE  Inv'
<1>1. PICK d \in {0, 1}: Moves(d) /\ (d = 1 => 1 \in DOMAIN pipe /\ Using(1))
  BY PassesIs DEF Works, Inv
<1>2. UNCHANGED <<alloc_id, open, lost>> /\ slot' = [slot EXCEPT ![s] = x]
  BY DEF Works
<1>0. /\ slot \in [Slot -> SlotRec] /\ told \in [Id -> Words] /\ alloc_id \in Nat
      /\ \A t \in Slot: slot'[t] = IF t = s THEN x ELSE slot[t]
  BY <1>2, TypedIs DEF Inv
<1>11. PICK n \in Id: n = slot[s].id /\ Has(n) /\ n \in Issued /\ n = x.id /\ At(n) = s
  BY UseIs DEF Works, Inv
<1>12. \A i \in Id: told'[i] = told[i] \/ (i = n /\ told'[i] = "live")
  BY <1>0, <1>11 DEF Works
<1>13. \A t \in Slot: /\ slot'[t].id = slot[t].id
                      /\ InUse(slot'[t]) <=> InUse(slot[t])
                      /\ Retypes(slot[t].type, slot'[t].type)
  BY <1>0 DEF Works, Retypes
<1>3. TypeOK'
  <2>1. told' \in [Id -> Words]
    BY <1>0, <1>11 DEF Works, Words
  <2>2. slot' \in [Slot -> SlotRec]
    BY <1>0, <1>2
  <2> QED BY <2>1, <2>2, <1>1, <1>2, TypedIs, TypeKept DEF Inv
<1>4. PipeInv'
  <2>1. alloc_id' \in Nat /\ alloc_id <= alloc_id'
    BY <1>2, TypedIs DEF Inv
  <2> QED BY <2>1, <1>1, PipeKept DEF Inv
<1>5. SlotInv'
  <2>1. x.id \in 0..alloc_id' /\ x.id # 0 /\ At(x.id) = s /\ alloc_id' \in Nat /\ alloc_id <= alloc_id'
    BY <1>0, <1>2, <1>11 DEF Issued
  <2>2. x.polled <=> InUse(x) /\ x.type \notin {"PLISTEN", "PACCEPT"}
    BY DEF Works
  <2>3. x.type \in {"INVALID", "RESERVE", "PLISTEN", "LISTEN", "PACCEPT"} => Idle(x)
    BY DEF Works, InUse
  <2> QED BY <2>1, <2>2, <2>3, <1>2, SlotSet DEF Inv
<1>6. ReserveInv'
  <2>1. Keeps
    BY <1>13 DEF Keeps, Retypes, InUse
  <2> QED BY <2>1, <1>1, ReserveKept DEF Inv
<1>7. OpenInv'
  <2>1. \A t \in Slot: /\ slot'[t].type = "BIND" => slot[t].type = "BIND"
                       /\ slot'[t].type \notin {"INVALID", "RESERVE", "BIND", "HALFCLOSE"} =>
                          slot[t].type \notin {"INVALID", "RESERVE", "BIND", "HALFCLOSE"}
    BY <1>13 DEF Retypes
  <2> QED BY <2>1, <1>1, <1>2, <1>13, OpenKept DEF Inv
<1>8. ToldInv'
  BY ToldWorks DEF Inv
<1>9. StreamInv'
  BY StreamWorks DEF Inv
<1>10. ArmInv'
  BY <1>2, ArmSet DEF Inv, Works
<1> QED BY <1>3, <1>4, <1>5, <1>6, <1>7, <1>8, <1>9, <1>10 DEF Inv

LEMMA FreesKeeps ==
    ASSUME Inv, NEW s \in Slot, NEW x \in SlotRec, Frees(s, x)
    PROVE  Inv'
<1>1. PICK d \in {0, 1}: Moves(d) /\ (d = 1 => 1 \in DOMAIN pipe /\ Using(1))
  BY PassesIs DEF Frees, Inv
<1>2. alloc_id' = alloc_id /\ slot' = [slot EXCEPT ![s] = x] /\ Idle(x) /\ x.type = "INVALID" /\ ~x.polled
  BY DEF Frees
<1>0. /\ slot \in [Slot -> SlotRec] /\ told \in [Id -> Words] /\ alloc_id \in Nat
      /\ open \subseteq Id /\ lost \subseteq Id
      /\ \A t \in Slot: slot'[t] = IF t = s THEN x ELSE slot[t]
  BY <1>2, TypedIs DEF Inv
<1>11. PICK n \in Id: n = slot[s].id /\ Has(n) /\ n \in Issued /\ n = x.id /\ At(n) = s
  BY UseIs DEF Frees, Inv
<1>12. \A i \in Id: told'[i] = IF i = n THEN "end" ELSE told[i]
  BY <1>0, <1>11 DEF Frees
<1>3. TypeOK'
  <2>1. told' \in [Id -> Words]
    BY <1>0, <1>11 DEF Frees, Words
  <2>2. slot' \in [Slot -> SlotRec]
    BY <1>0, <1>2
  <2>3. open' \subseteq Id /\ lost' \subseteq Id
    BY <1>0, <1>11 DEF Frees
  <2> QED BY <2>1, <2>2, <2>3, <1>1, <1>2, TypedIs, TypeKept DEF Inv
<1>4. PipeInv'
  <2>1. alloc_id' \in Nat /\ alloc_id <= alloc_id'
    BY <1>2, TypedIs DEF Inv
  <2> QED BY <2>1, <1>1, PipeKept DEF Inv
<1>5. SlotInv'
  <2>1. x.id \in 0..alloc_id' /\ alloc_id' \in Nat /\ alloc_id <= alloc_id'
    BY <1>0, <1>2, <1>11 DEF Issued
  <2>2. ~InUse(x)
    BY <1>2 DEF InUse
  <2> QED BY <2>1, <2>2, <1>2, SlotSet DEF Inv
<1>6. ReserveInv'
  <2>1. Keeps
    BY <1>0, <1>2 DEF Keeps, Frees, InUse
  <2> QED BY <2>1, <1>1, ReserveKept DEF Inv
<1>7. OpenInv'
  BY OpenFreed DEF Inv
<1>8. ToldInv'
  BY ToldFrees DEF Inv
<1>9. StreamInv'
  <2>1. ~InUse(x)
    BY <1>2 DEF InUse
  <2> QED BY <2>1, <1>1, <1>2, StreamIdle DEF Inv
<1>10. ArmInv'
  <2>1. Waits(x)
    BY <1>2 DEF Idle, Empty, Waits
  <2> QED BY <2>1, <1>2, ArmSet DEF Inv
<1> QED BY <1>3, <1>4, <1>5, <1>6, <1>7, <1>8, <1>9, <1>10 DEF Inv

LEMMA FailsKeeps ==
    ASSUME Inv, NEW i \in Id, Fails(i)
    PROVE  Inv'
<1>1. /\ Moves(1) /\ 1 \in DOMAIN pipe /\ Making(1) /\ pipe[1].id = i /\ i \in Issued /\ At(i) \in Slot
      /\ slot[At(i)].type = "RESERVE"
  BY MakesIs DEF Fails, Inv
<1>14. PICK d \in {0, 1}: d = 1 /\ Moves(d)
  BY <1>1
<1>15. PICK s \in Slot: s = At(i)
  BY <1>1
<1>2. UNCHANGED <<alloc_id, open, lost>> /\ told' = [told EXCEPT ![i] = "end"]
  BY DEF Fails
<1>0. slot \in [Slot -> SlotRec] /\ told \in [Id -> Words] /\ alloc_id \in Nat
  BY TypedIs DEF Inv
<1>16. PICK r \in SlotRec: r = slot[s]
  BY <1>0
<1>17. PICK x \in SlotRec: x = [r EXCEPT !.type = "INVALID"]
  <2>1. [r EXCEPT !.type = "INVALID"] \in SlotRec
    BY DEF SlotRec, Type
  <2> QED BY <2>1
<1>18. /\ x.type = "INVALID" /\ x.id = r.id /\ x.polled = r.polled /\ x.high = r.high /\ x.low = r.low
       /\ x.wire = r.wire
  BY <1>17 DEF SlotRec
<1>19. slot' = [slot EXCEPT ![s] = x]
  BY <1>15, <1>16, <1>17 DEF Fails
<1>20. SlotFits(s, r) /\ r.type = "RESERVE"
  BY <1>1, <1>15, <1>16 DEF Inv, SlotInv
<1>21. Idle(x) /\ ~InUse(x) /\ ~x.polled /\ x.id \in 0..alloc_id
  BY <1>18, <1>20 DEF SlotFits, Idle, InUse
<1>12. \A j \in Id: told'[j] = IF j = i THEN "end" ELSE told[j]
  BY <1>0, <1>2
<1>3. TypeOK'
  <2>1. told' \in [Id -> Words]
    BY <1>0, <1>2 DEF Words
  <2>2. slot' \in [Slot -> SlotRec]
    BY <1>0, <1>19
  <2> QED BY <2>1, <2>2, <1>1, <1>2, TypedIs, TypeKept DEF Inv
<1>4. PipeInv'
  <2>1. alloc_id' \in Nat /\ alloc_id <= alloc_id'
    BY <1>0, <1>2
  <2> QED BY <2>1, <1>14, PipeKept DEF Inv
<1>5. SlotInv'
  <2>1. alloc_id' \in Nat /\ alloc_id <= alloc_id' /\ x.id \in 0..alloc_id'
    BY <1>0, <1>2, <1>21
  <2> QED BY <2>1, <1>18, <1>19, <1>21, SlotSet DEF Inv
<1>6. ReserveInv'
  BY <1>1, <1>15, <1>18, <1>19, ReserveMade DEF Inv
<1>7. OpenInv'
  BY OpenFailed DEF Inv
<1>8. ToldInv'
  BY ToldFails DEF Inv
<1>9. StreamInv'
  BY <1>14, <1>19, <1>21, StreamIdle DEF Inv
<1>10. ArmInv'
  <2>1. Waits(x)
    BY <1>18, <1>21 DEF Idle, Empty, Waits
  <2> QED BY <2>1, <1>14, <1>19, ArmSet DEF Inv
<1> QED BY <1>3, <1>4, <1>5, <1>6, <1>7, <1>8, <1>9, <1>10 DEF Inv

LEMMA OpensKeeps ==
    ASSUME Inv, NEW i \in Id, NEW x \in SlotRec, Opens(i, x)
    PROVE  Inv'
<1>1. /\ Moves(1) /\ 1 \in DOMAIN pipe /\ Making(1) /\ pipe[1].id = i /\ i \in Issued /\ At(i) \in Slot
      /\ slot[At(i)].type = "RESERVE"
  BY MakesIs DEF Opens, Inv
<1>14. PICK d \in {0, 1}: d = 1 /\ Moves(d)
  BY <1>1
<1>15. PICK s \in Slot: s = At(i)
  BY <1>1
<1>2. UNCHANGED <<alloc_id, lost>> /\ slot' = [slot EXCEPT ![s] = x]
  BY <1>15 DEF Opens
<1>0. slot \in [Slot -> SlotRec] /\ told \in [Id -> Words] /\ alloc_id \in Nat /\ open \subseteq Id
  BY TypedIs DEF Inv
<1>21. Idle(x) /\ InUse(x) /\ x.id = i /\ x.wb_size = 0 /\ (x.polled <=> x.type \notin {"PLISTEN", "PACCEPT"})
  BY DEF Opens, Fresh
<1>22. told[i] = "none"
  BY <1>1 DEF Inv, ToldInv
<1>12. /\ \A j \in Id: told'[j] = told[j] \/ (j = i /\ told'[j] = "live")
  BY <1>0 DEF Opens
<1>3. TypeOK'
  <2>1. told' \in [Id -> Words]
    BY <1>0 DEF Opens, Words
  <2>2. slot' \in [Slot -> SlotRec]
    BY <1>0, <1>2
  <2>3. open' \subseteq Id
    BY <1>0 DEF Opens
  <2> QED BY <2>1, <2>2, <2>3, <1>1, <1>2, TypedIs, TypeKept DEF Inv
<1>4. PipeInv'
  <2>1. alloc_id' \in Nat /\ alloc_id <= alloc_id'
    BY <1>0, <1>2
  <2> QED BY <2>1, <1>14, PipeKept DEF Inv
<1>5. SlotInv'
  <2>1. alloc_id' \in Nat /\ alloc_id <= alloc_id' /\ x.id \in 0..alloc_id' /\ x.id # 0 /\ At(x.id) = s
    BY <1>0, <1>1, <1>2, <1>15, <1>21 DEF Issued
  <2> QED BY <2>1, <1>2, <1>21, SlotSet DEF Inv
<1>6. ReserveInv'
  <2>1. x.type \notin {"RESERVE", "LISTEN"}
    BY DEF Opens
  <2> QED BY <2>1, <1>1, <1>2, <1>15, <1>21, ReserveMade DEF Inv
<1>7. OpenInv'
  BY OpenOpened DEF Inv
<1>8. ToldInv'
  BY ToldOpens DEF Inv
<1>9. StreamInv'
  BY <1>14, <1>2, <1>21, StreamIdle DEF Inv
<1>10. ArmInv'
  <2>1. Waits(x)
    BY <1>21 DEF Idle, Empty, Waits, Opens
  <2> QED BY <2>1, <1>14, <1>2, ArmSet DEF Inv
<1> QED BY <1>3, <1>4, <1>5, <1>6, <1>7, <1>8, <1>9, <1>10 DEF Inv

LEMMA AcceptsKeeps ==
    ASSUME Inv, NEW i \in Id, NEW l \in Id, NEW x \in SlotRec, Accepts(i, l, x)
    PROVE  Inv'
<1>1. Moves(0)
  BY MovesZero DEF Accepts, Inv
<1>14. PICK d \in {0, 1}: d = 0 /\ Moves(d)
  BY <1>1
<1>11. /\ i > alloc_id /\ alloc_id' = i /\ slot[At(i)].type = "INVALID" /\ At(i) \in Slot
       /\ alloc_id \in Nat /\ i \in Nat /\ i <= MaxId
  BY FirstFree DEF Accepts, Inv
<1>15. PICK s \in Slot: s = At(i)
  BY <1>11
<1>2. UNCHANGED lost /\ slot' = [slot EXCEPT ![s] = x]
  BY <1>15 DEF Accepts
<1>0. slot \in [Slot -> SlotRec] /\ told \in [Id -> Words] /\ open \subseteq Id /\ lost \subseteq Id
  BY TypedIs DEF Inv
<1>21. /\ Idle(x) /\ InUse(x) /\ x.id = i /\ x.wb_size = 0 /\ (x.polled <=> x.type \notin {"PLISTEN", "PACCEPT"})
       /\ x.type = "PACCEPT"
  BY DEF Accepts, Fresh
<1>12. \A j \in Id: told'[j] = IF j \in {i, l} THEN "live" ELSE told[j]
  BY <1>0 DEF Accepts
<1>3. TypeOK'
  <2>1. told' \in [Id -> Words]
    BY <1>0 DEF Accepts, Words
  <2>2. slot' \in [Slot -> SlotRec]
    BY <1>0, <1>2
  <2>3. open' \subseteq Id /\ lost' \subseteq Id
    BY <1>0, <1>2 DEF Accepts
  <2>4. alloc_id' \in 0..MaxId
    BY <1>11, SocketAssumption
  <2> QED BY <2>1, <2>2, <2>3, <2>4, <1>1, TypeKept DEF Inv
<1>4. PipeInv'
  <2>1. alloc_id' \in Nat /\ alloc_id <= alloc_id'
    BY <1>11
  <2> QED BY <2>1, <1>14, PipeKept DEF Inv
<1>5. SlotInv'
  <2>1. alloc_id' \in Nat /\ alloc_id <= alloc_id' /\ x.id \in 0..alloc_id' /\ x.id # 0 /\ At(x.id) = s
    BY <1>11, <1>15, <1>21
  <2> QED BY <2>1, <1>2, <1>21, SlotSet DEF Inv
<1>6. ReserveInv'
  BY <1>1, <1>2, <1>11, <1>15, <1>21, ReserveAccepted DEF Inv
<1>7. OpenInv'
  BY OpenAccepted DEF Inv
<1>8. ToldInv'
  BY ToldAccepts DEF Inv
<1>9. StreamInv'
  BY <1>14, <1>2, <1>21, StreamIdle DEF Inv
<1>10. ArmInv'
  <2>1. Waits(x)
    BY <1>21 DEF Idle, Empty, Waits
  <2> QED BY <2>1, <1>14, <1>2, ArmSet DEF Inv
<1> QED BY <1>3, <1>4, <1>5, <1>6, <1>7, <1>8, <1>9, <1>10 DEF Inv

-----------------------------------------------------------------------------
(* The requests of the services.                                           *)
LEMMA AppendIs ==
    ASSUME NEW S, NEW q \in Seq(S), NEW e \in S
    PROVE  /\ Append(q, e) \in Seq(S) /\ Len(q) \in Nat /\ DOMAIN q = 1..Len(q)
           /\ Len(Append(q, e)) = Len(q) + 1 /\ DOMAIN Append(q, e) = 1..Len(q) + 1
           /\ Append(q, e)[Len(q) + 1] = e
           /\ \A k \in DOMAIN q: Append(q, e)[k] = q[k]
<1>1. Append(q, e) \in Seq(S) /\ Len(Append(q, e)) = Len(q) + 1 /\ Len(q) \in Nat /\ DOMAIN q = 1..Len(q)
  OBVIOUS
<1>2. DOMAIN Append(q, e) = 1..Len(q) + 1
  BY <1>1
<1>3. Append(q, e)[Len(q) + 1] = e /\ \A k \in DOMAIN q: Append(q, e)[k] = q[k]
  OBVIOUS
<1> QED BY <1>1, <1>2, <1>3

Adds(n, e) ==
    /\ pipe' \in Seq(Requests) /\ n \in Nat /\ n = Len(pipe') /\ n \notin DOMAIN pipe /\ n \in DOMAIN pipe'
    /\ pipe'[n] = e
    /\ \A k \in DOMAIN pipe: k \in DOMAIN pipe' /\ k \in Nat /\ k < n /\ pipe'[k] = pipe[k]
    /\ \A k \in DOMAIN pipe': k # n => k \in DOMAIN pipe
    /\ \A k \in DOMAIN pipe: pipe[k].cmd # "X"
    /\ pc \notin {"exit", "released"}

LEMMA RequestAdds ==
    ASSUME TypeOK, NEW cmd \in {"O", "L", "B", "S", "K", "D", "X"}, NEW i \in Id \cup {None},
           NEW p \in Package \cup {None}, Request(cmd, i, p)
    PROVE  \E n \in Nat: Adds(n, [cmd |-> cmd, id |-> i, pkg |-> p])
<1>1. pipe \in Seq(Requests)
  BY DEF TypeOK, Requests
<1>2. PICK e \in Requests: e = [cmd |-> cmd, id |-> i, pkg |-> p]
  BY DEF Requests
<1>3. PICK q, v: q = pipe /\ v = Append(q, e)
  OBVIOUS
<1>4. pipe' = v /\ pipe = q
  BY <1>2, <1>3 DEF Request
<1>5. PICK l \in Nat: l = Len(q)
  BY <1>1, <1>3
<1>6. /\ v \in Seq(Requests) /\ DOMAIN q = 1..l /\ Len(v) = l + 1 /\ DOMAIN v = 1..l+1 /\ v[l + 1] = e
      /\ \A k \in DOMAIN q: v[k] = q[k]
  BY <1>1, <1>3, <1>5, AppendIs
<1>7. PICK n \in Nat: n = l + 1
  OBVIOUS
<1>8. /\ v \in Seq(Requests) /\ n = Len(v) /\ n \notin DOMAIN q /\ n \in DOMAIN v /\ v[n] = e
      /\ \A k \in DOMAIN q: k \in DOMAIN v /\ k \in Nat /\ k < n /\ v[k] = q[k]
      /\ \A k \in DOMAIN v: k # n => k \in DOMAIN q
  BY <1>6, <1>7
<1>9. (\A k \in DOMAIN pipe: pipe[k].cmd # "X") /\ pc \notin {"exit", "released"}
  BY DEF Request, Ending
<1> QED BY <1>2, <1>4, <1>7, <1>8, <1>9 DEF Adds

(* A request that makes no socket.                                         *)
LEMMA AsksKeeps ==
    ASSUME Inv, NEW n \in Nat, NEW e \in Requests, Adds(n, e),
           UNCHANGED <<slot, alloc_id, pc, ev, open, lost, told>>,
           asked' \in 0..MaxAsk, asked <= asked',
           e.cmd \in {"S", "K", "D", "X"},
           e.cmd # "X" => e.id \in Id /\ e.id \in Issued /\ ~Outdated(e.id),
           e.cmd = "D" => /\ Has(e.id) /\ slot[At(e.id)].type \notin {"PLISTEN", "LISTEN"}
                          /\ e.pkg \in Package /\ asked' = asked + 1 /\ e.pkg.n = asked'
    PROVE  Inv'
<1> USE DEF Inv
<1>0. /\ \A k \in DOMAIN pipe: k \in DOMAIN pipe' /\ k \in Nat /\ k < n /\ pipe'[k] = pipe[k]
      /\ \A k \in DOMAIN pipe': k # n => k \in DOMAIN pipe
      /\ n \in DOMAIN pipe' /\ pipe'[n] = e /\ n = Len(pipe') /\ n \notin DOMAIN pipe
      /\ \A k \in DOMAIN pipe: pipe[k].cmd # "X"
      /\ pc \notin {"exit", "released"}
  BY DEF Adds
<1>3. TypeOK'
  <2>1. pipe' \in Seq(Requests)
    BY DEF Adds
  <2>2. TypeOK
    OBVIOUS
  <2> QED BY <2>1, <2>2 DEF TypeOK, Requests
<1>4. PipeInv'
  BY <1>0 DEF PipeInv, Issued, Sends
<1>5. SlotInv'
  BY SlotsKept
<1>11. \A k \in DOMAIN pipe': pipe'[k].cmd \in {"O", "L", "B"} => k # n /\ k \in DOMAIN pipe /\ Making(k) /\ pipe'[k] = pipe[k]
  BY <1>0 DEF Making
<1>12. \A k \in DOMAIN pipe: Making(k) => k \in DOMAIN pipe' /\ pipe'[k] = pipe[k]
  BY <1>0
<1>6. ReserveInv'
  <2>0. ReserveInv
    OBVIOUS
  <2>1. \A k \in DOMAIN pipe', i \in Id:
           pipe'[k].cmd \in {"O", "L", "B"} /\ pipe'[k].id = i => slot[At(i)].type = "RESERVE"
    BY <2>0, <1>11 DEF ReserveInv
  <2>2. \A j, k \in DOMAIN pipe': \A h, i \in Id:
           pipe'[j].cmd \in {"O", "L", "B"} /\ pipe'[k].cmd \in {"O", "L", "B"}
           /\ pipe'[j].id = h /\ pipe'[k].id = i /\ At(h) = At(i) => j = k
    BY <2>0, <1>11 DEF ReserveInv
  <2>3. \A s \in Slot: slot[s].type = "RESERVE" =>
           \E k \in DOMAIN pipe', i \in Id: pipe'[k].cmd \in {"O", "L", "B"} /\ pipe'[k].id = i /\ At(i) = s
    BY <2>0, <1>12 DEF ReserveInv, Making
  <2>4. ASSUME NEW j \in DOMAIN pipe', NEW k \in DOMAIN pipe',
               pipe'[j].cmd \in {"S", "K", "D"}, pipe'[k].cmd \in {"O", "L", "B"},
               j < k \/ pipe'[j].cmd = "D"
        PROVE  pipe'[j].id # pipe'[k].id
    <3>1. k \in DOMAIN pipe /\ Making(k) /\ pipe'[k] = pipe[k] /\ k < n
      BY <1>0, <1>11, <2>4
    <3>2. CASE j # n
      <4>1. j \in DOMAIN pipe /\ pipe'[j] = pipe[j]
        BY <3>2, <1>0
      <4> QED BY <4>1, <3>1, <2>0, <2>4 DEF ReserveInv, Using, Sends
    <3>3. CASE j = n
      <4>1. e.cmd = "D" /\ pipe'[j] = e
        <5>1. ~(n < k)
          BY <3>1, <1>0
        <5> QED BY <5>1, <3>3, <1>0, <2>4
      <4>2. PICK i \in Id: i = e.id /\ Has(i)
        BY <4>1
      <4>3. pipe[k].id # i
        BY <3>1, <4>2, MadeIsNot
      <4> QED BY <3>1, <4>1, <4>2, <4>3
    <3> QED BY <3>2, <3>3
  <2>5. ASSUME NEW k \in DOMAIN pipe', NEW i \in Id, pipe'[k].cmd \in {"S", "K", "D"}, pipe'[k].id = i
        PROVE  ~Outdated(i)
    BY <1>0, <2>0, <2>5 DEF ReserveInv, Using
  <2>6. ASSUME NEW k \in DOMAIN pipe', NEW i \in Id, pipe'[k].cmd = "D", pipe'[k].id = i, Has(i)
        PROVE  slot[At(i)].type \notin {"PLISTEN", "LISTEN"}
    BY <1>0, <2>0, <2>6 DEF ReserveInv, Sends
  <2>7. \A k \in DOMAIN ev, s \in Slot: ev[k].slot = s => slot[s].type # "RESERVE"
    BY <2>0 DEF ReserveInv
  <2> QED BY <2>1, <2>2, <2>3, <2>4, <2>5, <2>6, <2>7 DEF ReserveInv, Making, Using, Sends, Outdated, Has
<1>7. OpenInv'
  <2>0. OpenInv
    OBVIOUS
  <2>1. \A k \in DOMAIN pipe': pipe'[k].cmd = "L" => k \in DOMAIN pipe /\ pipe'[k] = pipe[k]
    BY <1>11
  <2>2. \A k \in DOMAIN pipe: pipe[k].cmd = "L" => k \in DOMAIN pipe' /\ pipe'[k] = pipe[k]
    BY <1>0
  <2>3. \A i \in open: \/ Has(i) /\ slot[At(i)].type # "BIND"
                       \/ \E k \in DOMAIN pipe': pipe'[k].cmd = "L" /\ pipe'[k].id = i
                       \/ i \in lost
    BY <2>0, <2>2 DEF OpenInv, Counted
  <2>4. \A i \in lost: ~Has(i) /\ \A k \in DOMAIN pipe': pipe'[k].cmd \in {"O", "L", "B"} => pipe'[k].id # i
    BY <2>0, <1>11 DEF OpenInv
  <2>5. /\ open \subseteq Issued /\ lost \subseteq open
        /\ \A s \in Slot: slot[s].type \notin {"INVALID", "RESERVE", "BIND", "HALFCLOSE"} => slot[s].id \in open
        /\ \A k \in DOMAIN pipe': pipe'[k].cmd = "L" => pipe'[k].id \in open
        /\ pc = "released" => open = lost
    BY <2>0, <2>1 DEF OpenInv
  <2> QED BY <2>3, <2>4, <2>5 DEF OpenInv, Counted, Has, Issued, Making
<1>8. ToldInv'
  BY <1>11 DEF ToldInv, Making
<1>9. StreamInv'
  <2>0. StreamInv /\ asked \in Nat /\ asked' \in Nat
    BY DEF TypeOK
  <2>1. ASSUME NEW t \in Slot, NEW r \in SlotRec, slot[t] = r, NEW k \in DOMAIN Stream(r)
        PROVE  /\ Stream(r)[k].n <= asked'
               /\ \A j \in DOMAIN pipe': pipe'[j].cmd = "D" => Stream(r)[k].n < pipe'[j].pkg.n
    <3>1. PICK m \in Nat: m = Stream(r)[k].n
      <4>1. Stream(r) \in Seq(Package)
        BY StreamIs DEF Three
      <4>2. Stream(r)[k] \in Package
        BY <4>1
      <4> QED BY <4>2 DEF Package
    <3>2. Older(m)
      BY <2>0, <2>1, <3>1 DEF StreamInv
    <3>3. m <= asked /\ m <= asked'
      BY <3>2, <2>0 DEF Older
    <3>4. ASSUME NEW j \in DOMAIN pipe', pipe'[j].cmd = "D" PROVE m < pipe'[j].pkg.n
      <4>1. CASE j = n
        BY <4>1, <3>3, <3>4, <2>0, <1>0
      <4>2. CASE j # n
        BY <4>2, <3>2, <3>4, <1>0 DEF Older, Sends
      <4> QED BY <4>1, <4>2
    <3> QED BY <3>1, <3>3, <3>4
  <2>2. ASSUME NEW k \in DOMAIN pipe', pipe'[k].cmd = "D"
        PROVE  pipe'[k].pkg.n <= asked' /\ (k # n => pipe'[k].pkg.n <= asked)
    <3>1. CASE k = n
      BY <3>1, <2>2, <2>0, <1>0
    <3>2. CASE k # n
      <4>1. pipe'[k] = pipe[k] /\ k \in DOMAIN pipe
        BY <3>2, <1>0
      <4>2. PICK m \in Nat: m = pipe[k].pkg.n
        BY <2>2, <4>1 DEF PipeInv, Sends, Package
      <4>3. m <= asked
        BY <2>0, <2>2, <4>1, <4>2 DEF StreamInv, Sends
      <4> QED BY <4>1, <4>2, <4>3, <2>0
    <3> QED BY <3>1, <3>2
  <2>3. ASSUME NEW j \in DOMAIN pipe', NEW k \in DOMAIN pipe', j < k, pipe'[j].cmd = "D", pipe'[k].cmd = "D"
        PROVE  pipe'[j].pkg.n < pipe'[k].pkg.n
    <3>1. CASE k = n
      <4>1. j \in DOMAIN pipe /\ pipe'[j] = pipe[j]
        BY <3>1, <2>3, <1>0
      <4>2. PICK m \in Nat: m = pipe[j].pkg.n
        BY <2>3, <4>1 DEF PipeInv, Sends, Package
      <4>3. m <= asked
        BY <2>0, <2>3, <4>1, <4>2 DEF StreamInv, Sends
      <4>4. pipe'[k].pkg.n = asked + 1
        BY <3>1, <2>3, <1>0
      <4> QED BY <4>1, <4>2, <4>3, <4>4, <2>0
    <3>2. CASE k # n
      <4>1. k \in DOMAIN pipe /\ pipe'[k] = pipe[k] /\ k < n
        BY <3>2, <1>0
      <4>2. j # n
        BY <4>1, <2>3, <1>0
      <4> QED BY <4>1, <4>2, <2>0, <2>3, <1>0 DEF StreamInv, Sends
    <3> QED BY <3>1, <3>2
  <2>4. \A t \in Slot, r \in SlotRec: slot[t] = r => Good(r)
    BY <2>0 DEF StreamInv
  <2> QED BY <2>1, <2>2, <2>3, <2>4 DEF StreamInv, Older, Sends
<1>10. ArmInv'
  BY ArmSame
<1> QED BY <1>3, <1>4, <1>5, <1>6, <1>7, <1>8, <1>9, <1>10

LEMMA AskKeeps == ASSUME Inv, Ask PROVE Inv'
<1>1. TypeOK /\ asked \in 0..MaxAsk /\ MaxAsk \in Nat
  BY SocketAssumption DEF Inv, TypeOK
<1>2. PICK i \in Id, cmd \in {"S", "K"}: i <= alloc_id /\ ~Outdated(i) /\ Request(cmd, i, None)
  BY DEF Ask
<1>3. PICK e \in Requests: e = [cmd |-> cmd, id |-> i, pkg |-> None]
  BY DEF Requests
<1>4. PICK n \in Nat: Adds(n, e)
  BY <1>1, <1>2, <1>3, RequestAdds
<1>5. e.cmd = cmd /\ e.id = i
  BY <1>3
<1>6. i \in Issued
  BY <1>2 DEF Id, Issued
<1>7. asked' \in 0..MaxAsk /\ asked <= asked' /\ UNCHANGED <<slot, alloc_id, pc, ev, open, lost, told>>
  BY <1>1 DEF Ask
<1> QED BY <1>2, <1>4, <1>5, <1>6, <1>7, AsksKeeps

LEMMA ExitKeeps == ASSUME Inv, Exit PROVE Inv'
<1>1. TypeOK /\ asked \in 0..MaxAsk /\ MaxAsk \in Nat
  BY SocketAssumption DEF Inv, TypeOK
<1>3. PICK e \in Requests: e = [cmd |-> "X", id |-> None, pkg |-> None]
  BY DEF Requests
<1>4. PICK n \in Nat: Adds(n, e)
  BY <1>1, <1>3, RequestAdds DEF Exit
<1>5. e.cmd = "X"
  BY <1>3
<1>7. asked' \in 0..MaxAsk /\ asked <= asked' /\ UNCHANGED <<slot, alloc_id, pc, ev, open, lost, told>>
  BY <1>1 DEF Exit
<1> QED BY <1>4, <1>5, <1>7, AsksKeeps

LEMMA SendKeeps == ASSUME Inv, Send PROVE Inv'
<1>1. TypeOK /\ asked \in 0..MaxAsk /\ MaxAsk \in Nat
  BY SocketAssumption DEF Inv, TypeOK
<1>2. PICK i \in Id, low \in BOOLEAN:
        /\ slot[At(i)].id = i /\ slot[At(i)].type \notin {"INVALID", "PLISTEN", "LISTEN"} /\ ~Outdated(i)
        /\ Request("D", i, [n |-> asked', low |-> low])
  BY DEF Send
<1>7. /\ asked' \in 0..MaxAsk /\ asked' = asked + 1 /\ asked <= asked'
      /\ UNCHANGED <<slot, alloc_id, pc, ev, open, lost, told>>
  BY <1>1 DEF Send
<1>8. asked' \in 1..MaxAsk
  BY <1>1, <1>7
<1>9. PICK m \in 1..MaxAsk: m = asked'
  BY <1>8
<1>10. PICK p \in Package: p = [n |-> m, low |-> low]
  BY DEF Package
<1>3. PICK e \in Requests: e = [cmd |-> "D", id |-> i, pkg |-> p]
  BY DEF Requests
<1>4. PICK n \in Nat: Adds(n, e)
  BY <1>1, <1>2, <1>3, <1>9, <1>10, RequestAdds
<1>5. e.cmd = "D" /\ e.id = i /\ e.pkg = p /\ p.n = m
  BY <1>3, <1>10
<1>6. Has(i) /\ i \in Issued
  <2>1. Has(i)
    BY <1>2 DEF Has, InUse, Outdated
  <2> QED BY <2>1, IdSlot, UseIs DEF Has, Inv
<1> QED BY <1>2, <1>4, <1>5, <1>6, <1>7, <1>9, AsksKeeps

-----------------------------------------------------------------------------
(* The other steps.                                                        *)
LEMMA TurnKeeps ==
    ASSUME Inv, UNCHANGED <<slot, alloc_id, pipe, open, lost, told, asked>>,
           pc' \in {"ctrl", "first", "event"}, ev' \in Seq(Events),
           \A k \in DOMAIN ev', s \in Slot: ev'[k].slot = s => slot[s].type # "RESERVE"
    PROVE  Inv'
<1> USE DEF Inv
<1>1. TypeOK'
  <2>1. TypeOK
    OBVIOUS
  <2> QED BY <2>1 DEF TypeOK, Events
<1>2. PipeInv'
  BY DEF PipeInv, Issued, Sends
<1>3. SlotInv'
  BY SlotsKept
<1>4. ReserveInv'
  BY DEF ReserveInv, Making, Using, Sends, Has, Outdated
<1>5. OpenInv'
  BY DEF OpenInv, Counted, Has, Issued, Making
<1>6. ToldInv'
  BY DEF ToldInv, Making
<1>7. StreamInv'
  BY DEF StreamInv, Older, Sends
<1>8. ArmInv'
  BY ArmSame
<1> QED BY <1>1, <1>2, <1>3, <1>4, <1>5, <1>6, <1>7, <1>8

LEMMA StutterKeeps == ASSUME Inv, UNCHANGED vars PROVE Inv'
<1> USE DEF Inv, vars
<1>1. TypeOK'
  <2>1. TypeOK
    OBVIOUS
  <2> QED BY <2>1 DEF TypeOK
<1>2. PipeInv'
  BY DEF PipeInv, Issued, Sends
<1>3. SlotInv'
  BY SlotsKept
<1>4. ReserveInv'
  BY DEF ReserveInv, Making, Using, Sends, Has, Outdated
<1>5. OpenInv'
  BY DEF OpenInv, Counted, Has, Issued, Making
<1>6. ToldInv'
  BY DEF ToldInv, Making
<1>7. StreamInv'
  BY DEF StreamInv, Older, Sends
<1>8. ArmInv'
  BY ArmSame
<1> QED BY <1>1, <1>2, <1>3, <1>4, <1>5, <1>6, <1>7, <1>8

LEMMA NoCmdKeeps == ASSUME Inv, NoCmd PROVE Inv'
<1>1. ev' = ev /\ pc' = "event" /\ UNCHANGED <<slot, alloc_id, pipe, open, lost, told, asked>>
  BY DEF NoCmd
<1>2. ev \in Seq(Events) /\ \A k \in DOMAIN ev, s \in Slot: ev[k].slot = s => slot[s].type # "RESERVE"
  BY DEF Inv, TypeOK, Events, ReserveInv
<1> QED BY <1>1, <1>2, TurnKeeps

(* What may be ready is an event of a socket in use, or of the pipe.       *)
LEMMA ReadyIs ==
    ASSUME Inv, NEW e \in Ready
    PROVE  e \in Events /\ \A s \in Slot: e.slot = s => slot[s].type # "RESERVE"
<1>1. CASE e \in [slot : Slot, write : BOOLEAN] /\ slot[e.slot].polled
  <2>1. PICK t \in Slot: t = e.slot
    BY <1>1
  <2>2. PICK r \in SlotRec: r = slot[t]
    BY TypedIs DEF Inv
  <2>3. SlotFits(t, r)
    BY <2>2 DEF Inv, SlotInv
  <2>4. r.type # "RESERVE"
    BY <1>1, <2>1, <2>2, <2>3 DEF SlotFits, InUse
  <2> QED BY <1>1, <2>1, <2>2, <2>4 DEF Events
<1>2. CASE e \in [slot : {None}, write : {FALSE}]
  <2>1. None \notin Slot
    BY SocketAssumption DEF Slot
  <2> QED BY <1>2, <2>1 DEF Events
<1> QED BY <1>1, <1>2 DEF Ready

(* The events of one wait are at most one for each slot and the pipe.      *)
LEMMA ReadyFinite ==
    ASSUME Inv, NEW R \in OnePerSlot
    PROVE  Cardinality(R) \in Nat
<1>1. IsFiniteSet(Slot \cup {None})
  <2>1. MaxSocket - 1 \in Int
    BY SocketAssumption
  <2>2. IsFiniteSet(Slot)
    BY <2>1, FS_Interval DEF Slot
  <2> QED BY <2>2, FS_AddElement
<1>2. \A e \in R: e.slot \in Slot \cup {None}
  BY ReadyIs DEF OnePerSlot, Events
<1>3. PICK f: f = [e \in R |-> e.slot]
  OBVIOUS
<1>4. f \in [R -> Slot \cup {None}]
  BY <1>2, <1>3
<1>5. \A e, g \in R: f[e] = f[g] => e = g
  BY <1>3 DEF OnePerSlot
<1>6. f \in Injection(R, Slot \cup {None})
  BY <1>4, <1>5 DEF Injection, IsInjective
<1>7. IsFiniteSet(R)
  BY <1>1, <1>6, FS_Injection
<1> QED BY <1>7, FS_CardinalityType

LEMMA WaitKeeps == ASSUME Inv, Wait PROVE Inv'
<1>1. pc' = "first" /\ UNCHANGED <<slot, alloc_id, pipe, open, lost, told, asked>>
  BY DEF Wait
<1>2. PICK R \in OnePerSlot: ev' \in SetToSeqs(R)
  BY DEF Wait
<1>3. PICK n \in Nat: n = Cardinality(R)
  BY ReadyFinite
<1>4. ev' \in [1..n -> R]
  BY <1>2, <1>3 DEF SetToSeqs
<1>5. \A k \in DOMAIN ev': ev'[k] \in Ready
  BY <1>4 DEF OnePerSlot
<1>6. \A k \in DOMAIN ev': ev'[k] \in Events /\ \A s \in Slot: ev'[k].slot = s => slot[s].type # "RESERVE"
  BY <1>5, ReadyIs
<1>7. ev' \in Seq(Events)
  <2>1. ev' \in [1..n -> Events]
    BY <1>4, <1>6
  <2>2. PICK v: v = ev' /\ v \in [1..n -> Events]
    BY <2>1
  <2>3. v \in Seq(Events)
    BY <2>2, SeqDef
  <2> QED BY <2>2, <2>3
<1> QED BY <1>1, <1>6, <1>7, TurnKeeps

(* The request to end is the last one: no slot is reserved.                *)
LEMMA EndsKeeps == ASSUME Inv, Ends PROVE Inv'
<1> USE DEF Inv
<1>0. /\ pipe # <<>> /\ pipe' = Tail(pipe) /\ pipe[1].cmd = "X" /\ pc' = "exit" /\ ev' = <<>>
      /\ UNCHANGED <<slot, alloc_id, open, lost, told, asked>>
  BY DEF Ends
<1>1. pipe \in Seq(Requests) /\ 1 \in DOMAIN pipe /\ DOMAIN pipe = 1..Len(pipe) /\ Len(pipe) = 1
  <2>1. pipe \in Seq(Requests)
    BY DEF TypeOK, Requests
  <2>2. 1 \in DOMAIN pipe /\ DOMAIN pipe = 1..Len(pipe)
    BY <2>1, <1>0, TailIs
  <2> QED BY <2>1, <2>2, <1>0 DEF PipeInv
<1>2. pipe' = <<>>
  <2>1. PICK q, v: q = pipe /\ v = Tail(q)
    OBVIOUS
  <2>2. q \in Seq(Requests) /\ q # <<>> /\ Len(q) = 1
    BY <2>1, <1>0, <1>1
  <2>3. v \in Seq(Requests) /\ Len(v) = Len(q) - 1
    BY <2>1, <2>2, TailIs
  <2>4. Len(v) = 0
    BY <2>2, <2>3
  <2>5. v = <<>>
    BY <2>3, <2>4
  <2> QED BY <2>1, <2>5, <1>0
<1>3. \A k \in DOMAIN pipe: k = 1 /\ pipe[k].cmd = "X"
  <2>1. \A k \in 1..1: k = 1
    OBVIOUS
  <2> QED BY <2>1, <1>0, <1>1
<1>4. \A s \in Slot: slot[s].type # "RESERVE"
  BY <1>3 DEF ReserveInv, Making
<1>5. DOMAIN pipe' = {} /\ DOMAIN ev' = {}
  BY <1>0, <1>2
<1>6. TypeOK'
  <2>1. TypeOK
    OBVIOUS
  <2>2. pipe' \in Seq(Requests) /\ ev' \in Seq(Events)
    <3>1. \A S: <<>> \in Seq(S)
      OBVIOUS
    <3> QED BY <3>1, <1>0, <1>2
  <2> QED BY <2>1, <2>2, <1>0 DEF TypeOK, Requests, Events
<1>7. PipeInv'
  BY <1>0, <1>2, <1>5 DEF PipeInv
<1>8. SlotInv'
  BY <1>0, SlotsKept
<1>9. ReserveInv'
  BY <1>0, <1>4, <1>5 DEF ReserveInv
<1>10. OpenInv'
  <2>0. OpenInv
    OBVIOUS
  <2>1. \A i \in open: (Has(i) /\ slot[At(i)].type # "BIND") \/ i \in lost
    BY <2>0, <1>3 DEF OpenInv, Counted
  <2>2. /\ open \subseteq Issued /\ lost \subseteq open
        /\ \A s \in Slot: slot[s].type \notin {"INVALID", "RESERVE", "BIND", "HALFCLOSE"} => slot[s].id \in open
        /\ \A i \in lost: ~Has(i)
    BY <2>0 DEF OpenInv
  <2> QED BY <2>1, <2>2, <1>0, <1>5 DEF OpenInv, Counted, Has, Issued
<1>11. ToldInv'
  BY <1>0, <1>5 DEF ToldInv
<1>12. StreamInv'
  BY <1>0, <1>5 DEF StreamInv, Older
<1>13. ArmInv'
  BY <1>0, <1>5, ArmSame
<1> QED BY <1>6, <1>7, <1>8, <1>9, <1>10, <1>11, <1>12, <1>13

LEMMA ReleaseKeeps == ASSUME Inv, Release PROVE Inv'
<1> USE DEF Inv
<1>0. /\ pc = "exit" /\ pc' = "released" /\ UNCHANGED <<alloc_id, pipe, ev, lost, told, asked>>
      /\ slot' = [s \in Slot |-> IF slot[s].type = "RESERVE" THEN slot[s] ELSE Closed(slot[s])]
      /\ open' = open \ {slot[s].id : s \in {t \in Slot : ~KeepsOpen(t)}}
  BY DEF Release
<1>1. pipe = <<>> /\ ev = <<>> /\ pipe' = <<>> /\ ev' = <<>>
  BY <1>0 DEF PipeInv
<1>2. DOMAIN pipe = {} /\ DOMAIN ev = {} /\ DOMAIN pipe' = {} /\ DOMAIN ev' = {}
  BY <1>1
<1>3. \A s \in Slot: slot[s].type # "RESERVE"
  BY <1>2 DEF ReserveInv
<1>4. slot \in [Slot -> SlotRec] /\ alloc_id \in Nat
  BY TypedIs
<1>5. ASSUME NEW s \in Slot
      PROVE  /\ slot'[s] \in SlotRec /\ slot'[s].type = "INVALID" /\ Idle(slot'[s]) /\ slot'[s].id = slot[s].id
             /\ ~slot'[s].polled /\ SlotFits(s, slot[s]) /\ slot[s].id \in 0..alloc_id
  <2>1. PICK r \in SlotRec: r = slot[s]
    BY <1>4
  <2>2. slot'[s] = Closed(r)
    BY <1>0, <1>3, <2>1
  <2>3. SlotFits(s, r)
    BY <2>1 DEF SlotInv
  <2>4. r.type \in {"PLISTEN", "PACCEPT"} => ~r.polled
    BY <2>3 DEF SlotFits
  <2>5. PICK x: x = Closed(r)
    OBVIOUS
  <2>6. x \in SlotRec /\ x.type = "INVALID" /\ x.id = r.id /\ ~x.polled /\ x.high = <<>> /\ x.low = <<>> /\ x.wire = <<>>
    <3>1. <<>> \in Seq(Package)
      OBVIOUS
    <3> QED BY <3>1, <2>4, <2>5 DEF Closed, SlotRec, Type
  <2> QED BY <2>1, <2>2, <2>3, <2>5, <2>6 DEF Idle, SlotFits
<1>6. TypeOK'
  <2>1. TypeOK
    OBVIOUS
  <2>2. slot' \in [Slot -> SlotRec]
    BY <1>0, <1>5
  <2>3. open' \subseteq Id
    BY <1>0, TypedIs
  <2> QED BY <2>1, <2>2, <2>3, <1>0 DEF TypeOK, SlotRec
<1>7. PipeInv'
  BY <1>1, <1>2 DEF PipeInv
<1>8. SlotInv'
  BY <1>0, <1>5 DEF SlotInv, SlotFits, InUse
<1>9. ReserveInv'
  BY <1>2, <1>5 DEF ReserveInv
<1>10. open' = lost
  <2>0. OpenInv
    OBVIOUS
  <2>1. ASSUME NEW i \in open, i \notin lost PROVE i \notin open'
    <3>1. Has(i) /\ slot[At(i)].type # "BIND" /\ At(i) \in Slot
      BY <2>0, <2>1, <1>2, TypedIs, IdSlot DEF OpenInv, Counted
    <3>2. ~KeepsOpen(At(i)) /\ slot[At(i)].id = i
      BY <3>1 DEF Has, InUse, KeepsOpen
    <3> QED BY <3>1, <3>2, <1>0
  <2>2. ASSUME NEW i \in lost PROVE i \in open'
    <3>1. ASSUME NEW s \in Slot, ~KeepsOpen(s) PROVE slot[s].id # i
      <4>1. InUse(slot[s])
        BY <3>1 DEF KeepsOpen, InUse
      <4>2. Has(slot[s].id)
        BY <4>1, UseIs
      <4> QED BY <4>2, <2>0, <2>2 DEF OpenInv
    <3> QED BY <3>1, <2>0, <2>2, <1>0 DEF OpenInv
  <2>3. open' \subseteq open
    BY <1>0
  <2> QED BY <2>1, <2>2, <2>3
<1>11. OpenInv'
  <2>0. OpenInv
    OBVIOUS
  <2>1. \A i \in lost: ~(InUse(slot'[At(i)]) /\ slot'[At(i)].id = i)
    BY <1>5, TypedIs, IdSlot DEF InUse
  <2>2. lost \subseteq Issued
    BY <2>0 DEF OpenInv
  <2> QED BY <2>1, <2>2, <1>0, <1>2, <1>5, <1>10 DEF OpenInv, Counted, Has, Issued
<1>12. ToldInv'
  BY <1>0, <1>2, <1>5 DEF ToldInv, InUse
<1>13. StreamInv'
  <2>1. ASSUME NEW t \in Slot, NEW r \in SlotRec, slot'[t] = r
        PROVE  Good(r) /\ DOMAIN Stream(r) = {}
    <3>1. Idle(r) /\ ~InUse(r)
      BY <2>1, <1>5 DEF InUse
    <3>2. Good(r) /\ Stream(r) = <<>>
      BY <3>1, IdleIs
    <3>3. DOMAIN <<>> = {}
      OBVIOUS
    <3> QED BY <3>2, <3>3
  <2> QED BY <2>1, <1>2 DEF StreamInv
<1>14. ArmInv'
  <2>1. ASSUME NEW t \in Slot, NEW r \in SlotRec, slot'[t] = r PROVE Waits(r)
    BY <2>1, <1>5 DEF Idle, Empty, Waits
  <2> QED BY <2>1 DEF ArmInv
<1> QED BY <1>6, <1>7, <1>8, <1>9, <1>11, <1>12, <1>13, <1>14

-----------------------------------------------------------------------------
(* A slot is reserved, for the next id and with the request that will make *)
(* its socket.                                                             *)
LEMMA CreateKeeps == ASSUME Inv, Create PROVE Inv'
<1> USE DEF Inv
<1>1. PICK i \in Id, cmd \in {"O", "B", "L"}:
        /\ Reserves(i) /\ Request(cmd, i, None)
        /\ slot' = [slot EXCEPT ![At(i)].type = "RESERVE"]
        /\ open' = IF cmd = "L" THEN open \cup {i} ELSE open
  BY DEF Create
<1>2. /\ i > alloc_id /\ alloc_id' = i /\ slot[At(i)].type = "INVALID" /\ Quiet(At(i)) /\ At(i) \in Slot
      /\ alloc_id \in Nat /\ i \in Nat /\ i <= MaxId
  BY <1>1, FirstFree
<1>3. PICK e \in Requests: e = [cmd |-> cmd, id |-> i, pkg |-> None]
  BY DEF Requests
<1>4. PICK n \in Nat: Adds(n, e)
  BY <1>1, <1>3, RequestAdds
<1>5. e.cmd = cmd /\ e.id = i /\ cmd \in {"O", "L", "B"} /\ e.cmd \notin {"S", "K", "D", "X"}
  BY <1>3
<1>6. /\ \A k \in DOMAIN pipe: k \in DOMAIN pipe' /\ k \in Nat /\ k < n /\ pipe'[k] = pipe[k]
      /\ \A k \in DOMAIN pipe': k # n => k \in DOMAIN pipe /\ pipe'[k] = pipe[k]
      /\ n \in DOMAIN pipe' /\ pipe'[n] = e /\ n = Len(pipe') /\ n \notin DOMAIN pipe
      /\ \A k \in DOMAIN pipe: pipe[k].cmd # "X"
      /\ pc \notin {"exit", "released"}
  BY <1>4 DEF Adds
<1>7. UNCHANGED <<pc, ev, lost, told, asked>>
  BY DEF Create
<1>8. PICK s \in Slot: s = At(i)
  BY <1>2
<1>9. slot \in [Slot -> SlotRec] /\ open \subseteq Id /\ lost \subseteq Id
  BY TypedIs
<1>10. PICK r \in SlotRec: r = slot[s]
  BY <1>9
<1>11. PICK x \in SlotRec: x = [r EXCEPT !.type = "RESERVE"]
  <2>1. [r EXCEPT !.type = "RESERVE"] \in SlotRec
    BY DEF SlotRec, Type
  <2> QED BY <2>1
<1>12. /\ x.type = "RESERVE" /\ x.id = r.id /\ x.polled = r.polled /\ x.high = r.high /\ x.low = r.low
       /\ x.wire = r.wire
  BY <1>11 DEF SlotRec
<1>13. slot' = [slot EXCEPT ![s] = x] /\ \A t \in Slot: slot'[t] = IF t = s THEN x ELSE slot[t]
  BY <1>1, <1>8, <1>9, <1>10, <1>11
<1>14. SlotFits(s, r) /\ r.type = "INVALID"
  BY <1>2, <1>8, <1>10 DEF SlotInv
<1>15. Idle(x) /\ ~InUse(x) /\ ~x.polled /\ x.id \in 0..alloc_id /\ x.id # i
  BY <1>2, <1>12, <1>14 DEF SlotFits, Idle, InUse
<1>16. /\ \A k \in DOMAIN pipe, h \in Id: pipe[k].id = h => At(h) # s /\ h # i
       /\ \A k \in DOMAIN ev: ev[k].slot # s
  BY <1>2, <1>6, <1>8 DEF Quiet
<1>17. \A h \in 1..alloc_id: h # i
  BY <1>2
<1>18. 1..alloc_id \subseteq 1..i /\ i \in 1..i
  BY <1>2 DEF Id
<1>20. TypeOK'
  <2>1. TypeOK
    OBVIOUS
  <2>2. slot' \in [Slot -> SlotRec]
    BY <1>9, <1>13
  <2>3. open' \subseteq Id
    BY <1>1, <1>9
  <2>4. pipe' \in Seq(Requests)
    BY <1>4 DEF Adds
  <2>5. alloc_id' \in 0..MaxId
    BY <1>2, SocketAssumption
  <2> QED BY <2>1, <2>2, <2>3, <2>4, <2>5, <1>7 DEF TypeOK, SlotRec, Requests
<1>21. PipeInv'
  BY <1>2, <1>5, <1>6, <1>7, <1>18 DEF PipeInv, Issued, Sends
<1>22. SlotInv'
  <2>1. alloc_id' \in Nat /\ alloc_id <= alloc_id' /\ x.id \in 0..alloc_id'
    BY <1>2, <1>15
  <2> QED BY <2>1, <1>12, <1>13, <1>15, SlotSet
<1>23. ReserveInv'
  <2>0. ReserveInv
    OBVIOUS
  <2>1. ASSUME NEW k \in DOMAIN pipe', NEW h \in Id, pipe'[k].cmd \in {"O", "L", "B"}, pipe'[k].id = h
        PROVE  slot'[At(h)].type = "RESERVE"
    <3>1. CASE k = n
      <4>1. h = i
        BY <2>1, <3>1, <1>5, <1>6
      <4> QED BY <4>1, <1>8, <1>12, <1>13
    <3>2. CASE k # n
      <4>1. slot[At(h)].type = "RESERVE"
        BY <2>0, <2>1, <3>2, <1>6 DEF ReserveInv, Making
      <4> QED BY <4>1, <1>12, <1>13, IdSlot
    <3> QED BY <3>1, <3>2
  <2>2. ASSUME NEW j \in DOMAIN pipe', NEW k \in DOMAIN pipe', NEW h \in Id, NEW g \in Id,
               pipe'[j].cmd \in {"O", "L", "B"}, pipe'[k].cmd \in {"O", "L", "B"},
               pipe'[j].id = h, pipe'[k].id = g, At(h) = At(g)
        PROVE  j = k
    <3>1. \A m \in DOMAIN pipe', f \in Id: m # n /\ pipe'[m].id = f => At(f) # s
      BY <1>6, <1>16
    <3>2. \A f \in Id: pipe'[n].id = f => At(f) = s
      BY <1>5, <1>6, <1>8
    <3>3. CASE j = n \/ k = n
      BY <3>1, <3>2, <3>3, <2>2
    <3>4. CASE j # n /\ k # n
      BY <3>4, <2>0, <2>2, <1>6 DEF ReserveInv, Making
    <3> QED BY <3>3, <3>4
  <2>3. ASSUME NEW t \in Slot, slot'[t].type = "RESERVE"
        PROVE  \E k \in DOMAIN pipe', h \in Id: pipe'[k].cmd \in {"O", "L", "B"} /\ pipe'[k].id = h /\ At(h) = t
    <3>1. CASE t = s
      BY <3>1, <1>5, <1>6, <1>8
    <3>2. CASE t # s
      <4>1. slot[t].type = "RESERVE"
        BY <2>3, <3>2, <1>13
      <4>2. PICK k \in DOMAIN pipe, h \in Id: Making(k) /\ pipe[k].id = h /\ At(h) = t
        BY <2>0, <4>1 DEF ReserveInv
      <4> QED BY <4>2, <1>6 DEF Making
    <3> QED BY <3>1, <3>2
  <2>4. ASSUME NEW j \in DOMAIN pipe', NEW k \in DOMAIN pipe',
               pipe'[j].cmd \in {"S", "K", "D"}, pipe'[k].cmd \in {"O", "L", "B"},
               j < k \/ pipe'[j].cmd = "D"
        PROVE  pipe'[j].id # pipe'[k].id
    <3>1. j # n /\ j \in DOMAIN pipe /\ pipe'[j] = pipe[j]
      BY <2>4, <1>5, <1>6
    <3>2. CASE k = n
      <4>1. pipe[j].id \in 1..alloc_id
        BY <2>4, <3>1 DEF PipeInv, Issued
      <4> QED BY <3>1, <3>2, <4>1, <1>5, <1>6, <1>17
    <3>3. CASE k # n
      BY <3>1, <3>3, <2>0, <2>4, <1>6 DEF ReserveInv, Making, Using, Sends
    <3> QED BY <3>2, <3>3
  <2>5. ASSUME NEW k \in DOMAIN pipe', NEW h \in Id, pipe'[k].cmd \in {"S", "K", "D"}, pipe'[k].id = h
        PROVE  ~(slot'[At(h)].type = "RESERVE" /\ slot'[At(h)].id = h)
    <3>1. k # n /\ k \in DOMAIN pipe /\ pipe'[k] = pipe[k]
      BY <2>5, <1>5, <1>6
    <3>2. At(h) # s /\ ~Outdated(h)
      BY <3>1, <2>0, <2>5, <1>16 DEF ReserveInv, Using
    <3> QED BY <3>2, <1>13, IdSlot DEF Outdated
  <2>6. ASSUME NEW k \in DOMAIN pipe', NEW h \in Id, pipe'[k].cmd = "D", pipe'[k].id = h,
               InUse(slot'[At(h)]), slot'[At(h)].id = h
        PROVE  slot'[At(h)].type \notin {"PLISTEN", "LISTEN"}
    <3>1. k # n /\ k \in DOMAIN pipe /\ pipe'[k] = pipe[k]
      BY <2>6, <1>5, <1>6
    <3>2. At(h) # s
      BY <3>1, <2>6, <1>16
    <3>3. slot'[At(h)] = slot[At(h)]
      BY <3>2, <1>13, IdSlot
    <3> QED BY <3>1, <3>3, <2>0, <2>6 DEF ReserveInv, Sends, Has
  <2>7. ASSUME NEW k \in DOMAIN ev, NEW t \in Slot, ev[k].slot = t PROVE slot'[t].type # "RESERVE"
    BY <2>0, <2>7, <1>13, <1>16 DEF ReserveInv
  <2> QED BY <2>1, <2>2, <2>3, <2>4, <2>5, <2>6, <2>7, <1>7 DEF ReserveInv, Making, Using, Sends, Has, Outdated
<1>24. OpenInv'
  <2>0. OpenInv
    OBVIOUS
  <2>1. open \subseteq open' /\ open' \subseteq open \cup {i} /\ (i \in open' => e.cmd = "L")
    <3>1. i \notin open
      BY <2>0, <1>17 DEF OpenInv, Issued
    <3> QED BY <3>1, <1>1, <1>5
  <2>2. ASSUME NEW j \in Id
        PROVE  /\ (InUse(slot'[At(j)]) /\ slot'[At(j)].id = j) <=> Has(j)
               /\ Has(j) => slot'[At(j)] = slot[At(j)]
    <3>1. CASE At(j) = s
      <4>1. ~InUse(r)
        BY <1>14 DEF InUse
      <4> QED BY <3>1, <4>1, <1>10, <1>13, <1>15 DEF Has
    <3>2. CASE At(j) # s
      BY <3>2, <1>13, IdSlot DEF Has
    <3> QED BY <3>1, <3>2
  <2>3. ASSUME NEW j \in open'
        PROVE  \/ InUse(slot'[At(j)]) /\ slot'[At(j)].id = j /\ slot'[At(j)].type # "BIND"
               \/ \E k \in DOMAIN pipe': pipe'[k].cmd = "L" /\ pipe'[k].id = j
               \/ j \in lost
    <3>1. CASE j = i
      BY <3>1, <2>1, <2>3, <1>5, <1>6
    <3>2. CASE j # i
      <4>1. Counted(j) /\ j \in Id
        BY <3>2, <2>0, <2>1, <2>3, <1>9 DEF OpenInv
      <4>2. CASE Has(j) /\ slot[At(j)].type # "BIND"
        BY <4>1, <4>2, <2>2
      <4> QED BY <4>1, <4>2, <1>6 DEF Counted
    <3> QED BY <3>1, <3>2
  <2>4. ASSUME NEW j \in lost
        PROVE  /\ ~(InUse(slot'[At(j)]) /\ slot'[At(j)].id = j)
               /\ \A k \in DOMAIN pipe': pipe'[k].cmd \in {"O", "L", "B"} => pipe'[k].id # j
    <3>1. j \in Id /\ j # i /\ ~Has(j)
      BY <2>0, <1>9, <1>17 DEF OpenInv, Issued
    <3>2. \A k \in DOMAIN pipe: Making(k) => pipe[k].id # j
      BY <2>0 DEF OpenInv
    <3> QED BY <3>1, <3>2, <2>2, <1>5, <1>6 DEF Making
  <2>5. open' \subseteq 1..alloc_id' /\ lost \subseteq open'
    BY <2>0, <2>1, <1>2, <1>18 DEF OpenInv, Issued
  <2>6. ASSUME NEW t \in Slot, slot'[t].type \notin {"INVALID", "RESERVE", "BIND", "HALFCLOSE"}
        PROVE  slot'[t].id \in open'
    <3>1. slot'[t] = slot[t]
      BY <2>6, <1>12, <1>13
    <3> QED BY <3>1, <2>0, <2>1, <2>6 DEF OpenInv
  <2>7. ASSUME NEW k \in DOMAIN pipe', pipe'[k].cmd = "L" PROVE pipe'[k].id \in open'
    <3>1. CASE k = n
      BY <3>1, <2>7, <1>1, <1>5, <1>6
    <3>2. CASE k # n
      BY <3>2, <2>0, <2>1, <2>7, <1>6 DEF OpenInv
    <3> QED BY <3>1, <3>2
  <2>8. pc # "released"
    BY <1>6
  <2> QED BY <2>3, <2>4, <2>5, <2>6, <2>7, <2>8, <1>7 DEF OpenInv, Counted, Has, Issued, Making
<1>25. ToldInv'
  <2>0. ToldInv
    OBVIOUS
  <2>1. \A j \in Id: j > i => told[j] = "none"
    <3>1. \A j \in Id: j \in Nat
      BY SocketAssumption DEF Id
    <3>2. \A j \in Nat: j > i => j > alloc_id
      BY <1>2
    <3> QED BY <3>1, <3>2, <2>0 DEF ToldInv
  <2>2. \A t \in Slot: InUse(slot'[t]) => told[slot'[t].id] # "end"
    BY <2>0, <1>13, <1>15 DEF ToldInv
  <2>3. \A k \in DOMAIN pipe': pipe'[k].cmd \in {"O", "L", "B"} => told[pipe'[k].id] = "none"
    BY <2>0, <1>2, <1>5, <1>6 DEF ToldInv, Making
  <2> QED BY <2>1, <2>2, <2>3, <1>2, <1>7 DEF ToldInv, Making
<1>26. StreamInv'
  <2>0. StreamInv
    OBVIOUS
  <2>1. Good(x) /\ Stream(x) = <<>>
    BY <1>15, IdleIs
  <2>2. ASSUME NEW k \in DOMAIN Stream(x) PROVE FALSE
    <3>1. PICK u: u = Stream(x) /\ u = <<>> /\ k \in DOMAIN u
      BY <2>1
    <3> QED BY <3>1
  <2>3. \A k \in DOMAIN pipe': pipe'[k].cmd = "D" => k \in DOMAIN pipe /\ pipe'[k] = pipe[k]
    BY <1>5, <1>6
  <2>4. ASSUME NEW t \in Slot, NEW y \in SlotRec, slot'[t] = y
        PROVE  Good(y) /\ \A k \in DOMAIN Stream(y):
                  /\ Stream(y)[k].n <= asked
                  /\ \A j \in DOMAIN pipe': pipe'[j].cmd = "D" => Stream(y)[k].n < pipe'[j].pkg.n
    <3>1. CASE t = s
      <4>1. y = x
        BY <2>4, <3>1, <1>13
      <4> QED BY <4>1, <2>1, <2>2
    <3>2. CASE t # s
      <4>1. slot[t] = y
        BY <2>4, <3>2, <1>13
      <4>2. Good(y) /\ \A k \in DOMAIN Stream(y): Older(Stream(y)[k].n)
        BY <2>0, <4>1 DEF StreamInv
      <4> QED BY <4>2, <2>3 DEF Older, Sends
    <3> QED BY <3>1, <3>2
  <2>5. \A k \in DOMAIN pipe': pipe'[k].cmd = "D" => pipe'[k].pkg.n <= asked
    BY <2>0, <2>3 DEF StreamInv, Sends
  <2>6. \A j, k \in DOMAIN pipe': j < k /\ pipe'[j].cmd = "D" /\ pipe'[k].cmd = "D" => pipe'[j].pkg.n < pipe'[k].pkg.n
    BY <2>0, <2>3 DEF StreamInv, Sends
  <2> QED BY <2>4, <2>5, <2>6, <1>7 DEF StreamInv, Older, Sends
<1>27. ArmInv'
  <2>1. Waits(x)
    BY <1>12, <1>15 DEF Idle, Empty, Waits
  <2> QED BY <2>1, <1>13 DEF ArmInv
<1> QED BY <1>20, <1>21, <1>22, <1>23, <1>24, <1>25, <1>26, <1>27

-----------------------------------------------------------------------------
(* What the handlers share.                                                *)
LEMMA ForceCloseFrees ==
    ASSUME Inv, NEW s \in Slot, InUse(slot[s]), ForceClose(s), Runs, Passes, UNCHANGED <<alloc_id, lost>>
    PROVE  \E x \in SlotRec: Frees(s, x)
<1>1. PICK r \in SlotRec: r = slot[s]
  BY TypedIs DEF Inv
<1>2. SlotFits(s, r)
  BY <1>1 DEF Inv, SlotInv
<1>3. PICK x: x = Closed(r)
  OBVIOUS
<1>4. x \in SlotRec /\ x.type = "INVALID" /\ x.id = r.id /\ ~x.polled /\ x.high = <<>> /\ x.low = <<>> /\ x.wire = <<>>
  <2>1. <<>> \in Seq(Package)
    OBVIOUS
  <2>2. r.type \in {"PLISTEN", "PACCEPT"} => ~r.polled
    BY <1>2 DEF SlotFits
  <2> QED BY <2>1, <2>2, <1>3 DEF Closed, SlotRec, Type
<1>5. /\ slot' = [slot EXCEPT ![s] = x]
      /\ open' = IF slot[s].type = "BIND" THEN open ELSE open \ {x.id}
      /\ told' = [told EXCEPT ![x.id] = "end"]
  BY <1>1, <1>3, <1>4 DEF ForceClose, Tell
<1> QED BY <1>1, <1>4, <1>5 DEF Frees, Idle

(* A slot that has nothing to send gets a new descriptor.                  *)
LEMMA NewFdIs ==
    ASSUME TypeOK, NEW i \in Id, NEW type \in Type \ {"INVALID", "RESERVE"},
           NEW polled \in BOOLEAN, NEW armed \in BOOLEAN, NewFd(i, type, polled, armed),
           Idle(slot[At(i)]), polled <=> type \notin {"PLISTEN", "PACCEPT"}
    PROVE  \E x \in SlotRec: Fresh(x, i) /\ x.type = type /\ slot' = [slot EXCEPT ![At(i)] = x]
<1>1. PICK r \in SlotRec: r = slot[At(i)]
  BY TypedIs, IdSlot
<1>2. PICK x: x = [r EXCEPT !.id = i, !.type = type, !.wb_size = 0, !.polled = polled, !.armed = armed,
                           !.early = FALSE]
  OBVIOUS
<1>3. i \in 0..MaxId
  BY SocketAssumption DEF Id
<1>4. /\ x \in SlotRec /\ x.id = i /\ x.type = type /\ x.wb_size = 0 /\ x.polled = polled
      /\ x.high = r.high /\ x.low = r.low /\ x.wire = r.wire
  BY <1>2, <1>3 DEF SlotRec
<1>5. slot' = [slot EXCEPT ![At(i)] = x]
  BY <1>1, <1>2 DEF NewFd
<1>6. Fresh(x, i)
  BY <1>1, <1>4 DEF Fresh, Idle, InUse
<1> QED BY <1>4, <1>5, <1>6

(* A slot that waits for its connection waits with its write event on.     *)
LEMMA NewFdArmed ==
    ASSUME TypeOK, NEW i \in Id, NewFd(i, "CONNECTING", TRUE, TRUE),
           NEW x \in SlotRec, slot' = [slot EXCEPT ![At(i)] = x]
    PROVE  x.armed
<1>1. PICK r \in SlotRec: r = slot[At(i)]
  BY TypedIs, IdSlot
<1>2. At(i) \in Slot /\ slot \in [Slot -> SlotRec]
  BY IdSlot, SlotsTyped DEF Slots
<1>3. slot'[At(i)] = x
  BY <1>2
<1>4. slot'[At(i)].armed = TRUE
  BY <1>1, <1>2 DEF NewFd, SlotRec
<1> QED BY <1>3, <1>4

(* The head of the pipe.                                                   *)
LEMMA HeadIs ==
    ASSUME Inv, pipe # <<>>
    PROVE  /\ 1 \in DOMAIN pipe /\ Head(pipe) = pipe[1] /\ pipe[1] \in Requests
           /\ pipe[1].cmd # "X" => pipe[1].id \in Id /\ pipe[1].id \in Issued
           /\ pipe[1].cmd = "D" => pipe[1].pkg \in Package
<1>1. pipe \in Seq(Requests)
  BY DEF Inv, TypeOK, Requests
<1>2. 1 \in DOMAIN pipe /\ Head(pipe) = pipe[1] /\ pipe[1] \in Requests
  BY <1>1, TailIs
<1>3. pipe[1].cmd # "X" => pipe[1].id \in 1..alloc_id
  BY <1>2 DEF Inv, PipeInv, Issued
<1>4. 1..alloc_id \subseteq Id
  BY SocketAssumption DEF Inv, TypeOK, Id
<1>5. pipe[1].cmd = "D" => pipe[1].pkg \in Package
  BY <1>2 DEF Inv, PipeInv, Sends
<1> QED BY <1>2, <1>3, <1>4, <1>5 DEF Issued

(* A request that uses a socket finds it, or not.                          *)
LEMMA MatchesIs ==
    ASSUME Inv, pipe # <<>>, Using(1), NEW i \in Id, i = pipe[1].id
    PROVE  Matches(i) <=> Has(i)
<1>1. ~Outdated(i)
  BY HeadIs DEF Inv, ReserveInv
<1> QED BY <1>1 DEF Matches, Has, InUse, Outdated

(* The package that is read is newer than what its slot has been given.    *)
LEMMA NewestIs ==
    ASSUME Inv, pipe # <<>>, Sends(1), NEW s \in Slot, NEW r \in SlotRec, r = slot[s]
    PROVE  \A j \in DOMAIN Stream(r): Stream(r)[j].n < pipe[1].pkg.n
<1>1. 1 \in DOMAIN pipe
  BY HeadIs
<1> QED BY <1>1 DEF Inv, StreamInv, Older

LEMMA IdleStreamIs ==
    ASSUME NEW r \in SlotRec, Idle(r)
    PROVE  Stream(r) = <<>>
<1>1. <<>> \o <<>> = <<>>
  OBVIOUS
<1> QED BY <1>1 DEF Idle, Stream, Pending

-----------------------------------------------------------------------------
(* The requests, each of which is a step of one of the kinds.              *)
Reads(i) == Inv /\ Runs /\ pipe # <<>> /\ pipe' = Tail(pipe) /\ i = pipe[1].id /\ alloc_id' = alloc_id

LEMMA OpenSocketIs ==
    ASSUME NEW i \in Id, Reads(i), pipe[1].cmd = "O", OpenSocket(i), lost' = lost
    PROVE  Kind
<1>1. Makes(i) /\ Inv /\ Runs /\ alloc_id' = alloc_id
  BY DEF Makes, Making, Reads
<1>2. slot[At(i)].type = "RESERVE" /\ At(i) \in Slot
  BY <1>1, MakesIs DEF Inv
<1>3. Idle(slot[At(i)])
  BY <1>1, <1>2, TypedIs DEF Inv, SlotInv, SlotFits
<1>4. CASE Unreserve(i) /\ Tell(i, "end") /\ UNCHANGED open
  BY <1>1, <1>4 DEF Fails, Unreserve, Tell, Kind
<1>5. CASE NewFd(i, "CONNECTED", TRUE, FALSE) /\ Tell(i, "live") /\ open' = open \cup {i}
  <2>1. PICK x \in SlotRec: Fresh(x, i) /\ x.type = "CONNECTED" /\ slot' = [slot EXCEPT ![At(i)] = x]
    BY <1>1, <1>3, <1>5, NewFdIs DEF Type, Inv
  <2>2. Opens(i, x)
    BY <1>1, <1>5, <2>1 DEF Opens, Tell
  <2> QED BY <2>2 DEF Kind
<1>6. CASE NewFd(i, "CONNECTING", TRUE, TRUE) /\ open' = open \cup {i} /\ UNCHANGED told
  <2>1. PICK x \in SlotRec: Fresh(x, i) /\ x.type = "CONNECTING" /\ slot' = [slot EXCEPT ![At(i)] = x]
    BY <1>1, <1>3, <1>6, NewFdIs DEF Type, Inv
  <2>3. x.armed
    BY <1>1, <1>6, <2>1, NewFdArmed DEF Inv
  <2>2. Opens(i, x)
    BY <1>1, <1>6, <2>1, <2>3 DEF Opens, Reads
  <2> QED BY <2>2 DEF Kind
<1> QED BY <1>4, <1>5, <1>6 DEF OpenSocket

LEMMA ListenSocketIs ==
    ASSUME NEW i \in Id, Reads(i), pipe[1].cmd = "L", ListenSocket(i), lost' = lost
    PROVE  Kind
<1>1. Makes(i) /\ Inv /\ Runs /\ alloc_id' = alloc_id
  BY DEF Makes, Making, Reads
<1>2. slot[At(i)].type = "RESERVE" /\ At(i) \in Slot /\ 1 \in DOMAIN pipe
  BY <1>1, MakesIs DEF Inv
<1>3. Idle(slot[At(i)])
  BY <1>1, <1>2, TypedIs DEF Inv, SlotInv, SlotFits
<1>4. i \in open
  BY <1>1, <1>2 DEF Inv, OpenInv, Makes
<1>5. NewFd(i, "PLISTEN", FALSE, FALSE) /\ open' = open /\ told' = told
  BY DEF ListenSocket
<1>6. PICK x \in SlotRec: Fresh(x, i) /\ x.type = "PLISTEN" /\ slot' = [slot EXCEPT ![At(i)] = x]
  BY <1>1, <1>3, <1>5, NewFdIs DEF Type, Inv
<1>7. open' = open \cup {i}
  BY <1>4, <1>5
<1>8. Opens(i, x)
  BY <1>1, <1>5, <1>6, <1>7 DEF Opens
<1> QED BY <1>8 DEF Kind

LEMMA BindSocketIs ==
    ASSUME NEW i \in Id, Reads(i), pipe[1].cmd = "B", BindSocket(i), lost' = lost
    PROVE  Kind
<1>1. Makes(i) /\ Inv /\ Runs /\ alloc_id' = alloc_id /\ open' = open
  BY DEF Makes, Making, Reads, BindSocket
<1>2. slot[At(i)].type = "RESERVE" /\ At(i) \in Slot
  BY <1>1, MakesIs DEF Inv
<1>3. Idle(slot[At(i)])
  BY <1>1, <1>2, TypedIs DEF Inv, SlotInv, SlotFits
<1>4. CASE Unreserve(i) /\ Tell(i, "end")
  BY <1>1, <1>4 DEF Fails, Unreserve, Tell, Kind
<1>5. CASE NewFd(i, "BIND", TRUE, FALSE) /\ Tell(i, "live")
  <2>1. PICK x \in SlotRec: Fresh(x, i) /\ x.type = "BIND" /\ slot' = [slot EXCEPT ![At(i)] = x]
    BY <1>1, <1>3, <1>5, NewFdIs DEF Type, Inv
  <2>2. Opens(i, x)
    BY <1>1, <1>5, <2>1 DEF Opens, Tell
  <2> QED BY <2>2 DEF Kind
<1> QED BY <1>4, <1>5 DEF BindSocket

LEMMA StartSocketIs ==
    ASSUME NEW i \in Id, Reads(i), pipe[1].cmd = "S", StartSocket(i)
    PROVE  Kind
<1>1. /\ Inv /\ Runs /\ Passes /\ Using(1) /\ pipe # <<>> /\ pipe' = Tail(pipe) /\ alloc_id' = alloc_id /\ open' = open
      /\ i = pipe[1].id /\ i \in Issued
  BY HeadIs DEF Reads, Passes, Using, StartSocket
<1>2. Matches(i) <=> Has(i)
  BY <1>1, MatchesIs
<1>3. PICK s \in Slot: s = At(i)
  BY IdSlot
<1>4. PICK r \in SlotRec: r = slot[s]
  BY <1>1, TypedIs DEF Inv
<1>5. SlotFits(s, r)
  BY <1>1, <1>4 DEF Inv, SlotInv
<1>6. CASE ~Matches(i) /\ Tell(i, "end") /\ UNCHANGED <<slot, lost>>
  <2>1. Says(i, "end")
    BY <1>1, <1>2, <1>6 DEF Says, Tell
  <2> QED BY <2>1 DEF Kind
<1>7. CASE Matches(i) /\ r.type \in {"PACCEPT", "PLISTEN"} /\ Unreserve(i) /\ Tell(i, "end") /\ lost' = lost \cup {i}
  <2>1. PICK x: x = [r EXCEPT !.type = "INVALID"]
    OBVIOUS
  <2>2. /\ x \in SlotRec /\ x.type = "INVALID" /\ x.id = r.id /\ x.polled = r.polled /\ x.high = r.high
        /\ x.low = r.low /\ x.wire = r.wire
    BY <2>1 DEF SlotRec, Type
  <2>3. Idle(x) /\ ~x.polled
    BY <2>2, <1>5, <1>7 DEF SlotFits, Idle
  <2>4. slot' = [slot EXCEPT ![s] = x]
    BY <1>3, <1>4, <1>7, <2>1 DEF Unreserve
  <2>5. InUse(slot[s]) /\ x.id = i /\ slot[s].id = i
    BY <1>2, <1>3, <1>4, <1>7, <2>2 DEF Has
  <2>6. Frees(s, x)
    BY <1>1, <1>4, <1>7, <2>2, <2>3, <2>4, <2>5 DEF Frees, Tell
  <2> QED BY <2>2, <2>6 DEF Kind
<1>8. CASE /\ Matches(i) /\ r.type \in {"PACCEPT", "PLISTEN"}
           /\ slot' = [slot EXCEPT ![At(i)] =
                        [@ EXCEPT !.type = IF r.type = "PACCEPT" THEN "CONNECTED" ELSE "LISTEN",
                                  !.polled = TRUE, !.armed = FALSE]]
           /\ Tell(i, "live") /\ UNCHANGED lost
  <2>1. PICK x: x = [r EXCEPT !.type = IF r.type = "PACCEPT" THEN "CONNECTED" ELSE "LISTEN",
                                  !.polled = TRUE, !.armed = FALSE]
    OBVIOUS
  <2>2. /\ x \in SlotRec /\ x.type = (IF r.type = "PACCEPT" THEN "CONNECTED" ELSE "LISTEN") /\ x.id = r.id
        /\ x.polled = TRUE /\ x.high = r.high /\ x.low = r.low /\ x.wire = r.wire /\ x.wb_size = r.wb_size
    BY <2>1 DEF SlotRec, Type
  <2>3. slot' = [slot EXCEPT ![s] = x]
    BY <1>3, <1>4, <1>8, <2>1
  <2>4. InUse(r) /\ r.id = i /\ InUse(x) /\ Idle(r)
    BY <1>2, <1>3, <1>4, <1>5, <1>8, <2>2 DEF Has, InUse, SlotFits
  <2>5. Good(r)
    BY <1>1, <1>4 DEF Inv, StreamInv
  <2>6. Good(x) /\ Stream(x) = Stream(r) /\ Idle(x)
    BY <2>2, <2>4, <2>5, SameData
  <2>7. Retypes(r.type, x.type) /\ x.type \notin {"PLISTEN", "PACCEPT", "CONNECTING"}
    BY <1>8, <2>2 DEF Retypes
  <2>8. Waits(x)
    BY <2>6, <2>7 DEF Idle, Empty, Waits
  <2>9. told' = [told EXCEPT ![x.id] = "live"]
    BY <1>8, <2>2, <2>4 DEF Tell
  <2>10. Works(s, x)
    BY <1>1, <1>4, <1>8, <2>2, <2>3, <2>4, <2>6, <2>7, <2>8, <2>9 DEF Works
  <2> QED BY <2>2, <2>10 DEF Kind
<1>9. CASE Matches(i) /\ r.type = "CONNECTED" /\ Tell(i, "live") /\ UNCHANGED <<slot, lost>>
  <2>1. Says(i, "live")
    BY <1>1, <1>2, <1>3, <1>4, <1>9 DEF Says, Tell
  <2> QED BY <2>1 DEF Kind
<1>10. CASE UNCHANGED <<slot, lost, told>>
  BY <1>1, <1>10 DEF Silent, Kind
<1> QED BY <1>3, <1>4, <1>6, <1>7, <1>8, <1>9, <1>10 DEF StartSocket

LEMMA CloseSocketIs ==
    ASSUME NEW i \in Id, Reads(i), pipe[1].cmd = "K", CloseSocket(i), lost' = lost
    PROVE  Kind
<1>1. /\ Inv /\ Runs /\ Passes /\ Using(1) /\ pipe # <<>> /\ pipe' = Tail(pipe) /\ alloc_id' = alloc_id
      /\ i = pipe[1].id /\ i \in Issued
  BY HeadIs DEF Reads, Passes, Using
<1>2. Matches(i) <=> Has(i)
  BY <1>1, MatchesIs
<1>3. PICK s \in Slot: s = At(i)
  BY IdSlot
<1>4. PICK r \in SlotRec: r = slot[s]
  BY <1>1, TypedIs DEF Inv
<1>5. SlotFits(s, r) /\ Good(r)
  BY <1>1, <1>4 DEF Inv, SlotInv, StreamInv
<1>6. CASE ~Matches(i) /\ Tell(i, "end") /\ UNCHANGED <<slot, open>>
  <2>1. Says(i, "end")
    BY <1>1, <1>2, <1>6 DEF Says, Tell
  <2> QED BY <2>1 DEF Kind
<1>7. CASE Matches(i) /\ ForceClose(s)
  <2>1. InUse(slot[s])
    BY <1>2, <1>3, <1>7 DEF Has
  <2> QED BY <2>1, <1>1, <1>7, ForceCloseFrees DEF Kind
<1>8. ASSUME Matches(i), NEW k \in 0..Len(Pending(r)), ~Empty(AfterSend(r, k)),
             slot' = [slot EXCEPT ![s] = [AfterSend(r, k) EXCEPT !.type = "HALFCLOSE"]], UNCHANGED <<open, told>>
      PROVE  Kind
  <2>1. InUse(r) /\ r.id = i
    BY <1>2, <1>3, <1>4, <1>8 DEF Has
  <2>2. PICK y: y = AfterSend(r, k)
    OBVIOUS
  <2>3. /\ Alike(y, r) /\ ((~Empty(r) /\ y.armed = r.armed) \/ Empty(y)) /\ Good(y) /\ Stream(y) = Stream(r)
    BY <1>5, <2>1, <2>2, AfterSendIs
  <2>4. PICK x: x = [y EXCEPT !.type = "HALFCLOSE"]
    OBVIOUS
  <2>5. /\ x \in SlotRec /\ x.type = "HALFCLOSE" /\ x.id = y.id /\ x.polled = y.polled /\ x.high = y.high
        /\ x.low = y.low /\ x.wire = y.wire /\ x.wb_size = y.wb_size /\ x.armed = y.armed /\ x.early = y.early
    BY <2>3, <2>4 DEF Alike, SlotRec, Type
  <2>6. y \in SlotRec /\ InUse(y) /\ y.id = r.id /\ y.type = r.type /\ y.polled = r.polled
    BY <2>1, <2>3 DEF Alike, InUse
  <2>7. Good(x) /\ Stream(x) = Stream(r) /\ ~Empty(x) /\ ~Idle(y)
    <3>1. ~Empty(y)
      BY <1>8, <2>2
    <3>2. ~Idle(y)
      BY <3>1 DEF Idle, Empty
    <3> QED BY <3>1, <3>2, <2>3, <2>5, <2>6, SameData
  <2>8. x.polled
    <3>1. ~Idle(r)
      <4>1. CASE Idle(r)
        <5>1. Stream(y) = <<>>
          BY <4>1, <1>5, <2>3, IdleStreamIs
        <5> QED BY <5>1, <2>6, <2>7, IdleStream
      <4> QED BY <4>1
    <3> QED BY <3>1, <1>5, <2>1, <2>5, <2>6 DEF SlotFits
  <2>9. Waits(x)
    <3>1. ~Empty(r) /\ y.armed = r.armed /\ (r.early => y.early)
      BY <1>8, <2>2, <2>3 DEF Alike
    <3>2. r.armed \/ r.early
      BY <1>1, <1>4, <3>1 DEF Inv, ArmInv, Waits
    <3> QED BY <3>1, <3>2, <2>5 DEF Waits
  <2>10. InUse(x) /\ Retypes(r.type, x.type)
    BY <2>5 DEF InUse, Retypes
  <2>11. slot' = [slot EXCEPT ![s] = x]
    BY <1>8, <2>2, <2>4
  <2>12. Works(s, x)
    BY <1>1, <1>4, <1>8, <2>1, <2>5, <2>6, <2>7, <2>8, <2>9, <2>10, <2>11 DEF Works
  <2> QED BY <2>5, <2>12 DEF Kind
<1> QED BY <1>3, <1>4, <1>6, <1>7, <1>8 DEF CloseSocket

LEMMA SendSocketIs ==
    ASSUME NEW i \in Id, Reads(i), pipe[1].cmd = "D", NEW p \in Package, p = pipe[1].pkg,
           SendSocket(i, p), lost' = lost
    PROVE  Kind
<1>1. /\ Inv /\ Runs /\ Passes /\ Using(1) /\ Sends(1) /\ pipe # <<>> /\ pipe' = Tail(pipe) /\ alloc_id' = alloc_id
      /\ i = pipe[1].id /\ i \in Issued /\ 1 \in DOMAIN pipe
  BY HeadIs DEF Reads, Passes, Using, Sends
<1>2. Matches(i) <=> Has(i)
  BY <1>1, MatchesIs
<1>3. PICK s \in Slot: s = At(i)
  BY IdSlot
<1>4. PICK r \in SlotRec: r = slot[s]
  BY <1>1, TypedIs DEF Inv
<1>5. SlotFits(s, r) /\ Good(r)
  BY <1>1, <1>4 DEF Inv, SlotInv, StreamInv
<1>6. \A j \in DOMAIN Stream(r): Stream(r)[j].n < p.n
  BY <1>1, <1>4, NewestIs
<1>7. CASE UNCHANGED <<slot, open, told>>
  BY <1>1, <1>7 DEF Silent, Kind
<1>8. ASSUME Matches(i), r.type \notin {"HALFCLOSE", "PACCEPT"}
      PROVE  /\ InUse(r) /\ r.id = i /\ r.type \notin {"PLISTEN", "LISTEN", "PACCEPT"} /\ r.polled
             /\ Waits(r)
  <2>1. Has(i) /\ InUse(r) /\ r.id = i
    BY <1>2, <1>3, <1>4, <1>8 DEF Has
  <2>2. r.type \notin {"PLISTEN", "LISTEN"}
    BY <1>1, <1>3, <1>4, <2>1 DEF Inv, ReserveInv
  <2>3. Waits(r)
    BY <1>1, <1>4 DEF Inv, ArmInv
  <2> QED BY <1>5, <1>8, <2>1, <2>2, <2>3 DEF SlotFits
<1>9. ASSUME Matches(i), r.type \notin {"HALFCLOSE", "PACCEPT"}, NEW x, slot' = [slot EXCEPT ![s] = x],
             Alike(x, r), Good(x), Grown(Stream(x), Stream(r), p), UNCHANGED <<open, told>>,
             Waits(x)
      PROVE  Kind
  <2>1. x \in SlotRec /\ x.type = r.type /\ x.id = r.id /\ x.polled = r.polled
    BY <1>9 DEF Alike
  <2>2. InUse(x) /\ Retypes(r.type, x.type)
    BY <1>8, <1>9, <2>1 DEF InUse, Retypes
  <2>3. Works(s, x)
    BY <1>1, <1>4, <1>8, <1>9, <2>1, <2>2 DEF Works
  <2> QED BY <2>1, <2>3 DEF Kind
<1>10. ASSUME Matches(i), r.type \notin {"HALFCLOSE", "PACCEPT"}, ~Empty(r),
              slot' = [slot EXCEPT ![s] = Appended(r, p, Length)], UNCHANGED <<open, told>>
       PROVE  Kind
  <2>1. PICK x: x = Appended(r, p, Length)
    OBVIOUS
  <2>2. /\ Alike(x, r) /\ x.armed = r.armed /\ Good(x) /\ Grown(Stream(x), Stream(r), p)
        /\ r.type = "CONNECTING" => x.early
    BY <1>5, <1>6, <1>8, <1>10, <2>1, AppendedIs
  <2>3. slot' = [slot EXCEPT ![s] = x]
    BY <1>10, <2>1
  <2>4. Waits(x)
    BY <1>8, <1>10, <2>2 DEF Alike, Waits
  <2> QED BY <1>9, <1>10, <2>2, <2>3, <2>4
<1>11. ASSUME Matches(i), r.type \notin {"HALFCLOSE", "PACCEPT"}, Empty(r), NEW k \in 0..Length,
              slot' = [slot EXCEPT ![s] = Wrote(r, p, k)], UNCHANGED <<open, told>>
       PROVE  Kind
  <2>1. PICK x: x = Wrote(r, p, k)
    OBVIOUS
  <2>2. /\ Alike(x, r) /\ (x.armed \/ Empty(x)) /\ Good(x) /\ Grown(Stream(x), Stream(r), p)
        /\ r.type = "CONNECTING" => (r.armed => x.armed) /\ (Empty(x) \/ x.early)
    BY <1>5, <1>6, <1>8, <1>11, <2>1, WroteIs
  <2>3. slot' = [slot EXCEPT ![s] = x]
    BY <1>11, <2>1
  <2>4. Waits(x)
    BY <1>8, <1>11, <2>2 DEF Alike, Waits
  <2> QED BY <1>9, <1>11, <2>2, <2>3, <2>4
<1>12. ASSUME Matches(i), r.type \notin {"HALFCLOSE", "PACCEPT"}, ForceClose(s)
       PROVE  Kind
  BY <1>1, <1>4, <1>8, <1>12, ForceCloseFrees DEF Kind
<1> QED BY <1>3, <1>4, <1>7, <1>10, <1>11, <1>12 DEF SendSocket, Wrote

LEMMA CtrlCmdIs == ASSUME Inv, CtrlCmd PROVE Kind
<1>1. pc = "ctrl" /\ pipe # <<>> /\ pipe' = Tail(pipe) /\ UNCHANGED <<alloc_id, asked>>
  BY DEF CtrlCmd
<1>2. PICK q \in Requests: q = pipe[1] /\ q = Head(pipe) /\ (q.cmd # "X" => q.id \in Id) /\ (q.cmd = "D" => q.pkg \in Package)
  BY <1>1, HeadIs
<1>3. ASSUME UNCHANGED <<pc, ev>> PROVE Runs
  BY <1>1, <1>3 DEF Runs
<1>4. ASSUME UNCHANGED <<pc, ev>>, q.cmd # "X" PROVE q.id \in Id /\ Reads(q.id)
  BY <1>1, <1>2, <1>3, <1>4 DEF Reads
<1>5. CASE q.cmd = "O" /\ OpenSocket(q.id) /\ UNCHANGED <<pc, ev, lost>>
  BY <1>2, <1>4, <1>5, OpenSocketIs
<1>6. CASE q.cmd = "L" /\ ListenSocket(q.id) /\ UNCHANGED <<pc, ev, lost>>
  BY <1>2, <1>4, <1>6, ListenSocketIs
<1>7. CASE q.cmd = "B" /\ BindSocket(q.id) /\ UNCHANGED <<pc, ev, lost>>
  BY <1>2, <1>4, <1>7, BindSocketIs
<1>8. CASE q.cmd = "S" /\ StartSocket(q.id) /\ UNCHANGED <<pc, ev>>
  BY <1>2, <1>4, <1>8, StartSocketIs
<1>9. CASE q.cmd = "K" /\ CloseSocket(q.id) /\ UNCHANGED <<pc, ev, lost>>
  BY <1>2, <1>4, <1>9, CloseSocketIs
<1>10. CASE q.cmd = "D" /\ SendSocket(q.id, q.pkg) /\ UNCHANGED <<pc, ev, lost>>
  BY <1>2, <1>4, <1>10, SendSocketIs
<1>11. CASE q.cmd = "X" /\ pc' = "exit" /\ ev' = <<>> /\ UNCHANGED <<slot, open, lost, told>>
  BY <1>1, <1>2, <1>11 DEF Ends, Kind
<1> QED BY <1>2, <1>5, <1>6, <1>7, <1>8, <1>9, <1>10, <1>11 DEF CtrlCmd

-----------------------------------------------------------------------------
(* The events.                                                             *)
Handles == Inv /\ Runs /\ pipe' = pipe /\ lost' = lost

LEMMA ReportAcceptIs ==
    ASSUME Handles, NEW s \in Slot, slot[s].type = "LISTEN", ReportAccept(s)
    PROVE  Kind
<1>1. CASE UNCHANGED <<slot, alloc_id, open, told>>
  BY <1>1 DEF Handles, Silent, Passes, Kind
<1>2. ASSUME NEW i \in Id, Reserves(i), NewFd(i, "PACCEPT", FALSE, FALSE), open' = open \cup {i},
             told' = [told EXCEPT ![slot[s].id] = "live", ![i] = "live"]
      PROVE  Kind
  <2>1. PICK l \in Id: l = slot[s].id /\ Has(l) /\ At(l) = s
    BY UseIs DEF Handles, Inv, InUse
  <2>2. slot[At(i)].type = "INVALID" /\ At(i) \in Slot
    BY <1>2, FirstFree DEF Handles, Inv
  <2>3. Idle(slot[At(i)])
    BY <2>2, TypedIs DEF Handles, Inv, SlotInv, SlotFits
  <2>4. PICK x \in SlotRec: Fresh(x, i) /\ x.type = "PACCEPT" /\ slot' = [slot EXCEPT ![At(i)] = x]
    BY <1>2, <2>3, NewFdIs DEF Type, Handles, Inv
  <2>5. Accepts(i, l, x)
    BY <1>2, <2>1, <2>4 DEF Accepts, Handles
  <2> QED BY <2>5 DEF Kind
<1> QED BY <1>1, <1>2 DEF ReportAccept

LEMMA ReportConnectIs ==
    ASSUME Handles, NEW s \in Slot, slot[s].type = "CONNECTING", ReportConnect(s), alloc_id' = alloc_id
    PROVE  Kind
<1>1. Inv /\ Runs /\ Passes /\ lost' = lost /\ InUse(slot[s])
  BY DEF Handles, Passes, InUse
<1>2. CASE ForceClose(s)
  BY <1>1, <1>2, ForceCloseFrees DEF Kind
<1>3. CASE /\ slot' = [slot EXCEPT ![s] = [@ EXCEPT !.type = "CONNECTED", !.armed = FALSE]]
           /\ Tell(slot[s].id, "live") /\ UNCHANGED open
  <2>1. PICK r \in SlotRec: r = slot[s]
    BY <1>1, TypedIs DEF Inv
  <2>2. PICK x: x = [r EXCEPT !.type = "CONNECTED", !.armed = FALSE]
    OBVIOUS
  <2>3. /\ x \in SlotRec /\ x.type = "CONNECTED" /\ x.id = r.id
        /\ x.polled = r.polled /\ x.high = r.high /\ x.low = r.low /\ x.wire = r.wire /\ x.wb_size = r.wb_size
        /\ x.early = r.early
    BY <2>2 DEF SlotRec, Type
  <2>4. SlotFits(s, r) /\ Good(r)
    BY <1>1, <2>1 DEF Inv, SlotInv, StreamInv
  <2>5. Good(x) /\ Stream(x) = Stream(r) /\ (Empty(x) <=> Empty(r))
    BY <1>1, <2>1, <2>3, <2>4, SameData
  <2>6. Waits(x)
    <3>1. Empty(r) \/ r.early
      BY <1>1, <2>1 DEF Inv, ArmInv, Waits
    <3> QED BY <3>1, <2>3, <2>5 DEF Waits
  <2>7. InUse(x) /\ Retypes(r.type, x.type) /\ x.polled /\ x.type \notin {"CONNECTING", "PLISTEN", "LISTEN", "PACCEPT"}
    BY <1>1, <2>1, <2>3, <2>4 DEF InUse, Retypes, SlotFits
  <2>8. slot' = [slot EXCEPT ![s] = x] /\ told' = [told EXCEPT ![x.id] = "live"]
    BY <1>3, <2>1, <2>2, <2>3 DEF Tell
  <2>9. Works(s, x)
    BY <1>1, <1>3, <2>1, <2>3, <2>5, <2>6, <2>7, <2>8 DEF Works
  <2> QED BY <2>3, <2>9 DEF Kind
<1> QED BY <1>2, <1>3 DEF ReportConnect

LEMMA SendBufferIs ==
    ASSUME Handles, NEW s \in Slot, InUse(slot[s]), slot[s].type # "CONNECTING", SendBuffer(s), alloc_id' = alloc_id
    PROVE  Kind
<1>1. Inv /\ Runs /\ Passes /\ lost' = lost
  BY DEF Handles, Passes
<1>2. CASE ForceClose(s)
  BY <1>1, <1>2, ForceCloseFrees DEF Kind
<1>3. PICK r \in SlotRec: r = slot[s]
  BY <1>1, TypedIs DEF Inv
<1>4. ASSUME NEW k \in 0..Len(Pending(r)), slot' = [slot EXCEPT ![s] = AfterSend(r, k)], UNCHANGED <<open, told>>
      PROVE  Kind
  <2>1. SlotFits(s, r) /\ Good(r)
    BY <1>1, <1>3 DEF Inv, SlotInv, StreamInv
  <2>2. PICK x: x = AfterSend(r, k)
    OBVIOUS
  <2>3. /\ Alike(x, r) /\ ((~Empty(r) /\ x.armed = r.armed) \/ Empty(x)) /\ Good(x) /\ Stream(x) = Stream(r)
    BY <1>3, <2>1, <2>2, AfterSendIs
  <2>4. x \in SlotRec /\ x.type = r.type /\ x.id = r.id /\ x.polled = r.polled
    BY <2>3 DEF Alike
  <2>5. InUse(x) /\ Retypes(r.type, x.type) /\ x.type # "CONNECTING"
    BY <1>3, <2>4 DEF InUse, Retypes
  <2>6. Idle(r) => Idle(x)
    BY <2>3, <2>4, IdleStreamIs, IdleStream
  <2>7. Waits(x)
    <3>1. Empty(r) \/ r.armed \/ r.early
      BY <1>1, <1>3 DEF Inv, ArmInv, Waits
    <3>2. r.early => x.early
      BY <2>3 DEF Alike
    <3> QED BY <3>1, <3>2, <2>3, <2>5 DEF Waits
  <2>8. x.polled <=> x.type \notin {"PLISTEN", "PACCEPT"}
    BY <1>3, <2>1, <2>4 DEF SlotFits
  <2>9. x.type \in {"PLISTEN", "LISTEN", "PACCEPT"} => Idle(x)
    BY <2>1, <2>4, <2>6 DEF SlotFits
  <2>10. slot' = [slot EXCEPT ![s] = x]
    BY <1>4, <2>2
  <2>11. Works(s, x)
    BY <1>1, <1>3, <1>4, <2>3, <2>4, <2>5, <2>7, <2>8, <2>9, <2>10 DEF Works
  <2> QED BY <2>4, <2>11 DEF Kind
<1> QED BY <1>2, <1>3, <1>4 DEF SendBuffer, SendFails

LEMMA ForwardMessageIs ==
    ASSUME Handles, NEW s \in Slot, InUse(slot[s]), slot[s].type # "CONNECTING", ForwardMessage(s), alloc_id' = alloc_id
    PROVE  Kind
<1>1. Inv /\ Runs /\ Passes /\ lost' = lost /\ pipe' = pipe
  BY DEF Handles, Passes
<1>2. CASE ForceClose(s)
  BY <1>1, <1>2, ForceCloseFrees DEF Kind
<1>3. CASE UNCHANGED <<slot, open, told>>
  BY <1>1, <1>3 DEF Silent, Kind
<1>4. CASE Tell(slot[s].id, "live") /\ UNCHANGED <<slot, open>>
  <2>1. PICK i \in Id: i = slot[s].id /\ Has(i) /\ i \in Issued /\ At(i) = s
    BY <1>1, UseIs DEF Inv
  <2>2. Says(i, "live")
    BY <1>1, <1>4, <2>1 DEF Says, Tell
  <2> QED BY <2>2 DEF Kind
<1> QED BY <1>2, <1>3, <1>4 DEF ForwardMessage

LEMMA EventIs == ASSUME Inv, Event PROVE Kind
<1>1. /\ ev # <<>> /\ ev' = Tail(ev) /\ Dispatch(Head(ev)) /\ UNCHANGED <<pipe, lost, asked>>
      /\ pc' \in {"ctrl", "event"}
  BY DEF Event
<1>2. Handles
  BY <1>1 DEF Handles, Runs
<1>3. PICK e \in Events: e = Head(ev) /\ e = ev[1] /\ 1 \in DOMAIN ev
  <2>1. ev \in Seq(Events)
    BY DEF Inv, TypeOK, Events
  <2> QED BY <2>1, <1>1, TailIs
<1>4. CASE UNCHANGED <<slot, alloc_id, open, told>>
  BY <1>2, <1>4 DEF Handles, Silent, Passes, Kind
<1>5. CASE e.slot # None
  <2>1. PICK s \in Slot: s = e.slot
    BY <1>5 DEF Events
  <2>2. slot[s].type # "RESERVE"
    BY <1>3, <2>1 DEF Inv, ReserveInv
  <2>3. \/ UNCHANGED <<slot, alloc_id, open, told>>
        \/ slot[s].type = "LISTEN" /\ ReportAccept(s)
        \/ slot[s].type = "CONNECTING" /\ ReportConnect(s) /\ UNCHANGED alloc_id
        \/ /\ slot[s].type \notin {"INVALID", "LISTEN", "CONNECTING"}
           /\ SendBuffer(s) \/ ForwardMessage(s)
           /\ UNCHANGED alloc_id
    BY <1>1, <1>3, <1>5, <2>1 DEF Dispatch
  <2>4. slot[s].type \notin {"INVALID", "RESERVE"} => InUse(slot[s])
    BY DEF InUse
  <2> QED BY <1>2, <1>4, <2>2, <2>3, <2>4, ReportAcceptIs, ReportConnectIs, SendBufferIs, ForwardMessageIs
<1>6. CASE e.slot = None
  BY <1>1, <1>3, <1>4, <1>6 DEF Dispatch
<1> QED BY <1>5, <1>6

LEMMA KindKeeps == ASSUME Inv, Kind PROVE Inv'
BY SilentKeeps, SaysKeeps, WorksKeeps, FreesKeeps, FailsKeeps, OpensKeeps, AcceptsKeeps, EndsKeeps DEF Kind

-----------------------------------------------------------------------------
LEMMA Initially == ASSUME Init PROVE Inv
<1>1. PICK r: r = [type |-> "INVALID", id |-> 0, high |-> <<>>, low |-> <<>>,
                   wb_size |-> 0, polled |-> FALSE, armed |-> FALSE, wire |-> <<>>,
                   early |-> FALSE]
  OBVIOUS
<1>2. /\ slot = [s \in Slot |-> r] /\ alloc_id = 0 /\ pipe = <<>> /\ pc = "ctrl" /\ ev = <<>>
      /\ open = {} /\ lost = {} /\ told = [i \in Id |-> "none"] /\ asked = 0
  BY <1>1 DEF Init
<1>3. \A S: <<>> \in Seq(S)
  OBVIOUS
<1>4. r \in SlotRec /\ r.type = "INVALID" /\ r.id = 0 /\ Idle(r) /\ ~r.polled
  BY <1>1, <1>3, SocketAssumption DEF SlotRec, Type, Idle
<1>5. DOMAIN pipe = {} /\ DOMAIN ev = {}
  BY <1>2
<1>6. \A s \in Slot: slot[s] = r
  BY <1>2
<1>7. TypeOK
  <2>1. slot \in [Slot -> SlotRec]
    BY <1>2, <1>4
  <2>2. alloc_id \in 0..MaxId /\ asked \in 0..MaxAsk
    BY <1>2, SocketAssumption
  <2>3. pipe \in Seq(Requests) /\ ev \in Seq(Events)
    BY <1>2, <1>3
  <2> QED BY <1>2, <2>1, <2>2, <2>3 DEF TypeOK, SlotRec, Requests, Events
<1>8. PipeInv
  BY <1>2, <1>5 DEF PipeInv
<1>9. SlotInv
  BY <1>2, <1>4, <1>6 DEF SlotInv, SlotFits, InUse
<1>10. ReserveInv
  BY <1>4, <1>5, <1>6 DEF ReserveInv
<1>11. OpenInv
  BY <1>2, <1>4, <1>5, <1>6 DEF OpenInv
<1>12. ToldInv
  BY <1>2, <1>4, <1>5, <1>6 DEF ToldInv, InUse
<1>13. StreamInv
  <2>1. Good(r) /\ Stream(r) = <<>>
    BY <1>4, IdleIs DEF InUse
  <2>2. DOMAIN Stream(r) = {}
    BY <2>1
  <2> QED BY <1>5, <1>6, <2>1, <2>2 DEF StreamInv
<1>14. ArmInv
  BY <1>4, <1>6 DEF ArmInv, Idle, Empty, Waits
<1> QED BY <1>7, <1>8, <1>9, <1>10, <1>11, <1>12, <1>13, <1>14 DEF Inv

LEMMA Stepwise == ASSUME Inv, [Next]_vars PROVE Inv'
BY CreateKeeps, AskKeeps, SendKeeps, ExitKeeps, CtrlCmdIs, EventIs, KindKeeps, NoCmdKeeps, WaitKeeps, ReleaseKeeps,
   StutterKeeps DEF Next

LEMMA Invariance == Spec => []Inv
BY Initially, Stepwise, PTL DEF Spec

-----------------------------------------------------------------------------
LEMMA InvAccounted == ASSUME Inv PROVE Accounted
<1> USE DEF Inv
<1>1. ASSUME NEW s \in Slot
      PROVE  Cardinality(Creations(s)) = IF slot[s].type = "RESERVE" THEN 1 ELSE 0
  <2>1. ASSUME NEW k \in Creations(s)
        PROVE  k \in DOMAIN pipe /\ Making(k) /\ \E i \in Id: i = pipe[k].id /\ At(i) = s
    <3>1. k \in DOMAIN pipe /\ Making(k) /\ At(pipe[k].id) = s
      BY DEF Creations, Making
    <3>2. pipe[k].id \in 1..alloc_id
      BY <3>1 DEF PipeInv, Making, Issued
    <3>3. 1..alloc_id \subseteq Id
      BY SocketAssumption DEF TypeOK, Id
    <3> QED BY <3>1, <3>2, <3>3
  <2>2. CASE slot[s].type = "RESERVE"
    <3>1. PICK k \in DOMAIN pipe, i \in Id: Making(k) /\ pipe[k].id = i /\ At(i) = s
      BY <2>2 DEF ReserveInv
    <3>2. Creations(s) = {k}
      <4>1. k \in Creations(s)
        BY <3>1 DEF Creations, Making
      <4>2. \A j \in Creations(s): j = k
        BY <2>1, <3>1 DEF ReserveInv
      <4> QED BY <4>1, <4>2
    <3> QED BY <2>2, <3>2, FS_Singleton
  <2>3. CASE slot[s].type # "RESERVE"
    <3>1. \A k \in Creations(s): FALSE
      BY <2>1, <2>3 DEF ReserveInv
    <3>2. Creations(s) = {}
      BY <3>1
    <3> QED BY <2>3, <3>2, FS_EmptySet
  <2> QED BY <2>2, <2>3
<1>2. LET certain == IdsOf(Type \ {"INVALID", "RESERVE", "BIND", "HALFCLOSE"})
                     \cup {pipe[k].id : k \in {j \in DOMAIN pipe : pipe[j].cmd = "L"}}
      IN certain \subseteq open /\ open \subseteq certain \cup IdsOf({"HALFCLOSE"}) \cup lost
  <2> DEFINE certain == IdsOf(Type \ {"INVALID", "RESERVE", "BIND", "HALFCLOSE"})
                        \cup {pipe[k].id : k \in {j \in DOMAIN pipe : pipe[j].cmd = "L"}}
  <2>1. certain \subseteq open
    BY DEF IdsOf, OpenInv
  <2>2. ASSUME NEW i \in open PROVE i \in certain \cup IdsOf({"HALFCLOSE"}) \cup lost
    <3>1. Counted(i) /\ At(i) \in Slot
      BY TypedIs, IdSlot DEF OpenInv
    <3>2. CASE Has(i) /\ slot[At(i)].type # "BIND"
      <4>1. slot[At(i)].type \in Type
        BY <3>1, TypedIs DEF SlotRec
      <4> QED BY <3>1, <3>2, <4>1 DEF Has, InUse, IdsOf
    <3> QED BY <3>1, <3>2 DEF Counted
  <2> QED BY <2>1, <2>2
<1>3. \A s \in Slot: slot[s].polled <=> InUse(slot[s]) /\ slot[s].type \notin {"PLISTEN", "PACCEPT"}
  BY TypedIs DEF SlotInv, SlotFits
<1>4. pc = "released" => open = lost
  BY DEF OpenInv
<1> QED BY <1>1, <1>2, <1>3, <1>4 DEF Accounted

(* The types, and nothing leaks, whatever fails: a reserved slot has one   *)
(* request that uses or frees it; every descriptor that was opened is that *)
(* of a slot in use, of a listen request on its way or of a failed start;  *)
(* socket_server_release leaves none but those.                            *)
THEOREM NothingLeaks == Spec => []Accounted
BY Invariance, InvAccounted, PTL

LEMMA InvWriteArmed == ASSUME Inv PROVE WriteArmed
<1>1. ASSUME NEW s \in Slot, ~Empty(slot[s])
      PROVE  slot[s].polled /\ (slot[s].armed \/ (slot[s].early /\ slot[s].type # "CONNECTING"))
  <2>1. PICK r \in SlotRec: r = slot[s]
    BY TypedIs DEF Inv
  <2>2. SlotFits(s, r) /\ Waits(r)
    BY <2>1 DEF Inv, SlotInv, ArmInv
  <2>3. ~Idle(r)
    BY <1>1, <2>1 DEF Idle, Empty
  <2>4. r.polled
    BY <2>2, <2>3 DEF SlotFits, InUse
  <2> QED BY <1>1, <2>1, <2>2, <2>4 DEF Waits
<1> QED BY <1>1 DEF WriteArmed

(* A socket with something left to write is in the poll set with its write *)
(* event on, whenever services send, except where report_connect has       *)
(* turned it off although a package had been queued before it.             *)
THEOREM WritesWait == Spec => []WriteArmed
BY Invariance, InvWriteArmed, PTL

LEMMA InvIntact == ASSUME Inv PROVE Intact
<1>1. ASSUME NEW s \in Slot, InUse(slot[s])
      PROVE  LET u == slot[s].wire \o Pending(slot[s])
             IN /\ Len(u) % Length = 0
                /\ \A k \in DOMAIN u: \A j \in 1..k-1:
                     /\ Block(j) = Block(k) <=> u[j] = u[k]
                     /\ u[j].low = u[k].low => u[j].n <= u[k].n
                /\ slot[s].wb_size = Len(Pending(slot[s]))
  <2>1. PICK r \in SlotRec: r = slot[s]
    BY TypedIs DEF Inv
  <2>2. Good(r) /\ InUse(r)
    BY <1>1, <2>1 DEF Inv, StreamInv
  <2>3. Row(Stream(r)) /\ r.wb_size = Len(Pending(r))
    BY <2>2 DEF Good
  <2>4. PICK u \in Seq(Package): u = Stream(r)
    BY StreamIs DEF Three
  <2>5. DOMAIN u = 1..Len(u) /\ Len(u) \in Nat
    OBVIOUS
  <2>6. \A k \in DOMAIN u: \A j \in 1..k-1: k \in DOMAIN u /\ j \in DOMAIN u /\ j < k
    BY <2>5
  <2>7. /\ Len(u) % Length = 0
        /\ \A k \in DOMAIN u: \A j \in 1..k-1:
             /\ Block(j) = Block(k) <=> u[j] = u[k]
             /\ u[j].low = u[k].low => u[j].n <= u[k].n
    BY <2>3, <2>4, <2>6 DEF Row
  <2>8. slot[s].wire \o Pending(slot[s]) = u /\ slot[s].wb_size = Len(Pending(slot[s]))
    BY <2>1, <2>3, <2>4 DEF Stream
  <2> QED BY <2>7, <2>8
<1> QED BY <1>1 DEF Intact

(* Packages arrive whole, once and, for each priority, in order, and       *)
(* wb_size counts what is left, however the writes are cut.                *)
THEOREM PackagesIntact == Spec => []Intact
BY Invariance, InvIntact, PTL

LEMMA LowIsWhole ==
    ASSUME NEW r \in SlotRec, Good(r)
    PROVE  ~Uncomplete(r.low)
<1>1. SUFFICES ASSUME r.low # <<>> PROVE ~(HeadLeft(r.low) < Length)
  BY DEF Uncomplete
<1>2. PICK list \in Seq(Package), u \in Seq(Package): list = r.low /\ u = Stream(r)
  BY StreamIs DEF SlotRec, Three
<1>3. PICK w \in Nat, h \in Nat, l \in Nat: w = Len(r.wire) /\ h = Len(r.high) /\ l = Len(list)
  BY DEF SlotRec
<1>4. Three(u, r.wire, r.high, list)
  BY <1>2, StreamIs
<1>5. Len(u) = w + h + l /\ \A k \in 1..l: u[w + h + k] = list[k]
  BY <1>3, <1>4 DEF Three
<1>6. Row(u) /\ l % Length = 0
  BY <1>2, <1>3 DEF Good
<1>7. l > 0
  BY <1>1, <1>2, <1>3
<1>8. PICK m \in Nat, nu \in Nat: m = w + h /\ nu = Len(u)
  <2>1. PICK nu \in Nat: nu = Len(u)
    OBVIOUS
  <2>2. w + h \in Nat
    OBVIOUS
  <2> QED BY <2>1, <2>2
<1>9. m < nu /\ l = nu - m /\ \A k \in 1..l: list[k] = u[m + k]
  <2>1. nu = m + l
    BY <1>5, <1>8
  <2>2. m < nu /\ l = nu - m
    BY <2>1, <1>7
  <2>3. \A k \in 1..l: u[m + k] = list[k]
    BY <1>5, <1>8
  <2> QED BY <2>2, <2>3
<1>10. PICK d \in Nat: d = HeadLeft(list) /\ d \in 1..Length /\ (m + d) % Length = 0
  <2>1. HeadLeft(list) \in 1..Length /\ (m + HeadLeft(list)) % Length = 0
    BY <1>3, <1>6, <1>8, <1>9, HeadLeftIs
  <2> QED BY <2>1
<1>11. m % Length = 0
  <2>1. nu % Length = 0
    BY <1>6, <1>8 DEF Row
  <2>2. nu = l + m
    BY <1>9
  <2>3. (l + m) % Length = 0
    BY <2>1, <2>2
  <2> QED BY <2>3, <1>6, WholeAdds
<1>12. d % Length = 0
  BY <1>10, <1>11, WholeAdds
<1>13. PICK n \in Nat \ {0}: n = Length
  BY SocketAssumption
<1>14. PICK q \in Nat: d = n * q
  BY <1>12, <1>13, WholeIs
<1>15. ASSUME d < n PROVE FALSE
  <2>1. q # 0
    BY <1>10, <1>14
  <2>2. 0 < q
    BY <2>1
  <2>3. n * 0 + n <= n * q
    BY <2>2, Scale
  <2> QED BY <2>3, <1>14, <1>15
<1> QED BY <1>2, <1>10, <1>13, <1>15

LEMMA InvAssertions == ASSUME Inv PROVE Assertions
<1> USE DEF Inv
<1>1. ASSUME NEW s \in Slot PROVE ~Uncomplete(slot[s].low) /\ (~InUse(slot[s]) => Empty(slot[s]))
  <2>1. PICK r \in SlotRec: r = slot[s]
    BY TypedIs
  <2>2. SlotFits(s, r) /\ Good(r)
    BY <2>1 DEF SlotInv, StreamInv
  <2>3. ~InUse(r) => Empty(r)
    BY <2>2 DEF SlotFits, InUse, Idle, Empty
  <2> QED BY <2>1, <2>2, <2>3, LowIsWhole
<1>2. ASSUME pipe # <<>>
      PROVE  LET q == Head(pipe)
                 r == slot[At(q.id)]
             IN /\ q.cmd \in {"O", "L", "B"} => r.type = "RESERVE"
                /\ q.cmd \in {"K", "D"} /\ Matches(q.id) => r.type # "RESERVE"
                /\ q.cmd = "D" /\ Matches(q.id) => r.type \notin {"PLISTEN", "LISTEN"}
  <2>1. PICK q: q = Head(pipe) /\ q = pipe[1] /\ 1 \in DOMAIN pipe /\ (q.cmd # "X" => q.id \in Id)
    BY <1>2, HeadIs
  <2>2. q.cmd \in {"O", "L", "B"} => slot[At(q.id)].type = "RESERVE"
    BY <2>1 DEF ReserveInv, Making
  <2>3. q.cmd \in {"K", "D"} /\ Matches(q.id) => slot[At(q.id)].type # "RESERVE"
    BY <2>1 DEF ReserveInv, Using, Outdated, Matches
  <2>4. ASSUME q.cmd = "D", Matches(q.id) PROVE slot[At(q.id)].type \notin {"PLISTEN", "LISTEN"}
    <3>1. Has(q.id)
      BY <1>2, <2>1, <2>4, MatchesIs DEF Using
    <3> QED BY <2>1, <2>4, <3>1 DEF ReserveInv, Sends
  <2> QED BY <2>1, <2>2, <2>3, <2>4
<1>3. ASSUME ev # <<>>, Head(ev).slot # None PROVE slot[Head(ev).slot].type # "RESERVE"
  <2>1. PICK e \in Events: e = Head(ev) /\ e = ev[1] /\ 1 \in DOMAIN ev
    <3>1. ev \in Seq(Events)
      BY DEF TypeOK, Events
    <3> QED BY <3>1, <1>3, TailIs
  <2>2. PICK s \in Slot: s = e.slot
    BY <1>3, <2>1 DEF Events
  <2> QED BY <2>1, <2>2 DEF ReserveInv
<1> QED BY <1>1, <1>2, <1>3 DEF Assertions

(* The assertions of socket_server.c hold at every step.                   *)
THEOREM AssertionsAlways == Spec => []Assertions
BY Invariance, InvAssertions, PTL

LEMMA KindEnds ==
    ASSUME Inv, Kind, NEW i \in Id, told[i] = "end"
    PROVE  told'[i] = "end"
<1> USE DEF Inv
<1>0. told \in [Id -> Words]
  BY TypedIs
<1>1. \A j \in Id: Has(j) => told[j] # "end"
  BY IdSlot DEF ToldInv, Has
<1>2. ASSUME Silent \/ Ends PROVE told' = told
  BY <1>2 DEF Silent, Ends
<1>3. ASSUME NEW j \in Id, Says(j, "live") \/ Says(j, "end") PROVE told'[i] = "end"
  BY <1>0, <1>1, <1>3 DEF Says
<1>4. ASSUME NEW s \in Slot, NEW x \in SlotRec, Works(s, x) PROVE told'[i] = "end"
  <2>1. PICK n \in Id: n = slot[s].id /\ n = x.id /\ Has(n)
    BY <1>4, UseIs DEF Works
  <2>2. n # i
    BY <2>1, <1>1
  <2> QED BY <1>0, <1>4, <2>1, <2>2 DEF Works
<1>5. ASSUME NEW s \in Slot, NEW x \in SlotRec, Frees(s, x) PROVE told'[i] = "end"
  BY <1>0, <1>5 DEF Frees
<1>6. ASSUME NEW j \in Id, Fails(j) PROVE told'[i] = "end"
  BY <1>0, <1>6 DEF Fails
<1>7. ASSUME NEW j \in Id, NEW x \in SlotRec, Opens(j, x) PROVE told'[i] = "end"
  <2>1. 1 \in DOMAIN pipe /\ Making(1) /\ pipe[1].id = j
    BY <1>7, MakesIs DEF Opens
  <2>2. told[j] = "none"
    BY <2>1 DEF ToldInv
  <2> QED BY <1>0, <1>7, <2>2 DEF Opens
<1>8. ASSUME NEW j \in Id, NEW l \in Id, NEW x \in SlotRec, Accepts(j, l, x) PROVE told'[i] = "end"
  <2>1. told[j] = "none"
    BY <1>8, FirstFree DEF Accepts, ToldInv
  <2>2. Has(l)
    BY <1>8 DEF Accepts
  <2> QED BY <1>0, <1>1, <1>8, <2>1, <2>2 DEF Accepts
<1> QED BY <1>2, <1>3, <1>4, <1>5, <1>6, <1>7, <1>8 DEF Kind

LEMMA EndStays ==
    ASSUME Inv, [Next]_vars
    PROVE  [\A i \in Id: told[i] = "end" => told'[i] = "end"]_vars
<1>1. ASSUME told' = told PROVE \A i \in Id: told[i] = "end" => told'[i] = "end"
  BY <1>1
<1>2. Create \/ Ask \/ Send \/ Exit \/ NoCmd \/ Wait \/ Release => told' = told
  BY DEF Create, Ask, Send, Exit, NoCmd, Wait, Release
<1>3. CtrlCmd \/ Event => Kind
  BY CtrlCmdIs, EventIs
<1> QED BY <1>1, <1>2, <1>3, KindEnds DEF Next

(* Once a service was told that a socket is closed, or has failed, it is   *)
(* told nothing else about that id.                                        *)
THEOREM SilentAfterEnd == Spec => NothingAfterEnd
BY Invariance, EndStays, PTL DEF Spec, NothingAfterEnd
=============================================================================
