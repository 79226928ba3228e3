------------------------- MODULE MessageQueueProofs -------------------------
(***************************************************************************)
(* What module MessageQueue keeps for every size of the array, every       *)
(* number of messages and every set of sessions.                           *)
(***************************************************************************)
EXTENDS MessageQueue, SequenceTheorems, TLAPS

(* An index that runs once round an array of n elements.                   *)
LEMMA Wrap ==
    ASSUME NEW n \in Nat \ {0}, NEW h \in 0..n-1, NEW i \in 0..n-1
    PROVE  (h + i) % n = IF h + i < n THEN h + i ELSE h + i - n
<1>1. CASE h + i < n
  BY <1>1
<1>2. CASE h + i >= n
  <2>1. h + i = 1 * n + (h + i - n) /\ h + i - n \in 0..n-1
    BY <1>2
  <2> QED
    BY <1>2, <2>1
<1> QED
  BY <1>1, <1>2

(* In a ring that the next push fills, every slot but the one at tail      *)
(* holds a message; so the expanded array holds messages only in its first *)
(* cap - 1 elements (a push to the head), or in its first cap elements     *)
(* once the slot at tail is written (a push to the tail).                  *)
LEMMA FullRing ==
    ASSUME TypeOK, NoGarbage, head = Succ(tail, cap), NEW i \in 0..cap-1, i # tail
    PROVE  slots[i] \in Message
<1>1. InUse(i)
  BY DEF TypeOK, Succ, InUse
<1> QED
  BY <1>1 DEF NoGarbage

LEMMA PushTailKeeps ==
    ASSUME TypeOK, NoGarbage, NEW m \in Message, PushTail(m)
    PROVE  /\ cap' \in Nat \ {0} /\ head' \in 0..cap'-1 /\ tail' \in 0..cap'-1
           /\ slots' \in [0..cap'-1 -> Message \cup {Junk}]
           /\ NoGarbage'
           /\ head' # tail'
<1> DEFINE s == [slots EXCEPT ![tail] = m]
           t == Succ(tail, cap)
<1>1. /\ cap \in Nat \ {0} /\ head \in 0..cap-1 /\ tail \in 0..cap-1
      /\ slots \in [0..cap-1 -> Message \cup {Junk}]
      /\ t \in 0..cap-1
      /\ s \in [0..cap-1 -> Message \cup {Junk}] /\ s[tail] = m
      /\ \A i \in 0..cap-1: i # tail => s[i] = slots[i]
  BY DEF TypeOK, Succ
<1>2. CASE head = t
  <2>1. /\ slots' = Expanded(s, head, cap)
        /\ head' = 0 /\ tail' = cap /\ cap' = 2 * cap
    BY <1>2 DEF PushTail
  <2>2. \A i \in 0..cap-1: s[i] \in Message
    BY <1>1, <1>2, FullRing
  <2>3. ASSUME NEW i \in 0..cap-1
        PROVE  (head + i) % cap \in 0..cap-1
    BY <1>1, Wrap
  <2>4. /\ \A i \in 0..cap-1: slots'[i] \in Message
        /\ slots' \in [0..2*cap-1 -> Message \cup {Junk}]
    BY <1>1, <2>1, <2>2, <2>3 DEF Expanded
  <2>5. NoGarbage'
    <3> SUFFICES ASSUME NEW i \in 0..cap'-1, InUse(i)'
                 PROVE  slots'[i] \in Message
      BY DEF NoGarbage
    <3>1. i \in 0..cap-1
      BY <1>1, <2>1 DEF InUse
    <3> QED
      BY <3>1, <2>4
  <2>6. /\ cap' \in Nat \ {0} /\ head' \in 0..cap'-1 /\ tail' \in 0..cap'-1
        /\ head' # tail'
    BY <1>1, <2>1
  <2>7. slots' \in [0..cap'-1 -> Message \cup {Junk}]
    BY <2>1, <2>4
  <2> QED
    BY <2>5, <2>6, <2>7
<1>3. CASE head # t
  <2>1. slots' = s /\ tail' = t /\ cap' = cap /\ head' = head
    BY <1>3 DEF PushTail
  <2>2. ASSUME NEW i \in 0..cap-1, InUse(i)', i # tail
        PROVE  InUse(i)
    BY <1>1, <1>3, <2>1, <2>2 DEF InUse, Succ
  <2>3. NoGarbage'
    BY <1>1, <2>1, <2>2 DEF NoGarbage
  <2> QED
    BY <1>1, <1>3, <2>1, <2>3
<1> QED
  BY <1>2, <1>3

LEMMA PushHeadKeeps ==
    ASSUME TypeOK, NoGarbage, NEW m \in Message, PushHead(m)
    PROVE  /\ cap' \in Nat \ {0} /\ head' \in 0..cap'-1 /\ tail' \in 0..cap'-1
           /\ slots' \in [0..cap'-1 -> Message \cup {Junk}]
           /\ NoGarbage'
           /\ head' # tail'
<1> DEFINE h == Pred(head, cap)
<1>1. /\ cap \in Nat \ {0} /\ head \in 0..cap-1 /\ tail \in 0..cap-1
      /\ slots \in [0..cap-1 -> Message \cup {Junk}]
      /\ h \in 0..cap-1
  BY DEF TypeOK, Pred
<1>2. CASE h = tail
  <2>1. /\ slots' = [Expanded(slots, head, cap) EXCEPT ![2*cap - 1] = m]
        /\ head' = 2*cap - 1 /\ tail' = cap - 1 /\ cap' = 2 * cap
    BY <1>2 DEF PushHead
  <2>2. head = Succ(tail, cap)
    BY <1>1, <1>2 DEF Pred, Succ
  <2>3. ASSUME NEW i \in 0..cap-1
        PROVE  /\ (head + i) % cap \in 0..cap-1
               /\ i # cap - 1 => (head + i) % cap # tail
    <3>1. (head + i) % cap = IF head + i < cap THEN head + i ELSE head + i - cap
      BY <1>1, Wrap
    <3> QED
      BY <1>1, <1>2, <3>1 DEF Pred
  <2>4. ASSUME NEW i \in 0..cap-2
        PROVE  slots[(head + i) % cap] \in Message
    <3>1. i \in 0..cap-1 /\ i # cap - 1
      BY <1>1
    <3> QED
      BY <3>1, <2>2, <2>3, FullRing
  <2>5. Expanded(slots, head, cap) \in [0..2*cap-1 -> Message \cup {Junk}]
    BY <1>1, <2>3 DEF Expanded
  <2>6. slots' \in [0..2*cap-1 -> Message \cup {Junk}] /\ slots'[2*cap-1] = m
    BY <1>1, <2>1, <2>5
  <2>8. ASSUME NEW i \in 0..cap-2
        PROVE  slots'[i] \in Message
    <3>1. i \in 0..2*cap-1 /\ i < cap /\ i # 2*cap - 1
      BY <1>1
    <3>2. slots'[i] = Expanded(slots, head, cap)[i]
      BY <2>1, <2>5, <3>1
    <3>3. Expanded(slots, head, cap)[i] = slots[(head + i) % cap]
      BY <3>1 DEF Expanded
    <3> QED
      BY <2>4, <3>2, <3>3
  <2>7. NoGarbage'
    <3> SUFFICES ASSUME NEW i \in 0..cap'-1, InUse(i)'
                 PROVE  slots'[i] \in Message
      BY DEF NoGarbage
    <3>1. i = 2*cap - 1 \/ i \in 0..cap-2
      BY <1>1, <2>1 DEF InUse
    <3> QED
      BY <3>1, <2>6, <2>8
  <2> QED
    BY <1>1, <2>1, <2>6, <2>7
<1>3. CASE h # tail
  <2>1. /\ slots' = [slots EXCEPT ![h] = m] /\ head' = h
        /\ cap' = cap /\ tail' = tail
    BY <1>3 DEF PushHead
  <2>2. ASSUME NEW i \in 0..cap-1, InUse(i)', i # h
        PROVE  InUse(i)
    BY <1>1, <1>3, <2>1, <2>2 DEF InUse, Pred
  <2>3. NoGarbage'
    BY <1>1, <2>1, <2>2 DEF NoGarbage
  <2> QED
    BY <1>1, <1>3, <2>1, <2>3
<1> QED
  BY <1>2, <1>3

-----------------------------------------------------------------------------
(* Where the queue is decides what in_global and lock_session can be.      *)
Round ==
    \/ /\ entries = 1 /\ stage = "out" /\ in_global = 1 /\ lock_session = 0
    \/ /\ entries = 0 /\ stage \in {"taken", "drop"} /\ in_global = 1 /\ lock_session = 0
    \/ /\ entries = 0 /\ stage = "call"
       /\ in_global \in {1, 2} /\ (lock_session # 0 => in_global = 2)
    \/ /\ entries = 0 /\ stage = "out"
       /\ \/ in_global = 0 /\ lock_session = 0 /\ head = tail
          \/ in_global = 3 /\ lock_session # 0

IInv == TypeOK /\ NoGarbage /\ Round

LEMMA IInvInit == Init => IInv
BY MessageQueueAssumption DEF Init, IInv, TypeOK, NoGarbage, InUse, Round

LEMMA PushKeeps ==
    ASSUME IInv, NEW s \in Session, Push(s)
    PROVE  IInv'
<1> DEFINE m == [id |-> sent + 1, session |-> s]
           answer == lock_session # 0 /\ s = lock_session
<1>1. /\ TypeOK /\ NoGarbage /\ Round
      /\ sent < MaxSend /\ sent' = sent + 1 /\ stage' = stage
      /\ sent \in 0..MaxSend /\ lock_session \in Session /\ entries \in Nat
      /\ in_global \in 0..3 /\ stage \in {"out", "taken", "call", "drop"}
      /\ 0 \in Session /\ MaxSend \in Nat
  BY MessageQueueAssumption DEF IInv, Push, TypeOK
<1>2. m \in Message
  BY <1>1 DEF Message
<1>3. CASE answer
  <2>1. /\ PushHead(m) /\ lock_session' = 0
        /\ IF in_global = 3
           THEN entries' = entries + 1 /\ in_global' = 1
           ELSE in_global = 2 /\ entries' = entries /\ in_global' = in_global
    BY <1>3 DEF Push
  <2>2. /\ cap' \in Nat \ {0} /\ head' \in 0..cap'-1 /\ tail' \in 0..cap'-1
        /\ slots' \in [0..cap'-1 -> Message \cup {Junk}]
        /\ NoGarbage'
    BY <1>1, <1>2, <2>1, PushHeadKeeps
  <2>3. TypeOK'
    <3>1. in_global' \in 0..3 /\ entries' \in Nat /\ lock_session' \in Session
      BY <1>1, <2>1
    <3>2. sent' \in 0..MaxSend
      BY <1>1
    <3> QED
      BY <1>1, <2>2, <3>1, <3>2 DEF TypeOK
  <2>4. Round'
    BY <1>1, <1>3, <2>1 DEF Round
  <2> QED
    BY <2>2, <2>3, <2>4 DEF IInv
<1>4. CASE ~answer
  <2>1. /\ PushTail(m) /\ lock_session' = lock_session
        /\ IF lock_session = 0 /\ in_global = 0
           THEN entries' = entries + 1 /\ in_global' = 1
           ELSE entries' = entries /\ in_global' = in_global
    BY <1>4 DEF Push
  <2>2. /\ cap' \in Nat \ {0} /\ head' \in 0..cap'-1 /\ tail' \in 0..cap'-1
        /\ slots' \in [0..cap'-1 -> Message \cup {Junk}]
        /\ NoGarbage'
    BY <1>1, <1>2, <2>1, PushTailKeeps
  <2>3. TypeOK'
    <3>1. in_global' \in 0..3 /\ entries' \in Nat /\ lock_session' \in Session
      BY <1>1, <2>1
    <3>2. sent' \in 0..MaxSend
      BY <1>1
    <3> QED
      BY <1>1, <2>2, <3>1, <3>2 DEF TypeOK
  <2>4. Round'
    BY <1>1, <2>1 DEF Round
  <2> QED
    BY <2>2, <2>3, <2>4 DEF IInv
<1> QED
  BY <1>3, <1>4

LEMMA PopKeeps ==
    ASSUME IInv, Pop
    PROVE  IInv'
<1>1. TypeOK /\ NoGarbage /\ Round
  BY DEF IInv
<1>2. TypeOK'
  BY <1>1 DEF Pop, TypeOK, Succ
<1>3. NoGarbage'
  <2>1. CASE head # tail
    <3>1. \A i \in 0..cap-1: InUse(i)' => InUse(i)
      BY <1>1, <2>1 DEF Pop, InUse, Succ, TypeOK
    <3> QED
      BY <1>1, <3>1 DEF Pop, NoGarbage
  <2>2. CASE head = tail
    BY <1>1, <2>2 DEF Pop, NoGarbage, InUse
  <2> QED
    BY <2>1, <2>2
<1>4. Round'
  BY <1>1 DEF Pop, Round, TypeOK
<1> QED
  BY <1>2, <1>3, <1>4 DEF IInv

LEMMA IInvNext == IInv /\ [Next]_vars => IInv'
<1> SUFFICES ASSUME IInv, [Next]_vars PROVE IInv'
  OBVIOUS
<1>1. ASSUME NEW s \in Session, Push(s) PROVE IInv'
  BY <1>1, PushKeeps
<1>2. CASE Pop
  BY <1>2, PopKeeps
<1>3. CASE Take \/ Unlock \/ PushGlobal \/ (\E s \in Session \ {0}: Lock(s)) \/ UNCHANGED vars
  <2>1. UNCHANGED ring
    BY <1>3 DEF Take, Unlock, PushGlobal, Lock, vars
  <2>2. NoGarbage'
    BY <2>1 DEF IInv, NoGarbage, InUse, ring
  <2>3. TypeOK'
    BY <1>3, <2>1, MessageQueueAssumption
       DEF IInv, TypeOK, Take, Unlock, PushGlobal, Lock, vars, ring, Round
  <2>4. Round'
    BY <1>3, <2>1 DEF IInv, TypeOK, Take, Unlock, PushGlobal, Lock, vars, ring, Round
  <2> QED
    BY <2>2, <2>3, <2>4 DEF IInv
<1> QED
  BY <1>1, <1>2, <1>3 DEF Next

LEMMA Invariance == Spec => []IInv
BY IInvInit, IInvNext, PTL DEF Spec

(* Whatever the size of the array, its expansions and the places of head   *)
(* and tail, a pop never returns memory that no push wrote                 *)
(* (skynet_mq_push, _pushhead, expand_queue, skynet_mq_pop).               *)
THEOREM NeverGarbage == Spec => []NoGarbage
<1>1. IInv => NoGarbage
  BY DEF IInv
<1> QED
  BY <1>1, Invariance, PTL

(* in_global tells the truth: the queue goes round at most once, and a     *)
(* queue that is nowhere is empty and found by the next push, or waits for *)
(* the answer that unlocks it.                                             *)
THEOREM RoundOnce == Spec => []GoesRoundOnce
<1>1. IInv => GoesRoundOnce
  BY DEF IInv, Round, GoesRoundOnce, Length, TypeOK
<1> QED
  BY <1>1, Invariance, PTL

-----------------------------------------------------------------------------
(* What a ring of n slots holds from h to t, in order.                     *)
Count(h, t, n) == IF h <= t THEN t - h ELSE t + n - h
Reads(s, h, t, n) == [k \in 1..Count(h, t, n) |-> s[(h + k - 1) % n]]

LEMMA ContentReads ==
    /\ Content = Reads(slots, head, tail, cap)
    /\ Content' = Reads(slots', head', tail', cap')
BY DEF Content, Length, Reads, Count

(* The slots of a ring, by the distance from its head.                     *)
Place(h, k, n) == IF h + k - 1 < n THEN h + k - 1 ELSE h + k - 1 - n

LEMMA ReadsIs ==
    ASSUME NEW n \in Nat \ {0}, NEW h \in 0..n-1, NEW t \in 0..n-1, NEW S, NEW s \in [0..n-1 -> S]
    PROVE  /\ Count(h, t, n) \in 0..n-1
           /\ Reads(s, h, t, n) \in Seq(S) /\ Len(Reads(s, h, t, n)) = Count(h, t, n)
           /\ \A k \in 1..Count(h, t, n): Place(h, k, n) \in 0..n-1 /\ Reads(s, h, t, n)[k] = s[Place(h, k, n)]
<1>1. PICK N \in 0..n-1: N = Count(h, t, n)
  <2>1. Count(h, t, n) \in 0..n-1
    BY DEF Count
  <2> QED BY <2>1
<1>2. PICK r: r = Reads(s, h, t, n)
  OBVIOUS
<1>3. r = [k \in 1..N |-> s[(h + k - 1) % n]]
  BY <1>1, <1>2 DEF Reads
<1>4. ASSUME NEW k \in 1..N PROVE (h + k - 1) % n = Place(h, k, n) /\ Place(h, k, n) \in 0..n-1
  <2>1. PICK i \in 0..n-1: i = k - 1
    <3>1. k - 1 \in 0..n-1
      OBVIOUS
    <3> QED BY <3>1
  <2>2. (h + i) % n = IF h + i < n THEN h + i ELSE h + i - n
    BY Wrap
  <2>3. h + k - 1 = h + i
    BY <2>1
  <2>4. (h + k - 1) % n = Place(h, k, n)
    BY <2>2, <2>3 DEF Place
  <2>5. Place(h, k, n) \in 0..n-1
    BY DEF Place
  <2> QED BY <2>4, <2>5
<1>5. \A k \in 1..N: r[k] = s[Place(h, k, n)]
  BY <1>3, <1>4
<1>6. r \in [1..N -> S]
  <2>1. \A k \in 1..N: r[k] \in S
    BY <1>4, <1>5
  <2>2. r = [k \in 1..N |-> r[k]]
    BY <1>3
  <2> QED BY <2>1, <2>2
<1>7. r \in Seq(S) /\ Len(r) = N
  <2>1. N \in Nat
    OBVIOUS
  <2> QED BY <1>6, <2>1
<1> QED BY <1>1, <1>2, <1>4, <1>5, <1>7

Lists(v, s, h, t, n, S) ==
    /\ v \in Seq(S) /\ Len(v) = Count(h, t, n)
    /\ \A k \in 1..Count(h, t, n): Place(h, k, n) \in 0..n-1 /\ v[k] = s[Place(h, k, n)]

LEMMA ReadsList ==
    ASSUME NEW n \in Nat \ {0}, NEW h \in 0..n-1, NEW t \in 0..n-1, NEW S, NEW s \in [0..n-1 -> S]
    PROVE  Lists(Reads(s, h, t, n), s, h, t, n, S)
<1>1. PICK v: v = Reads(s, h, t, n)
  OBVIOUS
<1>2. PICK N: N = Count(h, t, n)
  OBVIOUS
<1>3. v \in Seq(S) /\ Len(v) = N
  BY <1>1, <1>2, ReadsIs
<1>4. ASSUME NEW k \in 1..N PROVE Place(h, k, n) \in 0..n-1 /\ v[k] = s[Place(h, k, n)]
  BY <1>1, <1>2, ReadsIs
<1>5. Lists(v, s, h, t, n, S)
  BY <1>2, <1>3, <1>4 DEF Lists
<1> QED BY <1>1, <1>5

(* Sequences of which one is the other with a member before or after.      *)
LEMMA IsAppend ==
    ASSUME NEW S, NEW u \in Seq(S), NEW v \in Seq(S), NEW m \in S, Len(v) = Len(u) + 1,
           \A k \in 1..Len(u): v[k] = u[k], v[Len(u) + 1] = m
    PROVE  v = Append(u, m)
<1>1. PICK w: w = Append(u, m)
  OBVIOUS
<1>2. w \in Seq(S) /\ Len(w) = Len(u) + 1 /\ \A k \in 1..Len(u)+1: w[k] = IF k <= Len(u) THEN u[k] ELSE m
  BY <1>1, AppendProperties
<1>3. Len(u) \in Nat
  OBVIOUS
<1>4. ASSUME NEW k \in 1..Len(v) PROVE v[k] = w[k]
  <2>1. CASE k \in 1..Len(u)
    BY <2>1, <1>2, <1>3
  <2>2. CASE k = Len(u) + 1
    BY <2>2, <1>2, <1>3
  <2> QED BY <2>1, <2>2, <1>3
<1> QED BY <1>1, <1>2, <1>4, SeqEqual

LEMMA IsPrepend ==
    ASSUME NEW S, NEW u \in Seq(S), NEW v \in Seq(S), NEW m \in S, Len(v) = Len(u) + 1,
           \A k \in 1..Len(u): v[k + 1] = u[k], v[1] = m
    PROVE  v = <<m>> \o u
<1>1. PICK w: w = <<m>> \o u
  OBVIOUS
<1>2. <<m>> \in Seq(S) /\ Len(<<m>>) = 1 /\ <<m>>[1] = m
  OBVIOUS
<1>3. w \in Seq(S) /\ Len(w) = 1 + Len(u)
      /\ \A k \in 1..1+Len(u): w[k] = IF k <= 1 THEN m ELSE u[k - 1]
  <2>1. /\ <<m>> \o u \in Seq(S) /\ Len(<<m>> \o u) = 1 + Len(u)
        /\ \A k \in 1..1+Len(u): (<<m>> \o u)[k] = IF k <= 1 THEN <<m>>[k] ELSE u[k - 1]
    BY <1>2, ConcatProperties
  <2>2. \A k \in 1..1+Len(u): k <= 1 => k = 1
    OBVIOUS
  <2> QED BY <2>1, <2>2, <1>1, <1>2
<1>4. Len(u) \in Nat
  OBVIOUS
<1>5. ASSUME NEW k \in 1..Len(v) PROVE v[k] = w[k]
  <2>1. CASE k = 1
    BY <2>1, <1>3, <1>4
  <2>2. CASE k # 1
    <3>1. PICK j \in 1..Len(u): j = k - 1 /\ k = j + 1
      <4>1. k - 1 \in 1..Len(u) /\ k = (k - 1) + 1
        BY <2>2, <1>4
      <4> QED BY <4>1
    <3>2. w[k] = u[j]
      BY <3>1, <2>2, <1>3, <1>4
    <3>3. v[k] = u[j]
      BY <3>1
    <3> QED BY <3>2, <3>3
  <2> QED BY <2>1, <2>2
<1>6. Len(v) = Len(w)
  BY <1>3, <1>4
<1> QED BY <1>1, <1>3, <1>5, <1>6, SeqEqual

LEMMA IsTail ==
    ASSUME NEW S, NEW u \in Seq(S), NEW v \in Seq(S), Len(u) = Len(v) + 1,
           \A k \in 1..Len(v): v[k] = u[k + 1]
    PROVE  u # <<>> /\ v = Tail(u)
<1>1. Len(v) \in Nat
  OBVIOUS
<1>2. u # <<>>
  BY <1>1
<1>3. PICK w: w = Tail(u)
  OBVIOUS
<1>4. w \in Seq(S) /\ Len(w) = Len(v) /\ \A k \in 1..Len(v): w[k] = u[k + 1]
  BY <1>1, <1>2, <1>3, HeadTailProperties
<1> QED BY <1>2, <1>3, <1>4, SeqEqual

-----------------------------------------------------------------------------
(* A push and a pop on a ring of n slots, as changes of what it holds.     *)
Appends(s, h, t, n, m) ==
    Reads([s EXCEPT ![t] = m], h, Succ(t, n), n) = Append(Reads(s, h, t, n), m)

LEMMA TailRing ==
    ASSUME NEW n \in Nat \ {0}, NEW h \in 0..n-1, NEW t \in 0..n-1, NEW S, NEW s \in [0..n-1 -> S],
           NEW m \in S, Succ(t, n) # h
    PROVE  Appends(s, h, t, n, m)
<1>1. PICK q: q = [s EXCEPT ![t] = m]
  OBVIOUS
<1>2. q \in [0..n-1 -> S] /\ q[t] = m /\ \A i \in 0..n-1: i # t => q[i] = s[i]
  BY <1>1
<1>3. PICK t2 \in 0..n-1: t2 = Succ(t, n)
  <2>1. Succ(t, n) \in 0..n-1
    BY DEF Succ
  <2> QED BY <2>1
<1>4. PICK N \in 0..n-1: N = Count(h, t, n)
  <2>1. Count(h, t, n) \in 0..n-1
    BY DEF Count
  <2> QED BY <2>1
<1>5. Count(h, t2, n) = N + 1
  BY <1>3, <1>4 DEF Count, Succ
<1>6. Place(h, N + 1, n) = t
  BY <1>4 DEF Count, Place
<1>7. ASSUME NEW k \in 1..N PROVE Place(h, k, n) # t
  BY <1>4 DEF Count, Place
<1>8. PICK u: u = Reads(s, h, t, n)
  OBVIOUS
<1>9. u \in Seq(S) /\ Len(u) = N
      /\ \A k \in 1..N: Place(h, k, n) \in 0..n-1 /\ u[k] = s[Place(h, k, n)]
  BY <1>4, <1>8, ReadsIs
<1>10. PICK v: v = Reads(q, h, t2, n)
  OBVIOUS
<1>11. v \in Seq(S) /\ Len(v) = N + 1 /\ \A k \in 1..N+1: v[k] = q[Place(h, k, n)]
  <2>1. v \in Seq(S) /\ Len(v) = Count(h, t2, n)
        /\ \A k \in 1..Count(h, t2, n): v[k] = q[Place(h, k, n)]
    <3>1. Lists(v, q, h, t2, n, S)
      BY <1>2, <1>10, ReadsList
    <3> QED BY <3>1 DEF Lists
  <2> QED BY <2>1, <1>5
<1>12. \A k \in 1..N: v[k] = u[k]
  <2>1. TAKE k \in 1..N
  <2>2. k \in 1..N+1
    OBVIOUS
  <2>3. v[k] = q[Place(h, k, n)]
    BY <1>11, <2>2
  <2>4. q[Place(h, k, n)] = s[Place(h, k, n)]
    BY <1>2, <1>7, <1>9
  <2> QED BY <2>3, <2>4, <1>9
<1>13. v[N + 1] = m
  <2>1. N + 1 \in 1..N+1
    OBVIOUS
  <2> QED BY <2>1, <1>2, <1>6, <1>11
<1>14. v = Append(u, m)
  BY <1>9, <1>11, <1>12, <1>13, IsAppend
<1> QED BY <1>1, <1>3, <1>8, <1>10, <1>14 DEF Appends

Prepends(s, h, t, n, m) ==
    Reads([s EXCEPT ![Pred(h, n)] = m], Pred(h, n), t, n) = <<m>> \o Reads(s, h, t, n)

LEMMA HeadRing ==
    ASSUME NEW n \in Nat \ {0}, NEW h \in 0..n-1, NEW t \in 0..n-1, NEW S, NEW s \in [0..n-1 -> S],
           NEW m \in S, Pred(h, n) # t
    PROVE  Prepends(s, h, t, n, m)
<1>3. PICK g \in 0..n-1: g = Pred(h, n)
  <2>1. Pred(h, n) \in 0..n-1
    BY DEF Pred
  <2> QED BY <2>1
<1>1. PICK q: q = [s EXCEPT ![g] = m]
  OBVIOUS
<1>2. q \in [0..n-1 -> S] /\ q[g] = m /\ \A i \in 0..n-1: i # g => q[i] = s[i]
  BY <1>1
<1>4. PICK N \in 0..n-1: N = Count(h, t, n)
  <2>1. Count(h, t, n) \in 0..n-1
    BY DEF Count
  <2> QED BY <2>1
<1>5. Count(g, t, n) = N + 1
  BY <1>3, <1>4 DEF Count, Pred
<1>6. Place(g, 1, n) = g
  BY DEF Place
<1>7. ASSUME NEW k \in 1..N PROVE Place(g, k + 1, n) = Place(h, k, n) /\ Place(h, k, n) # g
  BY <1>3, <1>4 DEF Count, Place, Pred
<1>8. PICK u: u = Reads(s, h, t, n)
  OBVIOUS
<1>9. u \in Seq(S) /\ Len(u) = N
      /\ \A k \in 1..N: Place(h, k, n) \in 0..n-1 /\ u[k] = s[Place(h, k, n)]
  BY <1>4, <1>8, ReadsIs
<1>10. PICK v: v = Reads(q, g, t, n)
  OBVIOUS
<1>11. v \in Seq(S) /\ Len(v) = N + 1 /\ \A k \in 1..N+1: v[k] = q[Place(g, k, n)]
  BY <1>2, <1>5, <1>10, ReadsIs
<1>12. \A k \in 1..N: v[k + 1] = u[k]
  <2>1. TAKE k \in 1..N
  <2>2. k + 1 \in 1..N+1
    OBVIOUS
  <2>3. v[k + 1] = q[Place(h, k, n)]
    BY <1>7, <1>11, <2>2
  <2>4. q[Place(h, k, n)] = s[Place(h, k, n)]
    BY <1>2, <1>7, <1>9
  <2> QED BY <2>3, <2>4, <1>9
<1>13. v[1] = m
  <2>1. 1 \in 1..N+1
    OBVIOUS
  <2> QED BY <2>1, <1>2, <1>6, <1>11
<1>14. v = <<m>> \o u
  BY <1>9, <1>11, <1>12, <1>13, IsPrepend
<1> QED BY <1>1, <1>3, <1>8, <1>10, <1>14 DEF Prepends

LEMMA PopRing ==
    ASSUME NEW n \in Nat \ {0}, NEW h \in 0..n-1, NEW t \in 0..n-1, NEW S, NEW s \in [0..n-1 -> S], h # t
    PROVE  Reads(s, h, t, n) # <<>> /\ Reads(s, Succ(h, n), t, n) = Tail(Reads(s, h, t, n))
<1>3. PICK g \in 0..n-1: g = Succ(h, n)
  <2>1. Succ(h, n) \in 0..n-1
    BY DEF Succ
  <2> QED BY <2>1
<1>4. PICK N \in 0..n-1: N = Count(g, t, n)
  <2>1. Count(g, t, n) \in 0..n-1
    BY DEF Count
  <2> QED BY <2>1
<1>5. Count(h, t, n) = N + 1
  BY <1>3, <1>4 DEF Count, Succ
<1>7. ASSUME NEW k \in 1..N PROVE Place(h, k + 1, n) = Place(g, k, n)
  BY <1>3, <1>4 DEF Count, Place, Succ
<1>8. PICK u: u = Reads(s, h, t, n)
  OBVIOUS
<1>9. u \in Seq(S) /\ Len(u) = N + 1 /\ \A k \in 1..N+1: u[k] = s[Place(h, k, n)]
  <2>1. u \in Seq(S) /\ Len(u) = Count(h, t, n)
        /\ \A k \in 1..Count(h, t, n): u[k] = s[Place(h, k, n)]
    <3>1. Lists(u, s, h, t, n, S)
      BY <1>8, ReadsList
    <3> QED BY <3>1 DEF Lists
  <2> QED BY <2>1, <1>5
<1>10. PICK v: v = Reads(s, g, t, n)
  OBVIOUS
<1>11. v \in Seq(S) /\ Len(v) = N /\ \A k \in 1..N: v[k] = s[Place(g, k, n)]
  BY <1>4, <1>10, ReadsIs
<1>12. \A k \in 1..N: v[k] = u[k + 1]
  <2>1. TAKE k \in 1..N
  <2>2. k + 1 \in 1..N+1
    OBVIOUS
  <2> QED BY <1>7, <1>9, <1>11, <2>2
<1>14. u # <<>> /\ v = Tail(u)
  BY <1>9, <1>11, <1>12, IsTail
<1> QED BY <1>3, <1>8, <1>10, <1>14

(* A full ring, and the array of twice its size: the n slots of the old    *)
(* one come first, in order.                                               *)
LEMMA ExpandedIs ==
    ASSUME NEW n \in Nat \ {0}, NEW h \in 0..n-1, NEW s \in [0..n-1 -> Message \cup {Junk}]
    PROVE  /\ Expanded(s, h, n) \in [0..2*n-1 -> Message \cup {Junk}]
           /\ \A k \in 1..n: Place(h, k, n) \in 0..n-1 /\ Expanded(s, h, n)[k - 1] = s[Place(h, k, n)]
<1>1. ASSUME NEW k \in 1..n
      PROVE  (h + (k - 1)) % n = Place(h, k, n) /\ Place(h, k, n) \in 0..n-1
  <2>1. PICK i \in 0..n-1: i = k - 1
    <3>1. k - 1 \in 0..n-1
      OBVIOUS
    <3> QED BY <3>1
  <2>2. (h + i) % n = IF h + i < n THEN h + i ELSE h + i - n
    BY Wrap
  <2>3. (h + i) % n = Place(h, k, n)
    BY <2>1, <2>2 DEF Place
  <2>4. Place(h, k, n) \in 0..n-1
    BY DEF Place
  <2> QED BY <2>1, <2>3, <2>4
<1>2. ASSUME NEW i \in 0..2*n-1, i < n PROVE (h + i) % n \in 0..n-1
  <2>1. i \in 0..n-1
    BY <1>2
  <2> QED BY <2>1, Wrap
<1>3. Expanded(s, h, n) \in [0..2*n-1 -> Message \cup {Junk}]
  BY <1>2 DEF Expanded
<1>4. ASSUME NEW k \in 1..n PROVE Expanded(s, h, n)[k - 1] = s[Place(h, k, n)]
  <2>1. k - 1 \in 0..2*n-1 /\ k - 1 < n
    OBVIOUS
  <2>2. Expanded(s, h, n)[k - 1] = s[(h + (k - 1)) % n]
    BY <2>1 DEF Expanded
  <2> QED BY <2>2, <1>1
<1> QED BY <1>1, <1>3, <1>4

LEMMA TailGrows ==
    ASSUME NEW n \in Nat \ {0}, NEW h \in 0..n-1, NEW t \in 0..n-1,
           NEW s \in [0..n-1 -> Message \cup {Junk}], NEW m \in Message, Succ(t, n) = h
    PROVE  Reads(Expanded([s EXCEPT ![t] = m], h, n), 0, n, 2*n) = Append(Reads(s, h, t, n), m)
<1> DEFINE S == Message \cup {Junk}
<1>1. PICK q: q = [s EXCEPT ![t] = m]
  OBVIOUS
<1>2. q \in [0..n-1 -> S] /\ q[t] = m /\ \A i \in 0..n-1: i # t => q[i] = s[i]
  BY <1>1
<1>3. PICK e: e = Expanded(q, h, n)
  OBVIOUS
<1>4. e \in [0..2*n-1 -> S] /\ \A k \in 1..n: e[k - 1] = q[Place(h, k, n)]
  BY <1>2, <1>3, ExpandedIs
<1>5. PICK N \in 0..n-1: N = Count(h, t, n)
  <2>1. Count(h, t, n) \in 0..n-1
    BY DEF Count
  <2> QED BY <2>1
<1>6. N + 1 = n
  BY <1>5 DEF Count, Succ
<1>7. Place(h, n, n) = t
  BY DEF Place, Succ
<1>8. ASSUME NEW k \in 1..N PROVE Place(h, k, n) # t
  BY <1>6 DEF Place, Succ
<1>9. PICK u: u = Reads(s, h, t, n)
  OBVIOUS
<1>10. u \in Seq(S) /\ Len(u) = N
       /\ \A k \in 1..N: Place(h, k, n) \in 0..n-1 /\ u[k] = s[Place(h, k, n)]
  <2> HIDE DEF S
  <2>1. s \in [0..n-1 -> S]
    BY DEF S
  <2> QED BY <2>1, <1>5, <1>9, ReadsIs
<1>11. PICK v: v = Reads(e, 0, n, 2*n)
  OBVIOUS
<1>12. v \in Seq(S) /\ Len(v) = n /\ \A k \in 1..n: v[k] = e[k - 1]
  <2> HIDE DEF S
  <2>1. PICK d \in Nat \ {0}: d = 2*n /\ n \in 0..d-1 /\ 0 \in 0..d-1
    <3>1. 2*n \in Nat \ {0} /\ n \in 0..2*n-1 /\ 0 \in 0..2*n-1
      OBVIOUS
    <3> QED BY <3>1
  <2>2. Count(0, n, d) = n
    BY DEF Count
  <2>3. \A k \in 1..n: Place(0, k, d) = k - 1
    BY <2>1 DEF Place
  <2>4. e \in [0..d-1 -> S]
    BY <1>4, <2>1
  <2>5. v \in Seq(S) /\ Len(v) = Count(0, n, d)
        /\ \A k \in 1..Count(0, n, d): v[k] = e[Place(0, k, d)]
    <3>1. PICK a \in 0..d-1: a = 0
      BY <2>1
    <3>2. PICK b \in 0..d-1: b = n
      BY <2>1
    <3>3. v = Reads(e, a, b, d)
      BY <1>11, <2>1, <3>1, <3>2
    <3>4. v \in Seq(S) /\ Len(v) = Count(a, b, d)
          /\ \A k \in 1..Count(a, b, d): v[k] = e[Place(a, k, d)]
      <4>1. Lists(v, e, a, b, d, S)
        BY <2>4, <3>3, ReadsList
      <4> QED BY <4>1 DEF Lists
    <3> QED BY <3>1, <3>2, <3>4
  <2> QED BY <2>2, <2>3, <2>5
<1>13. \A k \in 1..N: v[k] = u[k]
  <2>1. TAKE k \in 1..N
  <2>2. k \in 1..n
    BY <1>6
  <2>3. v[k] = q[Place(h, k, n)]
    BY <1>4, <1>12, <2>2
  <2>4. q[Place(h, k, n)] = s[Place(h, k, n)]
    BY <1>2, <1>8, <1>10
  <2> QED BY <2>3, <2>4, <1>10
<1>14. v[N + 1] = m
  <2>1. N + 1 \in 1..n /\ N + 1 = n
    BY <1>6
  <2>2. v[n] = q[Place(h, n, n)]
    BY <1>4, <1>12, <2>1
  <2> QED BY <2>1, <2>2, <1>2, <1>7
<1>15. v = Append(u, m)
  <2>1. m \in S /\ Len(v) = Len(u) + 1 /\ Len(u) = N
    BY <1>6, <1>10, <1>12
  <2> HIDE DEF S
  <2>2. /\ u \in Seq(S) /\ v \in Seq(S) /\ v[Len(u) + 1] = m
        /\ \A k \in 1..Len(u): v[k] = u[k]
    BY <2>1, <1>10, <1>12, <1>13, <1>14
  <2> QED BY <2>1, <2>2, IsAppend
<1> QED BY <1>1, <1>3, <1>9, <1>11, <1>15

LEMMA HeadGrows ==
    ASSUME NEW n \in Nat \ {0}, NEW h \in 0..n-1, NEW t \in 0..n-1,
           NEW s \in [0..n-1 -> Message \cup {Junk}], NEW m \in Message, Pred(h, n) = t
    PROVE  Reads([Expanded(s, h, n) EXCEPT ![2*n - 1] = m], 2*n - 1, n - 1, 2*n) = <<m>> \o Reads(s, h, t, n)
<1> DEFINE S == Message \cup {Junk}
<1>1. PICK e: e = Expanded(s, h, n)
  OBVIOUS
<1>2. e \in [0..2*n-1 -> S]
      /\ \A k \in 1..n: Place(h, k, n) \in 0..n-1 /\ e[k - 1] = s[Place(h, k, n)]
  BY <1>1, ExpandedIs
<1>3. PICK d \in Nat \ {0}: d = 2*n /\ d - 1 \in 0..d-1 /\ n - 1 \in 0..d-1
  <2>1. 2*n \in Nat \ {0} /\ 2*n - 1 \in 0..2*n-1 /\ n - 1 \in 0..2*n-1
    OBVIOUS
  <2> QED BY <2>1
<1>4. PICK q: q = [e EXCEPT ![d - 1] = m]
  OBVIOUS
<1>5. q \in [0..d-1 -> S] /\ q[d - 1] = m /\ \A i \in 0..d-1: i # d - 1 => q[i] = e[i]
  BY <1>2, <1>3, <1>4
<1>6. Count(h, t, n) = n - 1
  BY DEF Count, Pred
<1>7. PICK u: u = Reads(s, h, t, n)
  OBVIOUS
<1>8. u \in Seq(S) /\ Len(u) = n - 1 /\ \A k \in 1..n-1: u[k] = s[Place(h, k, n)]
  <2> HIDE DEF S
  <2>1. s \in [0..n-1 -> S]
    BY DEF S
  <2> QED BY <2>1, <1>6, <1>7, ReadsIs
<1>9. PICK v: v = Reads(q, d - 1, n - 1, d)
  OBVIOUS
<1>10. v \in Seq(S) /\ Len(v) = n /\ \A k \in 1..n: v[k] = q[Place(d - 1, k, d)]
  <2>1. Count(d - 1, n - 1, d) = n
    BY <1>3 DEF Count
  <2> HIDE DEF S
  <2>2. PICK a \in 0..d-1: a = d - 1
    BY <1>3
  <2>3. PICK b \in 0..d-1: b = n - 1
    BY <1>3
  <2>4. v \in Seq(S) /\ Len(v) = Count(a, b, d)
        /\ \A k \in 1..Count(a, b, d): v[k] = q[Place(a, k, d)]
    BY <1>5, <1>9, <2>2, <2>3, ReadsIs
  <2> QED BY <2>1, <2>2, <2>3, <2>4
<1>11. \A k \in 1..n-1: v[k + 1] = u[k]
  <2>1. TAKE k \in 1..n-1
  <2>2. k + 1 \in 1..n /\ k \in 1..n /\ k - 1 \in 0..d-1 /\ k - 1 # d - 1
    BY <1>3
  <2>3. Place(d - 1, k + 1, d) = k - 1
    BY <1>3 DEF Place
  <2>4. v[k + 1] = q[k - 1]
    BY <2>2, <2>3, <1>10
  <2>5. q[k - 1] = e[k - 1]
    BY <2>2, <1>5
  <2>6. e[k - 1] = s[Place(h, k, n)]
    BY <2>2, <1>2
  <2> QED BY <2>4, <2>5, <2>6, <1>8
<1>12. v[1] = m
  <2>1. Place(d - 1, 1, d) = d - 1 /\ 1 \in 1..n
    BY <1>3 DEF Place
  <2> QED BY <2>1, <1>5, <1>10
<1>13. v = <<m>> \o u
  <2>1. m \in S /\ Len(v) = Len(u) + 1 /\ Len(u) = n - 1
    BY <1>8, <1>10
  <2> HIDE DEF S
  <2> QED BY <2>1, <1>8, <1>10, <1>11, <1>12, IsPrepend
<1> QED BY <1>1, <1>3, <1>4, <1>7, <1>9, <1>13

-----------------------------------------------------------------------------
(* The steps of the ring, as steps of the mailbox.                         *)
LEMMA RingTyped ==
    ASSUME TypeOK
    PROVE  /\ cap \in Nat \ {0} /\ head \in 0..cap-1 /\ tail \in 0..cap-1
           /\ slots \in [0..cap-1 -> Message \cup {Junk}]
BY DEF TypeOK

LEMMA PushTailAppends ==
    ASSUME TypeOK, NEW m \in Message, PushTail(m)
    PROVE  Content' = Append(Content, m)
<1> DEFINE S == Message \cup {Junk}
<1>1. /\ cap \in Nat \ {0} /\ head \in 0..cap-1 /\ tail \in 0..cap-1
      /\ slots \in [0..cap-1 -> S] /\ m \in S
  BY RingTyped
<1>2. CASE head = Succ(tail, cap)
  <2>1. /\ slots' = Expanded([slots EXCEPT ![tail] = m], head, cap)
        /\ head' = 0 /\ tail' = cap /\ cap' = 2 * cap
    BY <1>2 DEF PushTail
  <2>2. Reads(Expanded([slots EXCEPT ![tail] = m], head, cap), 0, cap, 2*cap)
          = Append(Reads(slots, head, tail, cap), m)
    BY <1>1, <1>2, TailGrows
  <2> QED BY <2>1, <2>2, ContentReads
<1>3. CASE head # Succ(tail, cap)
  <2>1. /\ slots' = [slots EXCEPT ![tail] = m] /\ tail' = Succ(tail, cap)
        /\ cap' = cap /\ head' = head
    BY <1>3 DEF PushTail
  <2>2. Reads([slots EXCEPT ![tail] = m], head, Succ(tail, cap), cap)
          = Append(Reads(slots, head, tail, cap), m)
    <3>1. Appends(slots, head, tail, cap, m)
      <4> HIDE DEF S
      <4> QED BY <1>1, <1>3, TailRing
    <3> QED BY <3>1 DEF Appends
  <2> QED BY <2>1, <2>2, ContentReads
<1> QED BY <1>2, <1>3

LEMMA PushHeadPrepends ==
    ASSUME TypeOK, NEW m \in Message, PushHead(m)
    PROVE  Content' = <<m>> \o Content
<1> DEFINE S == Message \cup {Junk}
<1>1. /\ cap \in Nat \ {0} /\ head \in 0..cap-1 /\ tail \in 0..cap-1
      /\ slots \in [0..cap-1 -> S] /\ m \in S
  BY RingTyped
<1>2. CASE Pred(head, cap) = tail
  <2>1. /\ slots' = [Expanded(slots, head, cap) EXCEPT ![2*cap - 1] = m]
        /\ head' = 2*cap - 1 /\ tail' = cap - 1 /\ cap' = 2 * cap
    BY <1>2 DEF PushHead
  <2>2. Reads([Expanded(slots, head, cap) EXCEPT ![2*cap - 1] = m], 2*cap - 1, cap - 1, 2*cap)
          = <<m>> \o Reads(slots, head, tail, cap)
    BY <1>1, <1>2, HeadGrows
  <2> QED BY <2>1, <2>2, ContentReads
<1>3. CASE Pred(head, cap) # tail
  <2>1. /\ slots' = [slots EXCEPT ![Pred(head, cap)] = m] /\ head' = Pred(head, cap)
        /\ cap' = cap /\ tail' = tail
    BY <1>3 DEF PushHead
  <2>2. Reads([slots EXCEPT ![Pred(head, cap)] = m], Pred(head, cap), tail, cap)
          = <<m>> \o Reads(slots, head, tail, cap)
    <3>1. Prepends(slots, head, tail, cap, m)
      <4> HIDE DEF S
      <4> QED BY <1>1, <1>3, HeadRing
    <3> QED BY <3>1 DEF Prepends
  <2> QED BY <2>1, <2>2, ContentReads
<1> QED BY <1>2, <1>3

LEMMA PushDelivers ==
    ASSUME IInv, NEW s \in Session, Push(s)
    PROVE  \E m \in Message: Mailbox!Deliver(0, m)
<1>1. PICK m: m = [id |-> sent + 1, session |-> s]
  OBVIOUS
<1>2. TypeOK
  BY DEF IInv
<1>3. m \in Message /\ m.session = s
  <2>1. sent + 1 \in 1..MaxSend
    BY <1>2, MessageQueueAssumption DEF TypeOK, Push
  <2> QED BY <1>1, <2>1 DEF Message
<1>4. stage' = stage
  BY DEF Push
<1>5. CASE lock_session # 0 /\ s = lock_session
  <2>1. PushHead(m) /\ lock_session' = 0
    BY <1>1, <1>5 DEF Push
  <2>2. Content' = <<m>> \o Content
    BY <1>2, <1>3, <2>1, PushHeadPrepends
  <2>3. Mailbox!Deliver(0, m)
    BY <1>3, <1>4, <1>5, <2>1, <2>2 DEF Mailbox!Deliver
  <2> QED BY <1>3, <2>3
<1>6. CASE ~(lock_session # 0 /\ s = lock_session)
  <2>1. PushTail(m) /\ lock_session' = lock_session
    BY <1>1, <1>6 DEF Push
  <2>2. Content' = Append(Content, m)
    BY <1>2, <1>3, <2>1, PushTailAppends
  <2>3. Mailbox!Deliver(0, m)
    BY <1>3, <1>4, <1>6, <2>1, <2>2 DEF Mailbox!Deliver
  <2> QED BY <1>3, <2>3
<1> QED BY <1>5, <1>6

LEMMA PopTakes ==
    ASSUME IInv, Pop, head # tail
    PROVE  Mailbox!Take(0)
<1>1. /\ head' = Succ(head, cap) /\ cap' = cap /\ tail' = tail /\ slots' = slots
      /\ stage = "taken" /\ stage' \in {"call", "drop"} /\ lock_session' = lock_session
  BY DEF Pop
<1>2. lock_session = 0
  BY <1>1 DEF IInv, Round
<1>3. Content # <<>> /\ Content' = Tail(Content)
  <2> DEFINE S == Message \cup {Junk}
  <2>1. /\ cap \in Nat \ {0} /\ head \in 0..cap-1 /\ tail \in 0..cap-1
        /\ slots \in [0..cap-1 -> S]
    BY RingTyped DEF IInv
  <2>2. Reads(slots, head, tail, cap) # <<>>
        /\ Reads(slots, Succ(head, cap), tail, cap) = Tail(Reads(slots, head, tail, cap))
    <3> HIDE DEF S
    <3> QED BY <2>1, PopRing
  <2> QED BY <1>1, <2>2, ContentReads
<1>4. CASE stage' = "call"
  BY <1>1, <1>2, <1>3, <1>4 DEF Mailbox!Take
<1>5. CASE stage' = "drop"
  BY <1>1, <1>2, <1>3, <1>5 DEF Mailbox!Take
<1> QED BY <1>1, <1>4, <1>5

LEMMA RingStutters ==
    ASSUME UNCHANGED ring
    PROVE  Content' = Content
BY ContentReads DEF ring

LEMMA MailboxStep ==
    ASSUME IInv, [Next]_vars
    PROVE  [Mailbox!Next]_(Mailbox!vars)
<1>1. ASSUME NEW s \in Session, Push(s) PROVE Mailbox!Next
  BY <1>1, PushDelivers DEF Mailbox!Next
<1>2. CASE Pop /\ head # tail
  BY <1>2, PopTakes DEF Mailbox!Next
<1>3. CASE Pop /\ head = tail
  <2>1. UNCHANGED ring /\ lock_session' = lock_session /\ stage = "taken" /\ stage' = "out"
    BY <1>3 DEF Pop, ring
  <2> QED BY <2>1, RingStutters DEF Mailbox!vars
<1>4. CASE Take
  <2>1. UNCHANGED ring /\ lock_session' = lock_session /\ stage = "out" /\ stage' = "taken"
    BY <1>4 DEF Take
  <2> QED BY <2>1, RingStutters DEF Mailbox!vars
<1>5. CASE Unlock
  <2>1. UNCHANGED ring /\ lock_session' = 0 /\ stage = "call" /\ stage' = stage
    BY <1>5 DEF Unlock
  <2>2. Mailbox!Unlock(0)
    BY <2>1, RingStutters DEF Mailbox!Unlock
  <2> QED BY <2>2 DEF Mailbox!Next
<1>6. ASSUME NEW s \in Session \ {0}, Lock(s) PROVE Mailbox!Next
  <2>1. UNCHANGED ring /\ lock_session = 0 /\ lock_session' = s /\ stage = "call" /\ stage' = stage
    BY <1>6 DEF Lock
  <2>2. Mailbox!Lock(0)
    BY <2>1, RingStutters DEF Mailbox!Lock
  <2> QED BY <2>2 DEF Mailbox!Next
<1>7. CASE PushGlobal /\ stage = "call"
  <2>1. UNCHANGED ring /\ lock_session' = lock_session /\ stage' = "out"
    BY <1>7 DEF PushGlobal
  <2>2. Mailbox!Finish(0)
    BY <1>7, <2>1, RingStutters DEF Mailbox!Finish
  <2> QED BY <2>2 DEF Mailbox!Next
<1>8. CASE PushGlobal /\ stage = "drop"
  <2>1. UNCHANGED ring /\ lock_session' = lock_session /\ stage' = "out"
    BY <1>8 DEF PushGlobal
  <2> QED BY <1>8, <2>1, RingStutters DEF Mailbox!vars
<1>9. CASE UNCHANGED vars
  BY <1>9, RingStutters DEF vars, Mailbox!vars
<1> QED
  BY <1>1, <1>2, <1>3, <1>4, <1>5, <1>6, <1>7, <1>8, <1>9 DEF Next, PushGlobal

LEMMA MailboxInit ==
    ASSUME Init
    PROVE  Mailbox!Init
<1>1. head = 0 /\ tail = 0 /\ stage = "out" /\ lock_session = 0
  BY DEF Init
<1>2. Length = 0
  BY <1>1 DEF Length
<1>3. Content = <<>>
  BY <1>2 DEF Content
<1> QED BY <1>1, <1>3 DEF Mailbox!Init

(* The ring is a mailbox, however often it was reallocated and wherever    *)
(* head and tail were then: each push is a delivery, at the end or, for    *)
(* the answer to a locked session, at the front; a pop takes the oldest    *)
(* message; nothing is lost, repeated or reordered (skynet_mq_push,        *)
(* _pushhead, expand_queue, skynet_mq_pop, _lock, _unlock, _pushglobal).   *)
THEOREM RingIsMailbox == Spec => ImplementsMailbox
<1>1. Init => Mailbox!Init
  BY MailboxInit
<1>2. IInv /\ [Next]_vars => [Mailbox!Next]_(Mailbox!vars)
  BY MailboxStep
<1> QED
  BY <1>1, <1>2, Invariance, PTL DEF Spec, ImplementsMailbox, Mailbox!Spec
=============================================================================
