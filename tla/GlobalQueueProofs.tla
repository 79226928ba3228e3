------------------------- MODULE GlobalQueueProofs -------------------------
(***************************************************************************)
(* Theorems about GlobalQueue, for any threads and any number of pushes,   *)
(* as long as the ring has more places than there are message queues       *)
(* (FewQueues) and no thread sleeps in a call while Size queues are pushed *)
(* (Lap = FALSE).  The run `gq' and the README say what happens otherwise. *)
(***************************************************************************)
EXTENDS GlobalQueue, SequenceTheorems, FiniteSetTheorems, TLAPS

FewQueues == IsFiniteSet(MQ) /\ Cardinality(MQ) < Size

Pusher(t) == pc[t] \in {"store", "raise"}
Clearer(t) == pc[t] = "clear"
Reader(t) == pc[t] \in {"tail", "flag", "slot", "cas"}

(* The tickets between head and tail, and those a lap back, have places of *)
(* their own.                                                              *)
Tickets ==
    /\ head <= tail
    /\ \A t \in Thread: pc[t] # "idle" => tail - ticket[t] < Size
    /\ \A t \in Thread: Pusher(t) => head <= ticket[t] /\ ticket[t] < tail
    /\ \A t \in Thread: Clearer(t) => ticket[t] < head
    /\ \A t \in Thread: Reader(t) => ticket[t] <= head
    /\ \A t, u \in Thread: ticket[t] = ticket[u] /\ Pusher(t) /\ Pusher(u) => t = u
    /\ \A t, u \in Thread: ticket[t] = ticket[u] /\ Clearer(t) /\ Clearer(u) => t = u

(* A flag is up for a complete push, until the pop that took it clears it. *)
Up(n) == \/ head <= n /\ Complete(n)
         \/ \E t \in Thread: Clearer(t) /\ ticket[t] = n
Flags == \A i \in 0..Size-1: flag[i] <=> \E n \in Nat: Up(n) /\ GP(n) = i

(* What a push has stored stays until it is popped, and a pop that is      *)
(* still to succeed has read it.                                           *)
Slots ==
    /\ \A t \in Thread: pc[t] = "raise" => slot[GP(ticket[t])] = mq[t]
    /\ \A t \in Thread: pc[t] \in {"slot", "cas"} /\ ticket[t] = head => Complete(head)
    /\ \A t \in Thread: pc[t] = "cas" /\ ticket[t] = head => mq[t] = slot[GP(head)]

(* The places of a message queue: with a thread, in the ring, or popped    *)
(* with the flag still to be cleared.                                      *)
InRing(q) == \E n \in head..tail-1: Entry(n) = q
Places ==
    /\ \A n \in head..tail-1: Entry(n) \in MQ
    /\ \A n, i \in head..tail-1: Entry(n) = Entry(i) => n = i
    /\ \A t, u \in Thread: \A q \in MQ: q \in holds[t] /\ q \in holds[u] => t = u
    /\ \A t \in Thread: Clearer(t) => mq[t] \in MQ /\ ~InRing(mq[t])
    /\ \A t, u \in Thread: Clearer(t) => mq[t] \notin holds[u]
    /\ \A t, u \in Thread: Clearer(t) /\ Clearer(u) /\ mq[t] = mq[u] => t = u
    /\ \A t \in Thread: \A q \in holds[t]: ~InRing(q)
    /\ \A q \in MQ: \/ InRing(q)
                    \/ \E t \in Thread: q \in holds[t] \/ (Clearer(t) /\ mq[t] = q)

RingInv == TypeOK /\ Tickets /\ Flags /\ Slots /\ Places

-----------------------------------------------------------------------------
LEMMA SizeAssumption == Size \in Nat /\ Size > 0 /\ None \notin MQ
BY GlobalQueueAssumption

(* Two tickets less than a lap apart have different places.                *)
LEMMA PlacesApart ==
    ASSUME NEW n \in Nat, NEW i \in Nat, GP(n) = GP(i), n - i < Size, i - n < Size
    PROVE  n = i
<1>1. n - i = Size * (n \div Size - i \div Size) /\ n \div Size \in Int /\ i \div Size \in Int
  BY SizeAssumption DEF GP
<1>2. PICK d \in Int: n - i = Size * d
  <2>1. n \div Size - i \div Size \in Int
    BY <1>1
  <2> QED BY <1>1, <2>1
<1>3. CASE d = 0
  BY <1>2, <1>3, SizeAssumption
<1>4. CASE d > 0
  <2>1. PICK e \in Nat: d = 1 + e
    <3>1. d - 1 \in Nat /\ d = 1 + (d - 1)
      BY <1>4
    <3> QED BY <3>1
  <2>2. Size * d = Size + Size * e /\ Size * e \in Nat
    BY <2>1, SizeAssumption
  <2> QED BY <2>2, <1>2, SizeAssumption
<1>5. CASE d < 0
  <2>1. PICK e \in Nat: d = 0 - 1 - e
    <3>1. 0 - 1 - d \in Nat /\ d = 0 - 1 - (0 - 1 - d)
      BY <1>5
    <3> QED BY <3>1
  <2>2. Size * d = 0 - Size - Size * e /\ Size * e \in Nat
    BY <2>1, SizeAssumption
  <2> QED BY <2>2, <1>2, SizeAssumption
<1> QED BY <1>3, <1>4, <1>5

LEMMA PlaceType ==
    ASSUME NEW n \in Nat
    PROVE  GP(n) \in 0..Size-1
BY SizeAssumption DEF GP

(* An entry is where its push has got to.                                  *)
LEMMA EntryIs ==
    ASSUME TypeOK, Tickets, NEW n
    PROVE  /\ \A t \in Thread: Pushing(t, n) => Entry(n) = mq[t]
           /\ Complete(n) => Entry(n) = slot[GP(n)]
           /\ ~Complete(n) /\ n \in head..tail-1 => \E t \in Thread: Pushing(t, n)
<1>1. ASSUME NEW t \in Thread, Pushing(t, n) PROVE Entry(n) = mq[t]
  <2>1. \A u \in Thread: Pushing(u, n) => u = t
    BY <1>1 DEF Tickets, Pushing, Pusher
  <2>2. (CHOOSE u \in Thread: Pushing(u, n)) = t
    BY <2>1, <1>1
  <2> QED BY <2>2, <1>1 DEF Entry, Complete
<1>2. Complete(n) => Entry(n) = slot[GP(n)]
  BY DEF Entry
<1>3. ~Complete(n) /\ n \in head..tail-1 => \E t \in Thread: Pushing(t, n)
  BY DEF Complete, TypeOK
<1> QED BY <1>1, <1>2, <1>3

LEMMA EntryIsNext ==
    ASSUME Tickets', NEW n
    PROVE  /\ \A t \in Thread: Pushing(t, n)' => Entry(n)' = mq'[t]
           /\ Complete(n)' => Entry(n)' = slot'[GP(n)]
<1>1. ASSUME NEW t \in Thread, Pushing(t, n)' PROVE Entry(n)' = mq'[t]
  <2>1. \A u \in Thread: Pushing(u, n)' => u = t
    BY <1>1 DEF Tickets, Pushing, Pusher
  <2>2. (CHOOSE u \in Thread: Pushing(u, n)') = t
    BY <2>1, <1>1
  <2> QED BY <2>2, <1>1 DEF Entry, Complete
<1>2. Complete(n)' => Entry(n)' = slot'[GP(n)]
  BY DEF Entry, GP
<1> QED BY <1>1, <1>2

(* There is a message queue for each entry, so the ring is never full.     *)
LEMMA NeverFull ==
    ASSUME FewQueues, TypeOK, Tickets, Places
    PROVE  tail - head < Size
<1>1. head \in Nat /\ tail \in Nat /\ tail - head \in Nat
  BY GlobalQueueAssumption DEF TypeOK, Tickets
<1> SUFFICES ASSUME Cardinality(MQ) < tail - head PROVE FALSE
  BY <1>1, FS_CardinalityType, SizeAssumption DEF FewQueues
<1>2. IsFiniteSet(1..tail - head) /\ Cardinality(1..tail - head) = tail - head
  BY <1>1, FS_Interval
<1>3. Content \in [1..tail - head -> MQ]
  <2>1. \A i \in 1..tail - head: head + i - 1 \in head..tail-1
    BY <1>1
  <2> QED BY <2>1 DEF Content, Places
<1>4. PICK i, j \in 1..tail - head: i # j /\ Content[i] = Content[j]
  BY <1>2, <1>3, FS_PigeonHole DEF FewQueues
<1>5. head + i - 1 \in head..tail-1 /\ head + j - 1 \in head..tail-1 /\ head + i - 1 # head + j - 1
  BY <1>1, <1>4
<1>6. Entry(head + i - 1) = Entry(head + j - 1)
  BY <1>4 DEF Content
<1> QED BY <1>5, <1>6 DEF Places

LEMMA RingInit == Init => RingInv
<1> SUFFICES ASSUME Init PROVE RingInv
  OBVIOUS
<1>1. TypeOK
  BY GlobalQueueAssumption DEF Init, TypeOK
<1>2. Tickets
  BY DEF Init, Tickets, Pusher, Clearer, Reader
<1>3. Flags
  BY SizeAssumption DEF Init, Flags, Up, Complete, Clearer
<1>4. Slots
  BY DEF Init, Slots
<1>5. Places
  <2>1. head..tail-1 = {}
    BY DEF Init
  <2> QED BY <2>1 DEF Init, Places, InRing, Clearer
<1> QED BY <1>1, <1>2, <1>3, <1>4, <1>5 DEF RingInv

-----------------------------------------------------------------------------
(* The steps.                                                              *)
LEMMA RingType ==
    ASSUME RingInv, Next
    PROVE  TypeOK'
<1>1. PICK t \in Thread: Push(t) \/ Pop(t)
  BY DEF Next
<1>2. CASE PushTicket(t)
  BY <1>2, GlobalQueueAssumption DEF PushTicket, RingInv, TypeOK
<1>3. CASE PushStore(t)
  BY <1>3 DEF PushStore, RingInv, TypeOK
<1>4. CASE PushRaise(t)
  BY <1>4 DEF PushRaise, RingInv, TypeOK
<1>5. CASE PopHead(t) \/ PopEmpty(t) \/ PopTail(t) \/ PopFlag(t)
  BY <1>5 DEF PopHead, PopEmpty, PopTail, PopFlag, RingInv, TypeOK
<1>6. CASE PopSlot(t)
  <2>1. slot[GP(ticket[t])] \in MQ \cup {None}
    BY PlaceType DEF RingInv, TypeOK
  <2> QED BY <1>6, <2>1 DEF PopSlot, RingInv, TypeOK
<1>7. CASE PopCas(t)
  <2>1. CASE Swaps(t)
    <3>1. head' = head + 1 /\ pc' = [pc EXCEPT ![t] = "clear"] /\ mq' = mq
          /\ UNCHANGED <<tail, slot, flag, ticket, holds>>
      BY <1>7, <2>1 DEF PopCas
    <3>2. head' \in Nat
      BY <3>1 DEF RingInv, TypeOK
    <3> QED BY <3>1, <3>2 DEF RingInv, TypeOK
  <2>2. CASE ~Swaps(t)
    BY <1>7, <2>2 DEF PopCas, RingInv, TypeOK
  <2> QED BY <2>1, <2>2
<1>8. CASE PopClear(t)
  <2>1. mq[t] \in MQ
    BY <1>8 DEF PopClear, RingInv, Places, Clearer
  <2> QED BY <1>8, <2>1 DEF PopClear, RingInv, TypeOK
<1> QED BY <1>1, <1>2, <1>3, <1>4, <1>5, <1>6, <1>7, <1>8 DEF Push, Pop

(* What a step that moves no message queue keeps.                          *)
LEMMA PlacesKept ==
    ASSUME Places, head' = head, tail' = tail, holds' = holds,
           \A n \in head..tail-1: Entry(n)' = Entry(n),
           \A t \in Thread: Clearer(t)' <=> Clearer(t),
           \A t \in Thread: Clearer(t) => mq'[t] = mq[t]
    PROVE  Places'
<1>1. \A q: InRing(q)' <=> InRing(q)
  BY DEF InRing
<1> QED BY <1>1 DEF Places

LEMMA FlagsKept ==
    ASSUME Flags, flag' = flag, \A n \in Nat: Up(n)' <=> Up(n)
    PROVE  Flags'
BY DEF Flags, GP

LEMMA PushTicketStep ==
    ASSUME FewQueues, ~Lap, RingInv, TypeOK', NEW t \in Thread, PushTicket(t)
    PROVE  /\ RingInv'
           /\ head' = head /\ tail' = tail + 1
           /\ \A n \in Nat: n = tail => Entry(n)' \in MQ
           /\ \A n \in head..tail-1: Entry(n)' = Entry(n)
<1> USE DEF RingInv, Pusher, Clearer, Reader
<1> PICK last \in Nat: last = tail
  BY DEF TypeOK
<1> PICK q \in holds[t]: /\ mq' = [mq EXCEPT ![t] = q]
                         /\ holds' = [holds EXCEPT ![t] = @ \ {q}]
  BY DEF PushTicket
<1>1. q \in MQ /\ 1 < Size
  <2>1. q \in MQ
    BY DEF TypeOK
  <2> QED BY <2>1, FS_EmptySet, FS_CardinalityType, SizeAssumption DEF FewQueues
<1>2. /\ pc[t] = "idle" /\ pc' = [pc EXCEPT ![t] = "store"]
      /\ ticket' = [ticket EXCEPT ![t] = tail] /\ tail' = tail + 1
      /\ head' = head /\ slot' = slot /\ flag' = flag
  BY DEF PushTicket
<1>3. \A u \in Thread: pc[u] # "idle" => tail + 1 - ticket[u] < Size
  BY SizeAssumption DEF PushTicket, Overtakes, Busy, TypeOK
<1>4. Tickets'
  BY <1>1, <1>2, <1>3 DEF Tickets, TypeOK
<1>5. \A n \in Nat: Complete(n)' <=> Complete(n)
  BY <1>2 DEF Complete, Pushing, TypeOK, Tickets
<1>6. Flags'
  <2>1. \A n \in Nat: Up(n)' <=> Up(n)
    BY <1>2, <1>5 DEF Up, TypeOK
  <2> QED BY <2>1, <1>2, FlagsKept
<1>7. Slots'
  BY <1>2, <1>5 DEF Slots, TypeOK, GP
<1>8. \A n \in head..tail-1: Entry(n)' = Entry(n)
  <2> SUFFICES ASSUME NEW n \in head..tail-1 PROVE Entry(n)' = Entry(n)
    OBVIOUS
  <2>1. CASE Complete(n)
    BY <2>1, <1>2, <1>4, <1>5, EntryIs, EntryIsNext DEF TypeOK
  <2>2. CASE ~Complete(n)
    <3>1. PICK u \in Thread: Pushing(u, n)
      BY <2>2, EntryIs
    <3>2. Pushing(u, n)' /\ mq'[u] = mq[u]
      BY <3>1, <1>2 DEF Pushing, TypeOK
    <3> QED BY <3>1, <3>2, <1>4, EntryIs, EntryIsNext
  <2> QED BY <2>1, <2>2
<1>9. Entry(last)' = q
  <2>1. Pushing(t, last)' /\ mq'[t] = q
    BY <1>2 DEF Pushing, TypeOK
  <2> QED BY <2>1, <1>4, EntryIsNext
<1>10. Places'
  <2>1. head'..tail'-1 = (head..tail-1) \cup {last} /\ last \notin head..tail-1
    BY <1>2 DEF TypeOK, Tickets
  <2>2. \A p: InRing(p)' <=> InRing(p) \/ p = q
    BY <2>1, <1>8, <1>9 DEF InRing
  <2>3. ~InRing(q)
    BY DEF Places
  <2>4. \A u \in Thread: \A p: p \in holds'[u] <=> p \in holds[u] /\ p # q
    BY DEF TypeOK, Places
  <2>5. \A u \in Thread: Clearer(u)' => Clearer(u) /\ mq'[u] = mq[u]
    BY <1>2 DEF TypeOK
  <2>6. \A u \in Thread: Clearer(u) => Clearer(u)' /\ mq'[u] = mq[u] /\ mq[u] # q
    BY <1>2 DEF TypeOK, Places
  <2>7. \A n, i \in head'..tail'-1: Entry(n)' = Entry(i)' => n = i
    BY <2>1, <2>3, <1>8, <1>9 DEF Places, InRing
  <2>8. \A n \in head'..tail'-1: Entry(n)' \in MQ
    BY <2>1, <1>8, <1>9, <1>1 DEF Places
  <2> QED BY <2>2, <2>3, <2>4, <2>5, <2>6, <2>7, <2>8 DEF Places
<1> QED BY <1>1, <1>2, <1>4, <1>6, <1>7, <1>8, <1>9, <1>10

LEMMA PushStoreStep ==
    ASSUME FewQueues, RingInv, TypeOK', NEW t \in Thread, PushStore(t)
    PROVE  /\ RingInv' /\ head' = head /\ tail' = tail
           /\ \A n \in head..tail-1: Entry(n)' = Entry(n)
<1> USE DEF RingInv, Pusher, Clearer, Reader
<1> PICK k \in Nat: k = ticket[t]
  BY DEF TypeOK
<1>1. /\ pc[t] = "store" /\ pc' = [pc EXCEPT ![t] = "raise"]
      /\ slot' = [slot EXCEPT ![GP(k)] = mq[t]]
      /\ head' = head /\ tail' = tail /\ flag' = flag
      /\ ticket' = ticket /\ mq' = mq /\ holds' = holds
  BY DEF PushStore
<1>2. head <= k /\ k < tail /\ tail - head < Size
  BY <1>1, NeverFull DEF Tickets
<1>3. \A n \in head..tail-1: n # k => GP(n) # GP(k)
  <2>1. \A n \in head..tail-1: n \in Nat /\ n - k < Size /\ k - n < Size
    BY <1>2, SizeAssumption DEF TypeOK
  <2> QED BY <2>1, PlacesApart
<1>4. Tickets'
  BY <1>1 DEF Tickets, TypeOK
<1>5. \A n: \A u \in Thread: Pushing(u, n)' <=> Pushing(u, n)
  BY <1>1 DEF Pushing, TypeOK
<1>6. \A n: Complete(n)' <=> Complete(n)
  BY <1>1, <1>5 DEF Complete
<1>7. Flags'
  <2>1. \A n \in Nat: Up(n)' <=> Up(n)
    BY <1>1, <1>6 DEF Up, TypeOK
  <2> QED BY <2>1, <1>1, FlagsKept
<1>8. \A n \in head..tail-1: n # k => slot'[GP(n)] = slot[GP(n)]
  BY <1>1, <1>3, PlaceType DEF TypeOK
<1>9. Slots'
  <2>1. ASSUME NEW u \in Thread, pc'[u] = "raise" PROVE slot'[GP(ticket[u])] = mq[u]
    <3>1. CASE u = t
      BY <3>1, <1>1, PlaceType DEF TypeOK
    <3>2. CASE u # t
      <4>1. pc[u] = "raise" /\ ticket[u] # k /\ ticket[u] \in head..tail-1
        BY <3>2, <2>1, <1>1 DEF Tickets, TypeOK
      <4> QED BY <4>1, <1>8 DEF Slots
    <3> QED BY <3>1, <3>2
  <2>2. ASSUME NEW u \in Thread, pc'[u] \in {"slot", "cas"}, ticket[u] = head
        PROVE  Complete(head) /\ (pc[u] = "cas" => mq[u] = slot'[GP(head)])
    <3>1. pc[u] = pc'[u] /\ Complete(head) /\ ~Pushing(t, head) /\ head \in head..tail-1
      BY <2>2, <1>1 DEF Slots, Complete, TypeOK
    <3>2. head # k
      BY <3>1, <1>1 DEF Pushing
    <3> QED BY <3>1, <3>2, <2>2, <1>8 DEF Slots
  <2>3. Complete(head)' <=> Complete(head)
    BY <1>1, <1>5 DEF Complete
  <2>4. \A u \in Thread: pc'[u] = "cas" => pc[u] = "cas"
    BY <1>1 DEF TypeOK
  <2> QED BY <2>1, <2>2, <2>3, <2>4, <1>1 DEF Slots, GP
<1>10. \A n \in head..tail-1: Entry(n)' = Entry(n)
  <2> SUFFICES ASSUME NEW n \in head..tail-1 PROVE Entry(n)' = Entry(n)
    OBVIOUS
  <2>1. CASE Complete(n)
    <3>1. n # k
      BY <2>1, <1>1 DEF Complete, Pushing
    <3> QED BY <3>1, <2>1, <1>8, <1>4, <1>6, EntryIs, EntryIsNext
  <2>2. CASE ~Complete(n)
    <3>1. PICK u \in Thread: Pushing(u, n)
      BY <2>2, EntryIs
    <3> QED BY <3>1, <1>1, <1>5, <1>4, EntryIs, EntryIsNext
  <2> QED BY <2>1, <2>2
<1>11. Places'
  <2>1. \A u \in Thread: Clearer(u)' <=> Clearer(u)
    BY <1>1 DEF TypeOK
  <2> QED BY <2>1, <1>1, <1>10, PlacesKept
<1> QED BY <1>1, <1>4, <1>7, <1>9, <1>10, <1>11

LEMMA PushRaiseStep ==
    ASSUME FewQueues, RingInv, TypeOK', NEW t \in Thread, PushRaise(t)
    PROVE  /\ RingInv' /\ head' = head /\ tail' = tail
           /\ \A n \in head..tail-1: Entry(n)' = Entry(n)
<1> USE DEF RingInv, Pusher, Clearer, Reader
<1> PICK k \in Nat: k = ticket[t]
  BY DEF TypeOK
<1>1. /\ pc[t] = "raise" /\ pc' = [pc EXCEPT ![t] = "idle"]
      /\ flag' = [flag EXCEPT ![GP(k)] = TRUE]
      /\ head' = head /\ tail' = tail /\ slot' = slot
      /\ ticket' = ticket /\ mq' = [mq EXCEPT ![t] = None] /\ holds' = holds
  BY DEF PushRaise
<1>2. head <= k /\ k < tail
  BY <1>1 DEF Tickets
<1>3. Tickets'
  BY <1>1 DEF Tickets, TypeOK
<1>4. \A n: \A u \in Thread: Pushing(u, n)' <=> Pushing(u, n) /\ u # t
  BY <1>1 DEF Pushing, TypeOK
<1>5. \A n: Complete(n)' <=> Complete(n) \/ n = k
  <2>1. \A u \in Thread: Pushing(u, k) => u = t
    BY <1>1 DEF Pushing, Tickets
  <2>2. \A n: Pushing(t, n) <=> n = k
    BY <1>1 DEF Pushing
  <2> QED BY <1>1, <1>2, <1>4, <2>1, <2>2 DEF Complete
<1>6. \A n: Up(n)' <=> Up(n) \/ n = k
  <2>1. \A u \in Thread: Clearer(u)' <=> Clearer(u)
    BY <1>1 DEF TypeOK
  <2> QED BY <1>1, <1>2, <1>5, <2>1 DEF Up
<1>7. Flags'
  <2>1. \A i \in 0..Size-1: flag'[i] <=> flag[i] \/ i = GP(k)
    BY <1>1, PlaceType DEF TypeOK
  <2> QED BY <2>1, <1>6 DEF Flags, GP
<1>8. Slots'
  <2>1. \A u \in Thread: pc'[u] \in {"raise", "slot", "cas"} => pc'[u] = pc[u] /\ mq'[u] = mq[u]
    BY <1>1 DEF TypeOK
  <2>2. Complete(head) => Complete(head)'
    BY <1>1, <1>4 DEF Complete
  <2> QED BY <2>1, <2>2, <1>1 DEF Slots, GP
<1>9. \A n \in head..tail-1: Entry(n)' = Entry(n)
  <2> SUFFICES ASSUME NEW n \in head..tail-1 PROVE Entry(n)' = Entry(n)
    OBVIOUS
  <2>1. CASE Complete(n)
    BY <2>1, <1>1, <1>3, <1>5, EntryIs, EntryIsNext
  <2>2. CASE n = k
    <3>1. Pushing(t, n)
      BY <2>2, <1>1 DEF Pushing
    <3> QED BY <3>1, <2>2, <1>1, <1>3, <1>5, EntryIs, EntryIsNext DEF Slots
  <2>3. CASE ~Complete(n) /\ n # k
    <3>1. PICK u \in Thread: Pushing(u, n)
      BY <2>3, EntryIs
    <3>2. u # t
      BY <2>3, <3>1 DEF Pushing
    <3>3. mq'[u] = mq[u]
      BY <1>1, <3>2 DEF TypeOK
    <3> QED BY <3>1, <3>2, <3>3, <1>4, <1>3, EntryIs, EntryIsNext
  <2> QED BY <2>1, <2>2, <2>3
<1>10. Places'
  <2>1. \A u \in Thread: (Clearer(u)' <=> Clearer(u)) /\ (Clearer(u) => mq'[u] = mq[u])
    BY <1>1 DEF TypeOK
  <2> QED BY <2>1, <1>1, <1>9, PlacesKept
<1> QED BY <1>1, <1>3, <1>7, <1>8, <1>9, <1>10

(* The steps of a pop before its compare-and-swap.                         *)
LEMMA PopLookStep ==
    ASSUME FewQueues, RingInv, TypeOK', NEW t \in Thread,
           PopHead(t) \/ PopEmpty(t) \/ PopTail(t) \/ PopFlag(t) \/ PopSlot(t)
    PROVE  /\ RingInv' /\ head' = head /\ tail' = tail
           /\ \A n \in head..tail-1: Entry(n)' = Entry(n)
<1> USE DEF RingInv, Pusher, Clearer, Reader
<1>1. /\ head' = head /\ tail' = tail /\ flag' = flag /\ slot' = slot /\ holds' = holds
      /\ pc' = [pc EXCEPT ![t] = pc'[t]] /\ pc[t] \in {"idle", "tail", "flag", "slot"}
      /\ pc'[t] \in {"idle", "tail", "flag", "slot", "cas"}
      /\ \A u \in Thread: u # t => ticket'[u] = ticket[u] /\ mq'[u] = mq[u]
      /\ ticket'[t] = IF pc[t] = "idle" THEN head ELSE ticket[t]
      /\ pc'[t] \in {"slot", "cas"} => pc[t] \in {"flag", "slot"} /\ ticket'[t] = ticket[t]
      /\ pc[t] = "idle" => pc'[t] = "tail"
  BY DEF PopHead, PopEmpty, PopTail, PopFlag, PopSlot, TypeOK
<1>2. /\ pc'[t] = "slot" => flag[GP(ticket[t])] /\ pc[t] = "flag"
      /\ pc'[t] = "cas" => pc[t] = "slot" /\ mq'[t] = slot[GP(ticket[t])]
  BY DEF PopHead, PopEmpty, PopTail, PopFlag, PopSlot, TypeOK, Raised
<1>3. tail - head < Size
  BY NeverFull
<1>4. \A u \in Thread: u # t => pc'[u] = pc[u]
  BY <1>1 DEF TypeOK
<1>5. Tickets'
  <2>1. head' <= tail' /\ ticket'[t] <= head' /\ ~Pusher(t)' /\ ~Clearer(t)'
    BY <1>1 DEF Tickets, TypeOK
  <2>2. pc'[t] # "idle" => tail' - ticket'[t] < Size
    BY <1>1, <1>3 DEF Tickets, TypeOK
  <2> QED BY <2>1, <2>2, <1>1, <1>4 DEF Tickets
<1>6. \A n: \A u \in Thread: Pushing(u, n)' <=> Pushing(u, n)
  BY <1>1, <1>4 DEF Pushing
<1>7. \A n: Complete(n)' <=> Complete(n)
  BY <1>1, <1>6 DEF Complete
<1>8. Flags'
  <2>1. \A u \in Thread: Clearer(u)' <=> Clearer(u)
    BY <1>1, <1>4
  <2>2. \A n \in Nat: Up(n)' <=> Up(n)
    BY <1>1, <1>7, <2>1 DEF Up
  <2> QED BY <2>2, <1>1, FlagsKept
<1>9. ASSUME pc'[t] = "slot", ticket[t] = head PROVE Complete(head)
  <2>1. PICK n \in Nat: Up(n) /\ GP(n) = GP(head)
    <3>1. GP(head) \in 0..Size-1 /\ flag[GP(head)]
      BY <1>2, <1>9, PlaceType DEF TypeOK
    <3> QED BY <3>1 DEF Flags
  <2>2. n < tail /\ tail - n < Size
    <3>1. CASE head <= n /\ Complete(n)
      BY <3>1, <1>3, SizeAssumption DEF Complete, TypeOK
    <3>2. CASE \E u \in Thread: Clearer(u) /\ ticket[u] = n
      BY <3>2 DEF Tickets, TypeOK
    <3> QED BY <2>1, <3>1, <3>2 DEF Up
  <2>3. head # tail
    <3> SUFFICES ASSUME head = tail PROVE FALSE
      OBVIOUS
    <3>1. tail - n < Size /\ head - n < Size /\ n - head < Size
      BY <2>2, SizeAssumption DEF TypeOK
    <3> QED BY <3>1, <2>1, <2>2, PlacesApart DEF TypeOK
  <2>4. head - n < Size /\ n - head < Size
    BY <2>2, <2>3, <1>3, SizeAssumption DEF TypeOK, Tickets
  <2>5. n = head
    BY <2>1, <2>4, PlacesApart DEF TypeOK
  <2> QED BY <2>1, <2>5 DEF Up, Tickets
<1>10. Slots'
  <2>1. \A u \in Thread: pc'[u] = "raise" => u # t
    BY <1>1
  <2>2. Complete(head)' <=> Complete(head)
    BY <1>1, <1>6 DEF Complete
  <2>3. pc'[t] \in {"slot", "cas"} /\ ticket'[t] = head => Complete(head)
    BY <1>1, <1>2, <1>9 DEF Slots
  <2>4. pc'[t] = "cas" => mq'[t] = slot[GP(ticket[t])] /\ ticket'[t] = ticket[t]
    BY <1>1, <1>2
  <2> QED BY <2>1, <2>2, <2>3, <2>4, <1>1, <1>4 DEF Slots, GP
<1>11. \A n \in head..tail-1: Entry(n)' = Entry(n)
  <2> SUFFICES ASSUME NEW n \in head..tail-1 PROVE Entry(n)' = Entry(n)
    OBVIOUS
  <2>1. CASE Complete(n)
    BY <2>1, <1>1, <1>5, <1>7, EntryIs, EntryIsNext
  <2>2. CASE ~Complete(n)
    <3>1. PICK u \in Thread: Pushing(u, n)
      BY <2>2, EntryIs
    <3>2. mq'[u] = mq[u]
      BY <3>1, <1>1 DEF Pushing
    <3> QED BY <3>1, <3>2, <1>6, <1>5, EntryIs, EntryIsNext
  <2> QED BY <2>1, <2>2
<1>12. Places'
  <2>1. \A u \in Thread: (Clearer(u)' <=> Clearer(u)) /\ (Clearer(u) => mq'[u] = mq[u])
    BY <1>1, <1>4
  <2> QED BY <2>1, <1>1, <1>11, PlacesKept
<1> QED BY <1>1, <1>5, <1>8, <1>10, <1>11, <1>12

(* A compare-and-swap that succeeds takes the entry at head.               *)
LEMMA PopSwapStep ==
    ASSUME FewQueues, RingInv, TypeOK', NEW t \in Thread, PopCas(t), Swaps(t)
    PROVE  /\ RingInv' /\ head' = head + 1 /\ tail' = tail /\ head < tail
           /\ \A n \in head'..tail'-1: Entry(n)' = Entry(n)
<1> USE DEF RingInv, Pusher, Clearer, Reader
<1> PICK k \in Nat: k = head
  BY DEF TypeOK
<1>1. /\ pc[t] = "cas" /\ ticket[t] = k /\ pc' = [pc EXCEPT ![t] = "clear"]
      /\ head' = k + 1 /\ tail' = tail /\ flag' = flag /\ slot' = slot
      /\ ticket' = ticket /\ mq' = mq /\ holds' = holds
  BY DEF PopCas, Swaps
<1>2. Complete(k) /\ mq[t] = slot[GP(k)] /\ k < tail
  BY <1>1 DEF Slots, Complete
<1>3. Entry(k) = mq[t]
  BY <1>2, EntryIs
<1>4. \A u \in Thread: u # t => pc'[u] = pc[u]
  BY <1>1 DEF TypeOK
<1>5. Tickets'
  <2>1. head' <= tail'
    BY <1>1, <1>2 DEF TypeOK
  <2>2. \A u \in Thread: Pusher(u)' => Pusher(u) /\ ticket[u] >= k + 1
    BY <1>1, <1>2, <1>4 DEF Complete, Pushing, Tickets, TypeOK
  <2>3. \A u \in Thread: Clearer(u)' <=> Clearer(u) \/ u = t
    BY <1>1, <1>4 DEF TypeOK
  <2>4. \A u \in Thread: Clearer(u) => ticket[u] # k /\ ticket[u] < k + 1
    BY DEF Tickets, TypeOK
  <2>5. \A u \in Thread: Reader(u)' => ticket[u] <= k + 1
    BY <1>1, <1>4 DEF Tickets, TypeOK
  <2>6. \A u \in Thread: pc'[u] # "idle" => tail - ticket[u] < Size
    BY <1>1, <1>4 DEF Tickets, TypeOK
  <2>7. \A u, v \in Thread: ticket[u] = ticket[v] /\ Clearer(u)' /\ Clearer(v)' => u = v
    BY <2>3, <2>4, <1>1 DEF Tickets
  <2>8. \A u, v \in Thread: ticket[u] = ticket[v] /\ Pusher(u)' /\ Pusher(v)' => u = v
    BY <2>2 DEF Tickets
  <2>9. ticket[t] < k + 1
    BY <1>1
  <2> QED BY <2>1, <2>2, <2>3, <2>4, <2>5, <2>6, <2>7, <2>8, <2>9, <1>1 DEF Tickets
<1>6. \A n: \A u \in Thread: Pushing(u, n)' <=> Pushing(u, n)
  BY <1>1, <1>4 DEF Pushing, TypeOK
<1>7. \A n: Complete(n)' <=> Complete(n)
  BY <1>1, <1>6 DEF Complete
<1>8. \A u \in Thread: Clearer(u)' <=> Clearer(u) \/ u = t
  BY <1>1, <1>4 DEF TypeOK
<1>9. Flags'
  <2>1. \A n \in Nat: Up(n)' <=> Up(n)
    <3> SUFFICES ASSUME NEW n \in Nat PROVE Up(n)' <=> Up(n)
      OBVIOUS
    <3>1. (\E u \in Thread: Clearer(u)' /\ ticket'[u] = n)
             <=> n = k \/ \E u \in Thread: Clearer(u) /\ ticket[u] = n
      BY <1>1, <1>8
    <3>2. head' <= n <=> head <= n /\ n # k
      BY <1>1
    <3> QED BY <3>1, <3>2, <1>2, <1>7 DEF Up
  <2> QED BY <2>1, <1>1, FlagsKept
<1>10. Slots'
  <2>1. \A u \in Thread: pc'[u] \in {"slot", "cas"} => ticket'[u] # head'
    BY <1>1, <1>4 DEF Tickets, TypeOK
  <2>2. \A u \in Thread: pc'[u] = "raise" => u # t
    BY <1>1 DEF TypeOK
  <2> QED BY <2>1, <2>2, <1>1, <1>4 DEF Slots, GP
<1>11. head..tail-1 = (head'..tail'-1) \cup {k} /\ k \notin head'..tail'-1
  BY <1>1, <1>2 DEF TypeOK
<1>12. \A n \in head'..tail'-1: Entry(n)' = Entry(n)
  <2> SUFFICES ASSUME NEW n \in head'..tail'-1 PROVE Entry(n)' = Entry(n)
    OBVIOUS
  <2>1. CASE Complete(n)
    BY <2>1, <1>1, <1>5, <1>7, EntryIs, EntryIsNext
  <2>2. CASE ~Complete(n)
    <3>1. PICK u \in Thread: Pushing(u, n)
      BY <2>2, <1>11, EntryIs
    <3> QED BY <3>1, <1>1, <1>6, <1>5, EntryIs, EntryIsNext
  <2> QED BY <2>1, <2>2
<1>13. Places'
  <2>1. \A q: InRing(q)' <=> \E n \in head'..tail'-1: Entry(n) = q
    BY <1>12 DEF InRing
  <2>2. \A q: InRing(q) <=> InRing(q)' \/ q = mq[t]
    BY <2>1, <1>11, <1>3 DEF InRing
  <2>3. \A n \in head'..tail'-1: Entry(n) # mq[t]
    BY <1>3, <1>11 DEF Places
  <2>4. ~InRing(mq[t])' /\ InRing(mq[t]) /\ mq[t] \in MQ
    <3>1. ~\E n \in head'..tail'-1: Entry(n)' = mq'[t]
      BY <1>1, <1>12, <2>3
    <3> QED BY <3>1, <1>11, <1>3 DEF InRing, Places
  <2>5. \A u \in Thread: mq[t] \notin holds[u] /\ (Clearer(u) => mq[u] # mq[t])
    BY <2>4 DEF Places
  <2>6. \A n, i \in head'..tail'-1: Entry(n)' = Entry(i)' => n = i
    BY <1>12, <1>11 DEF Places
  <2>7. \A n \in head'..tail'-1: Entry(n)' \in MQ
    BY <1>12, <1>11 DEF Places
  <2>8. \A u \in Thread: Clearer(u)' => mq'[u] \in MQ /\ ~InRing(mq[u])'
    <3>1. ASSUME NEW u \in Thread, Clearer(u)' PROVE mq'[u] \in MQ /\ ~InRing(mq[u])'
      <4>1. \A n \in head'..tail'-1: Entry(n) # mq[u]
        BY <3>1, <1>8, <1>11, <2>3 DEF Places, InRing
      <4>2. ~\E n \in head'..tail'-1: Entry(n)' = mq'[u]
        BY <4>1, <1>1, <1>12
      <4> QED BY <4>2, <3>1, <1>8, <1>1, <2>4 DEF Places, InRing
    <3> QED BY <3>1
  <2>9. \A u, v \in Thread: Clearer(u)' => mq'[u] \notin holds'[v]
    BY <1>1, <1>8, <2>5 DEF Places
  <2>10. \A u, v \in Thread: Clearer(u)' /\ Clearer(v)' /\ mq'[u] = mq'[v] => u = v
    BY <1>1, <1>8, <2>5 DEF Places
  <2>11. \A u \in Thread: \A q \in holds'[u]: ~InRing(q)'
    BY <1>1, <2>2 DEF Places
  <2>12. \A q \in MQ: InRing(q)' \/ \E u \in Thread: q \in holds'[u] \/ (Clearer(u)' /\ mq'[u] = q)
    BY <1>1, <1>8, <2>2 DEF Places
  <2>13. \A u, v \in Thread: \A q \in MQ: q \in holds'[u] /\ q \in holds'[v] => u = v
    BY <1>1 DEF Places
  <2> QED BY <2>6, <2>7, <2>8, <2>9, <2>10, <2>11, <2>12, <2>13 DEF Places
<1> QED BY <1>1, <1>2, <1>5, <1>9, <1>10, <1>12, <1>13

LEMMA PopMissStep ==
    ASSUME FewQueues, RingInv, TypeOK', NEW t \in Thread, PopCas(t), ~Swaps(t)
    PROVE  /\ RingInv' /\ head' = head /\ tail' = tail
           /\ \A n \in head..tail-1: Entry(n)' = Entry(n)
<1> USE DEF RingInv, Pusher, Clearer, Reader
<1>1. /\ pc[t] = "cas" /\ pc' = [pc EXCEPT ![t] = "idle"]
      /\ mq' = [mq EXCEPT ![t] = None]
      /\ UNCHANGED <<head, tail, flag, slot, ticket, holds>>
  BY DEF PopCas
<1>2. \A u \in Thread: u # t => pc'[u] = pc[u] /\ mq'[u] = mq[u]
  BY <1>1 DEF TypeOK
<1>3. Tickets'
  BY <1>1, <1>2 DEF Tickets, TypeOK
<1>4. \A n: \A u \in Thread: Pushing(u, n)' <=> Pushing(u, n)
  BY <1>1, <1>2 DEF Pushing, TypeOK
<1>5. \A n: Complete(n)' <=> Complete(n)
  BY <1>1, <1>4 DEF Complete
<1>6. \A u \in Thread: Clearer(u)' <=> Clearer(u)
  BY <1>1, <1>2 DEF TypeOK
<1>7. Flags'
  <2>1. \A n \in Nat: Up(n)' <=> Up(n)
    BY <1>1, <1>5, <1>6 DEF Up
  <2> QED BY <2>1, <1>1, FlagsKept
<1>8. Slots'
  <2>1. Complete(head)' <=> Complete(head)
    BY <1>1, <1>4 DEF Complete
  <2>2. \A u \in Thread: pc'[u] \in {"raise", "slot", "cas"} => u # t
    BY <1>1 DEF TypeOK
  <2> QED BY <2>1, <2>2, <1>1, <1>2 DEF Slots, GP
<1>9. \A n \in head..tail-1: Entry(n)' = Entry(n)
  <2> SUFFICES ASSUME NEW n \in head..tail-1 PROVE Entry(n)' = Entry(n)
    OBVIOUS
  <2>1. CASE Complete(n)
    BY <2>1, <1>1, <1>3, <1>5, EntryIs, EntryIsNext
  <2>2. CASE ~Complete(n)
    <3>1. PICK u \in Thread: Pushing(u, n)
      BY <2>2, EntryIs
    <3>2. mq'[u] = mq[u]
      BY <3>1, <1>1, <1>2 DEF Pushing
    <3> QED BY <3>1, <3>2, <1>4, <1>3, EntryIs, EntryIsNext
  <2> QED BY <2>1, <2>2
<1>10. Places'
  <2>1. \A u \in Thread: Clearer(u) => mq'[u] = mq[u]
    BY <1>1, <1>2
  <2> QED BY <2>1, <1>1, <1>6, <1>9, PlacesKept
<1> QED BY <1>1, <1>3, <1>7, <1>8, <1>9, <1>10

LEMMA PopClearStep ==
    ASSUME FewQueues, RingInv, TypeOK', NEW t \in Thread, PopClear(t)
    PROVE  /\ RingInv' /\ head' = head /\ tail' = tail
           /\ \A n \in head..tail-1: Entry(n)' = Entry(n)
<1> USE DEF RingInv, Pusher, Clearer, Reader
<1> PICK k \in Nat: k = ticket[t]
  BY DEF TypeOK
<1> PICK p: p = mq[t]
  OBVIOUS
<1>1. /\ pc[t] = "clear" /\ pc' = [pc EXCEPT ![t] = "idle"]
      /\ mq' = [mq EXCEPT ![t] = None]
      /\ flag' = [flag EXCEPT ![GP(k)] = FALSE]
      /\ holds' = [holds EXCEPT ![t] = @ \cup {p}]
      /\ UNCHANGED <<head, tail, slot, ticket>>
  BY DEF PopClear, PoppedPlace
<1>2. \A u \in Thread: u # t => pc'[u] = pc[u] /\ mq'[u] = mq[u]
  BY <1>1 DEF TypeOK
<1>3. Tickets'
  BY <1>1, <1>2 DEF Tickets, TypeOK
<1>4. \A n: \A u \in Thread: Pushing(u, n)' <=> Pushing(u, n)
  BY <1>1, <1>2 DEF Pushing, TypeOK
<1>5. \A n: Complete(n)' <=> Complete(n)
  BY <1>1, <1>4 DEF Complete
<1>6. \A u \in Thread: Clearer(u)' <=> Clearer(u) /\ u # t
  BY <1>1, <1>2 DEF TypeOK
<1>7. \A n \in Nat: Up(n)' <=> Up(n) /\ n # k
  <2> SUFFICES ASSUME NEW n \in Nat PROVE Up(n)' <=> Up(n) /\ n # k
    OBVIOUS
  <2>1. \A u \in Thread: Clearer(u) /\ ticket[u] = k => u = t
    BY <1>1 DEF Tickets
  <2>2. head <= n => n # k
    BY <1>1 DEF Tickets, TypeOK
  <2>3. (\E u \in Thread: Clearer(u)' /\ ticket'[u] = n)
          <=> n # k /\ \E u \in Thread: Clearer(u) /\ ticket[u] = n
    BY <1>1, <1>6, <2>1
  <2> QED BY <2>2, <2>3, <1>1, <1>5 DEF Up
<1>8. \A n \in Nat: Up(n) => n < tail /\ tail - n < Size
  <2> SUFFICES ASSUME NEW n \in Nat, Up(n) PROVE n < tail /\ tail - n < Size
    OBVIOUS
  <2>1. tail - head < Size
    BY NeverFull
  <2>2. CASE head <= n /\ Complete(n)
    BY <2>1, <2>2, SizeAssumption DEF Complete, TypeOK
  <2>3. CASE \E u \in Thread: Clearer(u) /\ ticket[u] = n
    <3>1. n < head /\ head <= tail /\ tail - n < Size
      BY <2>3 DEF Tickets
    <3> QED BY <3>1 DEF TypeOK
  <2> QED BY <2>2, <2>3 DEF Up
<1>9. \A n \in Nat: Up(n) /\ n # k => GP(n) # GP(k)
  <2>1. Up(k)
    BY <1>1 DEF Up
  <2>2. \A n \in Nat: Up(n) => n - k < Size /\ k - n < Size
    BY <2>1, <1>8, SizeAssumption DEF TypeOK
  <2> QED BY <2>2, PlacesApart
<1>10. Flags'
  <2>1. \A i \in 0..Size-1: flag'[i] <=> flag[i] /\ i # GP(k)
    BY <1>1, PlaceType DEF TypeOK
  <2> QED BY <2>1, <1>7, <1>9 DEF Flags, GP
<1>11. Slots'
  <2>1. Complete(head)' <=> Complete(head)
    BY <1>1, <1>4 DEF Complete
  <2>2. \A u \in Thread: pc'[u] \in {"raise", "slot", "cas"} => u # t
    BY <1>1 DEF TypeOK
  <2> QED BY <2>1, <2>2, <1>1, <1>2 DEF Slots, GP
<1>12. \A n \in head..tail-1: Entry(n)' = Entry(n)
  <2> SUFFICES ASSUME NEW n \in head..tail-1 PROVE Entry(n)' = Entry(n)
    OBVIOUS
  <2>1. CASE Complete(n)
    BY <2>1, <1>1, <1>3, <1>5, EntryIs, EntryIsNext
  <2>2. CASE ~Complete(n)
    <3>1. PICK u \in Thread: Pushing(u, n)
      BY <2>2, EntryIs
    <3>2. mq'[u] = mq[u]
      BY <3>1, <1>1, <1>2 DEF Pushing
    <3> QED BY <3>1, <3>2, <1>4, <1>3, EntryIs, EntryIsNext
  <2> QED BY <2>1, <2>2
<1>13. Places'
  <2>1. \A q: InRing(q)' <=> InRing(q)
    BY <1>1, <1>12 DEF InRing
  <2>2. p \in MQ /\ ~InRing(p) /\ \A u \in Thread: p \notin holds[u] /\ (Clearer(u)' => mq[u] # p)
    BY <1>1, <1>6 DEF Places
  <2>3. \A u \in Thread: \A q: q \in holds'[u] <=> q \in holds[u] \/ (u = t /\ q = p)
    BY <1>1 DEF TypeOK
  <2>4. \A u \in Thread: Clearer(u)' => Clearer(u) /\ mq'[u] = mq[u]
    BY <1>2, <1>6
  <2>5. \A u \in Thread: Clearer(u) => u = t \/ (Clearer(u)' /\ mq'[u] = mq[u])
    BY <1>2, <1>6
  <2>6. \A n, i \in head'..tail'-1: Entry(n)' = Entry(i)' => n = i
    BY <1>1, <1>12 DEF Places
  <2>7. \A n \in head'..tail'-1: Entry(n)' \in MQ
    BY <1>1, <1>12 DEF Places
  <2>8. \A u \in Thread: Clearer(u)' => mq'[u] \in MQ /\ ~InRing(mq[u])'
    <3>1. ASSUME NEW u \in Thread, Clearer(u)' PROVE mq'[u] \in MQ /\ ~InRing(mq[u])'
      <4>1. ~\E n \in head..tail-1: Entry(n) = mq[u]
        BY <3>1, <2>4 DEF Places, InRing
      <4>2. ~\E n \in head'..tail'-1: Entry(n)' = mq'[u]
        BY <4>1, <1>1, <1>12, <2>4, <3>1
      <4> QED BY <4>2, <3>1, <2>4 DEF Places, InRing
    <3> QED BY <3>1
  <2>9. \A u, v \in Thread: Clearer(u)' => mq'[u] \notin holds'[v]
    BY <2>2, <2>3, <2>4 DEF Places
  <2>10. \A u, v \in Thread: Clearer(u)' /\ Clearer(v)' /\ mq'[u] = mq'[v] => u = v
    BY <2>4 DEF Places
  <2>11. \A u \in Thread: \A q \in holds'[u]: ~InRing(q)'
    BY <2>1, <2>2, <2>3 DEF Places
  <2>12. \A q \in MQ: InRing(q)' \/ \E u \in Thread: q \in holds'[u] \/ (Clearer(u)' /\ mq'[u] = q)
    BY <2>1, <2>3, <2>5 DEF Places
  <2>13. \A u, v \in Thread: \A q \in MQ: q \in holds'[u] /\ q \in holds'[v] => u = v
    BY <2>2, <2>3 DEF Places
  <2> QED BY <2>6, <2>7, <2>8, <2>9, <2>10, <2>11, <2>12, <2>13 DEF Places
<1> QED BY <1>1, <1>3, <1>10, <1>11, <1>12, <1>13

LEMMA RingStays ==
    ASSUME RingInv, UNCHANGED vars
    PROVE  RingInv' /\ \A n \in head..tail-1: Entry(n)' = Entry(n)
<1> USE DEF RingInv, Pusher, Clearer, Reader
<1>1. \A n: \A u \in Thread: Pushing(u, n)' <=> Pushing(u, n)
  BY DEF Pushing, vars
<1>2. \A n: Complete(n)' <=> Complete(n)
  BY <1>1 DEF Complete, vars
<1>3. TypeOK' /\ Tickets'
  BY DEF TypeOK, Tickets, vars
<1>4. \A n \in Nat: Up(n)' <=> Up(n)
  BY <1>2 DEF Up, vars
<1>5. Flags'
  BY <1>4, FlagsKept DEF vars
<1>6. Complete(head)' <=> Complete(head)
  BY <1>1 DEF Complete, vars
<1>7. Slots'
  BY <1>6 DEF Slots, GP, vars
<1>8. \A n \in head..tail-1: Entry(n)' = Entry(n)
  <2> SUFFICES ASSUME NEW n \in head..tail-1 PROVE Entry(n)' = Entry(n)
    OBVIOUS
  <2>1. CASE Complete(n)
    BY <2>1, <1>2, <1>3, EntryIs, EntryIsNext DEF vars
  <2>2. CASE ~Complete(n)
    <3>1. PICK u \in Thread: Pushing(u, n)
      BY <2>2, EntryIs
    <3> QED BY <3>1, <1>1, <1>3, EntryIs, EntryIsNext DEF vars
  <2> QED BY <2>1, <2>2
<1>9. Places'
  BY <1>8, PlacesKept DEF vars
<1> QED BY <1>3, <1>5, <1>7, <1>8, <1>9

-----------------------------------------------------------------------------
(* The steps as steps of a FIFO: only a ticket and a swap change Content.  *)
Moves == \/ /\ head' = head /\ tail' = tail
            /\ \A n \in head..tail-1: Entry(n)' = Entry(n)
         \/ /\ head' = head /\ tail' = tail + 1
            /\ \A n \in Nat: n = tail => Entry(n)' \in MQ
            /\ \A n \in head..tail-1: Entry(n)' = Entry(n)
         \/ /\ head' = head + 1 /\ tail' = tail /\ head < tail
            /\ \A n \in head'..tail'-1: Entry(n)' = Entry(n)

LEMMA RingNext ==
    ASSUME FewQueues, ~Lap, RingInv, [Next]_vars
    PROVE  RingInv' /\ Moves
<1>1. CASE UNCHANGED vars
  BY <1>1, RingStays DEF Moves, vars
<1>2. CASE Next
  <2>1. TypeOK'
    BY <1>2, RingType
  <2>2. PICK t \in Thread: Push(t) \/ Pop(t)
    BY <1>2 DEF Next
  <2>3. CASE PushTicket(t)
    BY <2>1, <2>3, PushTicketStep DEF Moves
  <2>4. CASE PushStore(t)
    BY <2>1, <2>4, PushStoreStep DEF Moves
  <2>5. CASE PushRaise(t)
    BY <2>1, <2>5, PushRaiseStep DEF Moves
  <2>6. CASE PopHead(t) \/ PopEmpty(t) \/ PopTail(t) \/ PopFlag(t) \/ PopSlot(t)
    BY <2>1, <2>6, PopLookStep DEF Moves
  <2>7. CASE PopCas(t) /\ Swaps(t)
    BY <2>1, <2>7, PopSwapStep DEF Moves
  <2>8. CASE PopCas(t) /\ ~Swaps(t)
    BY <2>1, <2>8, PopMissStep DEF Moves
  <2>9. CASE PopClear(t)
    BY <2>1, <2>9, PopClearStep DEF Moves
  <2> QED BY <2>2, <2>3, <2>4, <2>5, <2>6, <2>7, <2>8, <2>9 DEF Push, Pop
<1> QED BY <1>1, <1>2

LEMMA ContentType ==
    ASSUME RingInv
    PROVE  /\ Content \in Seq(MQ) /\ Len(Content) = tail - head
           /\ DOMAIN Content = 1..tail - head
           /\ \A i \in 1..tail - head: Content[i] = Entry(head + i - 1)
<1>1. tail - head \in Nat /\ head \in Nat /\ tail \in Nat
  BY DEF RingInv, TypeOK, Tickets
<1>2. \A i \in 1..tail - head: Entry(head + i - 1) \in MQ
  <2>1. \A i \in 1..tail - head: head + i - 1 \in head..tail-1
    BY <1>1
  <2> QED BY <2>1 DEF RingInv, Places
<1> QED BY <1>1, <1>2 DEF Content

LEMMA FunSeq ==
    ASSUME NEW S, NEW n \in Nat, NEW f \in [1..n -> S]
    PROVE  f \in Seq(S) /\ Len(f) = n
OBVIOUS

LEMMA Shift ==
    ASSUME NEW g \in Nat, NEW l \in Nat, NEW i \in 1..l-g
    PROVE  g + i - 1 \in g..l-1
OBVIOUS

LEMMA FifoStep ==
    ASSUME RingInv, RingInv', Moves
    PROVE  [Ring!Next]_Content
<1> PICK h \in Nat, l \in Nat: h = head /\ l = tail /\ l - h \in Nat
  BY DEF RingInv, TypeOK, Tickets
<1> PICK g \in Nat, m \in Nat: g = head' /\ m = tail' /\ m - g \in Nat
  BY DEF RingInv, TypeOK, Tickets
<1>1. /\ tail - head \in Nat /\ head \in Nat /\ tail \in Nat
      /\ tail' - head' \in Nat /\ head' \in Nat /\ tail' \in Nat
  OBVIOUS
<1>2. /\ Content \in Seq(MQ) /\ Len(Content) = tail - head
      /\ \A i \in 1..tail - head: Content[i] = Entry(head + i - 1)
  BY ContentType
<1>3. /\ Content' = [i \in 1..tail' - head' |-> Entry(head + i - 1)']
      /\ \A n \in head'..tail'-1: Entry(n)' \in MQ
  BY DEF Content, RingInv, Places
<1>4. /\ Content' \in Seq(MQ) /\ Len(Content') = tail' - head'
      /\ \A i \in 1..tail' - head': Content'[i] = Entry(g + i - 1)'
  <2> PICK d \in Nat: d = m - g
    OBVIOUS
  <2>1. \A i \in 1..d: g + i - 1 \in g..m-1
    BY Shift
  <2>2. Content' = [i \in 1..d |-> Entry(g + i - 1)']
    BY DEF Content
  <2>3. \A i \in 1..d: Entry(g + i - 1)' \in MQ
    BY <1>3, <2>1
  <2>4. Content' \in [1..d -> MQ] /\ \A i \in 1..d: Content'[i] = Entry(g + i - 1)'
    BY <2>2, <2>3
  <2>5. Content' \in Seq(MQ) /\ Len(Content') = d
    BY <2>4, FunSeq
  <2> QED BY <2>4, <2>5
<1>5. CASE head' = head /\ tail' = tail /\ \A n \in head..tail-1: Entry(n)' = Entry(n)
  <2>1. \A i \in 1..tail - head: Content'[i] = Content[i]
    <3>1. \A i \in 1..tail - head: g + i - 1 \in head..tail-1
      BY <1>1, <1>5
    <3> QED BY <3>1, <1>5, <1>2, <1>4
  <2>2. Content' = Content
    BY <2>1, <1>2, <1>4, <1>5, SeqEqual
  <2> QED BY <2>2
<1>6. CASE /\ head' = head /\ tail' = tail + 1 /\ \A n \in Nat: n = tail => Entry(n)' \in MQ
           /\ \A n \in head..tail-1: Entry(n)' = Entry(n)
  <2>1. Entry(l)' \in MQ
    BY <1>6
  <2>2. /\ Append(Content, Entry(l)') \in Seq(MQ)
        /\ Len(Append(Content, Entry(l)')) = tail - head + 1
        /\ \A i \in 1..tail - head + 1: Append(Content, Entry(l)')[i]
              = IF i = tail - head + 1 THEN Entry(l)' ELSE Content[i]
    BY <2>1, <1>2, AppendProperties
  <2>3. \A i \in 1..tail - head + 1: Content'[i] = Append(Content, Entry(l)')[i]
    <3>1. \A i \in 1..tail - head: g + i - 1 \in head..tail-1
      BY <1>1, <1>6
    <3>2. \A i \in 1..tail - head: Content'[i] = Content[i]
      BY <3>1, <1>1, <1>2, <1>4, <1>6
    <3>3. Content'[tail - head + 1] = Entry(l)'
      <4>1. g + (tail - head + 1) - 1 = l /\ tail - head + 1 \in 1..tail' - head'
        BY <1>1, <1>6
      <4> QED BY <4>1, <1>4
    <3> PICK d \in Nat: d = tail - head
      BY <1>1
    <3>4. \A i \in 1..d + 1: i \in 1..d \/ i = d + 1
      OBVIOUS
    <3> QED BY <3>2, <3>3, <3>4, <2>2
  <2>4. Content' = Append(Content, Entry(l)')
    BY <2>2, <2>3, <1>1, <1>4, <1>6, SeqEqual
  <2> QED BY <2>1, <2>4 DEF Ring!Next, Ring!Push
<1>7. CASE /\ head' = head + 1 /\ tail' = tail /\ head < tail
           /\ \A n \in head'..tail'-1: Entry(n)' = Entry(n)
  <2>1. Content # <<>>
    BY <1>1, <1>2, <1>7
  <2>2. /\ Tail(Content) \in Seq(MQ) /\ Len(Tail(Content)) = tail - head - 1
        /\ \A i \in 1..tail - head - 1: Tail(Content)[i] = Content[i+1]
    BY <2>1, <1>2, HeadTailProperties
  <2>3. \A i \in 1..tail' - head': Content'[i] = Tail(Content)[i]
    <3>1. \A i \in 1..tail' - head': /\ g + i - 1 \in head'..tail'-1
                                     /\ g + i - 1 = h + (i + 1) - 1
                                     /\ i + 1 \in 1..tail - head /\ i \in 1..tail - head - 1
      BY <1>1, <1>7
    <3>2. \A i \in 1..tail' - head': Content'[i] = Entry(g + i - 1)
      BY <3>1, <1>4, <1>7
    <3>3. \A i \in 1..tail' - head': Content[i+1] = Entry(h + (i + 1) - 1)
      BY <3>1, <1>2
    <3> QED BY <3>1, <3>2, <3>3, <2>2
  <2>4. Content' = Tail(Content)
    BY <2>2, <2>3, <1>1, <1>4, <1>7, SeqEqual
  <2> QED BY <2>1, <2>4 DEF Ring!Next, Ring!Pop
<1> QED BY <1>5, <1>6, <1>7 DEF Moves

(* The places of the entries, the flags and the message queues, through    *)
(* every interleaving of skynet_globalmq_push and _pop.                    *)
THEOREM RingInvariant ==
    ASSUME FewQueues, ~Lap
    PROVE  Spec => []RingInv
<1>1. RingInv /\ [Next]_vars => RingInv'
  BY RingNext
<1> QED BY <1>1, RingInit, PTL DEF Spec

(* A set whose members are all the same.                                   *)
LEMMA OneSet ==
    ASSUME NEW S, \A a, b \in S: a = b
    PROVE  Cardinality(S) = IF S = {} THEN 0 ELSE 1
<1>1. CASE S = {}
  BY <1>1, FS_EmptySet
<1>2. CASE S # {}
  <2>1. PICK a \in S: S = {a}
    BY <1>2
  <2> QED BY <1>2, <2>1, FS_Singleton
<1> QED BY <1>1, <1>2

LEMMA PlacesCounted ==
    ASSUME RingInv
    PROVE  InOnePlace
<1>1. /\ DOMAIN Content = 1..tail - head
      /\ \A i \in 1..tail - head: Content[i] = Entry(head + i - 1)
  BY ContentType
<1>2. head \in Nat /\ tail \in Nat /\ head <= tail
  BY DEF RingInv, TypeOK, Tickets
<1>3. \A i \in 1..tail - head: head + i - 1 \in head..tail-1
  BY <1>2, Shift
<1>4. \A n \in head..tail-1: n - head + 1 \in 1..tail - head /\ head + (n - head + 1) - 1 = n
  BY <1>2
<1>5. ASSUME NEW i \in DOMAIN Content, NEW j \in DOMAIN Content, Content[i] = Content[j]
      PROVE  i = j
  <2>1. head + i - 1 = head + j - 1
    BY <1>1, <1>3, <1>5 DEF RingInv, Places
  <2> QED BY <2>1, <1>1, <1>2
<1>6. ASSUME NEW q \in MQ
      PROVE  Cardinality({t \in Thread : q \in holds[t]})
             + Cardinality({t \in Thread : Popping(t) /\ mq[t] = q})
             + Cardinality({i \in DOMAIN Content : Content[i] = q}) = 1
  <2> DEFINE H == {t \in Thread : q \in holds[t]}
             P == {t \in Thread : Popping(t) /\ mq[t] = q}
             R == {i \in DOMAIN Content : Content[i] = q}
  <2>1. R # {} <=> InRing(q)
    <3>1. InRing(q) => R # {}
      BY <1>1, <1>4 DEF InRing
    <3>2. R # {} => InRing(q)
      BY <1>1, <1>3 DEF InRing
    <3> QED BY <3>1, <3>2
  <2>2. \A a, b \in H: a = b
    BY DEF RingInv, Places
  <2>3. \A a, b \in P: a = b
    BY DEF RingInv, Places, Popping, Clearer
  <2>4. \A a, b \in R: a = b
    BY <1>5
  <2>5. H # {} \/ P # {} \/ R # {}
    BY <2>1 DEF RingInv, Places, Popping, Clearer
  <2>6. (H = {} \/ P = {}) /\ (H = {} \/ R = {}) /\ (P = {} \/ R = {})
    BY <2>1 DEF RingInv, Places, Popping, Clearer
  <2> HIDE DEF H, P, R
  <2>7. /\ Cardinality(H) = IF H = {} THEN 0 ELSE 1
        /\ Cardinality(P) = IF P = {} THEN 0 ELSE 1
        /\ Cardinality(R) = IF R = {} THEN 0 ELSE 1
    BY <2>2, <2>3, <2>4, OneSet
  <2>8. Cardinality(H) + Cardinality(P) + Cardinality(R) = 1
    BY <2>5, <2>6, <2>7
  <2> QED BY <2>8 DEF H, P, R
<1> QED BY <1>2, <1>5, <1>6 DEF InOnePlace, RingInv

(* Nothing is lost, duplicated or handed to two threads: every message     *)
(* queue is with one thread, in the ring once, or just popped.             *)
THEOREM EachInOnePlace ==
    ASSUME FewQueues, ~Lap
    PROVE  Spec => []InOnePlace
<1> QED BY RingInvariant, PlacesCounted, PTL

(* skynet_globalmq_pop finds the queue empty only when it is: a complete   *)
(* oldest entry has its flag, and head and tail meet only when they are    *)
(* the same.                                                               *)
THEOREM EmptyIsSo ==
    ASSUME FewQueues, ~Lap
    PROVE  Spec => []EmptyIsEmpty
<1>1. ASSUME RingInv PROVE EmptyIsEmpty
  <2>1. head \in Nat /\ tail \in Nat /\ head <= tail
    BY <1>1 DEF RingInv, TypeOK, Tickets
  <2>2. Complete(head) => flag[GP(head)]
    BY <1>1, <2>1, PlaceType DEF RingInv, Flags, Up
  <2>3. ASSUME NEW t \in Thread, pc[t] = "tail", GP(ticket[t]) = GP(tail)
        PROVE  head = tail
    <3>1. ticket[t] \in Nat /\ ticket[t] <= head /\ tail - ticket[t] < Size
      BY <1>1, <2>3 DEF RingInv, TypeOK, Tickets, Reader
    <3>2. ticket[t] - tail < Size
      BY <3>1, <2>1, SizeAssumption
    <3>3. ticket[t] = tail
      BY <3>1, <3>2, <2>1, <2>3, PlacesApart
    <3> QED BY <3>1, <3>3, <2>1
  <2> QED BY <2>2, <2>3 DEF EmptyIsEmpty
<1> QED BY <1>1, RingInvariant, PTL

(* The ring implements a FIFO that any thread appends to and takes from in *)
(* one step.                                                               *)
THEOREM RingIsFifo ==
    ASSUME FewQueues, ~Lap
    PROVE  Spec => ImplementsFifo
<1>1. Init => Ring!Init
  BY RingInit, ContentType DEF Ring!Init
<1>2. RingInv /\ RingInv' /\ [Next]_vars => [Ring!Next]_Content
  BY RingNext, FifoStep
<1> QED BY <1>1, <1>2, RingInvariant, PTL DEF Spec, ImplementsFifo, Ring!Spec
=============================================================================
