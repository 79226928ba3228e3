----------------------------- MODULE GlobalQueue -----------------------------
(***************************************************************************)
(* The global queue of skynet_mq.c: a ring of message queues that threads  *)
(* push to and pop from without a lock.  One action is one access to       *)
(* shared memory; a thread may be delayed between any two of them.         *)
(*                                                                         *)
(* A message queue is in the ring or with one thread (the invariant        *)
(* SingleOwner of Dispatch): a thread pushes what it holds, and holds what *)
(* it popped.                                                              *)
(***************************************************************************)
EXTENDS Integers, Sequences, FiniteSets

CONSTANTS Thread,     \* the threads that push and pop
          MQ,         \* the message queues
          None,       \* no message queue
          Size,       \* MAX_GLOBAL_MQ
          Lap,        \* may a thread be overtaken by Size pushes inside a call?
          MaxTail     \* bound: pushes in a behaviour

ASSUME GlobalQueueAssumption ==
    /\ Size \in Nat \ {0} /\ MaxTail \in Nat /\ Lap \in BOOLEAN
    /\ None \notin MQ

VARIABLES
    head, tail,   \* the counters of struct global_queue
    slot, flag,   \* its arrays queue and flag
    pc,           \* where each thread is
    ticket,       \* the local copy of tail (in a push) or head (in a pop)
    mq,           \* the local variable of a call, and what the thread pushes
    holds         \* the message queues each thread holds

vars == <<head, tail, slot, flag, pc, ticket, mq, holds>>

GPHalf(p) == p % (Size \div 2)

(* The place of ticket p in the arrays. *)
GP(p) == p % Size

(* skynet_mq_init; every message queue is with some thread. *)
Init ==
    /\ head = 0 /\ tail = 0
    /\ slot = [i \in 0..Size-1 |-> None]
    /\ flag = [i \in 0..Size-1 |-> FALSE]
    /\ pc = [t \in Thread |-> "idle"]
    /\ ticket = [t \in Thread |-> 0]
    /\ mq = [t \in Thread |-> None]
    /\ holds \in {h \in [Thread -> SUBSET MQ] :
                    /\ UNION {h[t] : t \in Thread} = MQ
                    /\ \A t, u \in Thread: t # u => h[t] \cap h[u] = {}}

(* The oldest ticket a thread is still working with. *)
Busy == {t \in Thread : pc[t] # "idle"}
Overtakes(n) == \E t \in Busy: n - ticket[t] >= Size

-----------------------------------------------------------------------------
(* skynet_globalmq_push *)

(* __sync_fetch_and_add(&q->tail, 1) *)
PushTicket(t) ==
    /\ pc[t] = "idle" /\ tail < MaxTail
    /\ Lap \/ ~Overtakes(tail + 1)
    /\ \E q \in holds[t]:
       /\ mq' = [mq EXCEPT ![t] = q]
       /\ holds' = [holds EXCEPT ![t] = @ \ {q}]
    /\ ticket' = [ticket EXCEPT ![t] = tail]
    /\ tail' = tail + 1
    /\ pc' = [pc EXCEPT ![t] = "store"]
    /\ UNCHANGED <<head, slot, flag>>

PushStore(t) ==
    /\ pc[t] = "store"
    /\ slot' = [slot EXCEPT ![GP(ticket[t])] = mq[t]]
    /\ pc' = [pc EXCEPT ![t] = "raise"]
    /\ UNCHANGED <<head, tail, flag, ticket, mq, holds>>

PushRaise(t) ==
    /\ pc[t] = "raise"
    /\ flag' = [flag EXCEPT ![GP(ticket[t])] = TRUE]
    /\ pc' = [pc EXCEPT ![t] = "idle"]
    /\ mq' = [mq EXCEPT ![t] = None]
    /\ UNCHANGED <<head, tail, slot, ticket, holds>>

-----------------------------------------------------------------------------
(* skynet_globalmq_pop *)

PopHead(t) ==
    /\ pc[t] = "idle"
    /\ ticket' = [ticket EXCEPT ![t] = head]
    /\ pc' = [pc EXCEPT ![t] = "tail"]
    /\ UNCHANGED <<head, tail, slot, flag, mq, holds>>

(* return NULL: the global queue is empty *)
PopEmpty(t) ==
    /\ pc[t] = "tail" /\ GP(ticket[t]) = GP(tail)
    /\ pc' = [pc EXCEPT ![t] = "idle"]
    /\ UNCHANGED <<head, tail, slot, flag, ticket, mq, holds>>

PopTail(t) ==
    /\ pc[t] = "tail" /\ GP(ticket[t]) # GP(tail)
    /\ pc' = [pc EXCEPT ![t] = "flag"]
    /\ UNCHANGED <<head, tail, slot, flag, ticket, mq, holds>>

RaisedAlways(t) == TRUE
Raised(t) == flag[GP(ticket[t])]

PopFlag(t) ==
    /\ pc[t] = "flag"
    /\ pc' = [pc EXCEPT ![t] = IF Raised(t) THEN "slot" ELSE "idle"]
    /\ UNCHANGED <<head, tail, slot, flag, ticket, mq, holds>>

PopSlot(t) ==
    /\ pc[t] = "slot"
    /\ mq' = [mq EXCEPT ![t] = slot[GP(ticket[t])]]
    /\ pc' = [pc EXCEPT ![t] = "cas"]
    /\ UNCHANGED <<head, tail, slot, flag, ticket, holds>>

SwapsAlways(t) == TRUE
Swaps(t) == head = ticket[t]

(* __sync_bool_compare_and_swap(&q->head, head, head+1) *)
PopCas(t) ==
    /\ pc[t] = "cas"
    /\ IF Swaps(t)
       THEN /\ head' = head + 1
            /\ pc' = [pc EXCEPT ![t] = "clear"]
            /\ UNCHANGED mq
       ELSE /\ pc' = [pc EXCEPT ![t] = "idle"]
            /\ mq' = [mq EXCEPT ![t] = None]
            /\ UNCHANGED head
    /\ UNCHANGED <<tail, slot, flag, ticket, holds>>

PoppedPlaceLate(t) == GP(head)
PoppedPlace(t) == GP(ticket[t])

PopClear(t) ==
    /\ pc[t] = "clear"
    /\ flag' = [flag EXCEPT ![PoppedPlace(t)] = FALSE]
    /\ holds' = [holds EXCEPT ![t] = @ \cup {mq[t]}]
    /\ mq' = [mq EXCEPT ![t] = None]
    /\ pc' = [pc EXCEPT ![t] = "idle"]
    /\ UNCHANGED <<head, tail, slot, ticket>>

-----------------------------------------------------------------------------
Push(t) == PushTicket(t) \/ PushStore(t) \/ PushRaise(t)
Pop(t) == PopHead(t) \/ PopEmpty(t) \/ PopTail(t) \/ PopFlag(t) \/ PopSlot(t)
          \/ PopCas(t) \/ PopClear(t)

Next == \E t \in Thread: Push(t) \/ Pop(t)

Spec == Init /\ [][Next]_vars

(* A thread that began a call goes on, and workers keep popping. *)
Fairness ==
    \A t \in Thread: WF_vars(PushStore(t) \/ PushRaise(t)) /\ WF_vars(Pop(t))
FairSpec == Spec /\ Fairness

-----------------------------------------------------------------------------
TypeOK ==
    /\ head \in Nat /\ tail \in 0..MaxTail
    /\ slot \in [0..Size-1 -> MQ \cup {None}]
    /\ flag \in [0..Size-1 -> BOOLEAN]
    /\ pc \in [Thread -> {"idle", "store", "raise", "tail", "flag", "slot",
                          "cas", "clear"}]
    /\ ticket \in [Thread -> Nat]
    /\ mq \in [Thread -> MQ \cup {None}]
    /\ holds \in [Thread -> SUBSET MQ]

(* The push of ticket n is under way. *)
Pushing(t, n) == pc[t] \in {"store", "raise"} /\ ticket[t] = n
Complete(n) == n < tail /\ \A t \in Thread: ~Pushing(t, n)

(* The message queue of ticket n, for head <= n < tail. *)
Entry(n) == IF Complete(n) THEN slot[GP(n)]
            ELSE mq[CHOOSE t \in Thread: Pushing(t, n)]
Content == [i \in 1..(tail - head) |-> Entry(head + i - 1)]

Popping(t) == pc[t] = "clear"

(* Every message queue is in one place: with one thread, on its way into   *)
(* or out of the ring, or in the ring once.  Nothing is lost, duplicated   *)
(* or handed to two threads by the races of push and pop.                  *)
InOnePlace ==
    /\ TypeOK
    /\ head <= tail
    /\ \A i, j \in DOMAIN Content: Content[i] = Content[j] => i = j
    /\ \A q \in MQ:
         Cardinality({t \in Thread : q \in holds[t]})
         + Cardinality({t \in Thread : Popping(t) /\ mq[t] = q})
         + Cardinality({i \in DOMAIN Content : Content[i] = q}) = 1

(* The two ways skynet_globalmq_pop has to find the queue empty are right:  *)
(* the oldest entry can be popped as soon as its push is complete (its flag *)
(* says so), and the comparison of head with tail modulo the ring finds     *)
(* them equal only when they are.                                           *)
EmptyIsEmpty ==
    /\ head < tail /\ Complete(head) => flag[GP(head)]
    /\ \A t \in Thread: pc[t] = "tail" /\ GP(ticket[t]) = GP(tail) => head = tail

(* The ring is a FIFO: a push takes effect when it draws its ticket, a pop *)
(* when its compare-and-swap succeeds.                                     *)
Ring == INSTANCE Fifo WITH Item <- MQ, content <- Content
ImplementsFifo == Ring!Spec

(* What was pushed is popped.                                              *)
Popped == \A q \in MQ: (\E i \in DOMAIN Content: Content[i] = q)
                         ~> (\E t \in Thread: q \in holds[t])
=============================================================================
