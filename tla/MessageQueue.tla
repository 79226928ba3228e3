---------------------------- MODULE MessageQueue ----------------------------
(***************************************************************************)
(* One message queue of skynet_mq.c in detail: the ring buffer that grows, *)
(* the flag in_global, and the lock on a session.  Any thread pushes; the  *)
(* worker that took the queue from the global queue pops one message, runs *)
(* the callback (which may lock and unlock) and puts the queue back.       *)
(*                                                                         *)
(* Every function runs under the queue's spin lock and is one step.  That  *)
(* one worker at most has the queue is the invariant SingleOwner of        *)
(* Dispatch, which also covers the release of the queue; here entries      *)
(* counts the times the queue is in the global queue.                      *)
(***************************************************************************)
EXTENDS Integers, Sequences

CONSTANTS DefaultSize, \* DEFAULT_QUEUE_SIZE
          Session,     \* session numbers; 0 is "no session"
          Junk,        \* the content of memory that was never written
          MaxSend      \* bound: messages pushed

Message == [id: 1..MaxSend, session: Session]

ASSUME MessageQueueAssumption ==
    /\ DefaultSize \in Nat \ {0}
    /\ Session \subseteq Nat /\ 0 \in Session
    /\ MaxSend \in Nat
    /\ Junk \notin Message

VARIABLES
    cap, head, tail, slots,   \* the ring; slots is the array queue
    in_global, lock_session,
    entries,      \* how often the global queue holds this queue
    stage,        \* "out", "taken" or "call": what the worker has done
    sent          \* messages pushed so far

ring == <<cap, head, tail, slots>>
vars == <<ring, in_global, lock_session, entries, stage, sent>>

(* skynet_mq_create, then skynet_mq_force_push. *)
Init ==
    /\ cap = DefaultSize /\ head = 0 /\ tail = 0
    /\ slots = [i \in 0..DefaultSize-1 |-> Junk]
    /\ in_global = 1 /\ lock_session = 0
    /\ entries = 1
    /\ stage = "out"
    /\ sent = 0

-----------------------------------------------------------------------------
(* ++i, back to 0 at the end of an array of n elements. *)
Succ(i, n) == IF i + 1 >= n THEN 0 ELSE i + 1
Pred(i, n) == IF i - 1 < 0 THEN n - 1 ELSE i - 1

ExpandedUnrotated(s, h, n) ==
    [i \in 0..2*n-1 |-> IF i < n THEN s[i] ELSE Junk]

ExpandedShort(s, h, n) ==
    [i \in 0..2*n-1 |-> IF i < n - 1 THEN s[(h + i) % n] ELSE Junk]

(* expand_queue on an array s of n elements that starts at h. *)
Expanded(s, h, n) ==
    [i \in 0..2*n-1 |-> IF i < n THEN s[(h + i) % n] ELSE Junk]

PushTail(m) ==
    LET s == [slots EXCEPT ![tail] = m]
        t == Succ(tail, cap)
    IN IF head = t
       THEN /\ slots' = Expanded(s, head, cap)
            /\ head' = 0 /\ tail' = cap /\ cap' = 2 * cap
       ELSE /\ slots' = s /\ tail' = t
            /\ UNCHANGED <<cap, head>>

PushHead(m) ==
    LET h == Pred(head, cap)
    IN IF h = tail
       THEN /\ slots' = [Expanded(slots, head, cap) EXCEPT ![2*cap - 1] = m]
            /\ head' = 2*cap - 1 /\ tail' = cap - 1 /\ cap' = 2 * cap
       ELSE /\ slots' = [slots EXCEPT ![h] = m] /\ head' = h
            /\ UNCHANGED <<cap, tail>>

(* skynet_mq_push *)
Push(s) ==
    /\ sent < MaxSend
    /\ LET m == [id |-> sent + 1, session |-> s]
       IN IF lock_session # 0 /\ s = lock_session
          THEN /\ PushHead(m)
               /\ lock_session' = 0
               /\ IF in_global = 3
                  THEN entries' = entries + 1 /\ in_global' = 1
                  ELSE in_global = 2 /\ UNCHANGED <<entries, in_global>>
          ELSE /\ PushTail(m)
               /\ UNCHANGED lock_session
               /\ IF lock_session = 0 /\ in_global = 0
                  THEN entries' = entries + 1 /\ in_global' = 1
                  ELSE UNCHANGED <<entries, in_global>>
    /\ sent' = sent + 1
    /\ UNCHANGED stage

(* skynet_globalmq_pop gave the queue to a worker. *)
Take ==
    /\ stage = "out" /\ entries > 0
    /\ entries' = entries - 1
    /\ stage' = "taken"
    /\ UNCHANGED <<ring, in_global, lock_session, sent>>

(* skynet_mq_pop; the message is dropped or the callback is run on it. *)
Pop ==
    /\ stage = "taken"
    /\ IF head # tail
       THEN /\ head' = Succ(head, cap)
            /\ stage' \in {"call", "drop"}
            /\ UNCHANGED in_global
       ELSE /\ in_global' = 0
            /\ stage' = "out"
            /\ UNCHANGED head
    /\ UNCHANGED <<cap, tail, slots, lock_session, entries, sent>>

(* skynet_mq_lock where its assertions hold, and skynet_mq_unlock *)
Lock(s) ==
    /\ stage = "call" /\ lock_session = 0 /\ in_global = 1
    /\ in_global' = 2
    /\ lock_session' = s
    /\ UNCHANGED <<ring, entries, stage, sent>>

Unlock ==
    /\ stage = "call" /\ in_global = 2
    /\ lock_session' = 0
    /\ UNCHANGED <<ring, in_global, entries, stage, sent>>

PushGlobalAlways ==
    /\ stage \in {"call", "drop"}
    /\ entries' = entries + 1 /\ in_global' = 1
    /\ stage' = "out"
    /\ UNCHANGED <<ring, lock_session, sent>>

(* skynet_mq_pushglobal *)
PushGlobal ==
    /\ stage \in {"call", "drop"}
    /\ IF lock_session = 0
       THEN entries' = entries + 1 /\ in_global' = 1
       ELSE /\ in_global' = IF in_global = 2 THEN 3 ELSE in_global
            /\ UNCHANGED entries
    /\ stage' = "out"
    /\ UNCHANGED <<ring, lock_session, sent>>

Next ==
    \/ Take \/ Pop \/ Unlock \/ PushGlobal
    \/ \E s \in Session: Push(s)
    \/ \E s \in Session \ {0}: Lock(s)

Spec == Init /\ [][Next]_vars

-----------------------------------------------------------------------------
TypeOK ==
    /\ cap \in Nat \ {0} /\ head \in 0..cap-1 /\ tail \in 0..cap-1
    /\ slots \in [0..cap-1 -> Message \cup {Junk}]
    /\ in_global \in 0..3 /\ lock_session \in Session
    /\ entries \in Nat
    /\ stage \in {"out", "taken", "call", "drop"}
    /\ sent \in 0..MaxSend

(* The slots between head and tail, around the end of the array. *)
InUse(i) == IF head <= tail THEN head <= i /\ i < tail
                            ELSE head <= i \/ i < tail

(* No message that skynet_mq_pop can return was never pushed: expansion,   *)
(* which copies the whole array, and a push to the head of a full ring,    *)
(* which steps tail back over the slot they copied for nothing.            *)
NoGarbage == \A i \in 0..cap-1: InUse(i) => slots[i] \in Message

(* skynet_mq_length *)
Length == IF head <= tail THEN tail - head ELSE tail + cap - head

Content == [i \in 1..Length |-> slots[(head + i - 1) % cap]]

(* The queue goes round once: it is in the global queue or with its worker *)
(* at most once, and nowhere only if it is locked or a push will find      *)
(* in_global at 0.                                                         *)
GoesRoundOnce ==
    /\ entries + (IF stage = "out" THEN 0 ELSE 1) <= 1
    /\ entries = 0 /\ stage = "out" =>
         IF lock_session = 0 THEN in_global = 0 /\ Length = 0
                             ELSE in_global = 3

(* The ring is the mailbox of module Actor: in order, the answer to a      *)
(* locked session first, nothing lost when the array is reallocated.       *)
Mailbox == INSTANCE Actor WITH
    Ctx     <- {0},
    stage   <- [c \in {0} |-> "open"],
    mailbox <- [c \in {0} |-> Content],
    busy    <- [c \in {0} |-> stage = "call"],
    lock    <- [c \in {0} |-> lock_session]
ImplementsMailbox == Mailbox!Spec
=============================================================================
