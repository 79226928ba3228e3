------------------------------ MODULE Dispatch ------------------------------
(***************************************************************************)
(* The core of skynet: worker threads take a service's message queue from  *)
(* the global queue, run the service's callback on one message and put the *)
(* queue back; any thread may push a message to a service, launch one or   *)
(* kill one meanwhile (skynet_server.c with the states of skynet_mq.c).    *)
(*                                                                         *)
(* A section under a queue's spin lock, or a lookup under the handle       *)
(* table's read lock, is one step; everything between two of them          *)
(* interleaves.  The ring buffer inside a queue, the slots of the global   *)
(* queue and the reader-writer lock have modules of their own              *)
(* (MessageQueue, GlobalQueue, RWLock); here they are a sequence, a FIFO   *)
(* and the variable hlock.                                                 *)
(***************************************************************************)
EXTENDS Integers, Sequences, FiniteSets

CONSTANTS Ctx,         \* the contexts (services) ever created
          Worker,      \* the worker threads
          Helper,      \* the timer, socket and monitor threads
          Boot,        \* the services skynet_start launches, in order
          MonitorExit, \* the service named by command MONITOR, or None
          Harbor,      \* REMOTE, the service of skynet_harbor_start, or None
          None,        \* "no context"
          MaxSend,     \* bound: messages pushed in a behaviour
          MaxSession   \* bound: sessions a service allocates

Thread == Worker \cup Helper
Message == [source: Ctx \cup {None}, session: 0..MaxSession]

ASSUME NoneAssumption == None \notin Ctx

ASSUME DispatchAssumption ==
    /\ Worker \cap Helper = {}
    /\ MonitorExit \in {Boot[i] : i \in 1..Len(Boot)} \cup {None}
    /\ MaxSend \in Nat /\ MaxSession \in Nat
    /\ IsFiniteSet(Ctx) /\ IsFiniteSet(Worker) /\ IsFiniteSet(Helper)
    /\ Boot \in Seq(Ctx)
    /\ \A i, j \in 1..Len(Boot): Boot[i] = Boot[j] => i = j

BootSet == {Boot[i] : i \in 1..Len(Boot)}

ASSUME HarborAssumption == Harbor \in BootSet \cup {None}

VARIABLES
    \* struct skynet_context, and its slot of the handle table
    mem,          \* "none", "live" or "freed"
    slot,         \* the handle table holds the context
    ref, init, cb, session_id,
    \* struct message_queue of each context
    qmem, queue, in_global, lock_session, release,
    gq,           \* the global queue
    hlock,        \* the thread that holds the handle table's write lock
    total,        \* G_NODE.total
    \* where each worker is in skynet_context_message_dispatch
    pc, cur, msg,
    \* where each worker is in skynet_context_new, and for which context
    npc, newc,
    kill,         \* the context a worker is killing in handle_exit
    \* where each thread is in skynet_context_push, for which context and message
    ppc, dst, out,
    del,          \* the context whose last reference the thread gave up
    sent          \* messages pushed so far

ctxVars   == <<mem, slot, ref, init, cb, session_id>>
queueVars == <<qmem, queue, in_global, lock_session, release>>
dispVars  == <<pc, cur, msg>>
newVars   == <<npc, newc>>
pushVars  == <<ppc, dst, out>>
vars == <<ctxVars, queueVars, gq, hlock, total, dispVars, newVars, kill,
          pushVars, del, sent>>

NoMessage == [source |-> None, session |-> 0]

(* The state in which skynet_start calls _start: the boot services are     *)
(* launched, each holds the reference of its slot and its queue is in the  *)
(* global queue.                                                           *)
Init ==
    /\ mem = [c \in Ctx |-> IF c \in BootSet THEN "live" ELSE "none"]
    /\ slot = [c \in Ctx |-> c \in BootSet]
    /\ ref = [c \in Ctx |-> IF c \in BootSet THEN 1 ELSE 0]
    /\ init = [c \in Ctx |-> c \in BootSet]
    /\ cb = [c \in Ctx |-> c \in BootSet]
    /\ session_id = [c \in Ctx |-> 0]
    /\ qmem = [c \in Ctx |-> IF c \in BootSet THEN "live" ELSE "none"]
    /\ queue = [c \in Ctx |-> <<>>]
    /\ in_global = [c \in Ctx |-> IF c \in BootSet THEN 1 ELSE 0]
    /\ lock_session = [c \in Ctx |-> 0]
    /\ release = [c \in Ctx |-> 0]
    /\ gq = Boot
    /\ hlock = None
    /\ total = Cardinality(BootSet)
    /\ pc = [w \in Worker |-> "idle"]
    /\ cur = [w \in Worker |-> None]
    /\ msg = [w \in Worker |-> NoMessage]
    /\ npc = [w \in Worker |-> "none"]
    /\ newc = [w \in Worker |-> None]
    /\ kill = [w \in Worker |-> None]
    /\ ppc = [t \in Thread |-> "none"]
    /\ dst = [t \in Thread |-> None]
    /\ out = [t \in Thread |-> NoMessage]
    /\ del = [t \in Thread |-> None]
    /\ sent = 0

-----------------------------------------------------------------------------
(* Steps shared by the operations below. *)

(* A thread that is in none of the calls made from within an operation. *)
Calm(t) == ppc[t] = "none" /\ del[t] = None

(* The worker's own frame may go on: calls it made have returned. *)
Returned(w) == Calm(w) /\ kill[w] = None

InDispatch(w) == npc[w] = "none" /\ Returned(w)

(* skynet_context_release: the thread that drops the last reference goes   *)
(* on to delete the context.                                               *)
DropRef(t, c) ==
    /\ ref' = [ref EXCEPT ![c] = @ - 1]
    /\ del' = IF ref[c] = 1 THEN [del EXCEPT ![t] = c] ELSE del

GrabUncounted(c) == hlock = None /\ slot[c] /\ UNCHANGED ref

(* skynet_handle_grab: fails when the handle is retired. *)
Grab(c) ==
    /\ hlock = None /\ slot[c]
    /\ ref' = [ref EXCEPT ![c] = @ + 1]

(* skynet_handle_retire: the write lock is held until the context is       *)
(* deleted, when the table had the last reference.                         *)
Retire(t, c) ==
    /\ hlock = None
    /\ IF slot[c]
       THEN /\ slot' = [slot EXCEPT ![c] = FALSE]
            /\ DropRef(t, c)
            /\ hlock' = IF ref[c] = 1 THEN t ELSE None
       ELSE UNCHANGED <<slot, ref, del, hlock>>

(* Is m the message for which the queue of c is locked? *)
Answers(c, m) == lock_session[c] # 0 /\ m.session = lock_session[c]

WakesAlways(c, m) == lock_session[c] = 0 \/ Answers(c, m)
WakesNever(c, m) == FALSE
WakesOnlyWhenOut(c, m) == lock_session[c] = 0 /\ in_global[c] = 0

(* Does a push of m put the queue into the global queue?  (_unlock, and    *)
(* the end of skynet_mq_push.)                                             *)
Wakes(c, m) ==
    IF Answers(c, m) THEN in_global[c] = 3
                     ELSE lock_session[c] = 0 /\ in_global[c] = 0

EnqueueLast(c, m) == queue' = [queue EXCEPT ![c] = Append(@, m)]

(* _pushhead, or the store at the tail. *)
Enqueue(c, m) ==
    queue' = [queue EXCEPT ![c] = IF Answers(c, m) THEN <<m>> \o @ ELSE Append(@, m)]

(* skynet_mq_push on the queue of c. *)
MqPushTo(c, m) ==
    /\ Enqueue(c, m)
    /\ lock_session' = IF Answers(c, m) THEN [lock_session EXCEPT ![c] = 0]
                                        ELSE lock_session
    /\ IF Wakes(c, m)
       THEN /\ gq' = Append(gq, c)
            /\ in_global' = [in_global EXCEPT ![c] = 1]
       ELSE UNCHANGED <<gq, in_global>>

MqCreateOut(c) ==
    /\ qmem' = [qmem EXCEPT ![c] = "live"]
    /\ in_global' = [in_global EXCEPT ![c] = 0]

(* skynet_mq_create: "in the global queue", so that no push puts it there. *)
MqCreate(c) ==
    /\ qmem' = [qmem EXCEPT ![c] = "live"]
    /\ in_global' = [in_global EXCEPT ![c] = 1]

MqMarkQuietly(c) ==
    /\ release' = [release EXCEPT ![c] = 1]
    /\ UNCHANGED gq

(* skynet_mq_mark_release *)
MqMarkRelease(c) ==
    /\ release' = [release EXCEPT ![c] = 1]
    /\ gq' = IF in_global[c] # 1 THEN Append(gq, c) ELSE gq

MqLockSessionOnly(c, s) ==
    /\ lock_session' = [lock_session EXCEPT ![c] = s]
    /\ UNCHANGED in_global

(* skynet_mq_lock, where its assertions hold. *)
MqLock(c, s) ==
    /\ lock_session[c] = 0 /\ in_global[c] = 1
    /\ lock_session' = [lock_session EXCEPT ![c] = s]
    /\ in_global' = [in_global EXCEPT ![c] = 2]

ContextIncLost == UNCHANGED total

(* _context_inc *)
ContextInc == total' = total + 1

(* skynet_mq_release: frees a queue that is marked, or puts it back. *)
MqReleaseOf(c) ==
    IF release[c] = 1
    THEN /\ qmem' = [qmem EXCEPT ![c] = "freed"]
         /\ queue' = [queue EXCEPT ![c] = <<>>]
         /\ in_global' = [in_global EXCEPT ![c] = 0]
         /\ UNCHANGED gq
    ELSE /\ gq' = Append(gq, c)
         /\ UNCHANGED <<qmem, queue, in_global>>

-----------------------------------------------------------------------------
(* skynet_context_message_dispatch, one action per step of the worker. *)

Pop(w) ==
    /\ InDispatch(w) /\ pc[w] = "idle" /\ gq # <<>>
    /\ gq' = Tail(gq)
    /\ pc' = [pc EXCEPT ![w] = "popped"]
    /\ cur' = [cur EXCEPT ![w] = Head(gq)]
    /\ UNCHANGED <<ctxVars, queueVars, hlock, total, msg, newVars, kill,
                   pushVars, del, sent>>

(* skynet_globalmq_pop returns NULL. *)
PopNone(w) ==
    /\ InDispatch(w) /\ pc[w] = "idle" /\ gq = <<>>
    /\ pc' = [pc EXCEPT ![w] = "empty"]
    /\ UNCHANGED <<ctxVars, queueVars, gq, hlock, total, cur, msg, newVars,
                   kill, pushVars, del, sent>>

(* CHECK_ABORT, some time later: the worker leaves, or sleeps (see Start)  *)
(* and comes back.                                                         *)
CheckAbort(w) ==
    /\ InDispatch(w) /\ pc[w] = "empty"
    /\ pc' = [pc EXCEPT ![w] = IF total = 0 THEN "done" ELSE "idle"]
    /\ UNCHANGED <<ctxVars, queueVars, gq, hlock, total, cur, msg, newVars,
                   kill, pushVars, del, sent>>

GrabCurrent(w) ==
    /\ InDispatch(w) /\ pc[w] = "popped"
    /\ \/ /\ Grab(cur[w])
          /\ pc' = [pc EXCEPT ![w] = "grabbed"]
       \/ /\ hlock = None /\ ~slot[cur[w]]
          /\ pc' = [pc EXCEPT ![w] = "orphan"]
          /\ UNCHANGED ref
    /\ UNCHANGED <<mem, slot, init, cb, session_id, queueVars, gq, hlock,
                   total, cur, msg, newVars, kill, pushVars, del, sent>>

(* The context is gone: free its queue if it is marked for release. *)
MqRelease(w) ==
    /\ InDispatch(w) /\ pc[w] = "orphan"
    /\ MqReleaseOf(cur[w])
    /\ pc' = [pc EXCEPT ![w] = "idle"]
    /\ cur' = [cur EXCEPT ![w] = None]
    /\ UNCHANGED <<ctxVars, lock_session, release, hlock, total, msg, newVars,
                   kill, pushVars, del, sent>>

(* skynet_mq_pop, and the test of ctx->cb. *)
MqPop(w) ==
    /\ InDispatch(w) /\ pc[w] = "grabbed"
    /\ LET c == cur[w] IN
       IF queue[c] = <<>>
       THEN /\ in_global' = [in_global EXCEPT ![c] = 0]
            /\ pc' = [pc EXCEPT ![w] = "unref"]
            /\ UNCHANGED <<queue, msg>>
       ELSE /\ queue' = [queue EXCEPT ![c] = Tail(@)]
            /\ UNCHANGED in_global
            /\ IF cb[c]
               THEN /\ pc' = [pc EXCEPT ![w] = "call"]
                    /\ msg' = [msg EXCEPT ![w] = Head(queue[c])]
               ELSE /\ pc' = [pc EXCEPT ![w] = "back"]
                    /\ UNCHANGED msg
    /\ UNCHANGED <<ctxVars, qmem, lock_session, release, gq, hlock, total, cur,
                   newVars, kill, pushVars, del, sent>>

(* The callback returns. *)
Return(w) ==
    /\ InDispatch(w) /\ pc[w] = "call"
    /\ pc' = [pc EXCEPT ![w] = "back"]
    /\ msg' = [msg EXCEPT ![w] = NoMessage]
    /\ UNCHANGED <<ctxVars, queueVars, gq, hlock, total, cur, newVars, kill,
                   pushVars, del, sent>>

(* skynet_mq_pushglobal: the queue goes back unless its session is locked. *)
PushGlobal(w) ==
    /\ InDispatch(w) /\ pc[w] = "back"
    /\ LET c == cur[w] IN
       IF lock_session[c] = 0
       THEN /\ gq' = Append(gq, c)
            /\ in_global' = [in_global EXCEPT ![c] = 1]
       ELSE /\ in_global' = [in_global EXCEPT ![c] = IF @ = 2 THEN 3 ELSE @]
            /\ UNCHANGED gq
    /\ pc' = [pc EXCEPT ![w] = "unref"]
    /\ UNCHANGED <<ctxVars, qmem, queue, lock_session, release, hlock, total,
                   cur, msg, newVars, kill, pushVars, del, sent>>

UnrefKeepsQueue(w) ==
    /\ InDispatch(w) /\ pc[w] = "unref"
    /\ DropRef(w, cur[w])
    /\ pc' = [pc EXCEPT ![w] = "idle"]
    /\ UNCHANGED <<mem, slot, init, cb, session_id, queueVars, gq, hlock,
                   total, cur, msg, newVars, kill, pushVars, sent>>

Unref(w) ==
    /\ InDispatch(w) /\ pc[w] = "unref"
    /\ DropRef(w, cur[w])
    /\ pc' = [pc EXCEPT ![w] = "idle"]
    /\ cur' = [cur EXCEPT ![w] = None]
    /\ UNCHANGED <<mem, slot, init, cb, session_id, queueVars, gq, hlock,
                   total, msg, newVars, kill, pushVars, sent>>

-----------------------------------------------------------------------------
(* The end of skynet_context_push, by any thread, and the deletion of a    *)
(* context by the thread that dropped its last reference.                  *)

MqPush(t) ==
    /\ ppc[t] = "push"
    /\ MqPushTo(dst[t], out[t])
    /\ ppc' = [ppc EXCEPT ![t] = "release"]
    /\ UNCHANGED <<ctxVars, qmem, release, hlock, total, dispVars, newVars,
                   kill, dst, out, del, sent>>

PushRelease(t) ==
    /\ ppc[t] = "release"
    /\ DropRef(t, dst[t])
    /\ ppc' = [ppc EXCEPT ![t] = "none"]
    /\ dst' = [dst EXCEPT ![t] = None]
    /\ out' = [out EXCEPT ![t] = NoMessage]
    /\ UNCHANGED <<mem, slot, init, cb, session_id, queueVars, gq, hlock,
                   total, dispVars, newVars, kill, sent>>

(* _delete_context up to skynet_mq_mark_release. *)
MarkRelease(t) ==
    /\ del[t] # None /\ release[del[t]] = 0
    /\ MqMarkRelease(del[t])
    /\ UNCHANGED <<ctxVars, qmem, queue, in_global, lock_session, hlock, total,
                   dispVars, newVars, kill, pushVars, del, sent>>

(* The rest of _delete_context; a skynet_handle_retire that led to it      *)
(* returns and gives up the write lock.                                    *)
FreeContext(t) ==
    /\ del[t] # None /\ release[del[t]] = 1
    /\ mem' = [mem EXCEPT ![del[t]] = "freed"]
    /\ total' = total - 1
    /\ del' = [del EXCEPT ![t] = None]
    /\ hlock' = IF hlock = t THEN None ELSE hlock
    /\ UNCHANGED <<slot, ref, init, cb, session_id, queueVars, gq, dispVars,
                   newVars, kill, pushVars, sent>>

-----------------------------------------------------------------------------
(* skynet_context_new, from a callback that executes LAUNCH. *)

Launch(w) ==
    /\ InDispatch(w) /\ pc[w] = "call" /\ hlock = None
    /\ \E c \in Ctx:
       /\ mem[c] = "none"
       /\ mem' = [mem EXCEPT ![c] = "live"]
       /\ slot' = [slot EXCEPT ![c] = TRUE]
       /\ ref' = [ref EXCEPT ![c] = 2]
       /\ newc' = [newc EXCEPT ![w] = c]
    /\ npc' = [npc EXCEPT ![w] = "registered"]
    /\ UNCHANGED <<init, cb, session_id, queueVars, gq, hlock, total, dispVars,
                   kill, pushVars, del, sent>>

(* skynet_mq_create, _context_inc and the call of the module's init. *)
MakeQueue(w) ==
    /\ npc[w] = "registered"
    /\ MqCreate(newc[w])
    /\ ContextInc
    /\ npc' = [npc EXCEPT ![w] = "init"]
    /\ UNCHANGED <<ctxVars, queue, lock_session, release, gq, hlock, dispVars,
                   newc, kill, pushVars, del, sent>>

(* init returned 0: give up the launcher's reference. *)
InitOk(w) ==
    /\ npc[w] = "init" /\ Returned(w)
    /\ DropRef(w, newc[w])
    /\ npc' = [npc EXCEPT ![w] = IF ref[newc[w]] = 1 THEN "force" ELSE "ok"]
    /\ UNCHANGED <<mem, slot, init, cb, session_id, queueVars, gq, hlock,
                   total, dispVars, newc, kill, pushVars, sent>>

SetInit(w) ==
    /\ npc[w] = "ok"
    /\ init' = [init EXCEPT ![newc[w]] = TRUE]
    /\ npc' = [npc EXCEPT ![w] = "force"]
    /\ UNCHANGED <<mem, slot, ref, cb, session_id, queueVars, gq, hlock, total,
                   dispVars, newc, kill, pushVars, del, sent>>

ForcePush(w) ==
    /\ npc[w] = "force" /\ Returned(w)
    /\ gq' = Append(gq, newc[w])
    /\ npc' = [npc EXCEPT ![w] = "none"]
    /\ newc' = [newc EXCEPT ![w] = None]
    /\ UNCHANGED <<ctxVars, queueVars, hlock, total, dispVars, kill, pushVars,
                   del, sent>>

(* init failed: release, retire the handle, release the queue. *)
InitFail(w) ==
    /\ npc[w] = "init" /\ Returned(w)
    /\ DropRef(w, newc[w])
    /\ npc' = [npc EXCEPT ![w] = "retire"]
    /\ UNCHANGED <<mem, slot, init, cb, session_id, queueVars, gq, hlock,
                   total, dispVars, newc, kill, pushVars, sent>>

FailRetire(w) ==
    /\ npc[w] = "retire" /\ Returned(w)
    /\ Retire(w, newc[w])
    /\ npc' = [npc EXCEPT ![w] = "mqrelease"]
    /\ UNCHANGED <<mem, init, cb, session_id, queueVars, gq, total, dispVars,
                   newc, kill, pushVars, sent>>

FailRelease(w) ==
    /\ npc[w] = "mqrelease" /\ Returned(w)
    /\ MqReleaseOf(newc[w])
    /\ npc' = [npc EXCEPT ![w] = "none"]
    /\ newc' = [newc EXCEPT ![w] = None]
    /\ UNCHANGED <<ctxVars, lock_session, release, hlock, total, dispVars,
                   kill, pushVars, del, sent>>

-----------------------------------------------------------------------------
(* What the code of a service does, in its callback or its init. *)

UserCode(w) ==
    /\ Returned(w)
    /\ \/ npc[w] = "init"
       \/ npc[w] = "none" /\ pc[w] = "call"

Self(w) == IF npc[w] = "init" THEN newc[w] ELSE cur[w]

(* The handles that can be known: launching has got as far as the queue. *)
Known == {c \in Ctx : qmem[c] # "none"}

(* The start of skynet_context_push: a push to a retired handle fails. *)
PushStart(t, c, m) ==
    /\ c \in Known
    /\ \/ /\ Grab(c)
          /\ ppc' = [ppc EXCEPT ![t] = "push"]
          /\ dst' = [dst EXCEPT ![t] = c]
          /\ out' = [out EXCEPT ![t] = m]
       \/ /\ hlock = None /\ ~slot[c]
          /\ UNCHANGED <<ref, ppc, dst, out>>
    /\ sent < MaxSend
    /\ sent' = sent + 1

(* skynet_send without a session. *)
Send(w) ==
    /\ UserCode(w)
    /\ \E c \in Ctx: PushStart(w, c, [source |-> Self(w), session |-> 0])
    /\ UNCHANGED <<mem, slot, init, cb, session_id, queueVars, gq, hlock,
                   total, dispVars, newVars, kill, del>>

(* skynet_send that allocates a session for the answer. *)
Call(w) ==
    /\ UserCode(w)
    /\ LET s == session_id[Self(w)] + 1 IN
       /\ s <= MaxSession
       /\ session_id' = [session_id EXCEPT ![Self(w)] = s]
       /\ \E c \in Ctx: PushStart(w, c, [source |-> Self(w), session |-> s])
    /\ UNCHANGED <<mem, slot, init, cb, queueVars, gq, hlock, total, dispVars,
                   newVars, kill, del>>

(* skynet_send of the answer to the message being handled. *)
Reply(w) ==
    /\ UserCode(w) /\ npc[w] = "none"
    /\ msg[w].source # None /\ msg[w].session # 0
    /\ PushStart(w, msg[w].source,
                 [source |-> Self(w), session |-> msg[w].session])
    /\ UNCHANGED <<mem, slot, init, cb, session_id, queueVars, gq, hlock,
                   total, dispVars, newVars, kill, del>>

(* skynet_context_send: the message goes straight to the harbor's queue,   *)
(* through REMOTE, which is no reference and asks the handle table nothing.*)
PushToHarbor(w, m) ==
    /\ Harbor # None
    /\ sent < MaxSend
    /\ sent' = sent + 1
    /\ MqPushTo(Harbor, m)
    /\ UNCHANGED <<mem, slot, ref, init, cb, qmem, release, hlock, total,
                   dispVars, newVars, kill, pushVars, del>>

(* skynet_harbor_send, of a message or an answer for another node.         *)
SendRemote(w) ==
    /\ UserCode(w)
    /\ \E s \in {0, msg[w].session}:
           PushToHarbor(w, [source |-> Self(w), session |-> s])
    /\ UNCHANGED session_id

(* The same with a session allocated by _filter_args.                      *)
CallRemote(w) ==
    /\ UserCode(w)
    /\ LET s == session_id[Self(w)] + 1 IN
       /\ s <= MaxSession
       /\ PushToHarbor(w, [source |-> Self(w), session |-> s])
       /\ session_id' = [session_id EXCEPT ![Self(w)] = s]

(* skynet_harbor_register: a global name, from nobody.                     *)
Register(w) ==
    UserCode(w) /\ PushToHarbor(w, NoMessage) /\ UNCHANGED session_id

(* A time-out or a socket event, pushed by a thread that runs no service. *)
HelperPush(t) ==
    /\ Calm(t)
    /\ \E c \in Ctx: \E s \in 0..session_id[c]:
           PushStart(t, c, [source |-> None, session |-> s])
    /\ UNCHANGED <<mem, slot, init, cb, session_id, queueVars, gq, hlock,
                   total, dispVars, newVars, kill, del>>

(* skynet_context_endless, by the monitor thread. *)
Endless(t) ==
    /\ Calm(t)
    /\ \E c \in Known:
       /\ Grab(c)
       /\ dst' = [dst EXCEPT ![t] = c]
    /\ ppc' = [ppc EXCEPT ![t] = "release"]
    /\ UNCHANGED <<mem, slot, init, cb, session_id, queueVars, gq, hlock,
                   total, dispVars, newVars, kill, out, del, sent>>

(* handle_exit, for KILL and EXIT: tell the monitor service, then retire.  *)
(* The harbor's service is never retired (nothing in the code says so, but *)
(* REMOTE would dangle): an assumption on the services.                    *)
Kill(w) ==
    /\ UserCode(w)
    /\ \E c \in Known \ {Harbor}:
       /\ kill' = [kill EXCEPT ![w] = c]
       /\ IF MonitorExit = None
          THEN UNCHANGED <<ref, pushVars, sent>>
          ELSE PushStart(w, MonitorExit, [source |-> c, session |-> 0])
    /\ UNCHANGED <<mem, slot, init, cb, session_id, queueVars, gq, hlock,
                   total, dispVars, newVars, del>>

KillRetire(w) ==
    /\ kill[w] # None /\ Calm(w)
    /\ Retire(w, kill[w])
    /\ kill' = [kill EXCEPT ![w] = None]
    /\ UNCHANGED <<mem, init, cb, session_id, queueVars, gq, total, dispVars,
                   newVars, pushVars, sent>>

(* skynet_callback. *)
SetCallback(w) ==
    /\ UserCode(w) /\ ~cb[Self(w)]
    /\ cb' = [cb EXCEPT ![Self(w)] = TRUE]
    /\ UNCHANGED <<mem, slot, ref, init, session_id, queueVars, gq, hlock,
                   total, dispVars, newVars, kill, pushVars, del, sent>>

(* LOCK and UNLOCK; in init they do nothing. *)
Lock(w) ==
    /\ UserCode(w) /\ npc[w] = "none" /\ init[cur[w]]
    /\ session_id[cur[w]] < MaxSession
    /\ MqLock(cur[w], session_id[cur[w]] + 1)
    /\ UNCHANGED <<ctxVars, qmem, queue, release, gq, hlock, total, dispVars,
                   newVars, kill, pushVars, del, sent>>

Unlock(w) ==
    /\ UserCode(w) /\ npc[w] = "none" /\ init[cur[w]]
    /\ in_global[cur[w]] = 2
    /\ lock_session' = [lock_session EXCEPT ![cur[w]] = 0]
    /\ UNCHANGED <<ctxVars, qmem, queue, in_global, release, gq, hlock, total,
                   dispVars, newVars, kill, pushVars, del, sent>>

-----------------------------------------------------------------------------
(* What a thread does without the leave of a service's code. *)
CallStep(t) == MqPush(t) \/ PushRelease(t) \/ MarkRelease(t) \/ FreeContext(t)

WorkerStep(w) ==
    \/ Pop(w) \/ PopNone(w) \/ CheckAbort(w) \/ GrabCurrent(w) \/ MqRelease(w) \/ MqPop(w)
    \/ Return(w) \/ PushGlobal(w) \/ Unref(w)
    \/ MakeQueue(w) \/ InitOk(w) \/ SetInit(w) \/ ForcePush(w)
    \/ InitFail(w) \/ FailRetire(w) \/ FailRelease(w) \/ KillRetire(w)

UserStep(w) ==
    \/ Launch(w) \/ Send(w) \/ Call(w) \/ Reply(w) \/ Kill(w)
    \/ SetCallback(w) \/ Lock(w) \/ Unlock(w)
    \/ SendRemote(w) \/ CallRemote(w) \/ Register(w)

Next ==
    \/ \E t \in Thread: CallStep(t)
    \/ \E w \in Worker: WorkerStep(w) \/ UserStep(w)
    \/ \E t \in Helper: HelperPush(t) \/ Endless(t)

Spec == Init /\ [][Next]_vars

(* Threads keep running; the code of a service ends after finitely many    *)
(* calls, so a service that could return again and again does.             *)
CodeEnds(w) == Return(w) \/ InitOk(w) \/ InitFail(w)

Fairness ==
    /\ \A t \in Thread: WF_vars(CallStep(t))
    /\ \A w \in Worker: WF_vars(WorkerStep(w)) /\ SF_vars(CodeEnds(w))

FairSpec == Spec /\ Fairness

-----------------------------------------------------------------------------
ContextType ==
    /\ mem \in [Ctx -> {"none", "live", "freed"}]
    /\ slot \in [Ctx -> BOOLEAN]
    /\ ref \in [Ctx -> Int]
    /\ init \in [Ctx -> BOOLEAN]
    /\ cb \in [Ctx -> BOOLEAN]
    /\ session_id \in [Ctx -> 0..MaxSession]

QueueType ==
    /\ qmem \in [Ctx -> {"none", "live", "freed"}]
    /\ queue \in [Ctx -> Seq(Message)]
    /\ in_global \in [Ctx -> 0..3]
    /\ lock_session \in [Ctx -> 0..MaxSession]
    /\ release \in [Ctx -> {0, 1}]

GlobalType ==
    /\ gq \in Seq(Ctx)
    /\ hlock \in Thread \cup {None}
    /\ total \in Int
    /\ sent \in 0..MaxSend

(* A frame names a context exactly while it is at work on one. *)
WorkerType ==
    /\ pc \in [Worker -> {"idle", "empty", "popped", "grabbed", "orphan", "call",
                          "back", "unref", "done"}]
    /\ cur \in [Worker -> Ctx \cup {None}]
    /\ msg \in [Worker -> Message]
    /\ npc \in [Worker -> {"none", "registered", "init", "ok", "force",
                           "retire", "mqrelease"}]
    /\ newc \in [Worker -> Ctx \cup {None}]
    /\ kill \in [Worker -> Ctx \cup {None}]
    /\ \A w \in Worker:
         /\ cur[w] = None <=> pc[w] \in {"idle", "empty", "done"}
         /\ newc[w] = None <=> npc[w] = "none"
         /\ npc[w] # "none" => pc[w] = "call"
         /\ kill[w] # None => pc[w] = "call" /\ npc[w] \in {"none", "init"}

ThreadType ==
    /\ ppc \in [Thread -> {"none", "push", "release"}]
    /\ dst \in [Thread -> Ctx \cup {None}]
    /\ out \in [Thread -> Message]
    /\ del \in [Thread -> Ctx \cup {None}]
    /\ \A t \in Thread: dst[t] = None <=> ppc[t] = "none"

TypeOK == ContextType /\ QueueType /\ GlobalType /\ WorkerType /\ ThreadType

(* The references to context c: the one of the handle table, and those of  *)
(* the frames that use the context.                                        *)
Token == {"table", "dispatch", "launch", "push"} \X (Thread \cup {None})

DispatchRef(w, c) == cur[w] = c /\ pc[w] \in {"grabbed", "call", "back", "unref"}
LaunchRef(w, c) == newc[w] = c /\ npc[w] \in {"registered", "init"}
PushRef(t, c) == dst[t] = c /\ ppc[t] # "none"

Refs(c) ==
    {r \in Token :
        \/ r[1] = "table" /\ r[2] = None /\ slot[c]
        \/ r[1] = "dispatch" /\ r[2] \in Worker /\ DispatchRef(r[2], c)
        \/ r[1] = "launch" /\ r[2] \in Worker /\ LaunchRef(r[2], c)
        \/ r[1] = "push" /\ r[2] \in Thread /\ PushRef(r[2], c)}

(* The count of skynet_context_grab and _release is exact, whatever the    *)
(* order of the threads: a context whose last reference is gone is being   *)
(* deleted, by one thread.                                                 *)
RefCount ==
    /\ \A c \in Ctx: ref[c] = Cardinality(Refs(c))
    /\ \A c \in Ctx: mem[c] = "live" /\ ref[c] = 0 <=> \E t \in Thread: del[t] = c
    /\ \A t, u \in Thread: del[t] = del[u] /\ del[t] # None => t = u

(* A frame that holds a reference never meets a context or a queue that    *)
(* was freed, nor does a worker that took a queue and found no context,    *)
(* and the queue that a launcher forces into the global queue, or          *)
(* releases, is there, though its context may be gone.  (What the launcher *)
(* does with that context then, skynet_server.c:148-154 and 158, is not    *)
(* covered: it may be freed.)                                              *)
NoUseAfterFree ==
    /\ \A c \in Ctx: Refs(c) # {} => mem[c] = "live"
    /\ \A w \in Worker:
         /\ cur[w] # None => qmem[cur[w]] = "live"
         /\ npc[w] \notin {"none", "registered"} => qmem[newc[w]] = "live"
    /\ \A t \in Thread: dst[t] # None => qmem[dst[t]] = "live"

(* The queues a worker has to put back: the one it dispatches, and the one *)
(* of the service it launches.                                             *)
Dispatches(w) ==
    {c \in Ctx : cur[w] = c /\ pc[w] \in {"popped", "orphan", "grabbed", "call", "back"}}
Launches(w) ==
    {c \in Ctx : newc[w] = c /\ npc[w] \notin {"none", "registered"}}
Holds(w) == Dispatches(w) \cup Launches(w)

Queued == {gq[i] : i \in DOMAIN gq}
Owned(c) == c \in Queued \/ \E w \in Worker: c \in Holds(w)

(* The services whose code a worker runs: callback or init. *)
Running(w) ==
    {c \in Ctx : \/ cur[w] = c /\ pc[w] = "call"
                 \/ newc[w] = c /\ npc[w] = "init"}

(* A queue is in the global queue once, or with one worker, or nowhere:    *)
(* the pushes of skynet_mq_push, _pushglobal, _mark_release, _release and  *)
(* _force_push never put it in twice, however they interleave.  So no two  *)
(* workers ever run the code of one service (CHECKCALLING_BEGIN).          *)
SingleOwner ==
    /\ \A v, w \in Worker: v # w => Running(v) \cap Running(w) = {}
    /\ \A i, j \in DOMAIN gq: gq[i] = gq[j] => i = j
    /\ \A w \in Worker: Holds(w) \cap Queued = {} /\ Dispatches(w) \cap Launches(w) = {}
    /\ \A v, w \in Worker: v # w => Holds(v) \cap Holds(w) = {}

(* No wakeup is lost: a queue that has messages and is not locked, or that *)
(* waits to be released, is in the global queue or with a thread that will *)
(* look at it again.                                                       *)
NoLostWakeup ==
    \A c \in Ctx:
       /\ qmem[c] = "live"
       /\ \/ release[c] = 1
          \/ queue[c] # <<>> /\ lock_session[c] = 0
       => Owned(c)

(* The assertions of the code: ctx->init in _dispatch_message, in_global   *)
(* in skynet_mq_pushglobal and _force_push, the else branch of _unlock     *)
(* when a push ends a lock, release == 0 in skynet_mq_mark_release.        *)
Assertions ==
    /\ \A w \in Worker:
         /\ pc[w] = "call" => init[cur[w]]
         /\ pc[w] = "back" => in_global[cur[w]] # 0
         /\ pc[w] = "orphan" /\ release[cur[w]] = 0 => in_global[cur[w]] # 0
         /\ npc[w] \in {"force", "mqrelease"} => in_global[newc[w]] # 0
    /\ \A c \in Ctx: qmem[c] = "live" /\ lock_session[c] # 0 => in_global[c] \in {2, 3}
    /\ \A t \in Thread: del[t] # None => mem[del[t]] = "live"

(* A worker leaves only when no service is alive nor will be again, not    *)
(* even one that is being launched: whoever is left has no code to run.    *)
(* Between its look at the global queue and its look at the total another  *)
(* thread may have ended the last services, so queues may stay behind;     *)
(* they are those of ended services, marked for release, and no thread     *)
(* that goes on has one.                                                   *)
CleanExit ==
    /\ total = 0 =>
         \A c \in Ctx: mem[c] # "live" /\ (qmem[c] = "live" => release[c] = 1)
    /\ \A w \in Worker: pc[w] = "done" => total = 0
    /\ (\A w \in Worker: pc[w] = "done") =>
         \A c \in Ctx: qmem[c] = "live" /\ release[c] = 1 => c \in Queued

(* While a service is alive, every message to an unlocked service is taken *)
(* from its queue.  (At the end a worker may leave without a last look.)   *)
Drained == \A c \in Ctx: []<>(queue[c] = <<>> \/ lock_session[c] # 0 \/ total = 0)

(* A retired service is deleted, and its queue freed unless it was among   *)
(* the last.                                                               *)
Reclaimed ==
    \A c \in Ctx:
       (qmem[c] = "live" /\ ~slot[c]) ~>
          (mem[c] = "freed" /\ (qmem[c] = "freed" \/ total = 0))

-----------------------------------------------------------------------------
(* Dispatch implements Actor. *)
Stage(c) == IF qmem[c] = "none" THEN "unborn"
            ELSE IF release[c] = 1 THEN "closed" ELSE "open"

Actors == INSTANCE Actor WITH
    Session <- 0..MaxSession,
    stage   <- [c \in Ctx |-> Stage(c)],
    mailbox <- queue,
    busy    <- [c \in Ctx |-> \E w \in Worker: c \in Running(w)],
    lock    <- lock_session

(* One message at a time, in order, nothing while locked, no message lost  *)
(* while the service lives: the promise of module Actor.                   *)
ImplementsActor == Actors!Spec
=============================================================================
