--------------------------- MODULE DispatchProofs ---------------------------
(***************************************************************************)
(* Theorems about Dispatch, for every set of services and threads.  The    *)
(* first half has the types, the invariant of the references, and what the *)
(* owner of each queue and the exit of the workers rest on; the second     *)
(* what follows: references are counted exactly and nothing is freed while *)
(* it is used, a queue has one owner, no wake-up is lost, the assertions   *)
(* of the code hold, a worker that leaves leaves nothing behind; and       *)
(* Dispatch implements Actor.                                              *)
(***************************************************************************)
EXTENDS Dispatch, SequenceTheorems, FiniteSetTheorems, TLAPS

USE DEF ctxVars, queueVars, dispVars, newVars, pushVars

LEMMA MqPushToType ==
    ASSUME TypeOK, NEW c \in Ctx, NEW m \in Message, MqPushTo(c, m)
    PROVE  /\ queue' \in [Ctx -> Seq(Message)]
           /\ lock_session' \in [Ctx -> 0..MaxSession]
           /\ in_global' \in [Ctx -> 0..3]
           /\ gq' \in Seq(Ctx)
<1>1. /\ queue \in [Ctx -> Seq(Message)]
      /\ lock_session \in [Ctx -> 0..MaxSession]
      /\ in_global \in [Ctx -> 0..3]
      /\ gq \in Seq(Ctx) /\ Append(gq, c) \in Seq(Ctx)
  BY DEF TypeOK, QueueType, GlobalType
<1>2. <<m>> \o queue[c] \in Seq(Message) /\ Append(queue[c], m) \in Seq(Message)
  BY <1>1
<1>3. 0 \in 0..MaxSession /\ 1 \in 0..3
  BY DispatchAssumption
<1>4. queue' = [queue EXCEPT ![c] = <<m>> \o queue[c]]
      \/ queue' = [queue EXCEPT ![c] = Append(queue[c], m)]
  BY DEF MqPushTo, Enqueue
<1>5. lock_session' = lock_session \/ lock_session' = [lock_session EXCEPT ![c] = 0]
  BY DEF MqPushTo
<1>6. \/ gq' = gq /\ in_global' = in_global
      \/ gq' = Append(gq, c) /\ in_global' = [in_global EXCEPT ![c] = 1]
  BY DEF MqPushTo
<1>7. queue' \in [Ctx -> Seq(Message)]
  BY <1>1, <1>2, <1>4
<1> QED BY <1>1, <1>3, <1>5, <1>6, <1>7

LEMMA MqReleaseType ==
    ASSUME TypeOK, NEW c \in Ctx, MqReleaseOf(c)
    PROVE  /\ qmem' \in [Ctx -> {"none", "live", "freed"}]
           /\ queue' \in [Ctx -> Seq(Message)]
           /\ in_global' \in [Ctx -> 0..3]
           /\ gq' \in Seq(Ctx)
<1>1. /\ qmem \in [Ctx -> {"none", "live", "freed"}]
      /\ queue \in [Ctx -> Seq(Message)]
      /\ in_global \in [Ctx -> 0..3]
      /\ gq \in Seq(Ctx)
  BY DEF TypeOK, QueueType, GlobalType
<1>2. Append(gq, c) \in Seq(Ctx) /\ <<>> \in Seq(Message) /\ 0 \in 0..3
  BY <1>1
<1> QED BY <1>1, <1>2 DEF MqReleaseOf

LEMMA DropRefType ==
    ASSUME TypeOK, NEW t \in Thread, NEW c \in Ctx, DropRef(t, c)
    PROVE  /\ ref' \in [Ctx -> Int]
           /\ del' \in [Thread -> Ctx \cup {None}]
BY DEF DropRef, TypeOK, ContextType, ThreadType

LEMMA RetireType ==
    ASSUME TypeOK, NEW t \in Thread, NEW c \in Ctx, Retire(t, c)
    PROVE  /\ slot' \in [Ctx -> BOOLEAN]
           /\ ref' \in [Ctx -> Int]
           /\ del' \in [Thread -> Ctx \cup {None}]
           /\ hlock' \in Thread \cup {None}
<1>1. CASE slot[c]
  BY <1>1, DropRefType DEF Retire, TypeOK, ContextType, GlobalType
<1>2. CASE ~slot[c]
  BY <1>2 DEF Retire, TypeOK, ContextType, GlobalType, ThreadType
<1> QED BY <1>1, <1>2

LEMMA PushStartType ==
    ASSUME TypeOK, NEW t \in Thread, NEW c, NEW m \in Message, PushStart(t, c, m)
    PROVE  /\ ref' \in [Ctx -> Int]
           /\ ppc' \in [Thread -> {"none", "push", "release"}]
           /\ dst' \in [Thread -> Ctx \cup {None}]
           /\ out' \in [Thread -> Message]
           /\ sent' \in 0..MaxSend
           /\ \A u \in Thread: dst'[u] = None <=> ppc'[u] = "none"
<1> USE NoneAssumption
<1>1. c \in Ctx
  BY DEF PushStart, Known
<1>2. sent' \in 0..MaxSend
  BY DispatchAssumption DEF PushStart, TypeOK, GlobalType
<1>3. ref' \in [Ctx -> Int]
  BY <1>1 DEF PushStart, Grab, TypeOK, ContextType
<1> QED BY <1>1, <1>2, <1>3 DEF PushStart, TypeOK, ThreadType


LEMMA TypeMqPush ==
    ASSUME TypeOK, NEW t \in Thread, MqPush(t)
    PROVE  TypeOK'
<1> USE NoneAssumption
<1>1. dst[t] \in Ctx /\ out[t] \in Message /\ MqPushTo(dst[t], out[t])
  BY DEF MqPush, TypeOK, ThreadType
<1>2. QueueType'
  BY <1>1, MqPushToType DEF MqPush, QueueType, TypeOK
<1>3. GlobalType'
  BY <1>1, MqPushToType DEF MqPush, GlobalType, TypeOK
<1>4. ThreadType'
  BY DEF MqPush, ThreadType, TypeOK
<1> QED BY <1>2, <1>3, <1>4 DEF MqPush, TypeOK, ContextType, WorkerType

LEMMA TypePushRelease ==
    ASSUME TypeOK, NEW t \in Thread, PushRelease(t)
    PROVE  TypeOK'
<1> USE NoneAssumption
<1>1. dst[t] \in Ctx /\ DropRef(t, dst[t]) /\ NoMessage \in Message
  BY DispatchAssumption DEF PushRelease, TypeOK, ThreadType, NoMessage, Message
<1>2. ContextType'
  BY <1>1, DropRefType DEF PushRelease, ContextType, TypeOK
<1>3. ThreadType'
  BY <1>1, DropRefType DEF PushRelease, ThreadType, TypeOK
<1> QED BY <1>2, <1>3 DEF PushRelease, TypeOK, QueueType, GlobalType, WorkerType

LEMMA TypeMarkRelease ==
    ASSUME TypeOK, NEW t \in Thread, MarkRelease(t)
    PROVE  TypeOK'
<1> USE NoneAssumption DEF Thread
<1>1. QueueType'
  BY DEF MarkRelease, MqMarkRelease, QueueType, TypeOK, ThreadType
<1>2. GlobalType'
  BY DEF MarkRelease, MqMarkRelease, GlobalType, TypeOK, ThreadType
<1> QED BY <1>1, <1>2 DEF MarkRelease, MqMarkRelease, TypeOK, ContextType, WorkerType, ThreadType

LEMMA TypeFreeContext ==
    ASSUME TypeOK, NEW t \in Thread, FreeContext(t)
    PROVE  TypeOK'
<1> USE NoneAssumption DEF Thread
<1>1. ContextType'
  BY DEF FreeContext, ContextType, TypeOK, ThreadType
<1>2. GlobalType'
  BY DEF FreeContext, GlobalType, TypeOK, ThreadType
<1>3. ThreadType'
  BY DEF FreeContext, ThreadType, TypeOK
<1> QED BY <1>1, <1>2, <1>3 DEF FreeContext, TypeOK, QueueType, WorkerType

LEMMA TypeHelperPush ==
    ASSUME TypeOK, NEW t \in Helper, HelperPush(t)
    PROVE  TypeOK'
<1> USE NoneAssumption DEF Thread
<1>1. \A c \in Ctx: session_id[c] \in 0..MaxSession
  BY DEF TypeOK, ContextType
<1>2. \E c \in Ctx, m \in Message: t \in Thread /\ PushStart(t, c, m)
  BY <1>1, DispatchAssumption DEF HelperPush, Message
<1>3. ContextType'
  BY <1>2, PushStartType DEF HelperPush, ContextType, TypeOK
<1>4. GlobalType'
  BY <1>2, PushStartType DEF HelperPush, GlobalType, TypeOK
<1>5. ThreadType'
  BY <1>2, PushStartType DEF HelperPush, ThreadType, TypeOK
<1> QED BY <1>3, <1>4, <1>5 DEF HelperPush, TypeOK, QueueType, WorkerType

LEMMA TypeEndless ==
    ASSUME TypeOK, NEW t \in Helper, Endless(t)
    PROVE  TypeOK'
<1> USE NoneAssumption DEF Thread
<1>1. ContextType'
  BY DEF Endless, ContextType, TypeOK, Grab, Known, ThreadType
<1>2. ThreadType'
  BY DEF Endless, ThreadType, TypeOK, Grab, Known
<1> QED BY <1>1, <1>2 DEF Endless, TypeOK, QueueType, GlobalType, WorkerType

LEMMA TypePop ==
    ASSUME TypeOK, NEW w \in Worker, Pop(w)
    PROVE  TypeOK'
<1> USE NoneAssumption
<1>1. gq' \in Seq(Ctx) /\ Head(gq) \in Ctx
  BY DEF Pop, TypeOK, GlobalType
<1>2. GlobalType'
  BY <1>1 DEF Pop, GlobalType, TypeOK
<1>3. WorkerType'
  BY <1>1 DEF Pop, WorkerType, TypeOK, InDispatch, Returned
<1> QED BY <1>2, <1>3 DEF Pop, TypeOK, ContextType, QueueType, ThreadType

LEMMA TypeLeaves ==
    ASSUME TypeOK, NEW w \in Worker, PopNone(w) \/ CheckAbort(w)
    PROVE  TypeOK'
<1>1. WorkerType'
  BY DEF PopNone, CheckAbort, WorkerType, TypeOK, InDispatch, Returned
<1> QED BY <1>1 DEF PopNone, CheckAbort, TypeOK, ContextType, QueueType, GlobalType, ThreadType

LEMMA TypeGrabCurrent ==
    ASSUME TypeOK, NEW w \in Worker, GrabCurrent(w)
    PROVE  TypeOK'
<1> USE NoneAssumption DEF Thread
<1>1. ContextType'
  BY DEF GrabCurrent, ContextType, TypeOK, Grab, InDispatch, Returned, WorkerType
<1>2. WorkerType'
  BY DEF GrabCurrent, WorkerType, TypeOK, Grab, InDispatch, Returned
<1> QED BY <1>1, <1>2 DEF GrabCurrent, TypeOK, QueueType, GlobalType, ThreadType

LEMMA TypeMqRelease ==
    ASSUME TypeOK, NEW w \in Worker, MqRelease(w)
    PROVE  TypeOK'
<1> USE NoneAssumption
<1>1. cur[w] \in Ctx /\ MqReleaseOf(cur[w])
  BY DEF MqRelease, TypeOK, WorkerType
<1>2. QueueType'
  BY <1>1, MqReleaseType DEF MqRelease, QueueType, TypeOK
<1>3. GlobalType'
  BY <1>1, MqReleaseType DEF MqRelease, GlobalType, TypeOK
<1>4. WorkerType'
  BY DEF MqRelease, WorkerType, TypeOK, InDispatch, Returned
<1> QED BY <1>2, <1>3, <1>4 DEF MqRelease, TypeOK, ContextType, ThreadType

LEMMA TypeMqPop ==
    ASSUME TypeOK, NEW w \in Worker, MqPop(w)
    PROVE  TypeOK'
<1> USE NoneAssumption
<1>a. cur[w] \in Ctx
  BY DEF MqPop, TypeOK, WorkerType
<1>1. cur[w] \in Ctx /\ queue[cur[w]] \in Seq(Message) /\ 0 \in 0..3
  BY <1>a DEF TypeOK, QueueType
<1>2. CASE queue[cur[w]] = <<>>
  <2>1. QueueType'
    BY <1>1, <1>2 DEF MqPop, QueueType, TypeOK
  <2>2. WorkerType'
    BY <1>2 DEF MqPop, WorkerType, TypeOK, InDispatch, Returned
  <2> QED BY <2>1, <2>2 DEF MqPop, TypeOK, ContextType, GlobalType, ThreadType
<1>3. CASE queue[cur[w]] # <<>>
  <2>1. Tail(queue[cur[w]]) \in Seq(Message) /\ Head(queue[cur[w]]) \in Message
    BY <1>1, <1>3
  <2>2. QueueType'
    BY <1>3, <2>1 DEF MqPop, QueueType, TypeOK
  <2>3. WorkerType'
    BY <1>3, <2>1 DEF MqPop, WorkerType, TypeOK, InDispatch, Returned
  <2> QED BY <2>2, <2>3 DEF MqPop, TypeOK, ContextType, GlobalType, ThreadType
<1> QED BY <1>2, <1>3

LEMMA TypeReturn ==
    ASSUME TypeOK, NEW w \in Worker, Return(w)
    PROVE  TypeOK'
<1>1. NoMessage \in Message
  BY DispatchAssumption DEF NoMessage, Message
<1>2. WorkerType'
  BY <1>1, NoneAssumption DEF Return, WorkerType, TypeOK, InDispatch, Returned
<1> QED BY <1>2 DEF Return, TypeOK, ContextType, QueueType, GlobalType, ThreadType

LEMMA TypePushGlobal ==
    ASSUME TypeOK, NEW w \in Worker, PushGlobal(w)
    PROVE  TypeOK'
<1> USE NoneAssumption
<1>1. cur[w] \in Ctx /\ in_global[cur[w]] \in 0..3 /\ in_global \in [Ctx -> 0..3]
  BY DEF PushGlobal, TypeOK, WorkerType, QueueType
<1>2. Append(gq, cur[w]) \in Seq(Ctx)
  BY <1>1 DEF TypeOK, GlobalType
<1>3. \E n \in 0..3: in_global' = [in_global EXCEPT ![cur[w]] = n]
  <2>1. CASE lock_session[cur[w]] = 0
    BY <2>1 DEF PushGlobal
  <2>2. CASE lock_session[cur[w]] # 0
    BY <1>1, <2>2 DEF PushGlobal
  <2> QED BY <2>1, <2>2
<1>4. in_global' \in [Ctx -> 0..3]
  BY <1>1, <1>3
<1>5. QueueType'
  BY <1>4 DEF PushGlobal, QueueType, TypeOK
<1>6. GlobalType'
  BY <1>2 DEF PushGlobal, GlobalType, TypeOK
<1>7. WorkerType'
  BY DEF PushGlobal, WorkerType, TypeOK, InDispatch, Returned
<1> QED BY <1>5, <1>6, <1>7 DEF PushGlobal, TypeOK, ContextType, ThreadType

LEMMA TypeUnref ==
    ASSUME TypeOK, NEW w \in Worker, Unref(w)
    PROVE  TypeOK'
<1> USE NoneAssumption DEF Thread
<1>1. ContextType'
  BY DEF Unref, ContextType, TypeOK, DropRef, InDispatch, Returned, WorkerType
<1>2. WorkerType'
  BY DEF Unref, WorkerType, TypeOK, DropRef, InDispatch, Returned
<1>3. ThreadType'
  BY DEF Unref, ThreadType, TypeOK, DropRef, InDispatch, Returned, WorkerType
<1> QED BY <1>1, <1>2, <1>3 DEF Unref, TypeOK, QueueType, GlobalType

LEMMA TypeMakeQueue ==
    ASSUME TypeOK, NEW w \in Worker, MakeQueue(w)
    PROVE  TypeOK'
<1> USE NoneAssumption DEF Thread
<1>1. QueueType'
  BY DEF MakeQueue, MqCreate, QueueType, TypeOK, WorkerType
<1>2. GlobalType'
  BY DEF MakeQueue, ContextInc, GlobalType, TypeOK, WorkerType
<1>3. WorkerType'
  BY DEF MakeQueue, WorkerType, TypeOK
<1> QED BY <1>1, <1>2, <1>3 DEF MakeQueue, TypeOK, ContextType, ThreadType

LEMMA TypeInitOk ==
    ASSUME TypeOK, NEW w \in Worker, InitOk(w)
    PROVE  TypeOK'
<1> USE NoneAssumption DEF Thread
<1>1. ContextType'
  BY DEF InitOk, ContextType, TypeOK, DropRef, Returned, WorkerType
<1>2. WorkerType'
  BY DEF InitOk, WorkerType, TypeOK, DropRef, Returned
<1>3. ThreadType'
  BY DEF InitOk, ThreadType, TypeOK, DropRef, Returned, WorkerType
<1> QED BY <1>1, <1>2, <1>3 DEF InitOk, TypeOK, QueueType, GlobalType

LEMMA TypeSetInit ==
    ASSUME TypeOK, NEW w \in Worker, SetInit(w)
    PROVE  TypeOK'
<1> USE NoneAssumption DEF Thread
<1>1. ContextType'
  BY DEF SetInit, ContextType, TypeOK, WorkerType
<1>2. WorkerType'
  BY DEF SetInit, WorkerType, TypeOK
<1> QED BY <1>1, <1>2 DEF SetInit, TypeOK, QueueType, GlobalType, ThreadType

LEMMA TypeForcePush ==
    ASSUME TypeOK, NEW w \in Worker, ForcePush(w)
    PROVE  TypeOK'
<1> USE NoneAssumption DEF Thread
<1>1. GlobalType'
  BY DEF ForcePush, GlobalType, TypeOK, Returned, WorkerType
<1>2. WorkerType'
  BY DEF ForcePush, WorkerType, TypeOK, Returned
<1> QED BY <1>1, <1>2 DEF ForcePush, TypeOK, ContextType, QueueType, ThreadType

LEMMA TypeInitFail ==
    ASSUME TypeOK, NEW w \in Worker, InitFail(w)
    PROVE  TypeOK'
<1> USE NoneAssumption DEF Thread
<1>1. ContextType'
  BY DEF InitFail, ContextType, TypeOK, DropRef, Returned, WorkerType
<1>2. WorkerType'
  BY DEF InitFail, WorkerType, TypeOK, DropRef, Returned
<1>3. ThreadType'
  BY DEF InitFail, ThreadType, TypeOK, DropRef, Returned, WorkerType
<1> QED BY <1>1, <1>2, <1>3 DEF InitFail, TypeOK, QueueType, GlobalType

LEMMA TypeFailRetire ==
    ASSUME TypeOK, NEW w \in Worker, FailRetire(w)
    PROVE  TypeOK'
<1> USE NoneAssumption DEF Thread
<1>1. newc[w] \in Ctx /\ Retire(w, newc[w]) /\ w \in Thread
  BY DEF FailRetire, TypeOK, WorkerType
<1>2. ContextType'
  BY <1>1, RetireType DEF FailRetire, ContextType, TypeOK
<1>3. GlobalType'
  BY <1>1, RetireType DEF FailRetire, GlobalType, TypeOK
<1>4. WorkerType'
  BY DEF FailRetire, WorkerType, TypeOK, Returned
<1>5. ThreadType'
  BY <1>1, RetireType DEF FailRetire, ThreadType, TypeOK
<1> QED BY <1>2, <1>3, <1>4, <1>5 DEF FailRetire, TypeOK, QueueType

LEMMA TypeFailRelease ==
    ASSUME TypeOK, NEW w \in Worker, FailRelease(w)
    PROVE  TypeOK'
<1> USE NoneAssumption
<1>1. newc[w] \in Ctx /\ MqReleaseOf(newc[w])
  BY DEF FailRelease, TypeOK, WorkerType
<1>2. QueueType'
  BY <1>1, MqReleaseType DEF FailRelease, QueueType, TypeOK
<1>3. GlobalType'
  BY <1>1, MqReleaseType DEF FailRelease, GlobalType, TypeOK
<1>4. WorkerType'
  BY DEF FailRelease, WorkerType, TypeOK, Returned
<1> QED BY <1>2, <1>3, <1>4 DEF FailRelease, TypeOK, ContextType, ThreadType

LEMMA TypeKillRetire ==
    ASSUME TypeOK, NEW w \in Worker, KillRetire(w)
    PROVE  TypeOK'
<1> USE NoneAssumption DEF Thread
<1>1. kill[w] \in Ctx /\ Retire(w, kill[w]) /\ w \in Thread
  BY DEF KillRetire, TypeOK, WorkerType
<1>2. ContextType'
  BY <1>1, RetireType DEF KillRetire, ContextType, TypeOK
<1>3. GlobalType'
  BY <1>1, RetireType DEF KillRetire, GlobalType, TypeOK
<1>4. WorkerType'
  BY DEF KillRetire, WorkerType, TypeOK
<1>5. ThreadType'
  BY <1>1, RetireType DEF KillRetire, ThreadType, TypeOK
<1> QED BY <1>2, <1>3, <1>4, <1>5 DEF KillRetire, TypeOK, QueueType

LEMMA TypeLaunch ==
    ASSUME TypeOK, NEW w \in Worker, Launch(w)
    PROVE  TypeOK'
<1> USE NoneAssumption DEF Thread
<1>1. ContextType'
  BY DEF Launch, ContextType, TypeOK, InDispatch, Returned, WorkerType
<1>2. WorkerType'
  BY DEF Launch, WorkerType, TypeOK, InDispatch, Returned
<1> QED BY <1>1, <1>2 DEF Launch, TypeOK, QueueType, GlobalType, ThreadType

LEMMA TypeSend ==
    ASSUME TypeOK, NEW w \in Worker, Send(w)
    PROVE  TypeOK'
<1> USE NoneAssumption DEF Thread
<1>1. Self(w) \in Ctx
  BY DEF Send, UserCode, Self, TypeOK, WorkerType
<1>2. \E c \in Ctx, m \in Message: w \in Thread /\ PushStart(w, c, m)
  BY <1>1, DispatchAssumption DEF Send, Message
<1>3. ContextType'
  BY <1>2, PushStartType DEF Send, ContextType, TypeOK
<1>4. GlobalType'
  BY <1>2, PushStartType DEF Send, GlobalType, TypeOK
<1>5. ThreadType'
  BY <1>2, PushStartType DEF Send, ThreadType, TypeOK
<1> QED BY <1>3, <1>4, <1>5 DEF Send, TypeOK, QueueType, WorkerType

LEMMA TypeCall ==
    ASSUME TypeOK, NEW w \in Worker, Call(w)
    PROVE  TypeOK'
<1> USE NoneAssumption DEF Thread
<1>1. Self(w) \in Ctx
  BY DEF Call, UserCode, Self, TypeOK, WorkerType
<1> DEFINE s == session_id[Self(w)] + 1
<1>2. s \in 0..MaxSession
  BY <1>1, DispatchAssumption DEF Call, TypeOK, ContextType
<1>3. \E c \in Ctx, m \in Message: w \in Thread /\ PushStart(w, c, m)
  BY <1>1, <1>2 DEF Call, Message
<1>4. session_id' \in [Ctx -> 0..MaxSession]
  BY <1>1, <1>2 DEF Call, TypeOK, ContextType
<1>5. ContextType'
  BY <1>3, <1>4, PushStartType DEF Call, ContextType, TypeOK
<1>6. GlobalType'
  BY <1>3, PushStartType DEF Call, GlobalType, TypeOK
<1>7. ThreadType'
  BY <1>3, PushStartType DEF Call, ThreadType, TypeOK
<1> QED BY <1>5, <1>6, <1>7 DEF Call, TypeOK, QueueType, WorkerType

LEMMA PushToHarborType ==
    ASSUME TypeOK, NEW w \in Worker, NEW m \in Message, PushToHarbor(w, m),
           session_id' \in [Ctx -> 0..MaxSession]
    PROVE  TypeOK'
<1> USE NoneAssumption DEF Thread
<1>1. Harbor \in Ctx /\ MqPushTo(Harbor, m)
  BY HarborAssumption, DispatchAssumption DEF PushToHarbor, BootSet
<1>2. ContextType'
  BY DEF PushToHarbor, ContextType, TypeOK
<1>3. QueueType'
  BY <1>1, MqPushToType DEF PushToHarbor, QueueType, TypeOK
<1>4. sent' \in 0..MaxSend
  BY DispatchAssumption DEF PushToHarbor, TypeOK, GlobalType
<1>5. GlobalType'
  BY <1>1, <1>4, MqPushToType DEF PushToHarbor, GlobalType, TypeOK
<1> QED BY <1>2, <1>3, <1>5 DEF PushToHarbor, TypeOK, WorkerType, ThreadType

LEMMA TypeSendRemote ==
    ASSUME TypeOK, NEW w \in Worker, SendRemote(w)
    PROVE  TypeOK'
<1> USE NoneAssumption
<1>1. Self(w) \in Ctx /\ msg[w].session \in 0..MaxSession
  BY DEF SendRemote, UserCode, Self, TypeOK, WorkerType, Message
<1>2. \E m \in Message: PushToHarbor(w, m)
  BY <1>1, DispatchAssumption DEF SendRemote, Message
<1>3. session_id' \in [Ctx -> 0..MaxSession]
  BY DEF SendRemote, TypeOK, ContextType
<1> QED BY <1>2, <1>3, PushToHarborType

LEMMA TypeCallRemote ==
    ASSUME TypeOK, NEW w \in Worker, CallRemote(w)
    PROVE  TypeOK'
<1> USE NoneAssumption
<1>1. Self(w) \in Ctx
  BY DEF CallRemote, UserCode, Self, TypeOK, WorkerType
<1> DEFINE s == session_id[Self(w)] + 1
<1>2. s \in 0..MaxSession
  BY <1>1, DispatchAssumption DEF CallRemote, TypeOK, ContextType
<1>3. \E m \in Message: PushToHarbor(w, m)
  BY <1>1, <1>2 DEF CallRemote, Message
<1>4. session_id' \in [Ctx -> 0..MaxSession]
  BY <1>1, <1>2 DEF CallRemote, TypeOK, ContextType
<1> QED BY <1>3, <1>4, PushToHarborType

LEMMA TypeRegister ==
    ASSUME TypeOK, NEW w \in Worker, Register(w)
    PROVE  TypeOK'
<1>1. NoMessage \in Message
  BY DispatchAssumption DEF NoMessage, Message
<1>2. session_id' \in [Ctx -> 0..MaxSession]
  BY DEF Register, TypeOK, ContextType
<1> QED BY <1>1, <1>2, PushToHarborType DEF Register

LEMMA TypeReply ==
    ASSUME TypeOK, NEW w \in Worker, Reply(w)
    PROVE  TypeOK'
<1> USE NoneAssumption DEF Thread
<1>1. Self(w) \in Ctx /\ msg[w] \in Message
  BY DEF Reply, UserCode, Self, TypeOK, WorkerType
<1>2. \E c \in Ctx, m \in Message: w \in Thread /\ PushStart(w, c, m)
  BY <1>1 DEF Reply, Message
<1>3. ContextType'
  BY <1>2, PushStartType DEF Reply, ContextType, TypeOK
<1>4. GlobalType'
  BY <1>2, PushStartType DEF Reply, GlobalType, TypeOK
<1>5. ThreadType'
  BY <1>2, PushStartType DEF Reply, ThreadType, TypeOK
<1> QED BY <1>3, <1>4, <1>5 DEF Reply, TypeOK, QueueType, WorkerType

LEMMA TypeKill ==
    ASSUME TypeOK, NEW w \in Worker, Kill(w)
    PROVE  TypeOK'
<1> USE NoneAssumption DEF Thread
<1>1. PICK c \in Ctx:
        /\ kill' = [kill EXCEPT ![w] = c]
        /\ IF MonitorExit = None
           THEN UNCHANGED <<ref, pushVars, sent>>
           ELSE PushStart(w, MonitorExit, [source |-> c, session |-> 0])
  BY DEF Kill, Known
<1>a. [source |-> c, session |-> 0] \in Message
  BY DispatchAssumption DEF Message
<1>2. \/ UNCHANGED <<ref, pushVars, sent>>
      \/ \E d, m: m \in Message /\ w \in Thread /\ PushStart(w, d, m)
  BY <1>1, <1>a
<1>3. ContextType'
  BY <1>2, PushStartType DEF Kill, ContextType, TypeOK
<1>4. GlobalType'
  BY <1>2, PushStartType DEF Kill, GlobalType, TypeOK
<1>5. ThreadType'
  BY <1>2, PushStartType DEF Kill, ThreadType, TypeOK
<1>6. WorkerType'
  BY <1>1 DEF Kill, WorkerType, TypeOK, UserCode, Returned
<1> QED BY <1>3, <1>4, <1>5, <1>6 DEF Kill, TypeOK, QueueType

LEMMA TypeSetCallback ==
    ASSUME TypeOK, NEW w \in Worker, SetCallback(w)
    PROVE  TypeOK'
<1> USE NoneAssumption DEF Thread
<1>1. ContextType'
  BY DEF SetCallback, ContextType, TypeOK, UserCode, Returned, WorkerType
<1> QED BY <1>1 DEF SetCallback, TypeOK, QueueType, GlobalType, WorkerType, ThreadType

LEMMA TypeLock ==
    ASSUME TypeOK, NEW w \in Worker, Lock(w)
    PROVE  TypeOK'
<1> USE NoneAssumption
<1>a. cur[w] \in Ctx
  BY DEF Lock, UserCode, TypeOK, WorkerType
<1>b. session_id[cur[w]] \in 0..MaxSession /\ session_id[cur[w]] < MaxSession
  BY <1>a DEF Lock, TypeOK, ContextType
<1>1. cur[w] \in Ctx /\ session_id[cur[w]] + 1 \in 0..MaxSession /\ 2 \in 0..3
  BY <1>a, <1>b, DispatchAssumption
<1>2. QueueType'
  BY <1>1 DEF Lock, MqLock, QueueType, TypeOK
<1> QED BY <1>2 DEF Lock, TypeOK, ContextType, GlobalType, WorkerType, ThreadType

LEMMA TypeUnlock ==
    ASSUME TypeOK, NEW w \in Worker, Unlock(w)
    PROVE  TypeOK'
<1>1. 0 \in 0..MaxSession
  BY DispatchAssumption
<1>2. QueueType'
  BY <1>1 DEF Unlock, QueueType, TypeOK
<1> QED BY <1>2 DEF Unlock, TypeOK, ContextType, GlobalType, WorkerType, ThreadType

LEMMA TypeInit == ASSUME Init PROVE TypeOK
<1> USE NoneAssumption
<1>1. NoMessage \in Message /\ 0 \in 0..MaxSession /\ 0 \in 0..MaxSend
  BY DispatchAssumption DEF NoMessage, Message
<1>2. Boot \in Seq(Ctx)
  BY DispatchAssumption
<1>3. BootSet \subseteq Ctx /\ IsFiniteSet(BootSet)
  <2>1. BootSet \subseteq Ctx
    BY <1>2 DEF BootSet
  <2>2. IsFiniteSet(BootSet)
    BY <2>1, DispatchAssumption, FS_Subset
  <2> QED BY <2>1, <2>2
<1>4. Cardinality(BootSet) \in Nat
  BY <1>3, FS_CardinalityType
<1>5. ContextType
  BY <1>1 DEF Init, ContextType
<1>6. QueueType
  BY <1>1 DEF Init, QueueType
<1>7. GlobalType
  BY <1>1, <1>2, <1>4 DEF Init, GlobalType
<1>8. WorkerType
  BY <1>1 DEF Init, WorkerType
<1>9. ThreadType
  BY <1>1 DEF Init, ThreadType
<1> QED BY <1>5, <1>6, <1>7, <1>8, <1>9 DEF TypeOK

LEMMA TypeNext == ASSUME TypeOK, [Next]_vars PROVE TypeOK'
<1>1. ASSUME NEW t \in Thread, CallStep(t) PROVE TypeOK'
  BY <1>1, TypeMqPush, TypePushRelease, TypeMarkRelease, TypeFreeContext
     DEF CallStep
<1>2. ASSUME NEW w \in Worker, WorkerStep(w) PROVE TypeOK'
  BY <1>2, TypePop, TypeLeaves, TypeGrabCurrent, TypeMqRelease, TypeMqPop,
     TypeReturn, TypePushGlobal, TypeUnref, TypeMakeQueue, TypeInitOk,
     TypeSetInit, TypeForcePush, TypeInitFail, TypeFailRetire,
     TypeFailRelease, TypeKillRetire
     DEF WorkerStep
<1>3. ASSUME NEW w \in Worker, UserStep(w) PROVE TypeOK'
  BY <1>3, TypeLaunch, TypeSend, TypeCall, TypeReply, TypeKill,
     TypeSetCallback, TypeLock, TypeUnlock, TypeSendRemote, TypeCallRemote,
     TypeRegister
     DEF UserStep
<1>4. ASSUME NEW t \in Helper, HelperPush(t) \/ Endless(t) PROVE TypeOK'
  BY <1>4, TypeHelperPush, TypeEndless
<1>5. CASE UNCHANGED vars
  BY <1>5 DEF vars, TypeOK, ContextType, QueueType, GlobalType, WorkerType,
     ThreadType
<1> QED BY <1>1, <1>2, <1>3, <1>4, <1>5 DEF Next

(* Every variable keeps its type, and a frame names a context exactly      *)
(* while it is at work on one.                                             *)
THEOREM TypeCorrect == Spec => []TypeOK
<1>1. Init => TypeOK
  BY TypeInit
<1>2. TypeOK /\ [Next]_vars => TypeOK'
  BY TypeNext
<1> QED BY <1>1, <1>2, PTL DEF Spec

-----------------------------------------------------------------------------
(* The references, the owners and the exit of the workers.                 *)

(***************************************************************************)
(* The references.  A thread that has the last one of a context to give up *)
(* is in no other call.                                                    *)
(***************************************************************************)
Counts == \A c \in Ctx: ref[c] = Cardinality(Refs(c))
LastDeletes ==
    /\ \A c \in Ctx: mem[c] = "live" /\ ref[c] = 0 <=> \E t \in Thread: del[t] = c
    /\ \A t, u \in Thread: del[t] = del[u] /\ del[t] # None => t = u
RefsLive == \A c \in Ctx: Refs(c) # {} => mem[c] = "live"
DeletesLast == \A t \in Thread: ppc[t] # "none" => del[t] = None

RefInv == Counts /\ LastDeletes /\ RefsLive /\ DeletesLast

(***************************************************************************)
(* The life of a queue: made by the launcher of its context, marked when   *)
(* the last reference is gone, then freed by whoever owns it.              *)
(***************************************************************************)
LifeOf(c) ==
    /\ mem[c] = "none" => qmem[c] = "none"
    /\ mem[c] # "none" /\ qmem[c] = "none" =>
          \E w \in Worker: newc[w] = c /\ npc[w] = "registered"
    /\ release[c] = 1 => ref[c] = 0 /\ qmem[c] # "none"
    /\ qmem[c] = "freed" \/ mem[c] = "freed" => release[c] = 1

Launcher ==
    \A w \in Worker: newc[w] # None =>
       /\ qmem[newc[w]] = "none" <=> npc[w] = "registered"
       /\ \A v \in Worker: newc[v] = newc[w] => v = w

Life ==
    /\ \A c \in Ctx: LifeOf(c)
    /\ Launcher
    /\ \A t \in Thread: dst[t] # None => qmem[dst[t]] # "none"
    /\ \A w \in Worker: cur[w] # None => qmem[cur[w]] # "none"

(* The harbor's service stays (see Kill): REMOTE needs no reference.       *)
HarborStays ==
    Harbor # None =>
       slot[Harbor] /\ \A w \in Worker: newc[w] # Harbor /\ kill[w] # Harbor

(***************************************************************************)
(* The owner of a queue, and what in_global says of it.                    *)
(***************************************************************************)
InQ(c) == \E i \in 1 .. Len(gq): gq[i] = c
Disp(w, c) ==
    cur[w] = c /\ pc[w] \in {"popped", "orphan", "grabbed", "call", "back"}
Laun(w, c) == newc[w] = c /\ npc[w] \notin {"none", "registered"}
Hold(w, c) == Disp(w, c) \/ Laun(w, c)
Own(c) == InQ(c) \/ \E w \in Worker: Hold(w, c)

OwnerOf(c) ==
    /\ \A w \in Worker: Hold(w, c) => ~InQ(c)
    /\ \A w \in Worker: ~(Disp(w, c) /\ Laun(w, c))
    /\ \A v, w \in Worker: Hold(v, c) /\ Hold(w, c) => v = w
    /\ Own(c) => qmem[c] = "live"

Distinct == \A i, j \in 1 .. Len(gq): gq[i] = gq[j] => i = j

OneOwner == Distinct /\ \A c \in Ctx: OwnerOf(c)

Busy(w, c) == cur[w] = c /\ pc[w] \in {"call", "back"}

FlagOf(c) ==
    /\ qmem[c] = "none" => lock_session[c] = 0
    /\ \A w \in Worker: Laun(w, c) => in_global[c] = 1
    /\ qmem[c] = "live" =>
         /\ in_global[c] = 0 => lock_session[c] = 0
               /\ (release[c] = 0 => queue[c] = <<>> /\ ~Own(c))
         /\ in_global[c] = 1 => lock_session[c] = 0 /\ Own(c)
         /\ in_global[c] = 2 => \E w \in Worker: Busy(w, c)
         /\ in_global[c] = 3 => lock_session[c] # 0 /\ (release[c] = 0 => ~Own(c))
         /\ release[c] = 1 => Own(c)

Flags == \A c \in Ctx: FlagOf(c)

(***************************************************************************)
(* A queue leaves its launcher initialised, or out of the handle table.    *)
(***************************************************************************)
Initialised ==
    /\ \A c \in Ctx: qmem[c] = "live" /\ slot[c] =>
          init[c] \/ \E w \in Worker: Laun(w, c)
    /\ \A w \in Worker:
         /\ npc[w] = "force" => init[newc[w]] \/ ~slot[newc[w]]
         /\ npc[w] = "mqrelease" => ~slot[newc[w]]
         /\ pc[w] \in {"grabbed", "call", "back"} => init[cur[w]]

(***************************************************************************)
(* G_NODE.total, and the exit of the workers.                              *)
(***************************************************************************)
Alive == {c \in Ctx : mem[c] = "live" /\ qmem[c] # "none"}
Total == total = Cardinality(Alive)
EndIsFinal == \A w \in Worker: pc[w] = "done" => total = 0

OwnInv == Life /\ HarborStays /\ OneOwner /\ Flags /\ Initialised
ExitInv == Total /\ EndIsFinal

-----------------------------------------------------------------------------
(* How the references of a context change: one lemma per frame.            *)
LEMMA ThreadFinite == IsFiniteSet(Thread) /\ IsFiniteSet(Token)
<1>1. IsFiniteSet(Thread)
  BY DispatchAssumption, FS_Union DEF Thread
<1>2. IsFiniteSet(Thread \cup {None})
  BY <1>1, FS_AddElement
<1>3. IsFiniteSet({"table", "dispatch", "launch", "push"})
  <2>1. IsFiniteSet({}) /\ IsFiniteSet({"table"})
    BY FS_EmptySet, FS_Singleton
  <2>2. IsFiniteSet({"table"} \cup {"dispatch"})
    BY <2>1, FS_AddElement
  <2>3. IsFiniteSet({"table"} \cup {"dispatch"} \cup {"launch"})
    BY <2>2, FS_AddElement
  <2>4. IsFiniteSet({"table"} \cup {"dispatch"} \cup {"launch"} \cup {"push"})
    BY <2>3, FS_AddElement
  <2>5. {"table"} \cup {"dispatch"} \cup {"launch"} \cup {"push"}
           = {"table", "dispatch", "launch", "push"}
    OBVIOUS
  <2> QED BY <2>4, <2>5
<1> QED BY <1>1, <1>2, <1>3, FS_Product DEF Token

LEMMA RefsFinite ==
    ASSUME NEW c
    PROVE  /\ IsFiniteSet(Refs(c)) /\ Cardinality(Refs(c)) \in Nat
           /\ Cardinality(Refs(c)) = 0 <=> Refs(c) = {}
           /\ IsFiniteSet(Refs(c)') /\ Cardinality(Refs(c)') \in Nat
           /\ Cardinality(Refs(c)') = 0 <=> Refs(c)' = {}
<1>1. Refs(c) \in SUBSET Token /\ Refs(c)' \in SUBSET Token
  BY DEF Refs
<1> QED BY <1>1, ThreadFinite, FS_Subset, FS_CardinalityType, FS_EmptySet

SameFrames(c) ==
    /\ slot'[c] = slot[c]
    /\ \A w \in Worker: (DispatchRef(w, c)' <=> DispatchRef(w, c))
                        /\ (LaunchRef(w, c)' <=> LaunchRef(w, c))
    /\ \A t \in Thread: PushRef(t, c)' <=> PushRef(t, c)

LEMMA RefsSame ==
    ASSUME NEW c, SameFrames(c)
    PROVE  Refs(c)' = Refs(c)
BY DEF SameFrames, Refs

LEMMA TableToken ==
    ASSUME NEW c
    PROVE  /\ <<"table", None>> \in Refs(c) <=> slot[c]
           /\ <<"table", None>> \in Refs(c)' <=> slot'[c]
BY DEF Refs, Token

LEMMA DispatchToken ==
    ASSUME NEW c, NEW w \in Worker
    PROVE  /\ <<"dispatch", w>> \in Refs(c) <=> DispatchRef(w, c)
           /\ <<"dispatch", w>> \in Refs(c)' <=> DispatchRef(w, c)'
BY DEF Refs, Token, Thread

LEMMA LaunchToken ==
    ASSUME NEW c, NEW w \in Worker
    PROVE  /\ <<"launch", w>> \in Refs(c) <=> LaunchRef(w, c)
           /\ <<"launch", w>> \in Refs(c)' <=> LaunchRef(w, c)'
BY DEF Refs, Token, Thread

LEMMA PushToken ==
    ASSUME NEW c, NEW t \in Thread
    PROVE  /\ <<"push", t>> \in Refs(c) <=> PushRef(t, c)
           /\ <<"push", t>> \in Refs(c)' <=> PushRef(t, c)'
BY DEF Refs, Token

LEMMA HasRefs ==
    ASSUME NEW c, RefInv, c \in Ctx,
           \/ slot[c]
           \/ \E w \in Worker: DispatchRef(w, c) \/ LaunchRef(w, c)
           \/ \E t \in Thread: PushRef(t, c)
    PROVE  Refs(c) # {} /\ ref[c] \in Nat /\ ref[c] > 0 /\ mem[c] = "live"
<1>1. Refs(c) # {}
  BY TableToken, DispatchToken, LaunchToken, PushToken
<1> QED BY <1>1, RefsFinite DEF RefInv, Counts, RefsLive

(* One frame of one thread begins or ceases to refer to c.                 *)
LEMMA DispatchChanges ==
    ASSUME NEW c, NEW w \in Worker, slot'[c] = slot[c],
           \A v \in Worker: /\ v # w => (DispatchRef(v, c)' <=> DispatchRef(v, c))
                            /\ LaunchRef(v, c)' <=> LaunchRef(v, c),
           \A t \in Thread: PushRef(t, c)' <=> PushRef(t, c)
    PROVE  /\ DispatchRef(w, c)' => Refs(c)' = Refs(c) \cup {<<"dispatch", w>>}
           /\ ~DispatchRef(w, c)' => Refs(c)' = Refs(c) \ {<<"dispatch", w>>}
<1>1. ASSUME NEW q \in Token, q # <<"dispatch", w>>
      PROVE  q \in Refs(c)' <=> q \in Refs(c)
  BY <1>1 DEF Refs, Token
<1>2. Refs(c) \in SUBSET Token /\ Refs(c)' \in SUBSET Token
  BY DEF Refs
<1> QED BY <1>1, <1>2, DispatchToken

LEMMA LaunchChanges ==
    ASSUME NEW c, NEW w \in Worker, slot'[c] = slot[c],
           \A v \in Worker: /\ v # w => (LaunchRef(v, c)' <=> LaunchRef(v, c))
                            /\ DispatchRef(v, c)' <=> DispatchRef(v, c),
           \A t \in Thread: PushRef(t, c)' <=> PushRef(t, c)
    PROVE  /\ LaunchRef(w, c)' => Refs(c)' = Refs(c) \cup {<<"launch", w>>}
           /\ ~LaunchRef(w, c)' => Refs(c)' = Refs(c) \ {<<"launch", w>>}
<1>1. ASSUME NEW q \in Token, q # <<"launch", w>>
      PROVE  q \in Refs(c)' <=> q \in Refs(c)
  BY <1>1 DEF Refs, Token
<1>2. Refs(c) \in SUBSET Token /\ Refs(c)' \in SUBSET Token
  BY DEF Refs
<1> QED BY <1>1, <1>2, LaunchToken

LEMMA PushChanges ==
    ASSUME NEW c, NEW t \in Thread, slot'[c] = slot[c],
           \A v \in Worker: /\ LaunchRef(v, c)' <=> LaunchRef(v, c)
                            /\ DispatchRef(v, c)' <=> DispatchRef(v, c),
           \A u \in Thread: u # t => (PushRef(u, c)' <=> PushRef(u, c))
    PROVE  /\ PushRef(t, c)' => Refs(c)' = Refs(c) \cup {<<"push", t>>}
           /\ ~PushRef(t, c)' => Refs(c)' = Refs(c) \ {<<"push", t>>}
<1>1. ASSUME NEW q \in Token, q # <<"push", t>>
      PROVE  q \in Refs(c)' <=> q \in Refs(c)
  BY <1>1 DEF Refs, Token
<1>2. Refs(c) \in SUBSET Token /\ Refs(c)' \in SUBSET Token
  BY DEF Refs
<1> QED BY <1>1, <1>2, PushToken

LEMMA TableChanges ==
    ASSUME NEW c, slot'[c] = FALSE,
           \A v \in Worker: /\ LaunchRef(v, c)' <=> LaunchRef(v, c)
                            /\ DispatchRef(v, c)' <=> DispatchRef(v, c),
           \A t \in Thread: PushRef(t, c)' <=> PushRef(t, c)
    PROVE  Refs(c)' = Refs(c) \ {<<"table", None>>}
<1>1. ASSUME NEW q \in Token, q # <<"table", None>>
      PROVE  q \in Refs(c)' <=> q \in Refs(c)
  BY <1>1 DEF Refs, Token
<1>2. Refs(c) \in SUBSET Token /\ Refs(c)' \in SUBSET Token
  BY DEF Refs
<1> QED BY <1>1, <1>2, TableToken

-----------------------------------------------------------------------------
(* What a step does to the invariant of the references: nothing, one more  *)
(* (skynet_context_grab), or one less (skynet_context_release).            *)
LEMMA RefKeeps ==
    ASSUME RefInv, UNCHANGED <<mem, ref, del>>, \A c \in Ctx: Refs(c)' = Refs(c),
           \A t \in Thread: ppc'[t] = "none" \/ ppc'[t] = ppc[t] \/ del[t] = None
    PROVE  RefInv'
<1>1. Counts' /\ RefsLive'
  BY DEF RefInv, Counts, RefsLive
<1>2. LastDeletes' /\ DeletesLast'
  BY DEF RefInv, LastDeletes, DeletesLast
<1> QED BY <1>1, <1>2 DEF RefInv

LEMMA RefGains ==
    ASSUME TypeOK, RefInv, NEW c \in Ctx, slot[c], ref' = [ref EXCEPT ![c] = @ + 1],
           UNCHANGED <<mem, del>>, NEW r, r \notin Refs(c), Refs(c)' = Refs(c) \cup {r},
           \A d \in Ctx: d # c => Refs(d)' = Refs(d),
           \A t \in Thread: ppc'[t] = "none" \/ ppc'[t] = ppc[t] \/ del[t] = None
    PROVE  RefInv'
<1>1. mem[c] = "live" /\ ref[c] > 0 /\ ref \in [Ctx -> Int]
  BY HasRefs DEF TypeOK, ContextType
<1>2. ref'[c] = ref[c] + 1 /\ \A d \in Ctx: d # c => ref'[d] = ref[d]
  BY <1>1
<1>3. Cardinality(Refs(c)') = Cardinality(Refs(c)) + 1
  BY RefsFinite, FS_AddElement
<1>4. Counts'
  BY <1>2, <1>3 DEF RefInv, Counts
<1>5. RefsLive'
  BY <1>1 DEF RefInv, RefsLive
<1>6. LastDeletes' /\ DeletesLast'
  BY <1>1, <1>2 DEF RefInv, LastDeletes, DeletesLast
<1> QED BY <1>4, <1>5, <1>6 DEF RefInv

LEMMA RefDrops ==
    ASSUME TypeOK, RefInv, NEW t \in Thread, NEW c \in Ctx, DropRef(t, c), del[t] = None,
           UNCHANGED mem, NEW r, r \in Refs(c), Refs(c)' = Refs(c) \ {r},
           \A d \in Ctx: d # c => Refs(d)' = Refs(d),
           \A u \in Thread: ppc'[u] = "none" \/ (ppc'[u] = ppc[u] /\ u # t)
    PROVE  RefInv'
<1>1. mem[c] = "live" /\ ref[c] = Cardinality(Refs(c)) /\ ref \in [Ctx -> Int]
      /\ del \in [Thread -> Ctx \cup {None}]
  BY DEF RefInv, Counts, RefsLive, TypeOK, ContextType, ThreadType
<1>2. ref'[c] = ref[c] - 1 /\ \A d \in Ctx: d # c => ref'[d] = ref[d]
  BY <1>1 DEF DropRef
<1>a. IsFiniteSet(Refs(c)) /\ Cardinality(Refs(c)) \in Nat /\ Cardinality(Refs(c)) # 0
  BY RefsFinite
<1>3. Cardinality(Refs(c)') = Cardinality(Refs(c)) - 1 /\ ref[c] \in Nat /\ ref[c] # 0
  BY <1>1, <1>a, FS_RemoveElement
<1>4. Counts'
  BY <1>1, <1>2, <1>3 DEF RefInv, Counts
<1>5. RefsLive'
  BY <1>1 DEF RefInv, RefsLive
<1>6. ~\E u \in Thread: del[u] = c
  BY <1>3 DEF RefInv, LastDeletes
<1>7. CASE ref[c] = 1
  <2>1. del' = [del EXCEPT ![t] = c] /\ ref'[c] = 0
    BY <1>2, <1>7 DEF DropRef
  <2>2. LastDeletes'
    BY <1>1, <1>2, <1>6, <2>1, NoneAssumption DEF RefInv, LastDeletes
  <2>3. DeletesLast'
    BY <1>1, <2>1 DEF RefInv, DeletesLast
  <2> QED BY <1>4, <1>5, <2>2, <2>3 DEF RefInv
<1>8. CASE ref[c] # 1
  <2>1. UNCHANGED del /\ ref'[c] # 0
    BY <1>1, <1>2, <1>8 DEF DropRef
  <2>2. LastDeletes' /\ DeletesLast'
    BY <1>2, <1>3, <2>1 DEF RefInv, LastDeletes, DeletesLast
  <2> QED BY <1>4, <1>5, <2>2 DEF RefInv
<1> QED BY <1>7, <1>8

-----------------------------------------------------------------------------
(* The actions that leave every reference where it is.                     *)
NoRefMoves ==
    /\ UNCHANGED <<mem, slot, ref, del>>
    /\ \A c \in Ctx: SameFrames(c)
    /\ \A t \in Thread: ppc'[t] = "none" \/ ppc'[t] = ppc[t] \/ del[t] = None

LEMMA NoRefMovesKeeps == RefInv /\ NoRefMoves => RefInv'
BY RefsSame, RefKeeps DEF NoRefMoves

LEMMA WorkerMovesNoRef ==
    ASSUME TypeOK, NEW w \in Worker,
           \/ Pop(w) \/ PopNone(w) \/ CheckAbort(w) \/ MqRelease(w) \/ MqPop(w) \/ Return(w) \/ PushGlobal(w)
           \/ MakeQueue(w) \/ SetInit(w) \/ ForcePush(w) \/ FailRelease(w)
           \/ SetCallback(w) \/ Lock(w) \/ Unlock(w)
           \/ SendRemote(w) \/ CallRemote(w) \/ Register(w)
    PROVE  NoRefMoves
<1> USE DEF NoRefMoves, SameFrames, DispatchRef, LaunchRef, PushRef, TypeOK, WorkerType
<1>1. CASE Pop(w)
  BY <1>1 DEF Pop
<1>2. CASE PopNone(w) \/ CheckAbort(w)
  BY <1>2 DEF PopNone, CheckAbort
<1>3. CASE MqRelease(w)
  BY <1>3 DEF MqRelease
<1>4. CASE MqPop(w)
  BY <1>4 DEF MqPop
<1>5. CASE Return(w)
  BY <1>5 DEF Return
<1>6. CASE PushGlobal(w)
  BY <1>6 DEF PushGlobal
<1>7. CASE MakeQueue(w)
  BY <1>7 DEF MakeQueue
<1>8. CASE SetInit(w)
  BY <1>8 DEF SetInit
<1>9. CASE ForcePush(w)
  BY <1>9 DEF ForcePush
<1>10. CASE FailRelease(w)
  BY <1>10 DEF FailRelease
<1>11. CASE SetCallback(w) \/ Lock(w) \/ Unlock(w)
  BY <1>11 DEF SetCallback, Lock, Unlock
<1>12. CASE SendRemote(w) \/ CallRemote(w) \/ Register(w)
  BY <1>12 DEF SendRemote, CallRemote, Register, PushToHarbor
<1> QED BY <1>1, <1>2, <1>3, <1>4, <1>5, <1>6, <1>7, <1>8, <1>9, <1>10, <1>11, <1>12

LEMMA ThreadMovesNoRef ==
    ASSUME TypeOK, RefInv, NEW t \in Thread, MqPush(t) \/ MarkRelease(t)
    PROVE  NoRefMoves
<1> USE DEF NoRefMoves, SameFrames, DispatchRef, LaunchRef, PushRef, TypeOK, ThreadType
<1>1. CASE MqPush(t)
  BY <1>1 DEF MqPush, RefInv, DeletesLast
<1>2. CASE MarkRelease(t)
  BY <1>2 DEF MarkRelease
<1> QED BY <1>1, <1>2

(* The start of a push: the receiver is grabbed, or it is gone.            *)
LEMMA RefPushStart ==
    ASSUME TypeOK, RefInv, NEW t \in Thread, NEW c \in Ctx, NEW m, PushStart(t, c, m), Calm(t),
           UNCHANGED <<mem, slot, del, pc, cur, npc, newc>>
    PROVE  RefInv'
<1> USE NoneAssumption DEF TypeOK, ThreadType
<1>1. CASE Grab(c) /\ ppc' = [ppc EXCEPT ![t] = "push"] /\ dst' = [dst EXCEPT ![t] = c]
  <2> USE <1>1
  <2>1. slot[c] /\ ref' = [ref EXCEPT ![c] = @ + 1]
    BY DEF Grab
  <2>2. ~PushRef(t, c) /\ PushRef(t, c)'
    BY DEF PushRef, Calm
  <2>3. /\ \A v \in Worker, d \in Ctx: /\ LaunchRef(v, d)' <=> LaunchRef(v, d)
                                       /\ DispatchRef(v, d)' <=> DispatchRef(v, d)
        /\ \A u \in Thread, d \in Ctx: u # t \/ d # c => (PushRef(u, d)' <=> PushRef(u, d))
    BY DEF PushRef, LaunchRef, DispatchRef, Calm
  <2>4. Refs(c)' = Refs(c) \cup {<<"push", t>>} /\ <<"push", t>> \notin Refs(c)
    BY <2>2, <2>3, PushChanges, PushToken
  <2>5. \A d \in Ctx: d # c => Refs(d)' = Refs(d)
    BY <2>3, RefsSame DEF SameFrames
  <2>6. \A u \in Thread: ppc'[u] = ppc[u] \/ del[u] = None
    BY DEF Calm
  <2> QED BY <2>1, <2>4, <2>5, <2>6, RefGains
<1>2. CASE UNCHANGED <<ref, ppc, dst>>
  <2>1. \A d \in Ctx: SameFrames(d)
    BY <1>2 DEF SameFrames, DispatchRef, LaunchRef, PushRef
  <2> QED BY <1>2, <2>1, NoRefMovesKeeps DEF NoRefMoves
<1> QED BY <1>1, <1>2 DEF PushStart

LEMMA RefSends ==
    ASSUME TypeOK, RefInv, NEW w \in Worker, Send(w) \/ Call(w) \/ Reply(w) \/ Kill(w)
    PROVE  RefInv'
<1> USE DEF Thread
<1>1. Calm(w)
  BY DEF Send, Call, Reply, Kill, UserCode, Returned
<1>2. UNCHANGED <<mem, slot, del, pc, cur, npc, newc>>
  BY DEF Send, Call, Reply, Kill
<1>3. \/ \E c, m: PushStart(w, c, m)
      \/ UNCHANGED <<ref, pushVars, sent>>
  <2>1. CASE Send(w)
    BY <2>1 DEF Send
  <2>2. CASE Call(w)
    BY <2>2 DEF Call
  <2>3. CASE Reply(w)
    BY <2>3 DEF Reply
  <2>4. CASE Kill(w)
    BY <2>4 DEF Kill
  <2> QED BY <2>1, <2>2, <2>3, <2>4
<1>4. ASSUME NEW c, NEW m, PushStart(w, c, m) PROVE RefInv'
  BY <1>1, <1>2, <1>4, RefPushStart DEF PushStart, Known
<1>5. CASE UNCHANGED <<ref, pushVars, sent>>
  <2>1. \A d \in Ctx: SameFrames(d)
    BY <1>2, <1>5 DEF SameFrames, DispatchRef, LaunchRef, PushRef
  <2> QED BY <1>2, <1>5, <2>1, NoRefMovesKeeps DEF NoRefMoves
<1> QED BY <1>3, <1>4, <1>5

LEMMA RefHelper ==
    ASSUME TypeOK, RefInv, NEW t \in Helper, HelperPush(t) \/ Endless(t)
    PROVE  RefInv'
<1> USE NoneAssumption DEF Thread
<1>1. CASE HelperPush(t)
  <2>1. PICK c, m: c \in Ctx /\ PushStart(t, c, m)
    BY <1>1 DEF HelperPush
  <2> QED BY <1>1, <2>1, RefPushStart DEF HelperPush
<1>2. CASE Endless(t)
  <2> USE <1>2 DEF Endless, TypeOK, ThreadType
  <2>0. PICK c \in Ctx: Grab(c) /\ dst' = [dst EXCEPT ![t] = c]
    BY DEF Known
  <2>1. slot[c] /\ ref' = [ref EXCEPT ![c] = @ + 1]
    BY <2>0 DEF Grab
  <2>2. ~PushRef(t, c) /\ PushRef(t, c)'
    BY <2>0 DEF PushRef, Calm
  <2>3. /\ \A v \in Worker, d \in Ctx: /\ LaunchRef(v, d)' <=> LaunchRef(v, d)
                                       /\ DispatchRef(v, d)' <=> DispatchRef(v, d)
        /\ \A u \in Thread, d \in Ctx: u # t \/ d # c => (PushRef(u, d)' <=> PushRef(u, d))
    BY <2>0 DEF PushRef, LaunchRef, DispatchRef, Calm
  <2>4. Refs(c)' = Refs(c) \cup {<<"push", t>>} /\ <<"push", t>> \notin Refs(c)
    BY <2>2, <2>3, PushChanges, PushToken
  <2>5. \A d \in Ctx: d # c => Refs(d)' = Refs(d)
    BY <2>3, RefsSame DEF SameFrames
  <2>6. \A u \in Thread: ppc'[u] = ppc[u] \/ del[u] = None
    BY DEF Calm
  <2> QED BY <2>1, <2>4, <2>5, <2>6, RefGains
<1> QED BY <1>1, <1>2

LEMMA RefGrabCurrent ==
    ASSUME TypeOK, RefInv, NEW w \in Worker, GrabCurrent(w)
    PROVE  RefInv'
<1>0. PICK c \in Ctx: c = cur[w]
  BY NoneAssumption DEF GrabCurrent, TypeOK, WorkerType
<1>1. c \in Ctx /\ w \in Thread /\ mem' = mem /\ del' = del /\ ppc' = ppc /\ slot' = slot
  BY <1>0 DEF GrabCurrent, TypeOK, WorkerType, Thread
<1>2. CASE Grab(cur[w]) /\ pc' = [pc EXCEPT ![w] = "grabbed"]
  <2>1. slot[c] /\ ref' = [ref EXCEPT ![c] = @ + 1]
    BY <1>0, <1>2 DEF Grab
  <2>2. ~DispatchRef(w, c) /\ DispatchRef(w, c)'
    BY <1>0, <1>2 DEF GrabCurrent, TypeOK, WorkerType, DispatchRef
  <2>3. /\ \A v \in Worker, d \in Ctx: v # w \/ d # c =>
                (DispatchRef(v, d)' <=> DispatchRef(v, d))
        /\ \A v \in Worker, d \in Ctx: LaunchRef(v, d)' <=> LaunchRef(v, d)
        /\ \A u \in Thread, d \in Ctx: PushRef(u, d)' <=> PushRef(u, d)
    BY <1>0, <1>2 DEF GrabCurrent, TypeOK, WorkerType, PushRef, LaunchRef, DispatchRef
  <2>4. Refs(c)' = Refs(c) \cup {<<"dispatch", w>>} /\ <<"dispatch", w>> \notin Refs(c)
    BY <1>1, <2>2, <2>3, DispatchChanges, DispatchToken
  <2>5. \A d \in Ctx: d # c => Refs(d)' = Refs(d)
    BY <1>1, <2>3, RefsSame DEF SameFrames
  <2> QED BY <1>1, <2>1, <2>4, <2>5, RefGains
<1>3. CASE pc' = [pc EXCEPT ![w] = "orphan"] /\ UNCHANGED ref
  <2>1. \A d \in Ctx: SameFrames(d)
    BY <1>0, <1>3 DEF GrabCurrent, TypeOK, WorkerType, SameFrames, DispatchRef, LaunchRef, PushRef
  <2> QED BY <1>1, <1>3, <2>1, NoRefMovesKeeps DEF NoRefMoves
<1> QED BY <1>0, <1>2, <1>3 DEF GrabCurrent

LEMMA RefUnref ==
    ASSUME TypeOK, RefInv, NEW w \in Worker, Unref(w)
    PROVE  RefInv'
<1>0. PICK c \in Ctx: c = cur[w]
  BY NoneAssumption DEF Unref, TypeOK, WorkerType
<1>1. /\ c = cur[w] /\ w \in Thread /\ del[w] = None /\ ppc[w] = "none"
      /\ DropRef(w, c) /\ mem' = mem /\ ppc' = ppc /\ slot' = slot
  BY <1>0, NoneAssumption DEF Unref, TypeOK, WorkerType, Thread, InDispatch, Returned, Calm
<1>2. DispatchRef(w, c) /\ ~DispatchRef(w, c)'
  BY <1>0, NoneAssumption DEF Unref, TypeOK, WorkerType, DispatchRef
<1>3. /\ \A v \in Worker, d \in Ctx: v # w \/ d # c =>
              (DispatchRef(v, d)' <=> DispatchRef(v, d))
      /\ \A v \in Worker, d \in Ctx: LaunchRef(v, d)' <=> LaunchRef(v, d)
      /\ \A u \in Thread, d \in Ctx: PushRef(u, d)' <=> PushRef(u, d)
  BY <1>0, NoneAssumption DEF Unref, TypeOK, WorkerType, PushRef, LaunchRef, DispatchRef
<1>4. Refs(c)' = Refs(c) \ {<<"dispatch", w>>} /\ <<"dispatch", w>> \in Refs(c)
  BY <1>1, <1>2, <1>3, DispatchChanges, DispatchToken
<1>5. \A d \in Ctx: d # c => Refs(d)' = Refs(d)
  BY <1>1, <1>3, RefsSame DEF SameFrames
<1>6. \A u \in Thread: ppc'[u] = "none" \/ (ppc'[u] = ppc[u] /\ u # w)
  BY <1>1
<1> QED BY <1>1, <1>4, <1>5, <1>6, RefDrops

LEMMA RefInitEnds ==
    ASSUME TypeOK, RefInv, NEW w \in Worker, InitOk(w) \/ InitFail(w)
    PROVE  RefInv'
<1>0. PICK c \in Ctx: c = newc[w]
  BY NoneAssumption DEF InitOk, InitFail, TypeOK, WorkerType
<1>1. /\ c = newc[w] /\ w \in Thread /\ del[w] = None /\ ppc[w] = "none"
      /\ DropRef(w, c) /\ mem' = mem /\ ppc' = ppc /\ slot' = slot
  BY <1>0 DEF InitOk, InitFail, TypeOK, WorkerType, Thread, Returned, Calm
<1>2. LaunchRef(w, c) /\ ~LaunchRef(w, c)'
  BY <1>0 DEF InitOk, InitFail, TypeOK, WorkerType, LaunchRef
<1>3. /\ \A v \in Worker, d \in Ctx: v # w \/ d # c =>
              (LaunchRef(v, d)' <=> LaunchRef(v, d))
      /\ \A v \in Worker, d \in Ctx: DispatchRef(v, d)' <=> DispatchRef(v, d)
      /\ \A u \in Thread, d \in Ctx: PushRef(u, d)' <=> PushRef(u, d)
  BY <1>0 DEF InitOk, InitFail, TypeOK, WorkerType, PushRef, LaunchRef, DispatchRef
<1>4. Refs(c)' = Refs(c) \ {<<"launch", w>>} /\ <<"launch", w>> \in Refs(c)
  BY <1>1, <1>2, <1>3, LaunchChanges, LaunchToken
<1>5. \A d \in Ctx: d # c => Refs(d)' = Refs(d)
  BY <1>1, <1>3, RefsSame DEF SameFrames
<1>6. \A u \in Thread: ppc'[u] = "none" \/ (ppc'[u] = ppc[u] /\ u # w)
  BY <1>1
<1> QED BY <1>1, <1>4, <1>5, <1>6, RefDrops

LEMMA RefPushRelease ==
    ASSUME TypeOK, RefInv, NEW t \in Thread, PushRelease(t)
    PROVE  RefInv'
<1>0. PICK c \in Ctx: c = dst[t]
  BY NoneAssumption DEF PushRelease, TypeOK, ThreadType
<1>1. /\ c = dst[t] /\ del[t] = None /\ DropRef(t, c) /\ mem' = mem /\ slot' = slot
      /\ ppc' = [ppc EXCEPT ![t] = "none"]
  BY <1>0, NoneAssumption DEF PushRelease, TypeOK, ThreadType, RefInv, DeletesLast
<1>2. PushRef(t, c) /\ ~PushRef(t, c)'
  BY <1>0, NoneAssumption DEF PushRelease, TypeOK, ThreadType, PushRef
<1>3. /\ \A u \in Thread, d \in Ctx: u # t \/ d # c =>
              (PushRef(u, d)' <=> PushRef(u, d))
      /\ \A v \in Worker, d \in Ctx: /\ DispatchRef(v, d)' <=> DispatchRef(v, d)
                                     /\ LaunchRef(v, d)' <=> LaunchRef(v, d)
  BY <1>0, NoneAssumption DEF PushRelease, TypeOK, ThreadType, PushRef, LaunchRef, DispatchRef
<1>4. \A u \in Thread: ppc'[u] = "none" \/ (ppc'[u] = ppc[u] /\ u # t)
  BY <1>1 DEF TypeOK, ThreadType
<1>5. Refs(c)' = Refs(c) \ {<<"push", t>>} /\ <<"push", t>> \in Refs(c)
  BY <1>1, <1>2, <1>3, PushChanges, PushToken
<1>6. \A d \in Ctx: d # c => Refs(d)' = Refs(d)
  BY <1>1, <1>3, RefsSame DEF SameFrames
<1> QED BY <1>1, <1>4, <1>5, <1>6, RefDrops

LEMMA RefRetires ==
    ASSUME TypeOK, RefInv, NEW w \in Worker, FailRetire(w) \/ KillRetire(w)
    PROVE  RefInv'
<1>1. PICK c \in Ctx: Retire(w, c)
  BY DEF FailRetire, KillRetire, TypeOK, WorkerType
<1>2. /\ w \in Thread /\ del[w] = None /\ ppc[w] = "none" /\ mem' = mem /\ ppc' = ppc
      /\ dst' = dst /\ pc' = pc /\ cur' = cur
  BY DEF FailRetire, KillRetire, Returned, Calm, Thread
<1>3. \A d \in Ctx: /\ \A v \in Worker: DispatchRef(v, d)' <=> DispatchRef(v, d)
                    /\ \A v \in Worker: LaunchRef(v, d)' <=> LaunchRef(v, d)
                    /\ \A t \in Thread: PushRef(t, d)' <=> PushRef(t, d)
  BY <1>2 DEF FailRetire, KillRetire, TypeOK, WorkerType, LaunchRef, DispatchRef, PushRef
<1>4. CASE slot[c]
  <2>1. DropRef(w, c) /\ slot' = [slot EXCEPT ![c] = FALSE]
    BY <1>1, <1>4 DEF Retire
  <2>2. slot'[c] = FALSE /\ \A d \in Ctx: d # c => slot'[d] = slot[d]
    BY <2>1 DEF TypeOK, ContextType
  <2>3. Refs(c)' = Refs(c) \ {<<"table", None>>} /\ <<"table", None>> \in Refs(c)
    BY <1>3, <1>4, <2>2, TableChanges, TableToken
  <2>4. \A d \in Ctx: d # c => Refs(d)' = Refs(d)
    BY <1>3, <2>2, RefsSame DEF SameFrames
  <2>5. \A u \in Thread: ppc'[u] = "none" \/ (ppc'[u] = ppc[u] /\ u # w)
    BY <1>2
  <2> QED BY <1>2, <2>1, <2>3, <2>4, <2>5, RefDrops
<1>5. CASE ~slot[c]
  <2>1. slot' = slot /\ ref' = ref /\ del' = del
    BY <1>1, <1>5 DEF Retire
  <2>2. \A d \in Ctx: SameFrames(d)
    BY <1>3, <2>1 DEF SameFrames
  <2> QED BY <1>2, <2>1, <2>2, NoRefMovesKeeps DEF NoRefMoves
<1> QED BY <1>4, <1>5

LEMMA RefLaunch ==
    ASSUME TypeOK, RefInv, NEW w \in Worker, Launch(w)
    PROVE  RefInv'
<1>1. PICK c \in Ctx:
        /\ mem[c] = "none" /\ mem' = [mem EXCEPT ![c] = "live"]
        /\ slot' = [slot EXCEPT ![c] = TRUE] /\ ref' = [ref EXCEPT ![c] = 2]
        /\ newc' = [newc EXCEPT ![w] = c]
  BY DEF Launch
<1>2. /\ npc[w] = "none" /\ npc' = [npc EXCEPT ![w] = "registered"]
      /\ del' = del /\ ppc' = ppc /\ dst' = dst /\ pc' = pc /\ cur' = cur
  BY DEF Launch, InDispatch
<1>3. Refs(c) = {}
  BY <1>1 DEF RefInv, RefsLive
<1>4. /\ mem'[c] = "live" /\ slot'[c] /\ ref'[c] = 2
      /\ \A d \in Ctx: d # c => mem'[d] = mem[d] /\ ref'[d] = ref[d] /\ slot'[d] = slot[d]
  BY <1>1 DEF TypeOK, ContextType
<1>5. \A d \in Ctx: /\ \A v \in Worker: DispatchRef(v, d)' <=> DispatchRef(v, d)
                    /\ \A v \in Worker: v # w \/ d # c => (LaunchRef(v, d)' <=> LaunchRef(v, d))
                    /\ \A t \in Thread: PushRef(t, d)' <=> PushRef(t, d)
  BY <1>1, <1>2 DEF TypeOK, WorkerType, LaunchRef, DispatchRef, PushRef
<1>6. Refs(c)' = {<<"table", None>>} \cup {<<"launch", w>>}
  <2>1. LaunchRef(w, c)'
    BY <1>1, <1>2 DEF TypeOK, WorkerType, LaunchRef
  <2>2. ASSUME NEW q \in Token
        PROVE  q \in Refs(c)' <=> q = <<"table", None>> \/ q = <<"launch", w>>
    <3>1. q \notin Refs(c)
      BY <1>3
    <3>2. CASE q = <<"table", None>>
      BY <1>4, <3>2, TableToken
    <3>3. CASE q = <<"launch", w>>
      BY <2>1, <3>3, LaunchToken
    <3>4. CASE q # <<"table", None>> /\ q # <<"launch", w>>
      BY <1>5, <3>1, <3>4 DEF Refs, Token
    <3> QED BY <3>2, <3>3, <3>4
  <2>3. Refs(c)' \in SUBSET Token /\ <<"table", None>> \in Token /\ <<"launch", w>> \in Token
    BY DEF Refs, Token, Thread
  <2> QED BY <2>2, <2>3
<1>7. Cardinality(Refs(c)') = 2
  <2>1. IsFiniteSet({<<"table", None>>}) /\ Cardinality({<<"table", None>>}) = 1
    BY FS_Singleton
  <2>2. <<"launch", w>> \notin {<<"table", None>>}
    OBVIOUS
  <2>3. Cardinality({<<"table", None>>} \cup {<<"launch", w>>}) = 1 + 1
    BY <2>1, <2>2, FS_AddElement
  <2> QED BY <1>6, <2>3
<1>8. \A d \in Ctx: d # c => Refs(d)' = Refs(d)
  BY <1>4, <1>5, RefsSame DEF SameFrames
<1>9. Counts' /\ RefsLive'
  BY <1>4, <1>7, <1>8 DEF RefInv, Counts, RefsLive
<1>10. ~\E t \in Thread: del[t] = c
  BY <1>1 DEF RefInv, LastDeletes
<1>11. LastDeletes' /\ DeletesLast'
  BY <1>2, <1>4, <1>10 DEF RefInv, LastDeletes, DeletesLast
<1> QED BY <1>9, <1>11 DEF RefInv

LEMMA RefFreeContext ==
    ASSUME TypeOK, RefInv, NEW t \in Thread, FreeContext(t)
    PROVE  RefInv'
<1>0. PICK c \in Ctx: c = del[t]
  BY NoneAssumption DEF FreeContext, TypeOK, ThreadType
<1>1. /\ c = del[t] /\ mem' = [mem EXCEPT ![c] = "freed"] /\ del' = [del EXCEPT ![t] = None]
      /\ ref' = ref /\ slot' = slot /\ ppc' = ppc /\ dst' = dst /\ pc' = pc /\ cur' = cur
      /\ npc' = npc /\ newc' = newc
  BY <1>0, NoneAssumption DEF FreeContext, TypeOK, ThreadType
<1>2. ref[c] = 0
  BY <1>1 DEF RefInv, LastDeletes
<1>3. Refs(c) = {}
  BY <1>1, <1>2, RefsFinite DEF RefInv, Counts
<1>4. \A d \in Ctx: Refs(d)' = Refs(d)
  BY <1>1, RefsSame DEF SameFrames, DispatchRef, LaunchRef, PushRef
<1>5. Counts' /\ RefsLive'
  BY <1>1, <1>3, <1>4 DEF RefInv, Counts, RefsLive, TypeOK, ContextType
<1>6. LastDeletes'
  BY <1>1, NoneAssumption DEF RefInv, LastDeletes, TypeOK, ContextType, ThreadType
<1>7. DeletesLast'
  BY <1>1 DEF RefInv, DeletesLast, TypeOK, ThreadType
<1> QED BY <1>5, <1>6, <1>7 DEF RefInv

LEMMA RefInvInit == ASSUME Init PROVE RefInv
<1>1. ASSUME NEW c \in Ctx
      PROVE  Refs(c) = IF c \in BootSet THEN {<<"table", None>>} ELSE {}
  <2>1. ASSUME NEW q \in Token PROVE q \in Refs(c) <=> c \in BootSet /\ q = <<"table", None>>
    <3>1. q \in Refs(c) <=> q[1] = "table" /\ q[2] = None /\ slot[c]
      BY NoneAssumption DEF Init, Refs, DispatchRef, LaunchRef, PushRef
    <3>2. q = <<q[1], q[2]>>
      BY DEF Token
    <3>3. slot[c] <=> c \in BootSet
      BY DEF Init
    <3> QED BY <3>1, <3>2, <3>3
  <2>2. Refs(c) \in SUBSET Token /\ <<"table", None>> \in Token
    BY DEF Refs, Token
  <2> QED BY <2>1, <2>2
<1>2. Counts
  BY <1>1, FS_EmptySet, FS_Singleton DEF Init, Counts
<1>3. RefsLive
  BY <1>1 DEF Init, RefsLive
<1>4. LastDeletes /\ DeletesLast
  BY NoneAssumption DEF Init, LastDeletes, DeletesLast
<1> QED BY <1>2, <1>3, <1>4 DEF RefInv

LEMMA RefInvNext == ASSUME TypeOK, RefInv, [Next]_vars PROVE RefInv'
<1>1. ASSUME NEW t \in Thread, CallStep(t) PROVE RefInv'
  BY <1>1, ThreadMovesNoRef, NoRefMovesKeeps, RefPushRelease, RefFreeContext DEF CallStep
<1>2. ASSUME NEW w \in Worker, WorkerStep(w) PROVE RefInv'
  BY <1>2, WorkerMovesNoRef, NoRefMovesKeeps, RefGrabCurrent, RefUnref, RefInitEnds, RefRetires
     DEF WorkerStep
<1>3. ASSUME NEW w \in Worker, UserStep(w) PROVE RefInv'
  BY <1>3, WorkerMovesNoRef, NoRefMovesKeeps, RefLaunch, RefSends DEF UserStep
<1>4. ASSUME NEW t \in Helper, HelperPush(t) \/ Endless(t) PROVE RefInv'
  BY <1>4, RefHelper
<1>5. CASE UNCHANGED vars
  <2>1. NoRefMoves
    BY <1>5 DEF vars, NoRefMoves, SameFrames, DispatchRef, LaunchRef, PushRef
  <2> QED BY <2>1, NoRefMovesKeeps
<1> QED BY <1>1, <1>2, <1>3, <1>4, <1>5 DEF Next

-----------------------------------------------------------------------------
(* The global queue as a sequence without repetitions.                     *)
LEMMA QueueAppend ==
    ASSUME gq \in Seq(Ctx), NEW c \in Ctx, gq' = Append(gq, c)
    PROVE  /\ \A d: InQ(d)' <=> InQ(d) \/ d = c
           /\ Distinct /\ ~InQ(c) => Distinct'
<1>1. /\ Len(gq') = Len(gq) + 1 /\ Len(gq) \in Nat
      /\ \A i \in 1 .. Len(gq): gq'[i] = gq[i]
      /\ gq'[Len(gq) + 1] = c
  BY AppendProperties
<1>2. \A d: InQ(d)' <=> InQ(d) \/ d = c
  BY <1>1 DEF InQ
<1>3. ASSUME Distinct, ~InQ(c) PROVE Distinct'
  BY <1>1, <1>3 DEF Distinct, InQ
<1> QED BY <1>2, <1>3

LEMMA QueueTail ==
    ASSUME gq \in Seq(Ctx), gq # <<>>, gq' = Tail(gq), Distinct, NEW h, h = Head(gq)
    PROVE  /\ \A d: InQ(d)' <=> InQ(d) /\ d # h
           /\ Distinct' /\ InQ(h) /\ h \in Ctx
<1>1. /\ Len(gq') = Len(gq) - 1 /\ Len(gq) \in Nat /\ Len(gq) # 0
      /\ \A i \in 1 .. Len(gq'): gq'[i] = gq[i + 1]
      /\ h = gq[1] /\ h \in Ctx
  BY HeadTailProperties, EmptySeq
<1>2. ASSUME NEW d PROVE InQ(d)' <=> InQ(d) /\ d # h
  <2>1. ASSUME InQ(d)' PROVE InQ(d) /\ d # h
    BY <1>1, <2>1 DEF InQ, Distinct
  <2>2. ASSUME InQ(d), d # h PROVE InQ(d)'
    <3>1. PICK i \in 1 .. Len(gq): gq[i] = d
      BY <2>2 DEF InQ
    <3>2. i - 1 \in 1 .. Len(gq') /\ gq'[i - 1] = d
      BY <1>1, <2>2, <3>1
    <3> QED BY <3>2 DEF InQ
  <2> QED BY <2>1, <2>2
<1>3. Distinct'
  BY <1>1 DEF Distinct
<1>4. InQ(h)
  BY <1>1 DEF InQ
<1> QED BY <1>1, <1>2, <1>3, <1>4

-----------------------------------------------------------------------------
(* What the place of a worker or a thread says about the queue it is at.   *)
LEMMA ReleasedIdle ==
    ASSUME TypeOK, RefInv, Life, NEW c \in Ctx, release[c] = 1
    PROVE  /\ ~slot[c] /\ Refs(c) = {} /\ ref[c] = 0
           /\ \A w \in Worker: ~DispatchRef(w, c) /\ ~LaunchRef(w, c)
           /\ \A t \in Thread: ~PushRef(t, c)
<1>1. ref[c] = 0
  BY DEF Life, LifeOf
<1> QED BY <1>1, HasRefs, RefsFinite DEF RefInv, Counts

LEMMA FoundQueue ==
    ASSUME TypeOK, RefInv, OwnInv, NEW w \in Worker, NEW c, c = cur[w],
           pc[w] \in {"popped", "orphan"}
    PROVE  /\ c \in Ctx /\ qmem[c] = "live" /\ Disp(w, c)
           /\ release[c] = 0 => in_global[c] = 1
<1>1. c \in Ctx
  BY DEF TypeOK, WorkerType
<1>2. qmem[c] = "live" /\ Disp(w, c) /\ Own(c)
  BY <1>1 DEF OwnInv, OneOwner, OwnerOf, Own, Hold, Disp
<1>3. in_global[c] # 2
  BY <1>1, <1>2 DEF OwnInv, OneOwner, Flags, FlagOf, OwnerOf, Hold, Disp, Busy
<1>4. in_global[c] \in 0 .. 3
  BY <1>1 DEF TypeOK, QueueType
<1> QED BY <1>1, <1>2, <1>3, <1>4 DEF OwnInv, Flags, FlagOf

LEMMA GrabbedQueue ==
    ASSUME TypeOK, RefInv, OwnInv, NEW w \in Worker, NEW c, c = cur[w],
           pc[w] \in {"grabbed", "call", "back"}
    PROVE  /\ c \in Ctx /\ qmem[c] = "live" /\ Disp(w, c) /\ release[c] = 0
           /\ in_global[c] \in {1, 2} /\ (pc[w] = "grabbed" => in_global[c] = 1)
<1>1. c \in Ctx
  BY DEF TypeOK, WorkerType
<1>2. qmem[c] = "live" /\ Disp(w, c) /\ Own(c)
  BY <1>1 DEF OwnInv, OneOwner, OwnerOf, Own, Hold, Disp
<1>3. release[c] = 0
  <2>1. release[c] \in {0, 1} /\ DispatchRef(w, c)
    BY <1>1 DEF TypeOK, QueueType, DispatchRef
  <2> QED BY <1>1, <2>1, ReleasedIdle DEF OwnInv
<1>4. in_global[c] = 2 => pc[w] # "grabbed"
  BY <1>1, <1>2 DEF OwnInv, OneOwner, Flags, FlagOf, OwnerOf, Hold, Disp, Busy
<1>5. in_global[c] \in 0 .. 3
  BY <1>1 DEF TypeOK, QueueType
<1> QED BY <1>1, <1>2, <1>3, <1>4, <1>5 DEF OwnInv, Flags, FlagOf

LEMMA LaunchedQueue ==
    ASSUME TypeOK, OwnInv, NEW w \in Worker, NEW c, c = newc[w],
           npc[w] \notin {"none", "registered"}
    PROVE  c \in Ctx /\ qmem[c] = "live" /\ Laun(w, c) /\ in_global[c] = 1
<1>1. c \in Ctx /\ Laun(w, c)
  BY DEF TypeOK, WorkerType, Laun
<1> QED BY <1>1 DEF OwnInv, OneOwner, OwnerOf, Flags, FlagOf, Own, Hold

LEMMA HeldQueue ==
    ASSUME TypeOK, RefInv, OwnInv, NEW t \in Thread, NEW c, c = dst[t], ppc[t] # "none"
    PROVE  c \in Ctx /\ qmem[c] = "live" /\ release[c] = 0
<1>1. c \in Ctx /\ PushRef(t, c) /\ c # None
  BY NoneAssumption DEF TypeOK, ThreadType, PushRef
<1>2. release[c] = 0
  <2>1. release[c] \in {0, 1}
    BY <1>1 DEF TypeOK, QueueType
  <2> QED BY <1>1, <2>1, ReleasedIdle DEF OwnInv
<1>3. qmem[c] \in {"none", "live", "freed"}
  BY <1>1 DEF TypeOK, QueueType
<1> QED BY <1>1, <1>2, <1>3 DEF OwnInv, Life, LifeOf

LEMMA HarborQueue ==
    ASSUME TypeOK, RefInv, OwnInv, Harbor # None
    PROVE  Harbor \in Ctx /\ qmem[Harbor] = "live" /\ release[Harbor] = 0 /\ slot[Harbor]
<1>1. Harbor \in Ctx /\ slot[Harbor]
  BY HarborAssumption, DispatchAssumption DEF BootSet, OwnInv, HarborStays
<1>2. release[Harbor] = 0
  <2>1. release[Harbor] \in {0, 1}
    BY <1>1 DEF TypeOK, QueueType
  <2> QED BY <1>1, <2>1, ReleasedIdle DEF OwnInv
<1>3. mem[Harbor] = "live"
  BY <1>1, HasRefs
<1>4. qmem[Harbor] \in {"none", "live", "freed"}
  BY <1>1 DEF TypeOK, QueueType
<1> QED BY <1>1, <1>2, <1>3, <1>4 DEF OwnInv, Life, LifeOf, HarborStays

-----------------------------------------------------------------------------
(* The owner and the flags of a queue that a step leaves alone.            *)
QueueInv(c) == OwnerOf(c) /\ FlagOf(c)

SamePlace(c) ==
    /\ InQ(c)' <=> InQ(c)
    /\ \A w \in Worker: /\ Disp(w, c)' <=> Disp(w, c)
                        /\ Laun(w, c)' <=> Laun(w, c)
                        /\ Busy(w, c) => Busy(w, c)'

SameQueue(c) ==
    /\ qmem'[c] = qmem[c] /\ in_global'[c] = in_global[c] /\ queue'[c] = queue[c]
    /\ lock_session'[c] = lock_session[c] /\ release'[c] = release[c]
    /\ SamePlace(c)

LEMMA SameQueueKeeps ==
    ASSUME NEW c, SameQueue(c), QueueInv(c)
    PROVE  QueueInv(c)'
<1>1. /\ \A w \in Worker: Hold(w, c)' <=> Hold(w, c)
      /\ Own(c)' <=> Own(c)
  BY DEF SameQueue, SamePlace, Hold, Own
<1>2. OwnerOf(c)'
  BY <1>1 DEF QueueInv, OwnerOf, SameQueue, SamePlace
<1>3. FlagOf(c)'
  BY <1>1 DEF QueueInv, FlagOf, SameQueue, SamePlace
<1> QED BY <1>2, <1>3 DEF QueueInv

QueuesKept == Distinct' /\ \A c \in Ctx: QueueInv(c)'

LEMMA QueuesKeptMeans == QueuesKept => OneOwner' /\ Flags'
BY DEF QueuesKept, QueueInv, OneOwner, Flags

(* Every queue but the one of c stays as it is. *)
LEMMA OneQueueMoves ==
    ASSUME OwnInv, NEW c, Distinct', c \in Ctx => QueueInv(c)',
           \A d \in Ctx: d # c => SameQueue(d)
    PROVE  QueuesKept
BY SameQueueKeeps DEF OwnInv, OneOwner, Flags, QueueInv, QueuesKept

LEMMA NoQueueMoves ==
    ASSUME OwnInv, gq' = gq, UNCHANGED queueVars,
           \A w \in Worker: \A d \in Ctx: /\ Disp(w, d)' <=> Disp(w, d)
                                          /\ Laun(w, d)' <=> Laun(w, d)
                                          /\ Busy(w, d) => Busy(w, d)'
    PROVE  QueuesKept
<1>1. \A d \in Ctx: SameQueue(d)
  BY DEF SameQueue, SamePlace, InQ
<1>2. Distinct'
  BY DEF OwnInv, OneOwner, Distinct
<1> QED BY <1>1, <1>2, SameQueueKeeps DEF OwnInv, OneOwner, Flags, QueueInv, QueuesKept

(* What a push may do to the frames of the workers: nothing. *)
LEMMA SameWorkers ==
    ASSUME UNCHANGED <<pc, cur, npc, newc>>
    PROVE  \A w \in Worker: \A d \in Ctx: /\ Disp(w, d)' <=> Disp(w, d)
                                          /\ Laun(w, d)' <=> Laun(w, d)
                                          /\ Busy(w, d)' <=> Busy(w, d)
BY DEF Disp, Laun, Busy

LEMMA QueuesRest ==
    ASSUME TypeOK, OwnInv, NEW w \in Worker,
           \/ PopNone(w) \/ CheckAbort(w) \/ GrabCurrent(w) \/ Return(w) \/ Unref(w) \/ InitOk(w) \/ SetInit(w)
           \/ InitFail(w) \/ FailRetire(w) \/ KillRetire(w) \/ Launch(w)
    PROVE  QueuesKept
<1> USE DEF TypeOK, WorkerType, Disp, Laun, Busy
<1>1. CASE PopNone(w) \/ CheckAbort(w)
  BY <1>1, NoQueueMoves DEF PopNone, CheckAbort
<1>2. CASE GrabCurrent(w)
  BY <1>2, NoQueueMoves DEF GrabCurrent
<1>3. CASE Return(w)
  BY <1>3, NoQueueMoves DEF Return
<1>4. CASE Unref(w)
  BY <1>4, NoQueueMoves DEF Unref
<1>5. CASE InitOk(w)
  BY <1>5, NoQueueMoves DEF InitOk
<1>6. CASE SetInit(w)
  BY <1>6, NoQueueMoves DEF SetInit
<1>7. CASE InitFail(w)
  BY <1>7, NoQueueMoves DEF InitFail
<1>8. CASE FailRetire(w)
  BY <1>8, NoQueueMoves DEF FailRetire
<1>9. CASE KillRetire(w)
  BY <1>9, NoQueueMoves DEF KillRetire
<1>10. CASE Launch(w)
  BY <1>10, NoQueueMoves DEF Launch, InDispatch
<1> QED BY <1>1, <1>2, <1>3, <1>4, <1>5, <1>6, <1>7, <1>8, <1>9, <1>10

LEMMA QueuesRestUser ==
    ASSUME OwnInv, NEW w \in Worker,
           Send(w) \/ Call(w) \/ Reply(w) \/ Kill(w) \/ SetCallback(w)
    PROVE  QueuesKept
BY SameWorkers, NoQueueMoves DEF Send, Call, Reply, Kill, SetCallback

LEMMA QueuesRestThread ==
    ASSUME OwnInv, NEW t \in Thread,
           PushRelease(t) \/ FreeContext(t) \/ HelperPush(t) \/ Endless(t)
    PROVE  QueuesKept
BY SameWorkers, NoQueueMoves DEF PushRelease, FreeContext, HelperPush, Endless

-----------------------------------------------------------------------------
(* The actions that move a queue, or change what is known of it.           *)
LEMMA QueuesPop ==
    ASSUME TypeOK, RefInv, OwnInv, NEW w \in Worker, Pop(w)
    PROVE  QueuesKept
<1>1. PICK c: c = Head(gq)
  OBVIOUS
<1>2. gq \in Seq(Ctx) /\ gq # <<>> /\ gq' = Tail(gq) /\ Distinct
  BY DEF Pop, TypeOK, GlobalType, OwnInv, OneOwner
<1>3. /\ \A d: InQ(d)' <=> InQ(d) /\ d # c
      /\ Distinct' /\ InQ(c) /\ c \in Ctx
  BY <1>1, <1>2, QueueTail
<1>4. /\ \A v \in Worker: \A d \in Ctx: v # w \/ d # c => (Disp(v, d)' <=> Disp(v, d))
      /\ \A v \in Worker: \A d \in Ctx: Laun(v, d)' <=> Laun(v, d)
      /\ \A v \in Worker: \A d \in Ctx: Busy(v, d)' <=> Busy(v, d)
      /\ Disp(w, c)'
  BY <1>1, <1>3 DEF Pop, TypeOK, WorkerType, Disp, Laun, Busy
<1>5. UNCHANGED queueVars
  BY DEF Pop
<1>6. \A d \in Ctx: d # c => SameQueue(d)
  BY <1>3, <1>4, <1>5 DEF SameQueue, SamePlace
<1>7. OwnerOf(c) /\ FlagOf(c)
  BY <1>3 DEF OwnInv, OneOwner, Flags
<1>8. ~InQ(c)' /\ \A v \in Worker: (Hold(v, c)' <=> v = w) /\ ~Hold(v, c)
  BY <1>3, <1>4, <1>7 DEF OwnerOf, Hold
<1>9. OwnerOf(c)'
  BY <1>3, <1>4, <1>5, <1>7, <1>8 DEF OwnerOf, Own, Hold
<1>10. FlagOf(c)'
  BY <1>3, <1>4, <1>5, <1>7, <1>8 DEF FlagOf, Own
<1> QED BY <1>3, <1>6, <1>9, <1>10, OneQueueMoves DEF QueueInv

(* skynet_mq_release, by the one who holds the queue. *)
LEMMA QueueReleased ==
    ASSUME TypeOK, OwnInv, NEW w \in Worker, NEW c \in Ctx, Hold(w, c), MqReleaseOf(c),
           release[c] = 0 => in_global[c] = 1,
           UNCHANGED <<lock_session, release>>,
           \A v \in Worker: \A d \in Ctx: v # w \/ d # c =>
                /\ Disp(v, d)' <=> Disp(v, d)
                /\ Laun(v, d)' <=> Laun(v, d),
           \A v \in Worker: \A d \in Ctx: Busy(v, d)' <=> Busy(v, d),
           ~Hold(w, c)'
    PROVE  QueuesKept
<1>1. gq \in Seq(Ctx) /\ release[c] \in {0, 1}
  BY DEF TypeOK, GlobalType, QueueType
<1>2. OwnerOf(c) /\ FlagOf(c) /\ Distinct
  BY DEF OwnInv, OneOwner, Flags
<1>3. ~InQ(c) /\ \A v \in Worker: v # w => ~Hold(v, c)
  BY <1>2 DEF OwnerOf
<1>4. \A v \in Worker: ~Hold(v, c)' /\ ~Disp(v, c)' /\ ~Laun(v, c)'
  BY <1>3 DEF Hold
<1>5. CASE release[c] = 1
  <2>1. /\ gq' = gq /\ qmem' = [qmem EXCEPT ![c] = "freed"]
        /\ queue' = [queue EXCEPT ![c] = <<>>] /\ in_global' = [in_global EXCEPT ![c] = 0]
    BY <1>5 DEF MqReleaseOf
  <2>2. \A d: InQ(d)' <=> InQ(d)
    BY <2>1 DEF InQ
  <2>3. \A d \in Ctx: d # c => SameQueue(d)
    BY <2>1, <2>2 DEF SameQueue, SamePlace, TypeOK, QueueType
  <2>4. QueueInv(c)'
    BY <1>3, <1>4, <2>1, <2>2 DEF QueueInv, OwnerOf, FlagOf, Own, TypeOK, QueueType
  <2>5. Distinct'
    BY <1>2, <2>1 DEF Distinct
  <2> QED BY <2>3, <2>4, <2>5, OneQueueMoves
<1>6. CASE release[c] = 0
  <2>1. gq' = Append(gq, c) /\ UNCHANGED <<qmem, queue, in_global>>
    BY <1>6 DEF MqReleaseOf
  <2>2. (\A d: InQ(d)' <=> InQ(d) \/ d = c) /\ Distinct'
    BY <1>1, <1>2, <1>3, <2>1, QueueAppend
  <2>3. \A d \in Ctx: d # c => SameQueue(d)
    BY <2>1, <2>2 DEF SameQueue, SamePlace
  <2>4. qmem[c] = "live" /\ in_global[c] = 1
    BY <1>2, <1>6 DEF OwnerOf, Own
  <2>5. QueueInv(c)'
    BY <1>2, <1>4, <1>6, <2>1, <2>2, <2>4 DEF QueueInv, OwnerOf, FlagOf, Own
  <2> QED BY <2>2, <2>3, <2>5, OneQueueMoves
<1> QED BY <1>1, <1>5, <1>6

LEMMA QueuesMqRelease ==
    ASSUME TypeOK, RefInv, OwnInv, NEW w \in Worker, MqRelease(w)
    PROVE  QueuesKept
<1>1. PICK c: c = cur[w]
  OBVIOUS
<1>2. c \in Ctx /\ Disp(w, c) /\ (release[c] = 0 => in_global[c] = 1)
  BY <1>1, FoundQueue DEF MqRelease
<1>3. ~Laun(w, c)
  BY <1>2 DEF OwnInv, OneOwner, OwnerOf
<1>4. /\ \A v \in Worker: \A d \in Ctx: v # w \/ d # c => (Disp(v, d)' <=> Disp(v, d))
      /\ \A v \in Worker: \A d \in Ctx: Laun(v, d)' <=> Laun(v, d)
      /\ \A v \in Worker: \A d \in Ctx: Busy(v, d)' <=> Busy(v, d)
      /\ ~Disp(w, c)'
  BY <1>1, <1>2 DEF MqRelease, TypeOK, WorkerType, Disp, Laun, Busy
<1> QED BY <1>1, <1>2, <1>3, <1>4, QueueReleased DEF MqRelease, Hold

LEMMA QueuesFailRelease ==
    ASSUME TypeOK, RefInv, OwnInv, NEW w \in Worker, FailRelease(w)
    PROVE  QueuesKept
<1>1. PICK c: c = newc[w]
  OBVIOUS
<1>2. c \in Ctx /\ Laun(w, c) /\ in_global[c] = 1
  BY <1>1, LaunchedQueue DEF FailRelease
<1>3. ~Disp(w, c)
  BY <1>2 DEF OwnInv, OneOwner, OwnerOf
<1>4. /\ \A v \in Worker: \A d \in Ctx: v # w \/ d # c => (Laun(v, d)' <=> Laun(v, d))
      /\ \A v \in Worker: \A d \in Ctx: Disp(v, d)' <=> Disp(v, d)
      /\ \A v \in Worker: \A d \in Ctx: Busy(v, d)' <=> Busy(v, d)
      /\ ~Laun(w, c)'
  BY <1>1, <1>2 DEF FailRelease, TypeOK, WorkerType, Disp, Laun, Busy
<1> QED BY <1>1, <1>2, <1>3, <1>4, QueueReleased DEF FailRelease, Hold

LEMMA QueuesForcePush ==
    ASSUME TypeOK, RefInv, OwnInv, NEW w \in Worker, ForcePush(w)
    PROVE  QueuesKept
<1>1. PICK c: c = newc[w]
  OBVIOUS
<1>2. c \in Ctx /\ Laun(w, c) /\ in_global[c] = 1 /\ qmem[c] = "live"
  BY <1>1, LaunchedQueue DEF ForcePush
<1>3. OwnerOf(c) /\ FlagOf(c) /\ Distinct /\ gq \in Seq(Ctx)
  BY <1>2 DEF OwnInv, OneOwner, Flags, TypeOK, GlobalType
<1>4. /\ \A v \in Worker: \A d \in Ctx: v # w \/ d # c => (Laun(v, d)' <=> Laun(v, d))
      /\ \A v \in Worker: \A d \in Ctx: Disp(v, d)' <=> Disp(v, d)
      /\ \A v \in Worker: \A d \in Ctx: Busy(v, d)' <=> Busy(v, d)
      /\ ~Laun(w, c)'
  BY <1>1, <1>2 DEF ForcePush, TypeOK, WorkerType, Disp, Laun, Busy
<1>5. ~InQ(c) /\ \A v \in Worker: ~Disp(v, c)' /\ ~Laun(v, c)'
  BY <1>2, <1>3, <1>4 DEF OwnerOf, Hold
<1>6. gq' = Append(gq, c) /\ UNCHANGED queueVars
  BY <1>1 DEF ForcePush
<1>7. (\A d: InQ(d)' <=> InQ(d) \/ d = c) /\ Distinct'
  BY <1>2, <1>3, <1>5, <1>6, QueueAppend
<1>8. \A d \in Ctx: d # c => SameQueue(d)
  BY <1>4, <1>6, <1>7 DEF SameQueue, SamePlace
<1>9. QueueInv(c)'
  BY <1>2, <1>3, <1>5, <1>6, <1>7 DEF QueueInv, OwnerOf, FlagOf, Own, Hold
<1> QED BY <1>7, <1>8, <1>9, OneQueueMoves

LEMMA QueuesMqPop ==
    ASSUME TypeOK, RefInv, OwnInv, NEW w \in Worker, MqPop(w)
    PROVE  QueuesKept
<1>1. PICK c: c = cur[w]
  OBVIOUS
<1>2. c \in Ctx /\ Disp(w, c) /\ in_global[c] = 1 /\ qmem[c] = "live" /\ release[c] = 0
  BY <1>1, GrabbedQueue DEF MqPop
<1>3. OwnerOf(c) /\ FlagOf(c) /\ Distinct
  BY <1>2 DEF OwnInv, OneOwner, Flags
<1>4. ~InQ(c) /\ \A v \in Worker: (Disp(v, c) => v = w) /\ ~Laun(v, c)
  BY <1>2, <1>3 DEF OwnerOf, Hold
<1>5. UNCHANGED <<gq, qmem, lock_session, release, npc, newc, cur>>
  BY DEF MqPop
<1>6. Distinct' /\ \A d: InQ(d)' <=> InQ(d)
  BY <1>3, <1>5 DEF Distinct, InQ
<1>7. CASE queue[c] = <<>>
  <2>1. in_global' = [in_global EXCEPT ![c] = 0] /\ pc' = [pc EXCEPT ![w] = "unref"] /\ queue' = queue
    BY <1>1, <1>7 DEF MqPop
  <2>2. /\ \A v \in Worker: \A d \in Ctx: v # w \/ d # c => (Disp(v, d)' <=> Disp(v, d))
        /\ \A v \in Worker: \A d \in Ctx: Laun(v, d)' <=> Laun(v, d)
        /\ \A v \in Worker: \A d \in Ctx: Busy(v, d) => Busy(v, d)'
        /\ ~Disp(w, c)'
    BY <1>1, <1>5, <2>1 DEF MqPop, TypeOK, WorkerType, Disp, Laun, Busy
  <2>3. \A d \in Ctx: d # c => SameQueue(d)
    BY <1>5, <1>6, <2>1, <2>2 DEF SameQueue, SamePlace, TypeOK, QueueType
  <2>4. ~InQ(c)' /\ \A v \in Worker: ~Disp(v, c)' /\ ~Laun(v, c)'
    BY <1>2, <1>4, <1>6, <2>2
  <2>5. QueueInv(c)'
    BY <1>2, <1>3, <1>5, <1>7, <2>1, <2>4 DEF QueueInv, OwnerOf, FlagOf, Own, Hold, TypeOK, QueueType
  <2> QED BY <1>6, <2>3, <2>5, OneQueueMoves
<1>8. CASE queue[c] # <<>>
  <2>1. queue' = [queue EXCEPT ![c] = Tail(@)] /\ in_global' = in_global
        /\ \E p \in {"call", "back"}: pc' = [pc EXCEPT ![w] = p]
    BY <1>1, <1>8 DEF MqPop
  <2>2. /\ \A v \in Worker: \A d \in Ctx: Disp(v, d)' <=> Disp(v, d)
        /\ \A v \in Worker: \A d \in Ctx: Laun(v, d)' <=> Laun(v, d)
        /\ \A v \in Worker: \A d \in Ctx: Busy(v, d) => Busy(v, d)'
    BY <1>1, <1>5, <2>1 DEF MqPop, TypeOK, WorkerType, Disp, Laun, Busy
  <2>3. \A d \in Ctx: d # c => SameQueue(d)
    BY <1>5, <1>6, <2>1, <2>2 DEF SameQueue, SamePlace, TypeOK, QueueType
  <2>4. QueueInv(c)'
    BY <1>2, <1>3, <1>5, <1>6, <2>1, <2>2 DEF QueueInv, OwnerOf, FlagOf, Own, Hold
  <2> QED BY <1>6, <2>3, <2>4, OneQueueMoves
<1> QED BY <1>7, <1>8

LEMMA QueuesPushGlobal ==
    ASSUME TypeOK, RefInv, OwnInv, NEW w \in Worker, PushGlobal(w)
    PROVE  QueuesKept
<1>1. PICK c: c = cur[w]
  OBVIOUS
<1>2. c \in Ctx /\ Disp(w, c) /\ in_global[c] \in {1, 2} /\ qmem[c] = "live" /\ release[c] = 0
  BY <1>1, GrabbedQueue DEF PushGlobal
<1>3. OwnerOf(c) /\ FlagOf(c) /\ Distinct /\ gq \in Seq(Ctx)
  BY <1>2 DEF OwnInv, OneOwner, Flags, TypeOK, GlobalType
<1>4. /\ \A v \in Worker: \A d \in Ctx: d # c => (Disp(v, d)' <=> Disp(v, d))
      /\ \A v \in Worker: \A d \in Ctx: Laun(v, d)' <=> Laun(v, d)
      /\ \A v \in Worker: \A d \in Ctx: d # c => (Busy(v, d) <=> Busy(v, d)')
      /\ \A v \in Worker: v # w => (Disp(v, c)' <=> Disp(v, c))
      /\ ~Disp(w, c)'
  BY <1>1 DEF PushGlobal, TypeOK, WorkerType, Disp, Laun, Busy
<1>5. ~InQ(c) /\ \A v \in Worker: ~Disp(v, c)' /\ ~Laun(v, c)'
  BY <1>2, <1>3, <1>4 DEF OwnerOf, Hold
<1>6. UNCHANGED <<qmem, queue, lock_session, release>>
  BY DEF PushGlobal
<1>7. CASE lock_session[c] = 0
  <2>1. gq' = Append(gq, c) /\ in_global' = [in_global EXCEPT ![c] = 1]
    BY <1>1, <1>7 DEF PushGlobal
  <2>2. (\A d: InQ(d)' <=> InQ(d) \/ d = c) /\ Distinct'
    BY <1>2, <1>3, <1>5, <2>1, QueueAppend
  <2>3. \A d \in Ctx: d # c => SameQueue(d)
    BY <1>4, <1>6, <2>1, <2>2 DEF SameQueue, SamePlace, TypeOK, QueueType
  <2>4. QueueInv(c)'
    BY <1>2, <1>5, <1>6, <1>7, <2>1, <2>2
       DEF QueueInv, OwnerOf, FlagOf, Own, Hold, TypeOK, QueueType
  <2> QED BY <2>2, <2>3, <2>4, OneQueueMoves
<1>8. CASE lock_session[c] # 0
  <2>1. in_global[c] = 2
    BY <1>2, <1>3, <1>8 DEF FlagOf
  <2>2. gq' = gq /\ in_global' = [in_global EXCEPT ![c] = 3]
    BY <1>1, <1>8, <2>1 DEF PushGlobal
  <2>3. (\A d: InQ(d)' <=> InQ(d)) /\ Distinct'
    BY <1>3, <2>2 DEF InQ, Distinct
  <2>4. \A d \in Ctx: d # c => SameQueue(d)
    BY <1>4, <1>6, <2>2, <2>3 DEF SameQueue, SamePlace, TypeOK, QueueType
  <2>5. QueueInv(c)'
    BY <1>2, <1>5, <1>6, <1>8, <2>2, <2>3
       DEF QueueInv, OwnerOf, FlagOf, Own, Hold, TypeOK, QueueType
  <2> QED BY <2>3, <2>4, <2>5, OneQueueMoves
<1> QED BY <1>7, <1>8

LEMMA QueuesMakeQueue ==
    ASSUME TypeOK, RefInv, OwnInv, NEW w \in Worker, MakeQueue(w)
    PROVE  QueuesKept
<1>1. PICK c: c = newc[w]
  OBVIOUS
<1>2. c \in Ctx /\ qmem[c] = "none"
  BY <1>1, NoneAssumption DEF MakeQueue, TypeOK, WorkerType, OwnInv, Life, Launcher
<1>3. OwnerOf(c) /\ FlagOf(c) /\ Distinct /\ LifeOf(c) /\ release[c] \in {0, 1}
  BY <1>2 DEF OwnInv, OneOwner, Flags, Life, TypeOK, QueueType
<1>4. lock_session[c] = 0 /\ release[c] = 0 /\ ~Own(c)
  BY <1>2, <1>3 DEF OwnerOf, FlagOf, LifeOf
<1>5. /\ \A v \in Worker: \A d \in Ctx: v # w \/ d # c => (Laun(v, d)' <=> Laun(v, d))
      /\ \A v \in Worker: \A d \in Ctx: Disp(v, d)' <=> Disp(v, d)
      /\ \A v \in Worker: \A d \in Ctx: Busy(v, d)' <=> Busy(v, d)
      /\ Laun(w, c)'
  BY <1>1, <1>2 DEF MakeQueue, TypeOK, WorkerType, Disp, Laun, Busy
<1>6. /\ UNCHANGED <<gq, queue, lock_session, release>>
      /\ qmem' = [qmem EXCEPT ![c] = "live"] /\ in_global' = [in_global EXCEPT ![c] = 1]
  BY <1>1 DEF MakeQueue, MqCreate
<1>7. (\A d: InQ(d)' <=> InQ(d)) /\ Distinct'
  BY <1>3, <1>6 DEF InQ, Distinct
<1>8. \A d \in Ctx: d # c => SameQueue(d)
  BY <1>5, <1>6, <1>7 DEF SameQueue, SamePlace, TypeOK, QueueType
<1>9. QueueInv(c)'
  BY <1>2, <1>4, <1>5, <1>6, <1>7 DEF QueueInv, OwnerOf, FlagOf, Own, Hold, TypeOK, QueueType
<1> QED BY <1>7, <1>8, <1>9, OneQueueMoves

(* skynet_mq_push, to a queue that is live and not marked. *)
LEMMA QueuePushedTo ==
    ASSUME TypeOK, OwnInv, NEW c \in Ctx, NEW m, MqPushTo(c, m),
           qmem[c] = "live", release[c] = 0,
           UNCHANGED <<qmem, release, pc, cur, npc, newc>>
    PROVE  QueuesKept
<1>1. OwnerOf(c) /\ FlagOf(c) /\ Distinct /\ gq \in Seq(Ctx) /\ in_global[c] \in 0 .. 3
  BY DEF OwnInv, OneOwner, Flags, TypeOK, GlobalType, QueueType
<1>2. \A v \in Worker: \A d \in Ctx: /\ Disp(v, d)' <=> Disp(v, d)
                                     /\ Laun(v, d)' <=> Laun(v, d)
                                     /\ Busy(v, d)' <=> Busy(v, d)
  BY SameWorkers
<1>3. \A d \in Ctx: d # c => queue'[d] = queue[d] /\ lock_session'[d] = lock_session[d]
  BY DEF MqPushTo, Enqueue, TypeOK, QueueType
<1>4. CASE Wakes(c, m)
  <2>1. gq' = Append(gq, c) /\ in_global' = [in_global EXCEPT ![c] = 1]
    BY <1>4 DEF MqPushTo
  <2>2. ~Own(c)
    BY <1>1, <1>4 DEF Wakes, Answers, FlagOf
  <2>3. (\A d: InQ(d)' <=> InQ(d) \/ d = c) /\ Distinct'
    BY <1>1, <2>1, <2>2, QueueAppend DEF Own
  <2>4. \A d \in Ctx: d # c => SameQueue(d)
    BY <1>2, <1>3, <2>1, <2>3 DEF SameQueue, SamePlace, TypeOK, QueueType
  <2>5. lock_session'[c] = 0
    BY <1>4 DEF MqPushTo, Wakes, TypeOK, QueueType
  <2>6. QueueInv(c)'
    BY <1>1, <1>2, <2>1, <2>2, <2>3, <2>5
       DEF QueueInv, OwnerOf, FlagOf, Own, Hold, TypeOK, QueueType
  <2> QED BY <2>3, <2>4, <2>6, OneQueueMoves
<1>5. CASE ~Wakes(c, m)
  <2>1. gq' = gq /\ in_global' = in_global
    BY <1>5 DEF MqPushTo
  <2>2. (\A d: InQ(d)' <=> InQ(d)) /\ Distinct'
    BY <1>1, <2>1 DEF InQ, Distinct
  <2>3. \A d \in Ctx: d # c => SameQueue(d)
    BY <1>2, <1>3, <2>1, <2>2 DEF SameQueue, SamePlace
  <2>4. in_global[c] # 0 /\ (lock_session'[c] = lock_session[c] \/ in_global[c] = 2)
    BY <1>1, <1>5 DEF MqPushTo, Wakes, Answers, FlagOf
  <2>5. QueueInv(c)'
    BY <1>1, <1>2, <2>1, <2>2, <2>4 DEF QueueInv, OwnerOf, FlagOf, Own, Hold
  <2> QED BY <2>2, <2>3, <2>5, OneQueueMoves
<1> QED BY <1>4, <1>5

LEMMA QueuesMqPush ==
    ASSUME TypeOK, RefInv, OwnInv, NEW t \in Thread, MqPush(t)
    PROVE  QueuesKept
<1>1. PICK c: c = dst[t]
  OBVIOUS
<1>2. c \in Ctx /\ qmem[c] = "live" /\ release[c] = 0
  BY <1>1, HeldQueue DEF MqPush
<1> QED BY <1>1, <1>2, QueuePushedTo DEF MqPush

LEMMA QueuesHarbor ==
    ASSUME TypeOK, RefInv, OwnInv, NEW w \in Worker,
           SendRemote(w) \/ CallRemote(w) \/ Register(w)
    PROVE  QueuesKept
<1>1. PICK m: PushToHarbor(w, m)
  BY DEF SendRemote, CallRemote, Register
<1>2. Harbor \in Ctx /\ qmem[Harbor] = "live" /\ release[Harbor] = 0
  BY <1>1, HarborQueue DEF PushToHarbor
<1> QED BY <1>1, <1>2, QueuePushedTo DEF PushToHarbor

LEMMA QueuesMarkRelease ==
    ASSUME TypeOK, RefInv, OwnInv, NEW t \in Thread, MarkRelease(t)
    PROVE  QueuesKept
<1>1. PICK c \in Ctx: c = del[t]
  BY NoneAssumption DEF MarkRelease, TypeOK, ThreadType
<1>2. mem[c] = "live" /\ ref[c] = 0 /\ release[c] = 0
  BY <1>1, NoneAssumption DEF MarkRelease, RefInv, LastDeletes
<1>3. \A w \in Worker: ~DispatchRef(w, c) /\ ~LaunchRef(w, c)
  BY <1>2, HasRefs
<1>4. OwnerOf(c) /\ FlagOf(c) /\ Distinct /\ LifeOf(c) /\ gq \in Seq(Ctx)
      /\ qmem[c] \in {"none", "live", "freed"} /\ in_global[c] \in 0 .. 3
  BY DEF OwnInv, OneOwner, Flags, Life, TypeOK, QueueType, GlobalType
<1>5. qmem[c] = "live"
  BY <1>2, <1>3, <1>4 DEF LifeOf, LaunchRef
<1>6. in_global[c] # 2
  BY <1>3, <1>4, <1>5 DEF FlagOf, Busy, DispatchRef
<1>7. \A v \in Worker: \A d \in Ctx: /\ Disp(v, d)' <=> Disp(v, d)
                                     /\ Laun(v, d)' <=> Laun(v, d)
                                     /\ Busy(v, d)' <=> Busy(v, d)
  BY SameWorkers DEF MarkRelease
<1>8. /\ UNCHANGED <<qmem, queue, in_global, lock_session>>
      /\ release' = [release EXCEPT ![c] = 1]
      /\ gq' = IF in_global[c] # 1 THEN Append(gq, c) ELSE gq
  BY <1>1 DEF MarkRelease, MqMarkRelease
<1>9. CASE in_global[c] = 1
  <2>1. gq' = gq
    BY <1>8, <1>9
  <2>2. (\A d: InQ(d)' <=> InQ(d)) /\ Distinct'
    BY <1>4, <2>1 DEF InQ, Distinct
  <2>3. \A d \in Ctx: d # c => SameQueue(d)
    BY <1>7, <1>8, <2>2 DEF SameQueue, SamePlace, TypeOK, QueueType
  <2>4. QueueInv(c)'
    BY <1>4, <1>5, <1>7, <1>8, <1>9, <2>2 DEF QueueInv, OwnerOf, FlagOf, Own, Hold
  <2> QED BY <2>2, <2>3, <2>4, OneQueueMoves
<1>10. CASE in_global[c] # 1
  <2>1. gq' = Append(gq, c)
    BY <1>8, <1>10
  <2>2. ~Own(c)
    BY <1>2, <1>4, <1>5, <1>6, <1>10 DEF FlagOf
  <2>3. (\A d: InQ(d)' <=> InQ(d) \/ d = c) /\ Distinct'
    BY <1>4, <2>1, <2>2, QueueAppend DEF Own
  <2>4. \A d \in Ctx: d # c => SameQueue(d)
    BY <1>7, <1>8, <2>3 DEF SameQueue, SamePlace, TypeOK, QueueType
  <2>5. QueueInv(c)'
    BY <1>4, <1>5, <1>6, <1>7, <1>8, <1>10, <2>2, <2>3
       DEF QueueInv, OwnerOf, FlagOf, Own, Hold, TypeOK, QueueType
  <2> QED BY <2>3, <2>4, <2>5, OneQueueMoves
<1> QED BY <1>9, <1>10

LEMMA QueuesLock ==
    ASSUME TypeOK, RefInv, OwnInv, NEW w \in Worker, Lock(w) \/ Unlock(w)
    PROVE  QueuesKept
<1>1. PICK c: c = cur[w]
  OBVIOUS
<1>2. pc[w] = "call"
  BY DEF Lock, Unlock, UserCode
<1>3. c \in Ctx /\ Disp(w, c) /\ in_global[c] \in {1, 2} /\ qmem[c] = "live" /\ release[c] = 0
  BY <1>1, <1>2, GrabbedQueue
<1>4. OwnerOf(c) /\ FlagOf(c) /\ Distinct
  BY <1>3 DEF OwnInv, OneOwner, Flags
<1>5. UNCHANGED <<gq, qmem, queue, release, pc, cur, npc, newc>>
  BY DEF Lock, Unlock
<1>6. (\A d: InQ(d)' <=> InQ(d)) /\ Distinct'
  BY <1>4, <1>5 DEF InQ, Distinct
<1>7. \A v \in Worker: \A d \in Ctx: /\ Disp(v, d)' <=> Disp(v, d)
                                     /\ Laun(v, d)' <=> Laun(v, d)
                                     /\ Busy(v, d)' <=> Busy(v, d)
  BY <1>5, SameWorkers
<1>8. \A v \in Worker: ~Laun(v, c)
  BY <1>3, <1>4 DEF OwnerOf, Hold
<1>9. Busy(w, c)
  BY <1>1, <1>2 DEF Busy
<1>10. \E s: /\ lock_session' = [lock_session EXCEPT ![c] = s]
             /\ in_global' = [in_global EXCEPT ![c] = 2]
  <2>1. CASE Lock(w)
    BY <1>1, <2>1 DEF Lock, MqLock
  <2>2. CASE Unlock(w)
    BY <1>1, <2>2 DEF Unlock, TypeOK, QueueType
  <2> QED BY <2>1, <2>2
<1>11. \A d \in Ctx: d # c => SameQueue(d)
  BY <1>5, <1>6, <1>7, <1>10 DEF SameQueue, SamePlace, TypeOK, QueueType
<1>12. QueueInv(c)'
  BY <1>3, <1>4, <1>5, <1>6, <1>7, <1>8, <1>9, <1>10
     DEF QueueInv, OwnerOf, FlagOf, Own, Hold, TypeOK, QueueType
<1> QED BY <1>6, <1>11, <1>12, OneQueueMoves

LEMMA QueuesNext == ASSUME TypeOK, RefInv, OwnInv, [Next]_vars PROVE OneOwner' /\ Flags'
<1>1. ASSUME NEW t \in Thread, CallStep(t) PROVE QueuesKept
  BY <1>1, QueuesMqPush, QueuesRestThread, QueuesMarkRelease DEF CallStep
<1>2. ASSUME NEW w \in Worker, WorkerStep(w) PROVE QueuesKept
  BY <1>2, QueuesPop, QueuesRest, QueuesMqRelease, QueuesMqPop, QueuesPushGlobal,
     QueuesMakeQueue, QueuesForcePush, QueuesFailRelease
     DEF WorkerStep
<1>3. ASSUME NEW w \in Worker, UserStep(w) PROVE QueuesKept
  BY <1>3, QueuesRest, QueuesRestUser, QueuesLock, QueuesHarbor DEF UserStep
<1>4. ASSUME NEW t \in Helper, HelperPush(t) \/ Endless(t) PROVE QueuesKept
  BY <1>4, QueuesRestThread DEF Thread
<1>5. ASSUME UNCHANGED vars PROVE QueuesKept
  BY <1>5, SameWorkers, NoQueueMoves DEF vars
<1> QED BY <1>1, <1>2, <1>3, <1>4, <1>5, QueuesKeptMeans DEF Next

-----------------------------------------------------------------------------
(* The life of the queues.                                                 *)
LifeSame ==
    /\ UNCHANGED <<mem, release>>
    /\ \A c \in Ctx: \/ qmem'[c] = qmem[c]
                     \/ qmem'[c] = "freed" /\ release[c] = 1
    /\ \A c \in Ctx: ref'[c] = ref[c] \/ release[c] = 0
    /\ \A w \in Worker:
         \/ newc'[w] = newc[w] /\ (npc'[w] = "registered" <=> npc[w] = "registered")
         \/ newc'[w] = None /\ npc'[w] # "registered" /\ npc[w] # "registered"
    /\ \A t \in Thread: \/ dst'[t] = None \/ dst'[t] = dst[t]
                        \/ dst'[t] \in Ctx /\ qmem[dst'[t]] # "none"
    /\ \A w \in Worker: \/ cur'[w] = None \/ cur'[w] = cur[w]
                        \/ cur'[w] \in Ctx /\ qmem[cur'[w]] # "none"

LEMMA LifeSameKeeps ==
    ASSUME TypeOK, Life, LifeSame
    PROVE  Life'
<1>1. ASSUME NEW c \in Ctx PROVE LifeOf(c)'
  BY NoneAssumption DEF Life, LifeOf, LifeSame
<1>2. Launcher'
  BY NoneAssumption DEF Life, LifeOf, LifeSame, Launcher, TypeOK, WorkerType
<1>3. \A t \in Thread: dst'[t] # None => qmem'[dst'[t]] # "none"
  BY DEF Life, LifeSame, TypeOK, ThreadType
<1>4. \A w \in Worker: cur'[w] # None => qmem'[cur'[w]] # "none"
  BY DEF Life, LifeSame, TypeOK, WorkerType
<1> QED BY <1>1, <1>2, <1>3, <1>4 DEF Life

(* A count that is given up or taken is one of a context that is alive.    *)
LEMMA DropsLive ==
    ASSUME TypeOK, RefInv, Life, NEW t, NEW c \in Ctx, DropRef(t, c), ref[c] # 0
    PROVE  \A d \in Ctx: ref'[d] = ref[d] \/ release[d] = 0
BY ReleasedIdle DEF DropRef, TypeOK, ContextType, QueueType

LEMMA GrabsLive ==
    ASSUME TypeOK, RefInv, Life, NEW c \in Ctx, Grab(c)
    PROVE  \A d \in Ctx: ref'[d] = ref[d] \/ release[d] = 0
BY ReleasedIdle DEF Grab, TypeOK, ContextType, QueueType

LEMMA RetiresLive ==
    ASSUME TypeOK, RefInv, Life, NEW t, NEW c \in Ctx, Retire(t, c)
    PROVE  \A d \in Ctx: ref'[d] = ref[d] \/ release[d] = 0
<1>1. CASE slot[c]
  <2>1. ref[c] # 0
    BY <1>1, HasRefs
  <2> QED BY <1>1, <2>1, DropsLive DEF Retire
<1>2. CASE ~slot[c]
  BY <1>2 DEF Retire
<1> QED BY <1>1, <1>2

LEMMA LifeWorker ==
    ASSUME TypeOK, RefInv, Life, NEW w \in Worker,
           \/ PopNone(w) \/ CheckAbort(w) \/ GrabCurrent(w) \/ MqPop(w) \/ Return(w) \/ PushGlobal(w)
           \/ Unref(w) \/ InitOk(w) \/ SetInit(w) \/ ForcePush(w) \/ InitFail(w)
           \/ FailRetire(w) \/ KillRetire(w) \/ SetCallback(w) \/ Lock(w) \/ Unlock(w)
           \/ SendRemote(w) \/ CallRemote(w) \/ Register(w)
    PROVE  Life'
<1> USE DEF TypeOK, WorkerType
<1>1. CASE PopNone(w) \/ CheckAbort(w) \/ MqPop(w) \/ Return(w) \/ PushGlobal(w)
  BY <1>1, LifeSameKeeps DEF LifeSame, PopNone, CheckAbort, MqPop, Return, PushGlobal
<1>2. CASE SetCallback(w) \/ Lock(w) \/ Unlock(w)
  BY <1>2, LifeSameKeeps DEF LifeSame, SetCallback, Lock, Unlock
<1>3. CASE SendRemote(w) \/ CallRemote(w) \/ Register(w)
  BY <1>3, LifeSameKeeps DEF LifeSame, SendRemote, CallRemote, Register, PushToHarbor
<1>4. CASE GrabCurrent(w)
  <2>1. \A d \in Ctx: ref'[d] = ref[d] \/ release[d] = 0
    BY <1>4, GrabsLive DEF GrabCurrent
  <2> QED BY <1>4, <2>1, LifeSameKeeps DEF LifeSame, GrabCurrent
<1>5. CASE Unref(w)
  <2>1. cur[w] \in Ctx /\ DispatchRef(w, cur[w])
    BY <1>5 DEF Unref, DispatchRef
  <2>2. ref[cur[w]] # 0
    BY <2>1, HasRefs
  <2>3. \A d \in Ctx: ref'[d] = ref[d] \/ release[d] = 0
    BY <1>5, <2>1, <2>2, DropsLive DEF Unref
  <2> QED BY <1>5, <2>3, LifeSameKeeps DEF LifeSame, Unref
<1>6. CASE InitOk(w) \/ InitFail(w)
  <2>1. newc[w] \in Ctx /\ LaunchRef(w, newc[w])
    BY <1>6 DEF InitOk, InitFail, LaunchRef
  <2>2. ref[newc[w]] # 0
    BY <2>1, HasRefs
  <2>3. \A d \in Ctx: ref'[d] = ref[d] \/ release[d] = 0
    BY <1>6, <2>1, <2>2, DropsLive DEF InitOk, InitFail
  <2> QED BY <1>6, <2>3, LifeSameKeeps DEF LifeSame, InitOk, InitFail
<1>7. CASE SetInit(w) \/ ForcePush(w)
  BY <1>7, LifeSameKeeps DEF LifeSame, SetInit, ForcePush
<1>8. CASE FailRetire(w)
  <2>1. \A d \in Ctx: ref'[d] = ref[d] \/ release[d] = 0
    BY <1>8, RetiresLive DEF FailRetire
  <2> QED BY <1>8, <2>1, LifeSameKeeps DEF LifeSame, FailRetire
<1>9. CASE KillRetire(w)
  <2>1. \A d \in Ctx: ref'[d] = ref[d] \/ release[d] = 0
    BY <1>9, RetiresLive DEF KillRetire
  <2> QED BY <1>9, <2>1, LifeSameKeeps DEF LifeSame, KillRetire
<1> QED BY <1>1, <1>2, <1>3, <1>4, <1>5, <1>6, <1>7, <1>8, <1>9

LEMMA LifePop ==
    ASSUME TypeOK, OwnInv, NEW w \in Worker, Pop(w)
    PROVE  Life'
<1>1. PICK c: c = Head(gq)
  OBVIOUS
<1>2. gq \in Seq(Ctx) /\ gq # <<>> /\ gq' = Tail(gq) /\ Distinct /\ Life
  BY DEF Pop, TypeOK, GlobalType, OwnInv, OneOwner
<1>3. InQ(c) /\ c \in Ctx
  BY <1>1, <1>2, QueueTail
<1>4. qmem[c] = "live"
  BY <1>3 DEF OwnInv, OneOwner, OwnerOf, Own
<1> QED BY <1>1, <1>2, <1>3, <1>4, LifeSameKeeps DEF LifeSame, Pop, TypeOK, WorkerType

LEMMA LifeReleases ==
    ASSUME TypeOK, RefInv, Life, NEW w \in Worker, MqRelease(w) \/ FailRelease(w)
    PROVE  Life'
<1>1. \A c \in Ctx: qmem'[c] = qmem[c] \/ (qmem'[c] = "freed" /\ release[c] = 1)
  <2>1. PICK c \in Ctx: MqReleaseOf(c)
    BY DEF MqRelease, FailRelease, TypeOK, WorkerType
  <2> QED BY <2>1 DEF MqReleaseOf, TypeOK, QueueType
<1>2. CASE MqRelease(w)
  BY <1>1, <1>2, LifeSameKeeps DEF LifeSame, MqRelease, TypeOK, WorkerType
<1>3. CASE FailRelease(w)
  BY <1>1, <1>3, LifeSameKeeps DEF LifeSame, FailRelease, TypeOK, WorkerType
<1> QED BY <1>2, <1>3

LEMMA LifeSends ==
    ASSUME TypeOK, RefInv, Life, NEW w \in Worker, Send(w) \/ Call(w) \/ Reply(w) \/ Kill(w)
    PROVE  Life'
<1>1. UNCHANGED <<mem, release, qmem, npc, newc, cur>>
  BY DEF Send, Call, Reply, Kill
<1>2. \/ \E c, m: PushStart(w, c, m)
      \/ UNCHANGED <<ref, dst>>
  <2>1. CASE Send(w)
    BY <2>1 DEF Send
  <2>2. CASE Call(w)
    BY <2>2 DEF Call
  <2>3. CASE Reply(w)
    BY <2>3 DEF Reply
  <2>4. CASE Kill(w)
    BY <2>4 DEF Kill
  <2> QED BY <2>1, <2>2, <2>3, <2>4
<1>3. ASSUME NEW c, NEW m, PushStart(w, c, m) PROVE Life'
  <2>1. \A d \in Ctx: ref'[d] = ref[d] \/ release[d] = 0
    BY <1>3, GrabsLive DEF PushStart, Known
  <2>2. \A t \in Thread: dst'[t] = dst[t] \/ (dst'[t] \in Ctx /\ qmem[dst'[t]] # "none")
    BY <1>3 DEF PushStart, Known, TypeOK, ThreadType
  <2> QED BY <1>1, <2>1, <2>2, LifeSameKeeps DEF LifeSame
<1>4. CASE UNCHANGED <<ref, dst>>
  BY <1>1, <1>4, LifeSameKeeps DEF LifeSame
<1> QED BY <1>2, <1>3, <1>4

LEMMA LifeThread ==
    ASSUME TypeOK, RefInv, Life, NEW t \in Thread,
           MqPush(t) \/ PushRelease(t) \/ HelperPush(t) \/ Endless(t)
    PROVE  Life'
<1>1. UNCHANGED <<mem, release, qmem, npc, newc, cur>>
  BY DEF MqPush, PushRelease, HelperPush, Endless
<1>2. CASE MqPush(t)
  BY <1>1, <1>2, LifeSameKeeps DEF LifeSame, MqPush
<1>3. CASE PushRelease(t)
  <2>1. dst[t] \in Ctx /\ PushRef(t, dst[t])
    BY <1>3 DEF PushRelease, TypeOK, ThreadType, PushRef
  <2>2. ref[dst[t]] # 0
    BY <2>1, HasRefs
  <2>3. \A d \in Ctx: ref'[d] = ref[d] \/ release[d] = 0
    BY <1>3, <2>1, <2>2, DropsLive DEF PushRelease
  <2> QED BY <1>1, <1>3, <2>3, LifeSameKeeps DEF LifeSame, PushRelease, TypeOK, ThreadType
<1>4. CASE HelperPush(t)
  <2>1. PICK c, m: PushStart(t, c, m)
    BY <1>4 DEF HelperPush
  <2>2. \A d \in Ctx: ref'[d] = ref[d] \/ release[d] = 0
    BY <2>1, GrabsLive DEF PushStart, Known
  <2>3. \A u \in Thread: dst'[u] = dst[u] \/ (dst'[u] \in Ctx /\ qmem[dst'[u]] # "none")
    BY <2>1 DEF PushStart, Known, TypeOK, ThreadType
  <2> QED BY <1>1, <2>2, <2>3, LifeSameKeeps DEF LifeSame
<1>5. CASE Endless(t)
  <2>1. PICK c \in Known: Grab(c) /\ dst' = [dst EXCEPT ![t] = c]
    BY <1>5 DEF Endless
  <2>2. \A d \in Ctx: ref'[d] = ref[d] \/ release[d] = 0
    BY <2>1, GrabsLive DEF Known
  <2>3. \A u \in Thread: dst'[u] = dst[u] \/ (dst'[u] \in Ctx /\ qmem[dst'[u]] # "none")
    BY <2>1 DEF Known, TypeOK, ThreadType
  <2> QED BY <1>1, <2>2, <2>3, LifeSameKeeps DEF LifeSame
<1> QED BY <1>2, <1>3, <1>4, <1>5

LEMMA LifeMarkRelease ==
    ASSUME TypeOK, RefInv, Life, NEW t \in Thread, MarkRelease(t)
    PROVE  Life'
<1>1. PICK c \in Ctx: c = del[t]
  BY NoneAssumption DEF MarkRelease, TypeOK, ThreadType
<1>2. mem[c] = "live" /\ ref[c] = 0
  BY <1>1, NoneAssumption DEF MarkRelease, RefInv, LastDeletes
<1>3. qmem[c] # "none"
  BY <1>2, HasRefs DEF Life, LifeOf, LaunchRef
<1>4. release' = [release EXCEPT ![c] = 1] /\ UNCHANGED <<mem, qmem, ref, npc, newc, dst, cur>>
  BY <1>1 DEF MarkRelease, MqMarkRelease
<1>5. ASSUME NEW d \in Ctx PROVE LifeOf(d)'
  BY <1>2, <1>3, <1>4 DEF Life, LifeOf, TypeOK, QueueType
<1> QED BY <1>4, <1>5 DEF Life, Launcher

LEMMA LifeFreeContext ==
    ASSUME TypeOK, RefInv, Life, NEW t \in Thread, FreeContext(t)
    PROVE  Life'
<1>1. PICK c \in Ctx: c = del[t]
  BY NoneAssumption DEF FreeContext, TypeOK, ThreadType
<1>2. mem[c] = "live" /\ release[c] = 1
  BY <1>1, NoneAssumption DEF FreeContext, RefInv, LastDeletes
<1>4. mem' = [mem EXCEPT ![c] = "freed"] /\ UNCHANGED <<release, qmem, ref, npc, newc, dst, cur>>
  BY <1>1 DEF FreeContext
<1>5. ASSUME NEW d \in Ctx PROVE LifeOf(d)'
  BY <1>2, <1>4 DEF Life, LifeOf, TypeOK, ContextType
<1> QED BY <1>4, <1>5 DEF Life, Launcher

LEMMA LifeLaunch ==
    ASSUME TypeOK, RefInv, Life, NEW w \in Worker, Launch(w)
    PROVE  Life'
<1>1. PICK c \in Ctx:
        /\ mem[c] = "none" /\ mem' = [mem EXCEPT ![c] = "live"]
        /\ ref' = [ref EXCEPT ![c] = 2]
        /\ newc' = [newc EXCEPT ![w] = c]
  BY DEF Launch
<1>2. /\ npc[w] = "none" /\ npc' = [npc EXCEPT ![w] = "registered"]
      /\ UNCHANGED <<qmem, release, dst, cur>>
  BY DEF Launch, InDispatch
<1>3. qmem[c] = "none" /\ \A v \in Worker: newc[v] # c
  <2>1. qmem[c] = "none"
    BY <1>1 DEF Life, LifeOf
  <2>2. ASSUME NEW v \in Worker, newc[v] = c PROVE FALSE
    <3>1. LaunchRef(v, c)
      BY <2>1, <2>2, NoneAssumption DEF Life, Launcher, LaunchRef
    <3> QED BY <1>1, <2>2, <3>1, HasRefs
  <2> QED BY <2>1, <2>2
<1>4. ASSUME NEW d \in Ctx PROVE LifeOf(d)'
  BY <1>1, <1>2, <1>3 DEF Life, LifeOf, TypeOK, ContextType, WorkerType
<1>5. Launcher'
  BY <1>1, <1>2, <1>3 DEF Life, Launcher, TypeOK, WorkerType
<1> QED BY <1>2, <1>4, <1>5 DEF Life

LEMMA LifeMakeQueue ==
    ASSUME TypeOK, RefInv, Life, NEW w \in Worker, MakeQueue(w)
    PROVE  Life'
<1>1. PICK c \in Ctx: c = newc[w]
  BY DEF MakeQueue, TypeOK, WorkerType
<1>2. npc[w] = "registered" /\ LaunchRef(w, c) /\ mem[c] = "live"
  BY <1>1, HasRefs DEF MakeQueue, LaunchRef
<1>3. /\ qmem' = [qmem EXCEPT ![c] = "live"] /\ npc' = [npc EXCEPT ![w] = "init"]
      /\ UNCHANGED <<mem, release, ref, newc, dst, cur>>
  BY <1>1 DEF MakeQueue, MqCreate
<1>4. \A v \in Worker: newc[v] = c => v = w
  BY <1>1, NoneAssumption DEF Life, Launcher
<1>5. ASSUME NEW d \in Ctx PROVE LifeOf(d)'
  BY <1>1, <1>2, <1>3, <1>4 DEF Life, LifeOf, TypeOK, QueueType, WorkerType
<1>6. Launcher'
  BY <1>1, <1>2, <1>3, <1>4 DEF Life, Launcher, TypeOK, QueueType, WorkerType
<1>7. \A t \in Thread: dst'[t] # None => qmem'[dst'[t]] # "none"
  BY <1>3 DEF Life, TypeOK, QueueType, ThreadType
<1>8. \A v \in Worker: cur'[v] # None => qmem'[cur'[v]] # "none"
  BY <1>3 DEF Life, TypeOK, QueueType, WorkerType
<1> QED BY <1>5, <1>6, <1>7, <1>8 DEF Life

LEMMA LifeNext == ASSUME TypeOK, RefInv, OwnInv, [Next]_vars PROVE Life'
<1>0. Life
  BY DEF OwnInv
<1>1. ASSUME NEW t \in Thread, CallStep(t) PROVE Life'
  BY <1>0, <1>1, LifeThread, LifeMarkRelease, LifeFreeContext DEF CallStep
<1>2. ASSUME NEW w \in Worker, WorkerStep(w) PROVE Life'
  BY <1>0, <1>2, LifeWorker, LifePop, LifeReleases, LifeMakeQueue DEF WorkerStep
<1>3. ASSUME NEW w \in Worker, UserStep(w) PROVE Life'
  BY <1>0, <1>3, LifeWorker, LifeLaunch, LifeSends DEF UserStep
<1>4. ASSUME NEW t \in Helper, HelperPush(t) \/ Endless(t) PROVE Life'
  BY <1>0, <1>4, LifeThread DEF Thread
<1>5. CASE UNCHANGED vars
  BY <1>0, <1>5, LifeSameKeeps DEF LifeSame, vars
<1> QED BY <1>1, <1>2, <1>3, <1>4, <1>5 DEF Next

-----------------------------------------------------------------------------
(* The harbor's service stays.                                             *)
HarborSame ==
    Harbor # None =>
       /\ slot'[Harbor] = slot[Harbor]
       /\ \A w \in Worker: /\ newc'[w] \in {newc[w], None}
                           /\ kill'[w] \in {kill[w], None}

LEMMA HarborSameKeeps == HarborStays /\ HarborSame => HarborStays'
BY DEF HarborStays, HarborSame

LEMMA HarborRetires ==
    ASSUME TypeOK, NEW w, NEW c, Retire(w, c), c # Harbor
    PROVE  Harbor # None => slot'[Harbor] = slot[Harbor]
<1>1. Harbor # None => Harbor \in Ctx
  BY HarborAssumption, DispatchAssumption DEF BootSet
<1> QED BY <1>1 DEF Retire, TypeOK, ContextType

LEMMA HarborNext ==
    ASSUME TypeOK, RefInv, Life, HarborStays, [Next]_vars
    PROVE  HarborStays'
<1> USE DEF HarborSame
<1>1. ASSUME NEW t \in Thread, CallStep(t) PROVE HarborStays'
  BY <1>1, HarborSameKeeps DEF CallStep, MqPush, PushRelease, MarkRelease, FreeContext
<1>2. ASSUME NEW w \in Worker, WorkerStep(w) PROVE HarborStays'
  <2>1. CASE \/ Pop(w) \/ PopNone(w) \/ CheckAbort(w) \/ GrabCurrent(w) \/ MqRelease(w) \/ MqPop(w)
             \/ Return(w) \/ PushGlobal(w) \/ Unref(w)
    BY <2>1, HarborSameKeeps DEF Pop, PopNone, CheckAbort, GrabCurrent, MqRelease, MqPop, Return, PushGlobal, Unref
  <2>2. CASE MakeQueue(w) \/ InitOk(w) \/ SetInit(w) \/ InitFail(w)
    BY <2>2, HarborSameKeeps DEF MakeQueue, InitOk, SetInit, InitFail
  <2>3. CASE ForcePush(w) \/ FailRelease(w)
    BY <2>3, HarborSameKeeps DEF ForcePush, FailRelease, TypeOK, WorkerType
  <2>4. CASE FailRetire(w)
    <3>1. Harbor # None => slot'[Harbor] = slot[Harbor]
      BY <2>4, HarborRetires DEF FailRetire, HarborStays
    <3> QED BY <2>4, <3>1, HarborSameKeeps DEF FailRetire
  <2>5. CASE KillRetire(w)
    <3>1. Harbor # None => slot'[Harbor] = slot[Harbor]
      BY <2>5, HarborRetires DEF KillRetire, HarborStays
    <3> QED BY <2>5, <3>1, HarborSameKeeps DEF KillRetire, TypeOK, WorkerType
  <2> QED BY <1>2, <2>1, <2>2, <2>3, <2>4, <2>5 DEF WorkerStep
<1>3. ASSUME NEW w \in Worker, UserStep(w) PROVE HarborStays'
  <2>1. CASE Send(w) \/ Call(w) \/ Reply(w) \/ SetCallback(w) \/ Lock(w) \/ Unlock(w)
    BY <2>1, HarborSameKeeps DEF Send, Call, Reply, SetCallback, Lock, Unlock
  <2>2. CASE SendRemote(w) \/ CallRemote(w) \/ Register(w)
    BY <2>2, HarborSameKeeps DEF SendRemote, CallRemote, Register, PushToHarbor
  <2>3. CASE Kill(w)
    <3>1. \E c \in Known \ {Harbor}: kill' = [kill EXCEPT ![w] = c]
      BY <2>3 DEF Kill
    <3>2. UNCHANGED <<slot, newc>>
      BY <2>3 DEF Kill
    <3> QED BY <3>1, <3>2 DEF HarborStays, TypeOK, WorkerType
  <2>4. CASE Launch(w)
    <3>1. PICK c \in Ctx: mem[c] = "none" /\ slot' = [slot EXCEPT ![c] = TRUE]
                          /\ newc' = [newc EXCEPT ![w] = c]
      BY <2>4 DEF Launch
    <3>2. Harbor # None => c # Harbor
      BY <3>1, HasRefs DEF HarborStays
    <3> QED BY <2>4, <3>1, <3>2 DEF Launch, HarborStays, TypeOK, WorkerType, ContextType
  <2> QED BY <1>3, <2>1, <2>2, <2>3, <2>4 DEF UserStep
<1>4. ASSUME NEW t \in Helper, HelperPush(t) \/ Endless(t) PROVE HarborStays'
  BY <1>4, HarborSameKeeps DEF HelperPush, Endless
<1>5. CASE UNCHANGED vars
  BY <1>5, HarborSameKeeps DEF vars
<1> QED BY <1>1, <1>2, <1>3, <1>4, <1>5 DEF Next

-----------------------------------------------------------------------------
(* A service that is run has been initialised.                             *)
InitialisedSame ==
    /\ \A c \in Ctx: /\ slot'[c] => slot[c]
                     /\ init[c] => init'[c]
                     /\ qmem'[c] = "live" => qmem[c] = "live"
                     /\ \A w \in Worker: Laun(w, c) => Laun(w, c)'
    /\ \A w \in Worker:
         /\ npc'[w] \in {"force", "mqrelease"} => npc'[w] = npc[w] /\ newc'[w] = newc[w]
         /\ pc'[w] \in {"grabbed", "call", "back"} =>
               pc[w] \in {"grabbed", "call", "back"} /\ cur'[w] = cur[w]

LEMMA InitialisedSameKeeps ==
    ASSUME TypeOK, Initialised, InitialisedSame
    PROVE  Initialised'
<1>1. \A c \in Ctx: qmem'[c] = "live" /\ slot'[c] =>
          init'[c] \/ \E w \in Worker: Laun(w, c)'
  BY DEF Initialised, InitialisedSame
<1>2. \A w \in Worker: npc'[w] \in {"force", "mqrelease"} => newc'[w] \in Ctx
  BY DEF TypeOK, WorkerType, InitialisedSame
<1>3. \A w \in Worker: pc'[w] \in {"grabbed", "call", "back"} => cur'[w] \in Ctx
  BY DEF TypeOK, WorkerType, InitialisedSame
<1> QED BY <1>1, <1>2, <1>3 DEF Initialised, InitialisedSame

LEMMA InitialisedRest ==
    ASSUME TypeOK, Initialised, NEW w \in Worker,
           \/ Pop(w) \/ PopNone(w) \/ CheckAbort(w) \/ MqRelease(w) \/ MqPop(w) \/ Return(w) \/ PushGlobal(w)
           \/ Unref(w) \/ InitFail(w) \/ KillRetire(w)
    PROVE  Initialised'
<1> USE DEF TypeOK, WorkerType, ContextType, Laun, InitialisedSame
<1>1. CASE Pop(w)
  BY <1>1, InitialisedSameKeeps DEF Pop
<1>2. CASE PopNone(w) \/ CheckAbort(w)
  BY <1>2, InitialisedSameKeeps DEF PopNone, CheckAbort
<1>3. CASE MqRelease(w)
  BY <1>3, InitialisedSameKeeps DEF MqRelease, MqReleaseOf, QueueType
<1>4. CASE MqPop(w)
  BY <1>4, InitialisedSameKeeps DEF MqPop
<1>5. CASE Return(w)
  BY <1>5, InitialisedSameKeeps DEF Return
<1>6. CASE PushGlobal(w)
  BY <1>6, InitialisedSameKeeps DEF PushGlobal
<1>7. CASE Unref(w)
  BY <1>7, InitialisedSameKeeps DEF Unref
<1>8. CASE InitFail(w)
  BY <1>8, InitialisedSameKeeps DEF InitFail
<1>9. CASE KillRetire(w)
  BY <1>9, InitialisedSameKeeps DEF KillRetire, Retire
<1> QED BY <1>1, <1>2, <1>3, <1>4, <1>5, <1>6, <1>7, <1>8, <1>9

LEMMA InitialisedUser ==
    ASSUME TypeOK, Initialised, NEW w \in Worker,
           \/ Send(w) \/ Call(w) \/ Reply(w) \/ Kill(w) \/ SetCallback(w) \/ Lock(w) \/ Unlock(w)
           \/ SendRemote(w) \/ CallRemote(w) \/ Register(w)
    PROVE  Initialised'
<1> USE DEF Laun, InitialisedSame
<1>1. CASE Send(w) \/ Call(w) \/ Reply(w) \/ Kill(w) \/ SetCallback(w) \/ Lock(w) \/ Unlock(w)
  BY <1>1, InitialisedSameKeeps DEF Send, Call, Reply, Kill, SetCallback, Lock, Unlock
<1>2. CASE SendRemote(w) \/ CallRemote(w) \/ Register(w)
  BY <1>2, InitialisedSameKeeps DEF SendRemote, CallRemote, Register, PushToHarbor
<1> QED BY <1>1, <1>2

LEMMA InitialisedThread ==
    ASSUME TypeOK, Initialised, NEW t \in Thread,
           \/ MqPush(t) \/ PushRelease(t) \/ MarkRelease(t) \/ FreeContext(t)
           \/ HelperPush(t) \/ Endless(t)
    PROVE  Initialised'
<1> USE DEF Laun, InitialisedSame
<1>1. CASE MqPush(t) \/ PushRelease(t) \/ MarkRelease(t) \/ FreeContext(t)
  BY <1>1, InitialisedSameKeeps DEF MqPush, PushRelease, MarkRelease, FreeContext
<1>2. CASE HelperPush(t) \/ Endless(t)
  BY <1>2, InitialisedSameKeeps DEF HelperPush, Endless
<1> QED BY <1>1, <1>2

(* A queue that a worker took is not with its launcher any more.           *)
LEMMA InitialisedGrab ==
    ASSUME TypeOK, RefInv, OwnInv, NEW w \in Worker, GrabCurrent(w)
    PROVE  Initialised'
<1>1. PICK c: c = cur[w]
  OBVIOUS
<1>2. c \in Ctx /\ qmem[c] = "live" /\ Disp(w, c)
  BY <1>1, FoundQueue DEF GrabCurrent
<1>3. \A v \in Worker: ~Laun(v, c)
  BY <1>2 DEF OwnInv, OneOwner, OwnerOf, Hold
<1>4. slot[c] => init[c]
  BY <1>2, <1>3 DEF OwnInv, Initialised
<1>5. UNCHANGED <<slot, init, qmem, newc, npc, cur>>
  BY DEF GrabCurrent
<1>6. pc'[w] = "grabbed" => slot[c]
  BY <1>1 DEF GrabCurrent, Grab, TypeOK, WorkerType
<1>7. \A v \in Worker: v # w => pc'[v] = pc[v]
  BY DEF GrabCurrent, TypeOK, WorkerType
<1>8. pc'[w] \in {"grabbed", "orphan"}
  BY DEF GrabCurrent, TypeOK, WorkerType
<1>9. \A v \in Worker: pc'[v] \in {"grabbed", "call", "back"} => init'[cur'[v]]
  BY <1>1, <1>4, <1>5, <1>6, <1>7, <1>8 DEF OwnInv, Initialised
<1> QED BY <1>5, <1>9 DEF OwnInv, Initialised, Laun

LEMMA InitialisedLaunch ==
    ASSUME TypeOK, RefInv, OwnInv, NEW w \in Worker, Launch(w)
    PROVE  Initialised'
<1>1. PICK c \in Ctx:
        /\ mem[c] = "none" /\ slot' = [slot EXCEPT ![c] = TRUE]
        /\ newc' = [newc EXCEPT ![w] = c]
  BY DEF Launch
<1>2. /\ npc[w] = "none" /\ npc' = [npc EXCEPT ![w] = "registered"]
      /\ UNCHANGED <<qmem, init, pc, cur>>
  BY DEF Launch, InDispatch
<1>3. qmem[c] = "none"
  BY <1>1 DEF OwnInv, Life, LifeOf
<1>4. \A v \in Worker: npc[v] \in {"force", "mqrelease"} => newc[v] # c
  BY <1>3, LaunchedQueue
<1>5. \A v \in Worker: \A d \in Ctx: Laun(v, d) => Laun(v, d)'
  BY <1>1, <1>2 DEF Laun
<1>6. \A d \in Ctx: qmem'[d] = "live" /\ slot'[d] =>
          init'[d] \/ \E v \in Worker: Laun(v, d)'
  BY <1>1, <1>2, <1>3, <1>5 DEF OwnInv, Initialised
<1>7. \A v \in Worker:
         /\ npc'[v] = "force" => init'[newc'[v]] \/ ~slot'[newc'[v]]
         /\ npc'[v] = "mqrelease" => ~slot'[newc'[v]]
  BY <1>1, <1>2, <1>4 DEF OwnInv, Initialised, TypeOK, ContextType, WorkerType
<1> QED BY <1>2, <1>6, <1>7 DEF OwnInv, Initialised

LEMMA InitialisedMakeQueue ==
    ASSUME TypeOK, RefInv, OwnInv, NEW w \in Worker, MakeQueue(w)
    PROVE  Initialised'
<1>1. PICK c \in Ctx: c = newc[w]
  BY DEF MakeQueue, TypeOK, WorkerType
<1>2. /\ npc[w] = "registered" /\ npc' = [npc EXCEPT ![w] = "init"]
      /\ qmem' = [qmem EXCEPT ![c] = "live"]
      /\ UNCHANGED <<slot, init, newc, pc, cur>>
  BY <1>1 DEF MakeQueue, MqCreate
<1>3. Laun(w, c)' /\ \A v \in Worker: \A d \in Ctx: Laun(v, d) => Laun(v, d)'
  BY <1>1, <1>2 DEF Laun, TypeOK, WorkerType
<1>4. \A d \in Ctx: qmem'[d] = "live" /\ slot'[d] =>
          init'[d] \/ \E v \in Worker: Laun(v, d)'
  BY <1>1, <1>2, <1>3 DEF OwnInv, Initialised, TypeOK, QueueType
<1>5. \A v \in Worker:
         /\ npc'[v] = "force" => init'[newc'[v]] \/ ~slot'[newc'[v]]
         /\ npc'[v] = "mqrelease" => ~slot'[newc'[v]]
  BY <1>2 DEF OwnInv, Initialised, TypeOK, WorkerType
<1> QED BY <1>2, <1>4, <1>5 DEF OwnInv, Initialised

(* The launcher whose reference was the last one finds no table entry.     *)
LEMMA InitialisedInitOk ==
    ASSUME TypeOK, RefInv, RefInv', OwnInv, NEW w \in Worker, InitOk(w)
    PROVE  Initialised'
<1>1. PICK c \in Ctx: c = newc[w]
  BY DEF InitOk, TypeOK, WorkerType
<1>2. /\ DropRef(w, c) /\ UNCHANGED <<slot, init, qmem, newc, pc, cur>>
      /\ npc[w] = "init"
      /\ npc' = [npc EXCEPT ![w] = IF ref[c] = 1 THEN "force" ELSE "ok"]
  BY <1>1 DEF InitOk
<1>3. ref[c] = 1 => ~slot[c]
  <2>1. ASSUME ref[c] = 1 PROVE ref'[c] = 0
    BY <1>2, <2>1 DEF DropRef, TypeOK, ContextType
  <2>2. ASSUME ref'[c] = 0 PROVE Refs(c)' = {}
    BY <2>2, RefsFinite DEF RefInv, Counts
  <2> QED BY <1>2, <2>1, <2>2, TableToken
<1>4. \A v \in Worker: \A d \in Ctx: Laun(v, d) => Laun(v, d)'
  BY <1>1, <1>2 DEF Laun, TypeOK, WorkerType
<1>5. \A d \in Ctx: qmem'[d] = "live" /\ slot'[d] =>
          init'[d] \/ \E v \in Worker: Laun(v, d)'
  BY <1>2, <1>4 DEF OwnInv, Initialised
<1>6. \A v \in Worker:
         /\ npc'[v] = "force" => init'[newc'[v]] \/ ~slot'[newc'[v]]
         /\ npc'[v] = "mqrelease" => ~slot'[newc'[v]]
  BY <1>1, <1>2, <1>3 DEF OwnInv, Initialised, TypeOK, WorkerType
<1> QED BY <1>2, <1>5, <1>6 DEF OwnInv, Initialised

LEMMA InitialisedSetInit ==
    ASSUME TypeOK, RefInv, OwnInv, NEW w \in Worker, SetInit(w)
    PROVE  Initialised'
<1>1. PICK c \in Ctx: c = newc[w]
  BY DEF SetInit, TypeOK, WorkerType
<1>2. /\ init' = [init EXCEPT ![c] = TRUE] /\ npc[w] = "ok"
      /\ npc' = [npc EXCEPT ![w] = "force"]
      /\ UNCHANGED <<slot, qmem, newc, pc, cur>>
  BY <1>1 DEF SetInit
<1>3. init'[c] /\ \A d \in Ctx: init[d] => init'[d]
  BY <1>2 DEF TypeOK, ContextType
<1>4. \A v \in Worker: \A d \in Ctx: Laun(v, d) => Laun(v, d)'
  BY <1>1, <1>2 DEF Laun, TypeOK, WorkerType
<1>5. \A d \in Ctx: qmem'[d] = "live" /\ slot'[d] =>
          init'[d] \/ \E v \in Worker: Laun(v, d)'
  BY <1>2, <1>3, <1>4 DEF OwnInv, Initialised
<1>6. \A v \in Worker:
         /\ npc'[v] = "force" => init'[newc'[v]] \/ ~slot'[newc'[v]]
         /\ npc'[v] = "mqrelease" => ~slot'[newc'[v]]
         /\ pc'[v] \in {"grabbed", "call", "back"} => init'[cur'[v]]
  BY <1>1, <1>2, <1>3 DEF OwnInv, Initialised, TypeOK, WorkerType
<1> QED BY <1>5, <1>6 DEF Initialised

LEMMA InitialisedFailRetire ==
    ASSUME TypeOK, RefInv, OwnInv, NEW w \in Worker, FailRetire(w)
    PROVE  Initialised'
<1>1. PICK c \in Ctx: c = newc[w]
  BY DEF FailRetire, TypeOK, WorkerType
<1>2. /\ npc[w] = "retire" /\ npc' = [npc EXCEPT ![w] = "mqrelease"]
      /\ UNCHANGED <<init, qmem, newc, pc, cur>>
  BY <1>1 DEF FailRetire
<1>3. ~slot'[c] /\ \A d \in Ctx: slot'[d] => slot[d]
  BY <1>1 DEF FailRetire, Retire, TypeOK, ContextType
<1>4. \A v \in Worker: \A d \in Ctx: Laun(v, d) => Laun(v, d)'
  BY <1>1, <1>2 DEF Laun, TypeOK, WorkerType
<1>5. \A d \in Ctx: qmem'[d] = "live" /\ slot'[d] =>
          init'[d] \/ \E v \in Worker: Laun(v, d)'
  BY <1>2, <1>3, <1>4 DEF OwnInv, Initialised
<1>6. \A v \in Worker:
         /\ npc'[v] = "force" => init'[newc'[v]] \/ ~slot'[newc'[v]]
         /\ npc'[v] = "mqrelease" => ~slot'[newc'[v]]
  BY <1>1, <1>2, <1>3 DEF OwnInv, Initialised, TypeOK, WorkerType
<1> QED BY <1>2, <1>5, <1>6 DEF OwnInv, Initialised

(* The launcher lets go of a queue that is initialised, or of no service.  *)
LEMMA InitialisedLetGo ==
    ASSUME TypeOK, RefInv, OwnInv, NEW w \in Worker, ForcePush(w) \/ FailRelease(w)
    PROVE  Initialised'
<1>1. PICK c \in Ctx: c = newc[w]
  BY DEF ForcePush, FailRelease, TypeOK, WorkerType
<1>2. /\ npc[w] \in {"force", "mqrelease"} /\ npc' = [npc EXCEPT ![w] = "none"]
      /\ newc' = [newc EXCEPT ![w] = None]
      /\ UNCHANGED <<slot, init, pc, cur>>
  BY DEF ForcePush, FailRelease
<1>3. \A d \in Ctx: qmem'[d] = "live" => qmem[d] = "live"
  BY <1>1 DEF ForcePush, FailRelease, MqReleaseOf, TypeOK, QueueType
<1>4. init[c] \/ ~slot[c]
  BY <1>1, <1>2 DEF OwnInv, Initialised
<1>5. \A v \in Worker: \A d \in Ctx: Laun(v, d) => d = c \/ Laun(v, d)'
  BY <1>1, <1>2 DEF Laun, TypeOK, WorkerType
<1>6. \A d \in Ctx: qmem'[d] = "live" /\ slot'[d] =>
          init'[d] \/ \E v \in Worker: Laun(v, d)'
  BY <1>2, <1>3, <1>4, <1>5 DEF OwnInv, Initialised
<1>7. \A v \in Worker:
         /\ npc'[v] = "force" => init'[newc'[v]] \/ ~slot'[newc'[v]]
         /\ npc'[v] = "mqrelease" => ~slot'[newc'[v]]
  BY <1>1, <1>2 DEF OwnInv, Initialised, TypeOK, WorkerType
<1> QED BY <1>2, <1>6, <1>7 DEF OwnInv, Initialised

LEMMA InitialisedNext ==
    ASSUME TypeOK, RefInv, RefInv', OwnInv, [Next]_vars
    PROVE  Initialised'
<1>0. Initialised
  BY DEF OwnInv
<1>1. ASSUME NEW t \in Thread, CallStep(t) PROVE Initialised'
  BY <1>0, <1>1, InitialisedThread DEF CallStep
<1>2. ASSUME NEW w \in Worker, WorkerStep(w) PROVE Initialised'
  BY <1>0, <1>2, InitialisedRest, InitialisedGrab, InitialisedMakeQueue, InitialisedInitOk,
     InitialisedSetInit, InitialisedFailRetire, InitialisedLetGo
     DEF WorkerStep
<1>3. ASSUME NEW w \in Worker, UserStep(w) PROVE Initialised'
  BY <1>0, <1>3, InitialisedUser, InitialisedLaunch DEF UserStep
<1>4. ASSUME NEW t \in Helper, HelperPush(t) \/ Endless(t) PROVE Initialised'
  BY <1>0, <1>4, InitialisedThread DEF Thread
<1>5. CASE UNCHANGED vars
  BY <1>0, <1>5, InitialisedSameKeeps DEF InitialisedSame, vars, Laun
<1> QED BY <1>1, <1>2, <1>3, <1>4, <1>5 DEF Next

-----------------------------------------------------------------------------
(* The invariant of the queues, and what it says.                          *)
LEMMA OwnInvInit == ASSUME Init PROVE OwnInv
<1>1. \A w \in Worker: \A c \in Ctx: ~Disp(w, c) /\ ~Laun(w, c) /\ ~Hold(w, c)
  BY NoneAssumption DEF Init, Disp, Laun, Hold
<1>2. \A c \in Ctx: Own(c) <=> c \in BootSet
  BY <1>1 DEF Init, Own, InQ, BootSet
<1>3. OneOwner
  BY <1>1, <1>2, DispatchAssumption DEF Init, OneOwner, OwnerOf, Distinct
<1>4. Flags
  BY <1>1, <1>2 DEF Init, Flags, FlagOf
<1>5. Life
  BY NoneAssumption DEF Init, Life, LifeOf, Launcher
<1>6. HarborStays
  <2>1. Harbor # None => Harbor \in BootSet /\ Harbor \in Ctx
    BY HarborAssumption, DispatchAssumption DEF BootSet
  <2> QED BY <2>1 DEF Init, HarborStays
<1>7. Initialised
  BY <1>1 DEF Init, Initialised
<1> QED BY <1>3, <1>4, <1>5, <1>6, <1>7 DEF OwnInv

LEMMA OwnInvNext ==
    ASSUME TypeOK, RefInv, OwnInv, [Next]_vars
    PROVE  OwnInv'
<1>1. RefInv' /\ Life /\ HarborStays
  BY RefInvNext DEF OwnInv
<1> QED BY <1>1, QueuesNext, LifeNext, HarborNext, InitialisedNext DEF OwnInv

LEMMA SafetyInvariant == Spec => [](TypeOK /\ RefInv /\ OwnInv)
<1>1. Init => TypeOK /\ RefInv /\ OwnInv
  BY TypeInit, RefInvInit, OwnInvInit
<1>2. TypeOK /\ RefInv /\ OwnInv /\ [Next]_vars => (TypeOK /\ RefInv /\ OwnInv)'
  BY TypeNext, RefInvNext, OwnInvNext
<1> QED BY <1>1, <1>2, PTL DEF Spec

(* skynet_context_grab and _release count exactly the references that      *)
(* threads hold, and the last one deletes the context, once.               *)
THEOREM RefCountExact == Spec => []RefCount
<1>1. RefInv => RefCount
  BY DEF RefInv, Counts, LastDeletes, RefCount
<1> QED BY <1>1, SafetyInvariant, PTL

(* No frame that holds a reference, and no worker or push that has taken a *)
(* queue, meets a context or a queue that was freed, and a launcher meets  *)
(* no freed queue.                                                         *)
THEOREM NothingFreedInUse == Spec => []NoUseAfterFree
<1>1. ASSUME TypeOK, RefInv, OwnInv PROVE NoUseAfterFree
  <2>1. \A c \in Ctx: Refs(c) # {} => mem[c] = "live"
    BY <1>1 DEF RefInv, RefsLive
  <2>2. ASSUME NEW w \in Worker, cur[w] # None PROVE qmem[cur[w]] = "live"
    <3>1. PICK c: c = cur[w]
      OBVIOUS
    <3>2. CASE pc[w] = "unref"
      <4>1. c \in Ctx /\ DispatchRef(w, c)
        BY <1>1, <2>2, <3>1, <3>2 DEF TypeOK, WorkerType, DispatchRef
      <4>2. mem[c] = "live" /\ ref[c] > 0
        BY <1>1, <4>1, HasRefs
      <4>3. release[c] # 1 /\ c # None
        BY <1>1, <4>1, ReleasedIdle, NoneAssumption DEF OwnInv
      <4>4. qmem[c] \in {"none", "live", "freed"} /\ LifeOf(c)
        BY <1>1, <4>1 DEF TypeOK, QueueType, OwnInv, Life
      <4>5. qmem[c] # "none"
        BY <1>1, <2>2, <3>1, <3>2 DEF OwnInv, Life
      <4> QED BY <3>1, <4>3, <4>4, <4>5 DEF LifeOf
    <3>3. CASE pc[w] \in {"popped", "orphan"}
      BY <1>1, <3>1, <3>3, FoundQueue
    <3>4. CASE pc[w] \in {"grabbed", "call", "back"}
      BY <1>1, <3>1, <3>4, GrabbedQueue
    <3> QED BY <1>1, <2>2, <3>2, <3>3, <3>4 DEF TypeOK, WorkerType
  <2>3. ASSUME NEW t \in Thread, dst[t] # None PROVE qmem[dst[t]] = "live"
    BY <1>1, <2>3, HeldQueue DEF TypeOK, ThreadType
  <2>4. ASSUME NEW w \in Worker, npc[w] \notin {"none", "registered"} PROVE qmem[newc[w]] = "live"
    <3>1. PICK c \in Ctx: c = newc[w]
      BY <1>1, <2>4 DEF TypeOK, WorkerType
    <3>2. Own(c)
      BY <2>4, <3>1 DEF Own, Hold, Laun
    <3> QED BY <1>1, <3>1, <3>2 DEF OwnInv, OneOwner, OwnerOf
  <2> QED BY <2>1, <2>2, <2>3, <2>4 DEF NoUseAfterFree
<1> QED BY <1>1, SafetyInvariant, PTL

LEMMA Places ==
    ASSUME NEW c \in Ctx
    PROVE  /\ c \in Queued <=> InQ(c)
           /\ \A w \in Worker: /\ c \in Dispatches(w) <=> Disp(w, c)
                               /\ c \in Launches(w) <=> Laun(w, c)
                               /\ c \in Holds(w) <=> Hold(w, c)
           /\ Owned(c) <=> Own(c)
<1>1. c \in Queued <=> InQ(c)
  BY DEF Queued, InQ
<1>2. \A w \in Worker: /\ c \in Dispatches(w) <=> Disp(w, c)
                       /\ c \in Launches(w) <=> Laun(w, c)
                       /\ c \in Holds(w) <=> Hold(w, c)
  BY DEF Dispatches, Launches, Holds, Disp, Laun, Hold
<1> QED BY <1>1, <1>2 DEF Owned, Own

(* A queue is in the global queue once, or with one worker, or nowhere; so *)
(* no two workers run the code of one service.                             *)
THEOREM OneOwnerAlways == Spec => []SingleOwner
<1>1. ASSUME TypeOK, OwnInv PROVE SingleOwner
  <2>1. gq \in Seq(Ctx) /\ DOMAIN gq = 1 .. Len(gq)
    BY <1>1 DEF TypeOK, GlobalType
  <2>2. \A i, j \in DOMAIN gq: gq[i] = gq[j] => i = j
    BY <1>1, <2>1 DEF OwnInv, OneOwner, Distinct
  <2>3. \A c \in Ctx: OwnerOf(c)
    BY <1>1 DEF OwnInv, OneOwner
  <2>4. \A w \in Worker: Holds(w) \subseteq Ctx /\ Dispatches(w) \subseteq Ctx
    BY DEF Holds, Dispatches, Launches
  <2>5. ASSUME NEW w \in Worker
        PROVE  Holds(w) \cap Queued = {} /\ Dispatches(w) \cap Launches(w) = {}
    <3>1. \A c \in Ctx: c \notin Holds(w) \cap Queued /\ c \notin Dispatches(w) \cap Launches(w)
      BY <2>3, Places DEF OwnerOf
    <3> QED BY <2>4, <3>1
  <2>6. ASSUME NEW v \in Worker, NEW w \in Worker, v # w
        PROVE  Holds(v) \cap Holds(w) = {}
    <3>1. \A c \in Ctx: c \notin Holds(v) \cap Holds(w)
      BY <2>3, <2>6, Places DEF OwnerOf
    <3> QED BY <2>4, <3>1
  <2>7. \A w \in Worker: Running(w) \subseteq Holds(w)
    BY DEF Running, Holds, Dispatches, Launches
  <2>8. \A v, w \in Worker: v # w => Running(v) \cap Running(w) = {}
    BY <2>6, <2>7
  <2> QED BY <2>2, <2>5, <2>6, <2>8 DEF SingleOwner
<1> QED BY <1>1, SafetyInvariant, PTL

(* A queue with messages that is not locked, or that waits to be released, *)
(* is owned by the global queue or by a worker: no wakeup is lost.         *)
THEOREM EveryWakeup == Spec => []NoLostWakeup
<1>1. ASSUME TypeOK, OwnInv PROVE NoLostWakeup
  <2>1. ASSUME NEW c \in Ctx, qmem[c] = "live",
               release[c] = 1 \/ (queue[c] # <<>> /\ lock_session[c] = 0)
        PROVE  Own(c)
    <3>1. FlagOf(c) /\ in_global[c] \in 0 .. 3 /\ release[c] \in {0, 1}
      BY <1>1 DEF OwnInv, Flags, TypeOK, QueueType
    <3> QED BY <2>1, <3>1 DEF FlagOf, Own, Hold, Disp, Busy
  <2> QED BY <2>1, Places DEF NoLostWakeup
<1> QED BY <1>1, SafetyInvariant, PTL

(* The assertions of _dispatch_message, skynet_mq_pushglobal, _force_push, *)
(* _unlock and skynet_mq_mark_release hold.                                *)
THEOREM AssertionsHold == Spec => []Assertions
<1>1. ASSUME TypeOK, RefInv, OwnInv PROVE Assertions
  <2>1. ASSUME NEW w \in Worker
        PROVE  /\ pc[w] = "call" => init[cur[w]]
               /\ pc[w] = "back" => in_global[cur[w]] # 0
               /\ pc[w] = "orphan" /\ release[cur[w]] = 0 => in_global[cur[w]] # 0
               /\ npc[w] \in {"force", "mqrelease"} => in_global[newc[w]] # 0
    <3>1. pc[w] = "call" => init[cur[w]]
      BY <1>1 DEF OwnInv, Initialised
    <3>2. pc[w] = "back" => in_global[cur[w]] # 0
      BY <1>1, GrabbedQueue
    <3>3. pc[w] = "orphan" /\ release[cur[w]] = 0 => in_global[cur[w]] # 0
      BY <1>1, FoundQueue
    <3>4. npc[w] \in {"force", "mqrelease"} => in_global[newc[w]] # 0
      BY <1>1, LaunchedQueue
    <3> QED BY <3>1, <3>2, <3>3, <3>4
  <2>2. ASSUME NEW c \in Ctx, qmem[c] = "live", lock_session[c] # 0
        PROVE  in_global[c] \in {2, 3}
    <3>1. FlagOf(c) /\ in_global[c] \in 0 .. 3
      BY <1>1 DEF OwnInv, Flags, TypeOK, QueueType
    <3> QED BY <2>2, <3>1 DEF FlagOf
  <2>3. \A t \in Thread: del[t] # None => mem[del[t]] = "live"
    BY <1>1 DEF RefInv, LastDeletes, TypeOK, ThreadType
  <2> QED BY <2>1, <2>2, <2>3 DEF Assertions
<1> QED BY <1>1, SafetyInvariant, PTL

-----------------------------------------------------------------------------
(* G_NODE.total counts the services that are alive.                        *)
LEMMA AliveFinite ==
    /\ IsFiniteSet(Alive) /\ Cardinality(Alive) \in Nat
    /\ Cardinality(Alive) = 0 <=> Alive = {}
<1>1. Alive \in SUBSET Ctx
  BY DEF Alive
<1> QED BY <1>1, DispatchAssumption, FS_Subset, FS_CardinalityType, FS_EmptySet

LEMMA TotalSame ==
    ASSUME Total, total' = total, \A c \in Ctx: c \in Alive' <=> c \in Alive
    PROVE  Total'
<1>1. Alive' = Alive
  BY DEF Alive
<1> QED BY <1>1 DEF Total

LEMMA TotalKept ==
    ASSUME Total, UNCHANGED <<mem, total>>,
           \A c \in Ctx: qmem'[c] = "none" <=> qmem[c] = "none"
    PROVE  Total'
BY TotalSame DEF Alive

LEMMA TotalWorker ==
    ASSUME TypeOK, Total, Life, NEW w \in Worker, WorkerStep(w), ~MakeQueue(w)
    PROVE  Total'
<1>1. CASE MqRelease(w) \/ FailRelease(w)
  <2>1. PICK c \in Ctx: MqReleaseOf(c)
    BY <1>1 DEF MqRelease, FailRelease, TypeOK, WorkerType
  <2>2. qmem' = qmem \/ (qmem' = [qmem EXCEPT ![c] = "freed"] /\ qmem[c] # "none")
    BY <2>1 DEF MqReleaseOf, Life, LifeOf
  <2> QED BY <1>1, <2>2, TotalKept DEF MqRelease, FailRelease, TypeOK, QueueType
<1>2. CASE Pop(w) \/ PopNone(w) \/ CheckAbort(w) \/ GrabCurrent(w) \/ MqPop(w) \/ Return(w) \/ PushGlobal(w) \/ Unref(w)
  BY <1>2, TotalKept DEF Pop, PopNone, CheckAbort, GrabCurrent, MqPop, Return, PushGlobal, Unref
<1>3. CASE InitOk(w) \/ SetInit(w) \/ ForcePush(w) \/ InitFail(w) \/ FailRetire(w) \/ KillRetire(w)
  BY <1>3, TotalKept DEF InitOk, SetInit, ForcePush, InitFail, FailRetire, KillRetire
<1> QED BY <1>1, <1>2, <1>3 DEF WorkerStep

LEMMA TotalMakeQueue ==
    ASSUME TypeOK, RefInv, Life, Total, NEW w \in Worker, MakeQueue(w)
    PROVE  Total'
<1>1. PICK c \in Ctx: c = newc[w]
  BY DEF MakeQueue, TypeOK, WorkerType
<1>2. LaunchRef(w, c) /\ mem[c] = "live" /\ qmem[c] = "none"
  BY <1>1, HasRefs, NoneAssumption DEF MakeQueue, LaunchRef, Life, Launcher
<1>3. qmem' = [qmem EXCEPT ![c] = "live"] /\ mem' = mem /\ total' = total + 1
  BY <1>1 DEF MakeQueue, MqCreate, ContextInc
<1>4. Alive' = Alive \cup {c} /\ c \notin Alive
  BY <1>2, <1>3 DEF Alive, TypeOK, QueueType
<1>5. Cardinality(Alive \cup {c}) = Cardinality(Alive) + 1
  BY <1>4, AliveFinite, FS_AddElement
<1> QED BY <1>3, <1>4, <1>5 DEF Total

LEMMA TotalFreeContext ==
    ASSUME TypeOK, RefInv, Life, Total, NEW t \in Thread, FreeContext(t)
    PROVE  Total'
<1>1. PICK c \in Ctx: c = del[t]
  BY NoneAssumption DEF FreeContext, TypeOK, ThreadType
<1>2. mem[c] = "live" /\ release[c] = 1
  BY <1>1, NoneAssumption DEF FreeContext, RefInv, LastDeletes
<1>3. mem' = [mem EXCEPT ![c] = "freed"] /\ qmem' = qmem /\ total' = total - 1
  BY <1>1 DEF FreeContext
<1>4. c \in Alive
  BY <1>2 DEF Alive, Life, LifeOf
<1>5. Alive' = Alive \ {c}
  BY <1>3 DEF Alive, TypeOK, ContextType
<1>6. Cardinality(Alive \ {c}) = Cardinality(Alive) - 1
  BY <1>4, AliveFinite, FS_RemoveElement
<1> QED BY <1>3, <1>5, <1>6 DEF Total

LEMMA TotalUser ==
    ASSUME TypeOK, Total, Life, NEW w \in Worker, UserStep(w)
    PROVE  Total'
<1>1. CASE Launch(w)
  <2>1. PICK c \in Ctx: mem[c] = "none" /\ mem' = [mem EXCEPT ![c] = "live"]
    BY <1>1 DEF Launch
  <2>2. qmem[c] = "none" /\ qmem' = qmem /\ total' = total
    BY <1>1, <2>1 DEF Launch, Life, LifeOf
  <2> QED BY <2>1, <2>2, TotalSame DEF Alive, TypeOK, ContextType
<1>2. CASE Send(w) \/ Call(w) \/ Reply(w) \/ Kill(w) \/ SetCallback(w) \/ Lock(w) \/ Unlock(w)
  BY <1>2, TotalKept DEF Send, Call, Reply, Kill, SetCallback, Lock, Unlock
<1>3. CASE SendRemote(w) \/ CallRemote(w) \/ Register(w)
  BY <1>3, TotalKept DEF SendRemote, CallRemote, Register, PushToHarbor
<1> QED BY <1>1, <1>2, <1>3 DEF UserStep

LEMMA TotalNext == ASSUME TypeOK, RefInv, Life, Total, [Next]_vars PROVE Total'
<1>1. ASSUME NEW t \in Thread, CallStep(t) PROVE Total'
  <2>1. CASE MqPush(t) \/ PushRelease(t) \/ MarkRelease(t)
    BY <2>1, TotalKept DEF MqPush, PushRelease, MarkRelease
  <2> QED BY <1>1, <2>1, TotalFreeContext DEF CallStep
<1>2. ASSUME NEW w \in Worker, WorkerStep(w) \/ UserStep(w) PROVE Total'
  BY <1>2, TotalWorker, TotalMakeQueue, TotalUser
<1>3. ASSUME NEW t \in Helper, HelperPush(t) \/ Endless(t) PROVE Total'
  BY <1>3, TotalKept DEF HelperPush, Endless
<1>4. CASE UNCHANGED vars
  BY <1>4, TotalKept DEF vars
<1> QED BY <1>1, <1>2, <1>3, <1>4 DEF Next

(* Who sees the total at zero sees no service, and no thread at one.       *)
LEMMA NobodyAlive ==
    ASSUME TypeOK, RefInv, OwnInv, Total, total = 0
    PROVE  /\ \A c \in Ctx: mem[c] # "live" /\ ~slot[c]
           /\ \A t \in Thread: del[t] = None /\ ppc[t] = "none"
<1>1. Alive = {}
  BY AliveFinite DEF Total
<1>2. ASSUME NEW c \in Ctx, mem[c] = "live" PROVE FALSE
  <2>1. qmem[c] = "none"
    BY <1>1, <1>2 DEF Alive
  <2>2. PICK w \in Worker: newc[w] = c /\ npc[w] = "registered"
    BY <1>2, <2>1 DEF OwnInv, Life, LifeOf
  <2>3. PICK d: d = cur[w]
    OBVIOUS
  <2>4. pc[w] = "call"
    BY <2>2 DEF TypeOK, WorkerType
  <2>5. d \in Ctx /\ qmem[d] = "live" /\ DispatchRef(w, d)
    BY <2>3, <2>4, GrabbedQueue DEF DispatchRef
  <2>6. mem[d] = "live"
    BY <2>5, HasRefs
  <2> QED BY <1>1, <2>5, <2>6 DEF Alive
<1>3. \A c \in Ctx: ~slot[c]
  BY <1>2, HasRefs
<1>4. ASSUME NEW t \in Thread PROVE del[t] = None /\ ppc[t] = "none"
  <2>1. del[t] = None
    BY <1>2, NoneAssumption DEF RefInv, LastDeletes, TypeOK, ThreadType
  <2>2. ASSUME ppc[t] # "none" PROVE FALSE
    <3>1. dst[t] \in Ctx /\ PushRef(t, dst[t])
      BY <2>2 DEF TypeOK, ThreadType, PushRef
    <3> QED BY <1>2, <3>1, HasRefs
  <2> QED BY <2>1, <2>2
<1> QED BY <1>2, <1>3, <1>4

(* A worker that left does nothing any more.                               *)
LEMMA DoneWorker ==
    ASSUME TypeOK, NEW w \in Worker, pc[w] = "done", WorkerStep(w) \/ UserStep(w)
    PROVE  FALSE
<1>1. npc[w] = "none" /\ kill[w] = None
  BY DEF TypeOK, WorkerType
<1>2. ~WorkerStep(w)
  BY <1>1 DEF WorkerStep, Pop, PopNone, CheckAbort, GrabCurrent, MqRelease, MqPop, Return, PushGlobal, Unref,
     MakeQueue, InitOk, SetInit, ForcePush, InitFail, FailRetire, FailRelease, KillRetire
<1>3. ~UserCode(w)
  BY <1>1 DEF UserCode
<1>4. ~UserStep(w)
  BY <1>3 DEF UserStep, Launch, Send, Call, Reply, Kill, SetCallback, Lock, Unlock,
     SendRemote, CallRemote, Register
<1> QED BY <1>2, <1>4

LEMMA OnlyCheckEnds ==
    ASSUME TypeOK, NEW w \in Worker, WorkerStep(w) \/ UserStep(w),
           NEW v \in Worker, pc[v] # "done", pc'[v] = "done"
    PROVE  total = 0 /\ total' = 0
<1> USE DEF TypeOK, WorkerType
<1>1. CASE Pop(w) \/ PopNone(w) \/ GrabCurrent(w) \/ MqRelease(w) \/ MqPop(w) \/ Return(w)
           \/ PushGlobal(w) \/ Unref(w)
  BY <1>1 DEF Pop, PopNone, GrabCurrent, MqRelease, MqPop, Return, PushGlobal, Unref
<1>2. CASE MakeQueue(w) \/ InitOk(w) \/ SetInit(w) \/ ForcePush(w) \/ InitFail(w) \/ FailRetire(w)
           \/ FailRelease(w) \/ KillRetire(w)
  BY <1>2 DEF MakeQueue, InitOk, SetInit, ForcePush, InitFail, FailRetire, FailRelease, KillRetire
<1>3. CASE UserStep(w)
  BY <1>3 DEF UserStep, Launch, Send, Call, Reply, Kill, SetCallback, Lock, Unlock,
     SendRemote, CallRemote, Register, PushToHarbor
<1>4. CASE CheckAbort(w)
  BY <1>4 DEF CheckAbort
<1> QED BY <1>1, <1>2, <1>3, <1>4 DEF WorkerStep

(* Nothing that is left can raise the total again: a launch is made by a   *)
(* service at work, and none is left to be deleted.                        *)
LEMMA TotalStays ==
    ASSUME TypeOK, RefInv, OwnInv, Total, total = 0, [Next]_vars
    PROVE  total' = 0
<1>1. \A t \in Thread: del[t] = None /\ ppc[t] = "none"
  BY NobodyAlive
<1>2. ASSUME NEW t \in Thread, CallStep(t) PROVE total' = 0
  BY <1>1, <1>2 DEF CallStep, MqPush, PushRelease, MarkRelease, FreeContext
<1>3. ASSUME NEW w \in Worker, MakeQueue(w) PROVE FALSE
  <2>1. newc[w] \in Ctx /\ LaunchRef(w, newc[w])
    BY <1>3 DEF MakeQueue, LaunchRef, TypeOK, WorkerType
  <2>2. mem[newc[w]] = "live"
    BY <2>1, HasRefs
  <2> QED BY <2>1, <2>2, NobodyAlive
<1>4. ASSUME NEW w \in Worker, WorkerStep(w) PROVE total' = 0
  BY <1>3, <1>4 DEF WorkerStep, Pop, PopNone, CheckAbort, GrabCurrent, MqRelease, MqPop, Return,
     PushGlobal, Unref, InitOk, SetInit, ForcePush, InitFail, FailRetire, FailRelease, KillRetire
<1>5. ASSUME NEW w \in Worker, UserStep(w) PROVE total' = 0
  BY <1>5 DEF UserStep, Launch, Send, Call, Reply, Kill, SetCallback, Lock, Unlock,
     SendRemote, CallRemote, Register, PushToHarbor
<1>6. ASSUME NEW t \in Helper, HelperPush(t) \/ Endless(t) PROVE total' = 0
  BY <1>6 DEF HelperPush, Endless
<1>7. CASE UNCHANGED vars
  BY <1>7 DEF vars
<1> QED BY <1>2, <1>4, <1>5, <1>6, <1>7 DEF Next

LEMMA EndIsFinalNext ==
    ASSUME TypeOK, RefInv, OwnInv, Total, EndIsFinal, [Next]_vars
    PROVE  EndIsFinal'
<1>1. CASE total = 0
  BY <1>1, TotalStays DEF EndIsFinal
<1>2. CASE total # 0
  <2>1. \A v \in Worker: pc[v] # "done"
    BY <1>2 DEF EndIsFinal
  <2>2. ASSUME NEW w \in Worker, WorkerStep(w) \/ UserStep(w) PROVE EndIsFinal'
    BY <2>1, <2>2, <1>2, OnlyCheckEnds DEF EndIsFinal
  <2>3. ASSUME NEW t \in Thread, CallStep(t) PROVE EndIsFinal'
    BY <2>1, <2>3 DEF CallStep, MqPush, PushRelease, MarkRelease, FreeContext, EndIsFinal
  <2>4. ASSUME NEW t \in Helper, HelperPush(t) \/ Endless(t) PROVE EndIsFinal'
    BY <2>1, <2>4 DEF HelperPush, Endless, EndIsFinal
  <2>5. CASE UNCHANGED vars
    BY <2>1, <2>5 DEF vars, EndIsFinal
  <2> QED BY <2>2, <2>3, <2>4, <2>5 DEF Next
<1> QED BY <1>1, <1>2

(* No worker leaves while a service is alive or will be, and the queues    *)
(* that all of them leave behind are those of ended services, marked and   *)
(* in the global queue.                                                    *)
THEOREM WorkersLeaveNothing == Spec => []CleanExit
<1>1. Init => Total
  <2>1. ASSUME Init PROVE Alive = BootSet
    <3>1. BootSet \subseteq Ctx
      BY DispatchAssumption DEF BootSet
    <3> QED BY <2>1, <3>1 DEF Init, Alive
  <2> QED BY <2>1 DEF Init, Total
<1>2. Init => EndIsFinal
  BY DEF Init, EndIsFinal
<1>3. ASSUME TypeOK, RefInv, OwnInv, ExitInv, [Next]_vars PROVE ExitInv'
  BY <1>3, TotalNext, EndIsFinalNext DEF ExitInv, OwnInv
<1>4. ASSUME TypeOK, RefInv, OwnInv, ExitInv PROVE CleanExit
  <2>1. ASSUME total = 0, NEW c \in Ctx PROVE mem[c] # "live" /\ (qmem[c] = "live" => release[c] = 1)
    <3>1. mem[c] # "live"
      BY <1>4, <2>1, NobodyAlive DEF ExitInv
    <3>2. mem[c] \in {"none", "freed"}
      BY <1>4, <3>1 DEF TypeOK, ContextType
    <3> QED BY <1>4, <3>2 DEF OwnInv, Life, LifeOf
  <2>2. ASSUME \A w \in Worker: pc[w] = "done", NEW c \in Ctx, qmem[c] = "live", release[c] = 1
        PROVE  c \in Queued
    <3>1. Own(c)
      BY <1>4, <2>2 DEF OwnInv, Flags, FlagOf
    <3>2. \A w \in Worker: ~Hold(w, c)
      BY <1>4, <2>2 DEF TypeOK, WorkerType, Hold, Disp, Laun
    <3>3. InQ(c)
      BY <3>1, <3>2 DEF Own
    <3> QED BY <1>4, <3>3 DEF InQ, Queued, TypeOK, GlobalType
  <2>3. \A w \in Worker: pc[w] = "done" => total = 0
    BY <1>4 DEF ExitInv, EndIsFinal
  <2> QED BY <2>1, <2>2, <2>3 DEF CleanExit
<1>5. Init => ExitInv
  BY <1>1, <1>2 DEF ExitInv
<1> QED BY <1>3, <1>4, <1>5, SafetyInvariant, PTL DEF Spec

-----------------------------------------------------------------------------
-----------------------------------------------------------------------------
(* Dispatch implements Actor, step by step.                                *)
Runs(w, c) == (cur[w] = c /\ pc[w] = "call") \/ (newc[w] = c /\ npc[w] = "init")
Works(c) == \E w \in Worker: c \in Running(w)
stages == [c \in Ctx |-> Stage(c)]
works  == [c \in Ctx |-> Works(c)]

LEMMA RunsRunning ==
    ASSUME NEW c \in Ctx
    PROVE  /\ Works(c) <=> \E w \in Worker: Runs(w, c)
           /\ Works(c)' <=> \E w \in Worker: Runs(w, c)'
<1>1. \A w \in Worker: c \in Running(w) <=> Runs(w, c)
  BY DEF Running, Runs
<1>2. \A w \in Worker: (c \in Running(w))' <=> Runs(w, c)'
  BY DEF Running, Runs
<1> QED BY <1>1, <1>2 DEF Works

LEMMA StagesKept ==
    ASSUME UNCHANGED release, \A c \in Ctx: qmem'[c] = "none" <=> qmem[c] = "none"
    PROVE  stages' = stages
BY DEF stages, Stage

LEMMA StageMoves ==
    ASSUME NEW c \in Ctx, NEW s, Stage(c)' = s,
           \A d \in Ctx: d # c => qmem'[d] = qmem[d] /\ release'[d] = release[d]
    PROVE  stages' = [stages EXCEPT ![c] = s]
BY DEF stages, Stage

LEMMA WorksKept ==
    ASSUME \A w \in Worker: \A c \in Ctx: Runs(w, c)' <=> Runs(w, c)
    PROVE  works' = works
<1>1. \A c \in Ctx: Works(c)' <=> Works(c)
  BY RunsRunning
<1> QED BY <1>1 DEF works, Works

LEMMA WorkBegins ==
    ASSUME NEW w \in Worker, NEW c \in Ctx, Runs(w, c)',
           \A v \in Worker: \A d \in Ctx: d # c => (Runs(v, d)' <=> Runs(v, d))
    PROVE  works' = [works EXCEPT ![c] = TRUE]
<1>1. Works(c)' /\ \A d \in Ctx: d # c => (Works(d)' <=> Works(d))
  BY RunsRunning
<1> QED BY <1>1 DEF works, Works

LEMMA WorkEnds ==
    ASSUME NEW c \in Ctx, \A v \in Worker: ~Runs(v, c)',
           \A v \in Worker: \A d \in Ctx: d # c => (Runs(v, d)' <=> Runs(v, d))
    PROVE  works' = [works EXCEPT ![c] = FALSE]
<1>1. ~Works(c)' /\ \A d \in Ctx: d # c => (Works(d)' <=> Works(d))
  BY RunsRunning
<1> QED BY <1>1 DEF works, Works

LEMMA AtWork ==
    ASSUME NEW c \in Ctx
    PROVE  /\ works[c] <=> \E w \in Worker: Runs(w, c)
           /\ stages[c] = Stage(c)
BY RunsRunning DEF works, Works, stages

(* One worker runs the code of a service.                                  *)
LEMMA RunsAlone ==
    ASSUME OwnInv, NEW w \in Worker, NEW c \in Ctx, Hold(w, c)
    PROVE  \A v \in Worker: Runs(v, c) => v = w
BY DEF OwnInv, OneOwner, OwnerOf, Hold, Disp, Laun, Runs

-----------------------------------------------------------------------------
(* The actions of Actor, by what they do to stages, works and the queues.  *)
LEMMA ActorStutters ==
    ASSUME stages' = stages, works' = works, UNCHANGED <<queue, lock_session>>
    PROVE  UNCHANGED Actors!vars
BY DEF Actors!vars, stages, works, Works

LEMMA ActorSteps ==
    ASSUME NEW c \in Ctx
    PROVE  /\ Actors!Start(c) <=>
                /\ stages[c] = "unborn"
                /\ stages' = [stages EXCEPT ![c] = "open"]
                /\ works' = [works EXCEPT ![c] = TRUE]
                /\ UNCHANGED <<queue, lock_session>>
           /\ Actors!Take(c) <=>
                /\ stages[c] = "open" /\ ~works[c] /\ lock_session[c] = 0 /\ queue[c] # <<>>
                /\ queue' = [queue EXCEPT ![c] = Tail(@)]
                /\ works' \in {works, [works EXCEPT ![c] = TRUE]}
                /\ stages' = stages /\ UNCHANGED lock_session
           /\ Actors!Finish(c) <=>
                /\ works[c] /\ works' = [works EXCEPT ![c] = FALSE]
                /\ stages' = stages /\ UNCHANGED <<queue, lock_session>>
           /\ Actors!Lock(c) <=>
                /\ works[c] /\ lock_session[c] = 0
                /\ \E s \in (0 .. MaxSession) \ {0}: lock_session' = [lock_session EXCEPT ![c] = s]
                /\ stages' = stages /\ works' = works /\ UNCHANGED queue
           /\ Actors!Unlock(c) <=>
                /\ works[c] /\ lock_session' = [lock_session EXCEPT ![c] = 0]
                /\ stages' = stages /\ works' = works /\ UNCHANGED queue
           /\ Actors!Close(c) <=>
                /\ stages[c] = "open" /\ ~works[c]
                /\ stages' = [stages EXCEPT ![c] = "closed"]
                /\ works' = works /\ UNCHANGED <<queue, lock_session>>
           /\ Actors!Discard(c) <=>
                /\ stages[c] = "closed"
                /\ queue' = [queue EXCEPT ![c] = <<>>]
                /\ stages' = stages /\ works' = works /\ UNCHANGED lock_session
<1> USE DEF stages, works, Works
<1>1. Actors!Start(c) <=>
        /\ stages[c] = "unborn"
        /\ stages' = [stages EXCEPT ![c] = "open"]
        /\ works' = [works EXCEPT ![c] = TRUE]
        /\ UNCHANGED <<queue, lock_session>>
  BY DEF Actors!Start
<1>2. Actors!Take(c) <=>
        /\ stages[c] = "open" /\ ~works[c] /\ lock_session[c] = 0 /\ queue[c] # <<>>
        /\ queue' = [queue EXCEPT ![c] = Tail(@)]
        /\ works' \in {works, [works EXCEPT ![c] = TRUE]}
        /\ stages' = stages /\ UNCHANGED lock_session
  BY DEF Actors!Take
<1>3. Actors!Finish(c) <=>
        /\ works[c] /\ works' = [works EXCEPT ![c] = FALSE]
        /\ stages' = stages /\ UNCHANGED <<queue, lock_session>>
  BY DEF Actors!Finish
<1>4. Actors!Lock(c) <=>
        /\ works[c] /\ lock_session[c] = 0
        /\ \E s \in (0 .. MaxSession) \ {0}: lock_session' = [lock_session EXCEPT ![c] = s]
        /\ stages' = stages /\ works' = works /\ UNCHANGED queue
  BY DEF Actors!Lock
<1>5. Actors!Unlock(c) <=>
        /\ works[c] /\ lock_session' = [lock_session EXCEPT ![c] = 0]
        /\ stages' = stages /\ works' = works /\ UNCHANGED queue
  BY DEF Actors!Unlock
<1>6. Actors!Close(c) <=>
        /\ stages[c] = "open" /\ ~works[c]
        /\ stages' = [stages EXCEPT ![c] = "closed"]
        /\ works' = works /\ UNCHANGED <<queue, lock_session>>
  BY DEF Actors!Close
<1>7. Actors!Discard(c) <=>
        /\ stages[c] = "closed"
        /\ queue' = [queue EXCEPT ![c] = <<>>]
        /\ stages' = stages /\ works' = works /\ UNCHANGED lock_session
  BY DEF Actors!Discard
<1> QED BY <1>1, <1>2, <1>3, <1>4, <1>5, <1>6, <1>7

(* skynet_mq_push, to a queue that is live and not marked. *)
LEMMA ActorDelivers ==
    ASSUME TypeOK, NEW c \in Ctx, NEW m \in Message, MqPushTo(c, m),
           qmem[c] = "live", release[c] = 0,
           UNCHANGED <<qmem, release, pc, cur, npc, newc>>
    PROVE  Actors!Next
<1>1. stages' = stages /\ works' = works
  BY StagesKept, WorksKept DEF Runs
<1>2. stages[c] = "open"
  BY AtWork DEF Stage
<1>3. IF lock_session[c] # 0 /\ m.session = lock_session[c]
      THEN /\ queue' = [queue EXCEPT ![c] = <<m>> \o @]
           /\ lock_session' = [lock_session EXCEPT ![c] = 0]
      ELSE /\ queue' = [queue EXCEPT ![c] = Append(@, m)]
           /\ UNCHANGED lock_session
  BY DEF MqPushTo, Enqueue, Answers
<1>4. Actors!Deliver(c, m)
  BY <1>1, <1>2, <1>3 DEF Actors!Deliver, stages, works, Works
<1> QED BY <1>4 DEF Actors!Next

ActorStep == Actors!Next \/ UNCHANGED Actors!vars

LEMMA ActorIdle ==
    ASSUME UNCHANGED <<queue, lock_session, release>>,
           \A c \in Ctx: qmem'[c] = "none" <=> qmem[c] = "none",
           \A w \in Worker: \A c \in Ctx: Runs(w, c)' <=> Runs(w, c)
    PROVE  ActorStep
BY StagesKept, WorksKept, ActorStutters DEF ActorStep

LEMMA ActorDoes ==
    ASSUME NEW c \in Ctx,
           \/ Actors!Start(c) \/ Actors!Take(c) \/ Actors!Finish(c)
           \/ Actors!Lock(c) \/ Actors!Unlock(c) \/ Actors!Close(c) \/ Actors!Discard(c)
    PROVE  ActorStep
BY DEF ActorStep, Actors!Next

-----------------------------------------------------------------------------
(* Each action of Dispatch is an action of Actor, or changes nothing there.*)
LEMMA ActorWorkerIdle ==
    ASSUME TypeOK, NEW w \in Worker,
           \/ Pop(w) \/ PopNone(w) \/ CheckAbort(w) \/ GrabCurrent(w) \/ PushGlobal(w) \/ Unref(w) \/ SetInit(w)
           \/ ForcePush(w) \/ FailRetire(w) \/ KillRetire(w) \/ Launch(w)
    PROVE  ActorStep
<1> USE DEF TypeOK, WorkerType, Runs
<1>1. CASE Pop(w)
  BY <1>1, ActorIdle DEF Pop
<1>2. CASE PopNone(w) \/ CheckAbort(w)
  BY <1>2, ActorIdle DEF PopNone, CheckAbort
<1>3. CASE GrabCurrent(w)
  BY <1>3, ActorIdle DEF GrabCurrent
<1>4. CASE PushGlobal(w)
  BY <1>4, ActorIdle DEF PushGlobal
<1>5. CASE Unref(w)
  BY <1>5, ActorIdle DEF Unref
<1>6. CASE SetInit(w)
  BY <1>6, ActorIdle DEF SetInit
<1>7. CASE ForcePush(w)
  BY <1>7, ActorIdle DEF ForcePush
<1>8. CASE FailRetire(w)
  BY <1>8, ActorIdle DEF FailRetire
<1>9. CASE KillRetire(w)
  BY <1>9, ActorIdle DEF KillRetire
<1>10. CASE Launch(w)
  BY <1>10, ActorIdle DEF Launch, InDispatch
<1> QED BY <1>1, <1>2, <1>3, <1>4, <1>5, <1>6, <1>7, <1>8, <1>9, <1>10

LEMMA ActorUserIdle ==
    ASSUME NEW w \in Worker, Send(w) \/ Call(w) \/ Reply(w) \/ Kill(w) \/ SetCallback(w)
    PROVE  ActorStep
BY ActorIdle DEF Runs, Send, Call, Reply, Kill, SetCallback

LEMMA ActorThreadIdle ==
    ASSUME NEW t \in Thread, PushRelease(t) \/ FreeContext(t) \/ HelperPush(t) \/ Endless(t)
    PROVE  ActorStep
BY ActorIdle DEF Runs, PushRelease, FreeContext, HelperPush, Endless

(* The release of a queue that is not marked only moves it.                *)
LEMMA ActorReleases ==
    ASSUME TypeOK, RefInv, OwnInv, NEW w \in Worker, MqRelease(w) \/ FailRelease(w)
    PROVE  ActorStep
<1>1. PICK c \in Ctx: MqReleaseOf(c)
  BY DEF MqRelease, FailRelease, TypeOK, WorkerType
<1>2. \A v \in Worker: \A d \in Ctx: Runs(v, d)' <=> Runs(v, d)
  BY DEF MqRelease, FailRelease, TypeOK, WorkerType, Runs
<1>3. UNCHANGED <<lock_session, release>>
  BY DEF MqRelease, FailRelease
<1>4. CASE release[c] = 1
  <2>1. qmem[c] # "none"
    BY <1>4 DEF OwnInv, Life, LifeOf
  <2>2. qmem' = [qmem EXCEPT ![c] = "freed"] /\ queue' = [queue EXCEPT ![c] = <<>>]
    BY <1>1, <1>4 DEF MqReleaseOf
  <2>3. stages' = stages /\ works' = works
    BY <1>2, <1>3, <2>1, <2>2, StagesKept, WorksKept DEF TypeOK, QueueType
  <2>4. stages[c] = "closed"
    BY <1>4, <2>1, AtWork DEF Stage
  <2>5. Actors!Discard(c)
    BY <1>3, <2>2, <2>3, <2>4, ActorSteps
  <2> QED BY <2>5, ActorDoes
<1>5. CASE release[c] # 1
  <2>1. UNCHANGED <<qmem, queue>>
    BY <1>1, <1>5 DEF MqReleaseOf
  <2> QED BY <1>2, <1>3, <2>1, ActorIdle
<1> QED BY <1>4, <1>5

LEMMA ActorMqPop ==
    ASSUME TypeOK, RefInv, OwnInv, NEW w \in Worker, MqPop(w)
    PROVE  ActorStep
<1>1. PICK c: c = cur[w]
  OBVIOUS
<1>2. c \in Ctx /\ Disp(w, c) /\ in_global[c] = 1 /\ qmem[c] = "live" /\ release[c] = 0
  BY <1>1, GrabbedQueue DEF MqPop
<1>3. pc[w] = "grabbed" /\ npc[w] = "none" /\ UNCHANGED <<qmem, lock_session, release, npc, newc, cur>>
  BY DEF MqPop, InDispatch
<1>4. CASE queue[c] = <<>>
  <2>1. queue' = queue /\ pc' = [pc EXCEPT ![w] = "unref"]
    BY <1>1, <1>4 DEF MqPop
  <2>2. \A v \in Worker: \A d \in Ctx: Runs(v, d)' <=> Runs(v, d)
    BY <1>3, <2>1 DEF TypeOK, WorkerType, Runs
  <2> QED BY <1>3, <2>1, <2>2, ActorIdle
<1>5. CASE queue[c] # <<>>
  <2>1. \A v \in Worker: ~Runs(v, c)
    <3>1. Hold(w, c) /\ ~Laun(w, c)
      BY <1>2 DEF OwnInv, OneOwner, OwnerOf, Hold
    <3>2. ~Runs(w, c)
      BY <1>3, <3>1 DEF Runs
    <3> QED BY <1>2, <3>1, <3>2, RunsAlone
  <2>2. lock_session[c] = 0
    BY <1>2 DEF OwnInv, Flags, FlagOf
  <2>3. stages' = stages /\ stages[c] = "open" /\ ~works[c]
    BY <1>2, <1>3, <2>1, StagesKept, AtWork DEF Stage
  <2>4. queue' = [queue EXCEPT ![c] = Tail(@)]
    BY <1>1, <1>5 DEF MqPop
  <2>5. works' \in {works, [works EXCEPT ![c] = TRUE]}
    <3>1. CASE pc' = [pc EXCEPT ![w] = "call"]
      <4>1. Runs(w, c)' /\ \A v \in Worker: \A d \in Ctx: d # c => (Runs(v, d)' <=> Runs(v, d))
        BY <1>1, <1>3, <3>1 DEF TypeOK, WorkerType, Runs
      <4> QED BY <1>2, <4>1, WorkBegins
    <3>2. CASE pc' = [pc EXCEPT ![w] = "back"]
      <4>1. \A v \in Worker: \A d \in Ctx: Runs(v, d)' <=> Runs(v, d)
        BY <1>1, <1>3, <3>2 DEF TypeOK, WorkerType, Runs
      <4> QED BY <4>1, WorksKept
    <3> QED BY <1>1, <1>5, <3>1, <3>2 DEF MqPop
  <2>6. Actors!Take(c)
    BY <1>2, <1>3, <1>5, <2>2, <2>3, <2>4, <2>5, ActorSteps
  <2> QED BY <1>2, <2>6, ActorDoes
<1> QED BY <1>4, <1>5

LEMMA ActorReturn ==
    ASSUME TypeOK, RefInv, OwnInv, NEW w \in Worker, Return(w)
    PROVE  ActorStep
<1>1. PICK c: c = cur[w]
  OBVIOUS
<1>2. c \in Ctx /\ Disp(w, c)
  BY <1>1, GrabbedQueue DEF Return
<1>3. /\ pc[w] = "call" /\ npc[w] = "none" /\ pc' = [pc EXCEPT ![w] = "back"]
      /\ UNCHANGED <<qmem, queue, lock_session, release, npc, newc, cur>>
  BY DEF Return, InDispatch
<1>4. Runs(w, c) /\ \A v \in Worker: Runs(v, c) => v = w
  BY <1>1, <1>2, <1>3, RunsAlone DEF Runs, Hold
<1>5. /\ \A v \in Worker: ~Runs(v, c)'
      /\ \A v \in Worker: \A d \in Ctx: d # c => (Runs(v, d)' <=> Runs(v, d))
  BY <1>1, <1>3, <1>4 DEF TypeOK, WorkerType, Runs
<1>6. works[c] /\ works' = [works EXCEPT ![c] = FALSE] /\ stages' = stages
  BY <1>2, <1>3, <1>4, <1>5, WorkEnds, AtWork, StagesKept
<1>7. Actors!Finish(c)
  BY <1>2, <1>3, <1>6, ActorSteps
<1> QED BY <1>2, <1>7, ActorDoes

LEMMA ActorInitEnds ==
    ASSUME TypeOK, RefInv, OwnInv, NEW w \in Worker, InitOk(w) \/ InitFail(w)
    PROVE  ActorStep
<1>1. PICK c: c = newc[w]
  OBVIOUS
<1>2. /\ npc[w] = "init" /\ \E p \in {"force", "ok", "retire"}: npc' = [npc EXCEPT ![w] = p]
      /\ UNCHANGED <<qmem, queue, lock_session, release, newc, pc, cur>>
  BY DEF InitOk, InitFail
<1>3. c \in Ctx /\ Laun(w, c)
  BY <1>1, <1>2, LaunchedQueue
<1>4. Runs(w, c) /\ (\A v \in Worker: Runs(v, c) => v = w) /\ ~Disp(w, c)
  BY <1>1, <1>2, <1>3, RunsAlone DEF Runs, Hold, OwnInv, OneOwner, OwnerOf
<1>5. /\ \A v \in Worker: ~Runs(v, c)'
      /\ \A v \in Worker: \A d \in Ctx: d # c => (Runs(v, d)' <=> Runs(v, d))
  BY <1>1, <1>2, <1>4 DEF TypeOK, WorkerType, Runs, Disp
<1>6. works[c] /\ works' = [works EXCEPT ![c] = FALSE] /\ stages' = stages
  BY <1>2, <1>3, <1>4, <1>5, WorkEnds, AtWork, StagesKept
<1>7. Actors!Finish(c)
  BY <1>2, <1>3, <1>6, ActorSteps
<1> QED BY <1>3, <1>7, ActorDoes

LEMMA ActorMakeQueue ==
    ASSUME TypeOK, RefInv, OwnInv, NEW w \in Worker, MakeQueue(w)
    PROVE  ActorStep
<1>1. PICK c \in Ctx: c = newc[w]
  BY DEF MakeQueue, TypeOK, WorkerType
<1>2. /\ npc[w] = "registered" /\ npc' = [npc EXCEPT ![w] = "init"]
      /\ qmem' = [qmem EXCEPT ![c] = "live"]
      /\ UNCHANGED <<queue, lock_session, release, newc, pc, cur>>
  BY <1>1 DEF MakeQueue, MqCreate
<1>3. qmem[c] = "none" /\ release[c] # 1
  BY <1>1, <1>2, NoneAssumption DEF OwnInv, Life, LifeOf, Launcher
<1>4. stages[c] = "unborn" /\ stages' = [stages EXCEPT ![c] = "open"]
  <2>1. Stage(c)' = "open"
    BY <1>2, <1>3 DEF Stage, TypeOK, QueueType
  <2>2. \A d \in Ctx: d # c => qmem'[d] = qmem[d] /\ release'[d] = release[d]
    BY <1>2
  <2> QED BY <1>3, <2>1, <2>2, StageMoves, AtWork DEF Stage
<1>5. Runs(w, c)' /\ \A v \in Worker: \A d \in Ctx: d # c => (Runs(v, d)' <=> Runs(v, d))
  BY <1>1, <1>2 DEF TypeOK, WorkerType, Runs
<1>6. works' = [works EXCEPT ![c] = TRUE]
  BY <1>5, WorkBegins
<1>7. Actors!Start(c)
  BY <1>2, <1>4, <1>6, ActorSteps
<1> QED BY <1>7, ActorDoes

LEMMA ActorMarkRelease ==
    ASSUME TypeOK, RefInv, OwnInv, NEW t \in Thread, MarkRelease(t)
    PROVE  ActorStep
<1>1. PICK c \in Ctx: c = del[t]
  BY NoneAssumption DEF MarkRelease, TypeOK, ThreadType
<1>2. mem[c] = "live" /\ ref[c] = 0 /\ release[c] = 0
  BY <1>1, NoneAssumption DEF MarkRelease, RefInv, LastDeletes
<1>3. \A w \in Worker: ~DispatchRef(w, c) /\ ~LaunchRef(w, c)
  BY <1>2, HasRefs
<1>4. qmem[c] # "none"
  BY <1>2, <1>3 DEF OwnInv, Life, LifeOf, LaunchRef
<1>5. release' = [release EXCEPT ![c] = 1]
      /\ UNCHANGED <<qmem, queue, lock_session, npc, newc, pc, cur>>
  BY <1>1 DEF MarkRelease, MqMarkRelease
<1>6. stages[c] = "open" /\ stages' = [stages EXCEPT ![c] = "closed"]
  <2>1. Stage(c)' = "closed"
    BY <1>4, <1>5 DEF Stage, TypeOK, QueueType
  <2>2. \A d \in Ctx: d # c => qmem'[d] = qmem[d] /\ release'[d] = release[d]
    BY <1>5
  <2> QED BY <1>2, <1>4, <2>1, <2>2, StageMoves, AtWork DEF Stage
<1>7. ~works[c] /\ works' = works
  BY <1>3, <1>5, AtWork, WorksKept DEF Runs, DispatchRef, LaunchRef
<1>8. Actors!Close(c)
  BY <1>5, <1>6, <1>7, ActorSteps
<1> QED BY <1>8, ActorDoes

LEMMA ActorLocks ==
    ASSUME TypeOK, RefInv, OwnInv, NEW w \in Worker, Lock(w) \/ Unlock(w)
    PROVE  ActorStep
<1>1. PICK c: c = cur[w]
  OBVIOUS
<1>2. pc[w] = "call"
  BY DEF Lock, Unlock, UserCode
<1>3. c \in Ctx /\ Runs(w, c)
  BY <1>1, <1>2, GrabbedQueue DEF Runs
<1>4. UNCHANGED <<qmem, queue, release, npc, newc, pc, cur>>
  BY DEF Lock, Unlock
<1>5. stages' = stages /\ works' = works /\ works[c]
  BY <1>3, <1>4, StagesKept, WorksKept, AtWork DEF Runs
<1>6. CASE Lock(w)
  <2>1. PICK s: s = session_id[c] + 1
    OBVIOUS
  <2>2. s \in (0 .. MaxSession) \ {0}
    BY <1>1, <1>3, <1>6, <2>1, DispatchAssumption DEF Lock, TypeOK, ContextType
  <2>3. lock_session[c] = 0 /\ lock_session' = [lock_session EXCEPT ![c] = s]
    BY <1>1, <1>6, <2>1 DEF Lock, MqLock
  <2>4. Actors!Lock(c)
    BY <1>3, <1>4, <1>5, <2>2, <2>3, ActorSteps
  <2> QED BY <1>3, <2>4, ActorDoes
<1>7. CASE Unlock(w)
  <2>1. lock_session' = [lock_session EXCEPT ![c] = 0]
    BY <1>1, <1>7 DEF Unlock
  <2>2. Actors!Unlock(c)
    BY <1>3, <1>4, <1>5, <2>1, ActorSteps
  <2> QED BY <1>3, <2>2, ActorDoes
<1> QED BY <1>6, <1>7

LEMMA ActorPushes ==
    ASSUME TypeOK, RefInv, OwnInv, NEW t \in Thread, MqPush(t)
    PROVE  ActorStep
<1>1. PICK c: c = dst[t]
  OBVIOUS
<1>2. c \in Ctx /\ qmem[c] = "live" /\ release[c] = 0 /\ out[t] \in Message
  BY <1>1, HeldQueue DEF MqPush, TypeOK, ThreadType
<1> QED BY <1>1, <1>2, ActorDelivers DEF MqPush, ActorStep

LEMMA ActorHarbor ==
    ASSUME TypeOK, RefInv, OwnInv, NEW w \in Worker,
           SendRemote(w) \/ CallRemote(w) \/ Register(w)
    PROVE  ActorStep
<1>1. Self(w) \in Ctx
  BY DEF SendRemote, CallRemote, Register, UserCode, Self, TypeOK, WorkerType
<1>2. PICK m \in Message: PushToHarbor(w, m)
  <2>1. CASE SendRemote(w)
    <3>1. 0 \in 0 .. MaxSession /\ msg[w].session \in 0 .. MaxSession
      BY DispatchAssumption DEF TypeOK, WorkerType, Message
    <3> QED BY <1>1, <2>1, <3>1 DEF SendRemote, Message
  <2>2. CASE CallRemote(w)
    <3>1. session_id[Self(w)] + 1 \in 0 .. MaxSession
      BY <1>1, <2>2, DispatchAssumption DEF CallRemote, TypeOK, ContextType
    <3> QED BY <1>1, <2>2, <3>1 DEF CallRemote, Message
  <2>3. CASE Register(w)
    BY <2>3, DispatchAssumption DEF Register, Message, NoMessage
  <2> QED BY <2>1, <2>2, <2>3
<1>3. Harbor \in Ctx /\ qmem[Harbor] = "live" /\ release[Harbor] = 0
  BY <1>2, HarborQueue DEF PushToHarbor
<1> QED BY <1>2, <1>3, ActorDelivers DEF PushToHarbor, ActorStep

LEMMA ActorNext == ASSUME TypeOK, RefInv, OwnInv, [Next]_vars PROVE ActorStep
<1>1. ASSUME NEW t \in Thread, CallStep(t) PROVE ActorStep
  BY <1>1, ActorPushes, ActorThreadIdle, ActorMarkRelease DEF CallStep
<1>2. ASSUME NEW w \in Worker, WorkerStep(w) PROVE ActorStep
  BY <1>2, ActorWorkerIdle, ActorReleases, ActorMqPop, ActorReturn, ActorMakeQueue, ActorInitEnds
     DEF WorkerStep
<1>3. ASSUME NEW w \in Worker, UserStep(w) PROVE ActorStep
  BY <1>3, ActorWorkerIdle, ActorUserIdle, ActorLocks, ActorHarbor DEF UserStep
<1>4. ASSUME NEW t \in Helper, HelperPush(t) \/ Endless(t) PROVE ActorStep
  BY <1>4, ActorThreadIdle DEF Thread
<1>5. CASE UNCHANGED vars
  BY <1>5, ActorIdle DEF vars, Runs
<1> QED BY <1>1, <1>2, <1>3, <1>4, <1>5 DEF Next

(* One message at a time, in order, nothing while locked, no message lost  *)
(* while the service lives: the threads, queues, references and flags of   *)
(* Dispatch implement module Actor.                                        *)
THEOREM DispatchIsActor == Spec => ImplementsActor
<1>1. ASSUME Init PROVE Actors!Init
  <2>1. \A c \in Ctx: Stage(c) \in {"unborn", "open"}
    BY <1>1 DEF Init, Stage
  <2>2. \A c \in Ctx: ~Works(c)
    BY <1>1, NoneAssumption, RunsRunning DEF Init, Runs
  <2>3. [c \in Ctx |-> Stage(c)] \in [Ctx -> {"unborn", "open"}]
    BY <2>1
  <2>4. [c \in Ctx |-> Works(c)] = [c \in Ctx |-> FALSE]
    BY <2>2 DEF Works
  <2>5. queue = [c \in Ctx |-> <<>>] /\ lock_session = [c \in Ctx |-> 0]
    BY <1>1 DEF Init
  <2> QED BY <2>3, <2>4, <2>5 DEF Actors!Init, Works
<1>2. ASSUME TypeOK, RefInv, OwnInv, [Next]_vars PROVE [Actors!Next]_Actors!vars
  BY <1>2, ActorNext DEF ActorStep
<1> QED BY <1>1, <1>2, SafetyInvariant, PTL DEF Spec, ImplementsActor, Actors!Spec
=============================================================================
