---------------------------- MODULE StartProofs ----------------------------
(***************************************************************************)
(* Theorems about Start, for every set of worker threads, number of        *)
(* services and bound on the pushes.                                       *)
(***************************************************************************)
EXTENDS Start, FiniteSetTheorems, TLAPS

Asleep == {w \in Worker : pc[w] \in {"locked", "wait", "woken"}}

Sleepers ==
    /\ sleep = Cardinality(Asleep)
    /\ waiting = {w \in Worker : pc[w] = "wait"}

(* A queue of a living service that is in the global queue or with a       *)
(* worker, and a service that a thread is deleting, are each counted in    *)
(* the total.                                                              *)
Counted == ready + Cardinality(Busy) + Cardinality(del) <= total

(* Whoever has seen the total at 0 finds it there for ever: only a running *)
(* service launches another.                                               *)
EndSeen ==
    /\ Ended => total = 0
    /\ exit => timer \in {"broadcast", "done"}

StartInv == TypeOK /\ Sleepers /\ Counted /\ EndSeen

-----------------------------------------------------------------------------
LEMMA CountFinite ==
    /\ Count \in Nat
    /\ \A S \in SUBSET Worker: IsFiniteSet(S) /\ Cardinality(S) \in 0 .. Count
<1>1. IsFiniteSet(Worker)
  BY StartAssumption
<1>2. Count \in Nat
  BY <1>1, FS_CardinalityType DEF Count
<1>3. ASSUME NEW S \in SUBSET Worker
      PROVE  IsFiniteSet(S) /\ Cardinality(S) \in 0 .. Count
  <2>1. IsFiniteSet(S) /\ Cardinality(S) <= Count
    BY <1>1, FS_Subset DEF Count
  <2> QED BY <2>1, <1>2, FS_CardinalityType
<1> QED BY <1>2, <1>3

LEMMA ThreadFinite == IsFiniteSet(Thread)
<1>1. IsFiniteSet(Helper)
  <2>1. IsFiniteSet({"timer"}) /\ IsFiniteSet({"socket"}) /\ IsFiniteSet({"monitor"})
    BY FS_Singleton
  <2>2. Helper = ({"timer"} \cup {"socket"}) \cup {"monitor"}
    BY DEF Helper
  <2>3. IsFiniteSet({"timer"} \cup {"socket"})
    BY <2>1, FS_Union
  <2> QED BY <2>1, <2>2, <2>3, FS_Union
<1> QED BY <1>1, FS_Union, StartAssumption DEF Thread

LEMMA Finite ==
    ASSUME TypeOK
    PROVE  /\ IsFiniteSet(Asleep) /\ Cardinality(Asleep) \in 0 .. Count
           /\ IsFiniteSet(Busy) /\ Cardinality(Busy) \in Nat
           /\ IsFiniteSet(del) /\ Cardinality(del) \in Nat
<1>1. Asleep \in SUBSET Worker /\ Busy \in SUBSET Worker
  BY DEF Asleep, Busy
<1>2. IsFiniteSet(del)
  BY ThreadFinite, FS_Subset DEF TypeOK
<1>3. Cardinality(del) \in Nat
  BY <1>2, FS_CardinalityType
<1> QED BY <1>1, <1>2, <1>3, CountFinite

(* A set of threads that grows or shrinks by one.                          *)
LEMMA OneMore ==
    ASSUME NEW S, IsFiniteSet(S), NEW x, x \notin S
    PROVE  Cardinality(S \cup {x}) = Cardinality(S) + 1
BY FS_AddElement

LEMMA OneLess ==
    ASSUME NEW S, IsFiniteSet(S), NEW x \in S
    PROVE  Cardinality(S \ {x}) = Cardinality(S) - 1 /\ Cardinality(S) >= 1
<1>1. Cardinality(S) \in Nat /\ Cardinality(S \ {x}) = Cardinality(S) - 1 /\ IsFiniteSet(S \ {x})
  BY FS_RemoveElement, FS_CardinalityType
<1>2. Cardinality(S \ {x}) \in Nat
  BY <1>1, FS_CardinalityType
<1> QED BY <1>1, <1>2

(* Once the total is 0 there is nothing to run and nobody deletes.         *)
LEMMA NothingLives ==
    ASSUME TypeOK, Counted, total = 0
    PROVE  ready = 0 /\ Busy = {} /\ del = {} /\ ~SomeIdle
<1>1. ready = 0 /\ Cardinality(Busy) = 0 /\ Cardinality(del) = 0
  BY Finite DEF TypeOK, Counted
<1>2. Busy = {} /\ del = {}
  BY <1>1, Finite, FS_EmptySet
<1> QED BY <1>1, <1>2 DEF SomeIdle

LEMMA StartInvInit == Init => StartInv
<1> SUFFICES ASSUME Init PROVE StartInv
  OBVIOUS
<1> USE StartAssumption DEF Init
<1>1. Asleep = {} /\ Busy = {}
  BY DEF Asleep, Busy
<1>2. Cardinality(Asleep) = 0 /\ Cardinality(Busy) = 0 /\ Cardinality(del) = 0
  BY <1>1, FS_EmptySet
<1>3. TypeOK
  <2>1. 0 \in 0 .. Count
    BY CountFinite
  <2>2. 0 \in 0 .. MaxPush /\ 0 \in Nat /\ Services \in Nat
    OBVIOUS
  <2>3. pc \in [Worker -> {"dispatch", "popped", "orphan", "run", "unref", "check", "lock",
                          "locked", "wait", "woken", "done"}]
    OBVIOUS
  <2>4. sleep = 0 /\ ready = 0 /\ dead = 0 /\ pushed = 0 /\ total = Services
    OBVIOUS
  <2>5. del \subseteq Thread /\ waiting \subseteq Worker /\ mutex \in Worker \cup {None} /\ exit \in BOOLEAN
    OBVIOUS
  <2> QED BY <2>1, <2>2, <2>3, <2>4, <2>5 DEF TypeOK
<1>4. Sleepers /\ Counted /\ EndSeen
  BY <1>1, <1>2 DEF Sleepers, Counted, EndSeen, Ended
<1> QED BY <1>3, <1>4 DEF StartInv

-----------------------------------------------------------------------------
(* What a step does to each of the parts.  It may leave the sleepers       *)
(* alone, send a worker to sleep or wake one.                              *)
LEMMA SleepKept ==
    ASSUME StartInv, UNCHANGED sleep, Asleep' = Asleep
    PROVE  sleep' = Cardinality(Asleep') /\ sleep' \in 0 .. Count
BY Finite DEF StartInv, Sleepers

LEMMA GoesToSleep ==
    ASSUME StartInv, NEW w \in Worker, w \notin Asleep, sleep' = sleep + 1,
           Asleep' = Asleep \cup {w}
    PROVE  sleep' = Cardinality(Asleep') /\ sleep' \in 0 .. Count
<1>1. sleep' = Cardinality(Asleep')
  BY OneMore, Finite DEF StartInv, Sleepers
<1> QED BY <1>1, CountFinite, Asleep' \in SUBSET Worker DEF Asleep

LEMMA Awakes ==
    ASSUME StartInv, NEW w \in Worker, w \in Asleep, sleep' = sleep - 1,
           Asleep' = Asleep \ {w}
    PROVE  sleep' = Cardinality(Asleep') /\ sleep' \in 0 .. Count
<1>1. sleep' = Cardinality(Asleep')
  BY OneLess, Finite DEF StartInv, Sleepers
<1> QED BY <1>1, CountFinite, Asleep' \in SUBSET Worker DEF Asleep

(* The workers that have a queue: none comes or goes, one comes, one goes. *)
LEMMA BusyKept ==
    ASSUME StartInv, UNCHANGED <<ready, total, del>>, Busy' = Busy
    PROVE  Counted'
BY DEF StartInv, Counted

LEMMA BusyMore ==
    ASSUME StartInv, NEW w, w \notin Busy, Busy' = Busy \cup {w}
    PROVE  Cardinality(Busy') = Cardinality(Busy) + 1
BY OneMore, Finite DEF StartInv

LEMMA BusyLess ==
    ASSUME StartInv, NEW w \in Busy, Busy' = Busy \ {w}
    PROVE  Cardinality(Busy') = Cardinality(Busy) - 1 /\ Cardinality(Busy) >= 1
BY OneLess, Finite DEF StartInv

(* wakeup, whoever calls it and however few it takes to be worth it.       *)
LEMMA WakeupKeeps ==
    ASSUME StartInv, NEW n, Wakeup(n)
    PROVE  /\ pc' \in [Worker -> {"dispatch", "popped", "orphan", "run", "unref", "check",
                                  "lock", "locked", "wait", "woken", "done"}]
           /\ waiting' = {w \in Worker : pc'[w] = "wait"}
           /\ Asleep' = Asleep /\ Busy' = Busy
           /\ \A w \in Worker: pc'[w] = "done" => pc[w] = "done"
BY DEF StartInv, Sleepers, TypeOK, Wakeup, Signal, Asleep, Busy

-----------------------------------------------------------------------------
(* The steps on services. *)

LEMMA PushKeeps ==
    ASSUME StartInv, NEW t \in Thread, Push(t)
    PROVE  StartInv'
<1> USE DEF Push, poolVars, StartInv
<1>1. Asleep' = Asleep /\ Busy' = Busy
  BY DEF Asleep, Busy
<1>2. TypeOK'
  BY StartAssumption DEF TypeOK
<1>3. Sleepers'
  BY <1>1 DEF Sleepers
<1>4. Counted'
  BY <1>1, Finite DEF Counted, SomeIdle, TypeOK
<1>5. EndSeen'
  BY DEF EndSeen, Ended
<1> QED BY <1>2, <1>3, <1>4, <1>5

LEMMA MarkReleaseKeeps ==
    ASSUME StartInv, NEW t \in Thread, MarkRelease(t)
    PROVE  StartInv'
<1> USE DEF MarkRelease, StartInv
<1>1. Cardinality(del') = Cardinality(del) + 1
  BY OneMore, Finite DEF Calls
<1>2. TypeOK'
  BY DEF TypeOK
<1>3. /\ Asleep' = Asleep
      /\ \A w \in Worker: pc'[w] = "wait" <=> pc[w] = "wait"
      /\ \A w \in Worker: pc'[w] = "done" <=> pc[w] = "done"
  BY DEF Asleep, TypeOK
<1>4. Sleepers'
  BY <1>3, SleepKept DEF Sleepers
<1>5. CASE SomeIdle /\ UNCHANGED <<ready, pc>>
  <2>1. Busy' = Busy
    BY <1>5 DEF Busy
  <2> QED BY <1>5, <1>1, <2>1, Finite, <1>2, <1>4 DEF Counted, SomeIdle, TypeOK, EndSeen, Ended
<1>6. CASE ready > 0 /\ ready' = ready - 1 /\ UNCHANGED pc
  <2>1. Busy' = Busy
    BY <1>6 DEF Busy
  <2> QED BY <1>6, <1>1, <2>1, Finite, <1>2, <1>4 DEF Counted, TypeOK, EndSeen, Ended
<1>7. ASSUME NEW w \in Worker, pc[w] = "popped", pc' = [pc EXCEPT ![w] = "orphan"],
             UNCHANGED <<ready, dead>>
      PROVE  StartInv'
  <2>1. w \in Busy /\ Busy' = Busy \ {w}
    BY <1>7 DEF Busy, TypeOK
  <2>2. Cardinality(Busy') = Cardinality(Busy) - 1
    BY <2>1, BusyLess
  <2>3. Counted'
    BY <1>7, <1>1, <2>2, Finite DEF Counted, TypeOK
  <2>4. EndSeen'
    BY <1>7, <1>3 DEF EndSeen, Ended
  <2> QED BY <1>2, <1>4, <2>3, <2>4
<1> QED BY <1>5, <1>6, <1>7

LEMMA ContextDecKeeps ==
    ASSUME StartInv, NEW t \in Thread, ContextDec(t)
    PROVE  StartInv'
<1> USE DEF ContextDec, poolVars, StartInv
<1>1. Cardinality(del') = Cardinality(del) - 1 /\ Cardinality(del) >= 1
  BY OneLess, Finite
<1>2. Asleep' = Asleep /\ Busy' = Busy
  BY DEF Asleep, Busy
<1>3. total \in Nat /\ total >= 1
  BY <1>1, Finite DEF Counted, TypeOK
<1>4. TypeOK'
  BY <1>3 DEF TypeOK
<1>5. Sleepers'
  BY <1>2 DEF Sleepers
<1>6. Counted'
  BY <1>1, <1>2, Finite DEF Counted, TypeOK
<1>7. EndSeen'
  BY <1>3 DEF EndSeen, Ended
<1> QED BY <1>4, <1>5, <1>6, <1>7

LEMMA LaunchKeeps ==
    ASSUME StartInv, NEW w \in Worker, Launch(w)
    PROVE  StartInv'
<1> USE DEF Launch, poolVars, StartInv
<1>1. total # 0
  BY NothingLives DEF Busy
<1>2. Asleep' = Asleep /\ Busy' = Busy
  BY DEF Asleep, Busy
<1>3. TypeOK'
  BY StartAssumption DEF TypeOK
<1>4. Sleepers'
  BY <1>2 DEF Sleepers
<1>5. Counted'
  BY <1>2, Finite DEF Counted, TypeOK
<1>6. EndSeen'
  BY <1>1 DEF EndSeen, Ended
<1> QED BY <1>3, <1>4, <1>5, <1>6

-----------------------------------------------------------------------------
(* The steps of a worker. *)

LEMMA PopKeeps ==
    ASSUME StartInv, NEW w \in Worker, Pop(w)
    PROVE  StartInv'
<1> USE DEF Pop, StartInv
<1>1. Asleep' = Asleep
  BY DEF Asleep, TypeOK
<1>2. TypeOK'
  BY DEF TypeOK
<1>3. Sleepers'
  BY <1>1, SleepKept DEF Sleepers, TypeOK
<1>4. EndSeen'
  BY DEF EndSeen, Ended, TypeOK
<1>5. CASE ready > 0 /\ ready' = ready - 1 /\ pc' = [pc EXCEPT ![w] = "popped"]
  <2>1. w \notin Busy /\ Busy' = Busy \cup {w}
    BY <1>5 DEF Busy, TypeOK
  <2>2. Cardinality(Busy') = Cardinality(Busy) + 1
    BY <2>1, BusyMore
  <2>3. Counted'
    BY <1>5, <2>2, Finite DEF Counted, TypeOK
  <2> QED BY <1>2, <1>3, <1>4, <2>3
<1>6. CASE UNCHANGED ready /\ pc' = [pc EXCEPT ![w] = "orphan"]
  <2>1. Busy' = Busy
    BY <1>6 DEF Busy, TypeOK
  <2> QED BY <1>2, <1>3, <1>4, <1>6, <2>1, BusyKept
<1> QED BY <1>5, <1>6

LEMMA GiveBackKeeps ==
    ASSUME StartInv, NEW w \in Worker, GiveBack(w)
    PROVE  StartInv'
<1> USE DEF GiveBack, StartInv
<1>1. Asleep' = Asleep
  BY DEF Asleep, TypeOK
<1>2. TypeOK'
  BY StartAssumption DEF TypeOK
<1>3. Sleepers'
  BY <1>1, SleepKept DEF Sleepers, TypeOK
<1>4. EndSeen'
  BY DEF EndSeen, Ended, TypeOK
<1>5. w \in Busy /\ Busy' = Busy \ {w}
  BY DEF Busy, TypeOK
<1>6. Cardinality(Busy') = Cardinality(Busy) - 1
  BY <1>5, BusyLess
<1>7. Counted'
  BY <1>6, Finite DEF Counted, TypeOK
<1> QED BY <1>2, <1>3, <1>4, <1>7

LEMMA FinishKeeps ==
    ASSUME StartInv, NEW w \in Worker, Finish(w)
    PROVE  StartInv'
<1> USE DEF Finish, serviceVars, StartInv
<1>1. Asleep' = Asleep
  BY DEF Asleep, TypeOK
<1>2. TypeOK'
  BY DEF TypeOK
<1>3. Sleepers'
  BY <1>1, SleepKept DEF Sleepers, TypeOK
<1>4. EndSeen'
  BY DEF EndSeen, Ended, TypeOK
<1>5. w \in Busy /\ Busy' = Busy \ {w}
  BY DEF Busy, TypeOK
<1>6. Cardinality(Busy') = Cardinality(Busy) - 1
  BY <1>5, BusyLess
<1>7. Counted'
  BY <1>6, Finite DEF Counted, TypeOK
<1> QED BY <1>2, <1>3, <1>4, <1>7

LEMMA QuietKeeps ==
    ASSUME StartInv, NEW w \in Worker,
           PopNone(w) \/ Grab(w) \/ Dispatched(w) \/ CondWait(w) \/ Spurious(w)
    PROVE  StartInv'
<1> USE DEF PopNone, Grab, Dispatched, CondWait, Spurious, serviceVars, StartInv
<1>1. Asleep' = Asleep /\ Busy' = Busy
  BY DEF Asleep, Busy, Sleepers, TypeOK
<1>2. TypeOK'
  BY DEF TypeOK
<1>3. Sleepers'
  BY <1>1, SleepKept DEF Sleepers, TypeOK
<1>4. EndSeen'
  BY DEF EndSeen, Ended, TypeOK
<1>5. Counted'
  BY <1>1, BusyKept
<1> QED BY <1>2, <1>3, <1>4, <1>5

LEMMA CheckAbortKeeps ==
    ASSUME StartInv, NEW w \in Worker, CheckAbort(w)
    PROVE  StartInv'
<1> USE DEF CheckAbort, serviceVars, StartInv
<1>1. Asleep' = Asleep /\ Busy' = Busy
  BY DEF Asleep, Busy, TypeOK
<1>2. TypeOK'
  BY DEF TypeOK
<1>3. Sleepers'
  BY <1>1, SleepKept DEF Sleepers, TypeOK
<1>4. EndSeen'
  BY DEF EndSeen, Ended, TypeOK
<1>5. Counted'
  BY <1>1, BusyKept
<1> QED BY <1>2, <1>3, <1>4, <1>5

LEMMA LockKeeps ==
    ASSUME StartInv, NEW w \in Worker, Lock(w) \/ Awake(w)
    PROVE  StartInv'
<1> USE DEF Lock, Awake, serviceVars, StartInv
<1>1. Busy' = Busy
  BY DEF Busy, TypeOK
<1>2. sleep' = Cardinality(Asleep') /\ sleep' \in 0 .. Count
  <2>1. CASE Lock(w)
    <3>1. w \notin Asleep /\ Asleep' = Asleep \cup {w}
      BY <2>1 DEF Asleep, TypeOK
    <3> QED BY <2>1, <3>1, GoesToSleep
  <2>2. CASE Awake(w)
    <3>1. w \in Asleep /\ Asleep' = Asleep \ {w}
      BY <2>2 DEF Asleep, TypeOK
    <3> QED BY <2>2, <3>1, Awakes
  <2> QED BY <2>1, <2>2
<1>3. TypeOK'
  BY <1>2 DEF TypeOK
<1>4. Sleepers'
  BY <1>2 DEF Sleepers, TypeOK
<1>5. EndSeen'
  BY DEF EndSeen, Ended, TypeOK
<1>6. Counted'
  BY <1>1, BusyKept
<1> QED BY <1>3, <1>4, <1>5, <1>6

-----------------------------------------------------------------------------
(* The steps of the other threads. *)

LEMMA WakeupStepKeeps ==
    ASSUME StartInv, TimerWakeup \/ SocketWakeup
    PROVE  StartInv'
<1> USE DEF TimerWakeup, SocketWakeup, serviceVars, StartInv
<1>1. PICK n: Wakeup(n)
  OBVIOUS
<1>2. TypeOK'
  BY <1>1, WakeupKeeps DEF TypeOK
<1>3. Sleepers'
  BY <1>1, WakeupKeeps, SleepKept DEF Sleepers
<1>4. EndSeen'
  BY <1>1, WakeupKeeps DEF EndSeen, Ended
<1>5. Counted'
  BY <1>1, WakeupKeeps, BusyKept
<1> QED BY <1>2, <1>3, <1>4, <1>5

LEMMA BroadcastKeeps ==
    ASSUME StartInv, Broadcast
    PROVE  StartInv'
<1> USE DEF Broadcast, serviceVars, StartInv
<1>1. Asleep' = Asleep /\ Busy' = Busy
  BY DEF Asleep, Busy, Sleepers, TypeOK
<1>2. TypeOK'
  BY DEF TypeOK
<1>3. Sleepers'
  BY <1>1, SleepKept DEF Sleepers, TypeOK
<1>4. EndSeen'
  BY DEF EndSeen, Ended, TypeOK
<1>5. Counted'
  BY <1>1, BusyKept
<1> QED BY <1>2, <1>3, <1>4, <1>5

LEMMA ServiceThreadKeeps ==
    ASSUME StartInv,
           \/ UpdateTime \/ TimerCheck \/ TimerExit
           \/ SocketMessage \/ SocketExit \/ SocketCheck
           \/ MonitorStep
    PROVE  StartInv'
<1> USE DEF UpdateTime, TimerCheck, TimerExit, SocketMessage, SocketExit, SocketCheck,
            MonitorStep, MonitorCheck, MonitorLook, serviceVars, poolVars, StartInv
<1>1. Asleep' = Asleep /\ Busy' = Busy
  BY DEF Asleep, Busy
<1>2. TypeOK'
  BY DEF TypeOK
<1>3. Sleepers'
  BY <1>1 DEF Sleepers
<1>4. EndSeen'
  BY DEF EndSeen, Ended
<1>5. Counted'
  BY <1>1, BusyKept
<1> QED BY <1>2, <1>3, <1>4, <1>5

LEMMA StartInvNext == StartInv /\ [Next]_vars => StartInv'
<1> SUFFICES ASSUME StartInv, [Next]_vars PROVE StartInv'
  OBVIOUS
<1>1. ASSUME NEW t \in Thread, Push(t) \/ MarkRelease(t) \/ ContextDec(t) PROVE StartInv'
  BY <1>1, PushKeeps, MarkReleaseKeeps, ContextDecKeeps
<1>2. ASSUME NEW w \in Worker, Launch(w) \/ WorkerStep(w) \/ Spurious(w) PROVE StartInv'
  BY <1>2, LaunchKeeps, PopKeeps, GiveBackKeeps, FinishKeeps, QuietKeeps, CheckAbortKeeps,
     LockKeeps DEF WorkerStep
<1>3. CASE TimerStep \/ SocketStep \/ MonitorStep
  BY <1>3, WakeupStepKeeps, BroadcastKeeps, ServiceThreadKeeps DEF TimerStep, SocketStep
<1>4. CASE UNCHANGED vars
  BY <1>4 DEF vars, serviceVars, poolVars, StartInv, TypeOK, Sleepers, Asleep, Counted, Busy,
              EndSeen, Ended
<1> QED BY <1>1, <1>2, <1>3, <1>4 DEF Next

-----------------------------------------------------------------------------
LEMMA StartInvariant == Spec => []StartInv
<1> QED BY StartInvInit, StartInvNext, PTL DEF Spec

(* m->sleep is exact although wakeup reads it without the mutex.           *)
THEOREM SleepCounts == Spec => []SleepExact
<1>1. StartInv => SleepExact
  BY DEF StartInv, SleepExact, Sleepers, Asleep
<1> QED BY <1>1, StartInvariant, PTL

(* A thread that ends by the total ends for good: no service lives or is   *)
(* launched or deleted any more, whichever thread dropped the last one.    *)
THEOREM NobodyEndsEarly == Spec => []NobodyLeavesEarly
<1>1. StartInv => NobodyLeavesEarly
  BY NothingLives DEF StartInv, EndSeen, NobodyLeavesEarly
<1> QED BY <1>1, StartInvariant, PTL
=============================================================================
