-------------------------------- MODULE Start --------------------------------
(***************************************************************************)
(* The threads of skynet_start.c: workers that sleep on a condition        *)
(* variable when the global queue is empty, the timer, socket and monitor  *)
(* threads, and how all of them stop once no service is left.              *)
(*                                                                         *)
(* What a thread does with services is module Dispatch; here only its      *)
(* effect on the numbers of queues and of services counts.  Any thread     *)
(* that holds a reference may drop the last one of a service: it first     *)
(* puts the queue into the global queue (skynet_mq_mark_release), then     *)
(* lowers the total.                                                       *)
(***************************************************************************)
EXTENDS Integers, FiniteSets

CONSTANTS Worker,    \* the worker threads, m->count of them
          Services,  \* how many services there are at the start
          MaxPush,   \* bound: pushes of messages and launches in a behaviour
          None

Helper == {"timer", "socket", "monitor"}
Thread == Worker \cup Helper

ASSUME StartAssumption ==
    /\ IsFiniteSet(Worker) /\ None \notin Worker /\ Worker \cap Helper = {}
    /\ Services \in Nat /\ MaxPush \in Nat

VARIABLES
    ready,    \* queues of living services in the global queue
    dead,     \* queues of ended services in it, to be released
    total,    \* skynet_context_total()
    del,      \* the threads between mark_release and _context_dec
    pushed,   \* pushes and launches so far
    sleep,    \* m->sleep
    mutex,    \* who holds m->mutex
    waiting,  \* the workers inside pthread_cond_wait
    pc,       \* where each worker is
    timer, socket, monitor,  \* where those threads are
    exit      \* the socket thread was told to exit

serviceVars == <<ready, dead, total, del, pushed>>
poolVars    == <<sleep, mutex, waiting, pc>>
vars == <<serviceVars, poolVars, timer, socket, monitor, exit>>

Count == Cardinality(Worker)

Init ==
    /\ ready = 0 /\ dead = 0 /\ del = {} /\ pushed = 0
    /\ total = Services
    /\ sleep = 0 /\ mutex = None /\ waiting = {}
    /\ pc = [w \in Worker |-> "dispatch"]
    /\ timer = "update" /\ socket = "poll" /\ monitor = "check"
    /\ exit = FALSE

-----------------------------------------------------------------------------
(* Services. *)

(* The workers that have the queue of a living service.                    *)
Busy == {w \in Worker : pc[w] \in {"popped", "run"}}

(* Is there a living service whose queue nobody has? *)
SomeIdle == ready + Cardinality(Busy) + Cardinality(del) < total

(* The places from which a thread works on services. *)
Calls(t) ==
    /\ t \notin del
    /\ \/ t \in Worker /\ pc[t] \in {"run", "unref"}
       \/ t = "timer" /\ timer = "update"
       \/ t = "socket" /\ socket = "poll"
       \/ t = "monitor" /\ monitor = "look"

(* A message to a service whose queue is out of the global queue.          *)
Push(t) ==
    /\ Calls(t) /\ SomeIdle /\ pushed < MaxPush
    /\ ready' = ready + 1
    /\ pushed' = pushed + 1
    /\ UNCHANGED <<dead, total, del, poolVars, timer, socket, monitor, exit>>

(* The last reference of a service is dropped.  Its queue is pushed, or is *)
(* in the global queue, or its launcher releases it, or a worker has it    *)
(* and will not find the service.                                          *)
MarkRelease(t) ==
    /\ Calls(t)
    /\ \/ SomeIdle /\ dead' \in {dead, dead + 1} /\ UNCHANGED <<ready, pc>>
       \/ ready > 0 /\ ready' = ready - 1 /\ dead' = dead + 1 /\ UNCHANGED pc
       \/ \E w \in Worker: /\ pc[w] = "popped"
                           /\ pc' = [pc EXCEPT ![w] = "orphan"]
                           /\ UNCHANGED <<ready, dead>>
    /\ del' = del \cup {t}
    /\ UNCHANGED <<total, pushed, sleep, mutex, waiting, timer, socket, monitor, exit>>

(* _context_dec *)
ContextDec(t) ==
    /\ t \in del
    /\ del' = del \ {t}
    /\ total' = total - 1
    /\ UNCHANGED <<ready, dead, pushed, poolVars, timer, socket, monitor, exit>>

(* LAUNCH, by a service that runs. *)
Launch(w) ==
    /\ pc[w] = "run" /\ Calls(w) /\ pushed < MaxPush
    /\ total' = total + 1
    /\ pushed' = pushed + 1
    /\ UNCHANGED <<ready, dead, del, poolVars, timer, socket, monitor, exit>>

-----------------------------------------------------------------------------
(* The condition variable. *)

(* pthread_cond_signal: wakes one worker that waits, if any. *)
Signal ==
    IF waiting = {}
    THEN UNCHANGED <<waiting, pc>>
    ELSE \E w \in waiting:
            /\ waiting' = waiting \ {w}
            /\ pc' = [pc EXCEPT ![w] = "woken"]

WakeupInverted(busy) ==
    IF sleep <= Count - busy THEN Signal ELSE UNCHANGED <<waiting, pc>>

(* wakeup: signal if only busy workers are awake. *)
Wakeup(busy) ==
    IF sleep >= Count - busy THEN Signal ELSE UNCHANGED <<waiting, pc>>

-----------------------------------------------------------------------------
(* _worker *)

(* skynet_globalmq_pop *)
Pop(w) ==
    /\ pc[w] = "dispatch"
    /\ \/ ready > 0 /\ ready' = ready - 1 /\ UNCHANGED dead
          /\ pc' = [pc EXCEPT ![w] = "popped"]
       \/ dead > 0 /\ dead' = dead - 1 /\ UNCHANGED ready
          /\ pc' = [pc EXCEPT ![w] = "orphan"]
    /\ UNCHANGED <<total, del, pushed, sleep, mutex, waiting, timer, socket, monitor, exit>>

PopNone(w) ==
    /\ pc[w] = "dispatch" /\ ready = 0 /\ dead = 0
    /\ pc' = [pc EXCEPT ![w] = "check"]
    /\ UNCHANGED <<serviceVars, sleep, mutex, waiting, timer, socket, monitor, exit>>

Grab(w) ==
    /\ pc[w] = "popped"
    /\ pc' = [pc EXCEPT ![w] = "run"]
    /\ UNCHANGED <<serviceVars, sleep, mutex, waiting, timer, socket, monitor, exit>>

(* The queue goes back into the global queue: after its message, or as it  *)
(* is when the service is retired and somebody still holds it.             *)
GiveBack(w) ==
    /\ w \notin del /\ pushed < MaxPush
    /\ \/ pc[w] = "run" /\ pc' = [pc EXCEPT ![w] = "unref"]
       \/ pc[w] = "popped" /\ pc' = [pc EXCEPT ![w] = "dispatch"]
    /\ ready' = ready + 1
    /\ pushed' = pushed + 1
    /\ UNCHANGED <<dead, total, del, sleep, mutex, waiting, timer, socket, monitor, exit>>

(* It does not: it is empty or locked. *)
Finish(w) ==
    /\ pc[w] = "run" /\ w \notin del
    /\ pc' = [pc EXCEPT ![w] = "unref"]
    /\ UNCHANGED <<serviceVars, sleep, mutex, waiting, timer, socket, monitor, exit>>

(* The end of the dispatch; the queue of an ended service is freed.        *)
Dispatched(w) ==
    /\ pc[w] \in {"unref", "orphan"} /\ w \notin del
    /\ pc' = [pc EXCEPT ![w] = "dispatch"]
    /\ UNCHANGED <<serviceVars, sleep, mutex, waiting, timer, socket, monitor, exit>>

CheckAbortEarly(w) ==
    /\ pc[w] = "check"
    /\ pc' = [pc EXCEPT ![w] = IF total <= 1 THEN "done" ELSE "lock"]
    /\ UNCHANGED <<serviceVars, sleep, mutex, waiting, timer, socket, monitor, exit>>

CheckAbort(w) ==
    /\ pc[w] = "check"
    /\ pc' = [pc EXCEPT ![w] = IF total = 0 THEN "done" ELSE "lock"]
    /\ UNCHANGED <<serviceVars, sleep, mutex, waiting, timer, socket, monitor, exit>>

Lock(w) ==
    /\ pc[w] = "lock" /\ mutex = None
    /\ mutex' = w
    /\ sleep' = sleep + 1
    /\ pc' = [pc EXCEPT ![w] = "locked"]
    /\ UNCHANGED <<serviceVars, waiting, timer, socket, monitor, exit>>

CondWait(w) ==
    /\ pc[w] = "locked"
    /\ mutex' = None
    /\ waiting' = waiting \cup {w}
    /\ pc' = [pc EXCEPT ![w] = "wait"]
    /\ UNCHANGED <<serviceVars, sleep, timer, socket, monitor, exit>>

(* The comment's "spurious wakeup". *)
Spurious(w) ==
    /\ w \in waiting
    /\ waiting' = waiting \ {w}
    /\ pc' = [pc EXCEPT ![w] = "woken"]
    /\ UNCHANGED <<serviceVars, sleep, mutex, timer, socket, monitor, exit>>

AwakeForgets(w) ==
    /\ pc[w] = "woken" /\ mutex = None
    /\ pc' = [pc EXCEPT ![w] = "dispatch"]
    /\ UNCHANGED <<serviceVars, sleep, mutex, waiting, timer, socket, monitor, exit>>

(* pthread_cond_wait takes the mutex again; --sleep; unlock. *)
Awake(w) ==
    /\ pc[w] = "woken" /\ mutex = None
    /\ sleep' = sleep - 1
    /\ pc' = [pc EXCEPT ![w] = "dispatch"]
    /\ UNCHANGED <<serviceVars, mutex, waiting, timer, socket, monitor, exit>>

-----------------------------------------------------------------------------
(* _timer *)

(* skynet_updatetime returns; what it pushed are steps of its own.         *)
UpdateTime ==
    /\ timer = "update" /\ "timer" \notin del
    /\ timer' = "check"
    /\ UNCHANGED <<serviceVars, poolVars, socket, monitor, exit>>

TimerCheck ==
    /\ timer = "check"
    /\ timer' = IF total = 0 THEN "exit" ELSE "wakeup"
    /\ UNCHANGED <<serviceVars, poolVars, socket, monitor, exit>>

TimerWakeup ==
    /\ timer = "wakeup"
    /\ Wakeup(Count - 1)
    /\ timer' = "update"
    /\ UNCHANGED <<serviceVars, sleep, mutex, socket, monitor, exit>>

TimerExitSilent ==
    /\ timer = "exit"
    /\ timer' = "broadcast"
    /\ UNCHANGED <<serviceVars, poolVars, socket, monitor, exit>>

(* skynet_socket_exit *)
TimerExit ==
    /\ timer = "exit"
    /\ exit' = TRUE
    /\ timer' = "broadcast"
    /\ UNCHANGED <<serviceVars, poolVars, socket, monitor>>

Broadcast ==
    /\ timer = "broadcast"
    /\ waiting' = {}
    /\ pc' = [w \in Worker |-> IF w \in waiting THEN "woken" ELSE pc[w]]
    /\ timer' = "done"
    /\ UNCHANGED <<serviceVars, sleep, mutex, socket, monitor, exit>>

-----------------------------------------------------------------------------
(* _socket: r < 0 means that more events follow, r = 0 that it shall exit. *)

SocketMessage ==
    /\ socket = "poll" /\ "socket" \notin del
    /\ socket' \in {"wakeup", "check"}
    /\ UNCHANGED <<serviceVars, poolVars, timer, monitor, exit>>

SocketExit ==
    /\ socket = "poll" /\ "socket" \notin del /\ exit
    /\ socket' = "done"
    /\ UNCHANGED <<serviceVars, poolVars, timer, monitor, exit>>

SocketCheck ==
    /\ socket = "check"
    /\ socket' = IF total = 0 THEN "done" ELSE "poll"
    /\ UNCHANGED <<serviceVars, poolVars, timer, monitor, exit>>

SocketWakeup ==
    /\ socket = "wakeup"
    /\ Wakeup(0)
    /\ socket' = "poll"
    /\ UNCHANGED <<serviceVars, sleep, mutex, timer, monitor, exit>>

(* _monitor: CHECK_ABORT, a look at the workers, in which it may push to   *)
(* the logger and mark a service as endless, and CHECK_ABORT again.        *)
MonitorCheck ==
    /\ monitor = "check"
    /\ monitor' = IF total = 0 THEN "done" ELSE "look"
    /\ UNCHANGED <<serviceVars, poolVars, timer, socket, exit>>

MonitorLook ==
    /\ monitor = "look" /\ "monitor" \notin del
    /\ monitor' = "check"
    /\ UNCHANGED <<serviceVars, poolVars, timer, socket, exit>>

-----------------------------------------------------------------------------
WorkerStep(w) == \/ Pop(w) \/ PopNone(w) \/ Grab(w) \/ GiveBack(w) \/ Finish(w)
                 \/ Dispatched(w) \/ CheckAbort(w) \/ Lock(w) \/ CondWait(w) \/ Awake(w)
TimerStep == UpdateTime \/ TimerCheck \/ TimerWakeup \/ TimerExit \/ Broadcast
SocketStep == SocketMessage \/ SocketExit \/ SocketCheck \/ SocketWakeup
MonitorStep == MonitorCheck \/ MonitorLook

(* pthread_join has returned for every thread. *)
Joined == /\ timer = "done" /\ socket = "done" /\ monitor = "done"
          /\ \A w \in Worker: pc[w] = "done"

Next ==
    \/ \E t \in Thread: Push(t) \/ MarkRelease(t) \/ ContextDec(t)
    \/ \E w \in Worker: Launch(w) \/ WorkerStep(w) \/ Spurious(w)
    \/ TimerStep \/ SocketStep \/ MonitorStep
    \/ Joined /\ UNCHANGED vars

Spec == Init /\ [][Next]_vars

(* Every thread runs; the socket thread reads its exit command.            *)
FairSpec ==
    /\ Spec
    /\ \A t \in Thread: WF_vars(ContextDec(t))
    /\ \A w \in Worker: WF_vars(WorkerStep(w))
    /\ WF_vars(TimerStep) /\ WF_vars(MonitorStep)
    /\ WF_vars(SocketCheck \/ SocketWakeup) /\ SF_vars(SocketExit)

-----------------------------------------------------------------------------
TypeOK ==
    /\ ready \in Nat /\ dead \in Nat /\ pushed \in 0..MaxPush
    /\ total \in Nat
    /\ del \subseteq Thread
    /\ sleep \in 0..Count
    /\ mutex \in Worker \cup {None}
    /\ waiting \subseteq Worker
    /\ pc \in [Worker -> {"dispatch", "popped", "orphan", "run", "unref", "check", "lock", "locked", "wait",
                          "woken", "done"}]
    /\ timer \in {"update", "check", "wakeup", "exit", "broadcast", "done"}
    /\ socket \in {"poll", "check", "wakeup", "done"}
    /\ monitor \in {"check", "look", "done"}
    /\ exit \in BOOLEAN

(* m->sleep, which wakeup reads without the mutex, counts the workers on   *)
(* their way into or out of pthread_cond_wait.                             *)
SleepExact ==
    /\ TypeOK
    /\ sleep = Cardinality({w \in Worker : pc[w] \in {"locked", "wait", "woken"}})
    /\ waiting = {w \in Worker : pc[w] = "wait"}

(* No thread ends early: when one has seen the end of the last service, no *)
(* service lives, none is being launched or deleted, and whatever the      *)
(* other threads still find in the global queue is to be released.  That   *)
(* may be something: a worker that has found the global queue empty and is *)
(* about to look at the total leaves although a queue came in between.     *)
Ended == \/ \E w \in Worker: pc[w] = "done"
         \/ timer \in {"exit", "broadcast", "done"} \/ socket = "done" \/ monitor = "done"
NobodyLeavesEarly == Ended => total = 0 /\ ready = 0 /\ Busy = {} /\ del = {}

(* As long as a service lives, what any thread puts into the global queue  *)
(* is dispatched, though the wakeup for it may be lost: the timer thread   *)
(* signals while somebody sleeps.                                          *)
WorkIsDone == []<>(ready + dead = 0 \/ total = 0)

(* Once no service is left, the timer, socket and monitor threads end.     *)
ServiceThreadsEnd ==
    total = 0 ~> timer = "done" /\ socket = "done" /\ monitor = "done"

(* As _timer says at its end, it wakes up all worker threads: then every   *)
(* worker leaves and _start can join them.                                 *)
AllJoined == total = 0 ~> Joined
=============================================================================
