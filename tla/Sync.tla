------------------------------- MODULE Sync -------------------------------
(***************************************************************************)
(* What the worker threads and the monitor thread share besides messages:  *)
(* the lock of the handle table, the monitor's words and the table of C    *)
(* modules, composed as skynet_context_message_dispatch, _new, _endless    *)
(* and skynet_handle_register, _retire and _grab use them.  Queues,        *)
(* references and the slots of the handle table are modules Dispatch and   *)
(* Handle; here a service is its address and a state.                      *)
(***************************************************************************)
EXTENDS RWLock, Monitor, ModuleTable, Functions

CONSTANT MaxDispatch   \* bound: messages the workers find

Watcher == Workers      \* the monitor thread

ASSUME SyncAssumption ==
    /\ Thread = Worker \cup {Watcher} /\ Caller = Worker /\ MaxDispatch \in Nat

VARIABLES
    at,       \* where each worker is in its dispatch
    serves,   \* the service each worker dispatches
    service,  \* by address: in the table ("live", or "marked" when its
              \* ctx->endless is set) or "dead"
    looks,    \* history: looks at the worker that ended since it counted its
              \* dispatch, up to 2
    moved     \* history: since this look began, the worker was between the
              \* two stores of a trigger

lockVars == <<write, read, pc>>
workVars == <<at, serves, service>>
history == <<looks, moved>>
syncVars == <<lockVars, monitorVars, moduleVars, workVars, history>>

SyncInit ==
    /\ Init /\ MonitorInit /\ ModuleInit
    /\ at = [w \in Worker |-> "idle"]
    /\ serves = [w \in Worker |-> None]
    /\ service = [s \in Service |-> "live"]
    /\ looks = [w \in Worker |-> 0] /\ moved = FALSE

InTable(s) == service[s] \in {"live", "marked"}

InCallback(w) == at[w] \in {"callback", "query", "register", "retire", "after"}
HasQueue(w) == InCallback(w) \/ at[w] \in {"grab", "enter", "entered"}

(* The monitor's words name the service w serves, and count it. *)
Named(w) == InCallback(w) \/ at[w] = "given"

Moves(w, from, to) == at[w] = from /\ at' = [at EXCEPT ![w] = to]

-----------------------------------------------------------------------------
(* skynet_context_message_dispatch.  A queue, so a service, is with one    *)
(* worker at a time, until skynet_mq_pushglobal; the trigger that says the *)
(* worker is done comes later.                                             *)
Pick(w, s) ==
    /\ Moves(w, "idle", "grab")
    /\ LET begun == [v \in Worker |-> (version[v] + 1) \div 2
                      + IF at[v] \in {"grab", "enter", "entered"} THEN 1 ELSE 0]
       IN  SumFunction(begun) < MaxDispatch
    /\ \A v \in Worker: HasQueue(v) => serves[v] # s
    /\ serves' = [serves EXCEPT ![w] = s]
    /\ UNCHANGED <<lockVars, monitorVars, moduleVars, service, history>>

(* skynet_handle_grab finds the context, or the service is gone; the queue *)
(* may also turn out to be empty.                                          *)
Grabbed(w) ==
    /\ RUnlock(w)
    /\ \/ /\ Moves(w, "grab", "enter") /\ InTable(serves[w])
          /\ UNCHANGED serves
       \/ /\ Moves(w, "grab", "idle")
          /\ serves' = [serves EXCEPT ![w] = None]
    /\ UNCHANGED <<monitorVars, moduleVars, service, history>>

(* The four accesses of the two triggers around the callback. *)
Trigger(w, from, to) ==
    /\ Moves(w, from, to)
    /\ moved' = (moved \/ (look.of = w /\ look.at \in {"test", "suspect"}))
    /\ UNCHANGED <<lockVars, moduleVars, service>>

Enter(w) ==
    /\ Trigger(w, "enter", "entered") /\ Name(w, serves[w])
    /\ UNCHANGED <<serves, looks>>

Entered(w) ==
    /\ Trigger(w, "entered", "callback") /\ Count(w)
    /\ UNCHANGED <<serves, looks>>

GiveBack(w) ==
    /\ \E from \in {"callback", "after"}: Moves(w, from, "given")
    /\ UNCHANGED <<lockVars, monitorVars, moduleVars, serves, service, history>>

Leave(w) ==
    /\ Trigger(w, "given", "left") /\ Name(w, None)
    /\ looks' = [looks EXCEPT ![w] = 0]
    /\ UNCHANGED serves

Left(w) ==
    /\ Trigger(w, "left", "idle") /\ Count(w)
    /\ serves' = [serves EXCEPT ![w] = None]
    /\ UNCHANGED looks

-----------------------------------------------------------------------------
(* What a callback does: it launches a service, kills one or asks whether  *)
(* its own was suspected (ENDLESS clears the mark).                        *)
Launch(w, name) ==
    /\ Moves(w, "callback", "query") /\ Ask(w, name)
    /\ UNCHANGED <<lockVars, monitorVars, serves, service, history>>

(* skynet_context_new gives up if there is no module or no instance. *)
Launched(w) ==
    /\ Return(w)
    /\ \/ Moves(w, "query", "register") /\ query[w].result # -1
       \/ Moves(w, "query", "after")
    /\ UNCHANGED <<lockVars, monitorVars, serves, service, history>>

Kill(w) ==
    /\ Moves(w, "callback", "retire")
    /\ UNCHANGED <<lockVars, monitorVars, moduleVars, serves, service, history>>

AskEndless(w) ==
    /\ at[w] \in {"callback", "after"} /\ service[serves[w]] = "marked"
    /\ service' = [service EXCEPT ![serves[w]] = "live"]
    /\ UNCHANGED <<lockVars, monitorVars, moduleVars, at, serves, history>>

(* The bodies of skynet_handle_register and skynet_handle_retire.  Bound:  *)
(* no worker gets to dispatch the service that is registered.              *)
Written(w) ==
    /\ WUnlock(w)
    /\ \/ Moves(w, "register", "after") /\ UNCHANGED service
       \/ /\ Moves(w, "retire", "after")
          /\ \E s \in Service: service' = [service EXCEPT ![s] = "dead"]
    /\ UNCHANGED <<monitorVars, moduleVars, serves, history>>

-----------------------------------------------------------------------------
(* A step inside rwlock_rlock or rwlock_wlock, called where the code does. *)
Inside(t) == RRegister(t) \/ REnter(t) \/ RBackOff(t) \/ RUndo(t)
             \/ RRespin(t) \/ WEnter(t)

Grabs(t) == IF t = Watcher THEN At("grab") ELSE at[t] = "grab"

CallLock(t) ==
    /\ \/ Grabs(t) /\ RSpin(t)
       \/ t # Watcher /\ at[t] \in {"register", "retire"} /\ WTake(t)
    /\ UNCHANGED <<monitorVars, moduleVars, workVars, history>>

InLock(t) ==
    /\ Inside(t)
    /\ UNCHANGED <<monitorVars, moduleVars, workVars, history>>

InQuery(w) ==
    /\ QueryStep(w)
    /\ UNCHANGED <<lockVars, monitorVars, workVars, history>>

-----------------------------------------------------------------------------
(* The monitor thread.  A look ends where it goes on to the next worker.   *)
Looked ==
    /\ looks' = [looks EXCEPT ![look.of] =
                    IF Named(look.of) THEN IF @ = 0 THEN 1 ELSE 2 ELSE 0]
    /\ moved' = FALSE

Watch ==
    /\ \/ /\ Compare
          /\ moved' = (look'.at = "test" /\ at[look.of] \in {"entered", "left"})
          /\ UNCHANGED looks
       \/ Suspect /\ moved' = FALSE /\ UNCHANGED looks
       \/ Copy /\ Looked
       \/ Test /\ IF destination[look.of] = None THEN Looked
                  ELSE UNCHANGED history
    /\ UNCHANGED <<lockVars, moduleVars, workVars>>

(* skynet_context_endless: the service is marked if it still exists. *)
Mark ==
    /\ RUnlock(Watcher)
    /\ At("grab") /\ Onwards /\ Looked
    /\ service' = [s \in Service |->
            IF s = look.found /\ InTable(s) THEN "marked" ELSE service[s]]
    /\ UNCHANGED <<version, check_version, destination, moduleVars, at, serves>>

SyncNext ==
    \/ \E w \in Worker:
         \/ Grabbed(w) \/ Enter(w) \/ Entered(w) \/ GiveBack(w) \/ Leave(w)
         \/ Left(w) \/ Launched(w) \/ Written(w) \/ InQuery(w) \/ Kill(w) \/ AskEndless(w)
         \/ \E s \in Service: Pick(w, s)
         \/ \E name \in Module: Launch(w, name)
    \/ \E t \in Thread: CallLock(t) \/ InLock(t)
    \/ Watch \/ Mark

SyncSpec == SyncInit /\ [][SyncNext]_syncVars

-----------------------------------------------------------------------------
(* No service is suspected out of the blue: unless the worker was between   *)
(* the two stores of a trigger while it was looked at, its dispatch of the  *)
(* service has gone on since the look before.  (At the end of a dispatch    *)
(* the queue is given back first: the service may already be with another   *)
(* worker.)                                                                 *)
Blamed ==
    [][Suspect => moved \/ (/\ looks[look.of] > 0 /\ Named(look.of)
                           /\ look'.found = serves[look.of])]_syncVars

(* A service whose dispatch does not end is marked by the third look, or it *)
(* has left the table.  (By the second, but for a look that falls between   *)
(* the stores of the trigger: it marks the service too early, the next one  *)
(* only catches up with the version, and the mark may be cleared meanwhile.)*)
EndlessSeen ==
    [][looks[look.of] = 2 /\ Named(look.of) /\ look'.of # look.of
         => service'[serves[look.of]] \in {"marked", "dead"}]_syncVars
=============================================================================
