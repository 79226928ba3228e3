------------------------------ MODULE Monitor ------------------------------
(***************************************************************************)
(* The watchdog of skynet_monitor.c.  Each worker tells, around every      *)
(* message, which service it runs, and counts; the monitor thread looks at *)
(* every worker in turn and suspects the service of one that has not       *)
(* counted since the last look.  No lock protects these words: there is    *)
(* one action per access.  (The source of a message only goes to the log.) *)
(***************************************************************************)
EXTENDS Integers

CONSTANTS Workers,  \* how many worker threads there are
          Service,  \* the addresses of services
          None      \* the null address

ASSUME MonitorAssumption == Workers \in Nat \ {0} /\ None \notin Service

Worker == 0 .. Workers - 1

VARIABLES version, check_version, destination, \* the words, by worker
          look  \* the monitor thread: which worker it looks at, how far it
                \* is, and the address it has read

monitorVars == <<version, check_version, destination, look>>

(* skynet_monitor_new *)
MonitorInit ==
    /\ version = [w \in Worker |-> 0]
    /\ check_version = [w \in Worker |-> 0]
    /\ destination = [w \in Worker |-> None]
    /\ look = [of |-> 0, at |-> "compare", found |-> None]

-----------------------------------------------------------------------------
(* skynet_monitor_trigger(sm, _, d), by the worker: name d, then count. *)
Name(w, d) ==
    /\ destination' = [destination EXCEPT ![w] = d]
    /\ UNCHANGED <<version, check_version, look>>

CountNot(w) == UNCHANGED monitorVars

Count(w) ==
    /\ version' = [version EXCEPT ![w] = @ + 1]
    /\ UNCHANGED <<destination, check_version, look>>

-----------------------------------------------------------------------------
(* skynet_monitor_check, by the monitor thread. *)
At(from) == look.at = from
Then(to) == look' = [look EXCEPT !.at = to]
Onwards ==
    look' = [of |-> (look.of + 1) % Workers, at |-> "compare", found |-> None]

Compare ==
    /\ At("compare")
    /\ Then(IF version[look.of] = check_version[look.of] THEN "test" ELSE "copy")
    /\ UNCHANGED <<version, check_version, destination>>

Test ==
    /\ At("test")
    /\ IF destination[look.of] = None THEN Onwards ELSE Then("suspect")
    /\ UNCHANGED <<version, check_version, destination>>

(* The argument of skynet_context_endless is read anew. *)
Suspect ==
    /\ At("suspect")
    /\ look' = [look EXCEPT !.at = "grab", !.found = destination[look.of]]
    /\ UNCHANGED <<version, check_version, destination>>

CopyNot ==
    /\ At("copy") /\ Onwards
    /\ UNCHANGED <<version, check_version, destination>>

Copy ==
    /\ At("copy") /\ Onwards
    /\ check_version' = [check_version EXCEPT ![look.of] = version[look.of]]
    /\ UNCHANGED <<version, destination>>
=============================================================================
