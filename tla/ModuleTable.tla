---------------------------- MODULE ModuleTable ----------------------------
(***************************************************************************)
(* The table of C modules of skynet_module.c: every launch looks its       *)
(* module up without a lock, and under the spin lock loads it if it is not *)
(* there.  skynet_module_insert has no caller.                             *)
(***************************************************************************)
EXTENDS Integers, FiniteSets

CONSTANTS Caller,     \* the threads that launch services
          Module,     \* names of modules, as launches name them
          Loadable,   \* those dlopen finds in the path
          Complete,   \* those of them that export an _init function
          Booted,     \* the module main loaded before it started the threads
          MaxModule,  \* MAX_MODULE_TYPE
          NoModule    \* NULL

ASSUME ModuleAssumption ==
    /\ Complete \subseteq Loadable /\ Loadable \subseteq Module
    /\ NoModule \notin Module \cup {Booted}
    /\ MaxModule \in Nat \ {0}

VARIABLES count,  \* M->count
          lock,   \* M->lock
          m,      \* M->m: the name, whether it is the table's own copy of it,
                  \* and whether the functions are filled in
          query   \* by caller: where its skynet_module_query is, for which
                  \* name, and the result

moduleVars == <<count, lock, m, query>>

Index == 0 .. MaxModule - 1
Idle == [at |-> "none", name |-> NoModule, result |-> -1]

ModuleInit ==
    /\ count = 1 /\ lock = 0
    /\ m = [i \in Index |->
              IF i = 0 THEN [name |-> Booted, own |-> TRUE, init |-> TRUE]
                       ELSE [name |-> NoModule, own |-> FALSE, init |-> FALSE]]
    /\ query = [t \in Caller |-> Idle]

Goes(t, from, to) == query[t].at = from /\ query' = [query EXCEPT ![t].at = to]

(* _query: the entry of that name, -1 (NULL) if there is none.  The loop is *)
(* one step: an entry that is counted no longer changes.                    *)
Counted == {i \in Index : i < count}
Lookup(name) ==
    LET found == {i \in Counted : m[i].name = name}
    IN  IF found = {} THEN -1 ELSE CHOOSE i \in found : TRUE

-----------------------------------------------------------------------------
Ask(t, name) ==
    /\ query[t] = Idle
    /\ query' = [query EXCEPT ![t] = [Idle EXCEPT !.at = "search", !.name = name]]
    /\ UNCHANGED <<count, lock, m>>

Search(t) ==
    LET i == Lookup(query[t].name) IN
    /\ query[t].at = "search"
    /\ query' = [query EXCEPT ![t].result = i,
                              ![t].at = IF i = -1 THEN "lock" ELSE "return"]
    /\ UNCHANGED <<count, lock, m>>

Lock(t) ==
    /\ Goes(t, "lock", "again") /\ lock = 0
    /\ lock' = 1
    /\ UNCHANGED <<count, m>>

AgainBlind(t) ==
    /\ Goes(t, "again", IF count < MaxModule THEN "open" ELSE "unlock")
    /\ UNCHANGED <<count, lock, m>>

(* The double check. *)
Again(t) ==
    LET i == Lookup(query[t].name) IN
    /\ query[t].at = "again"
    /\ query' = [query EXCEPT ![t].result = i, ![t].at =
                    IF i = -1 /\ count < MaxModule THEN "open" ELSE "unlock"]
    /\ UNCHANGED <<count, lock, m>>

(* _try_open goes through the path; _open_sym wants an _init function. *)
TryOpen(name) == name \in Loadable
OpenSym(name) == TryOpen(name) /\ name \in Complete

OpenThen(t, good) ==
    LET name == query[t].name IN
    /\ Goes(t, "open", IF good THEN "copy" ELSE "unlock")
    /\ m' = IF TryOpen(name)
            THEN [m EXCEPT ![count] = [name |-> name, own |-> FALSE,
                                       init |-> OpenSym(name)]]
            ELSE m
    /\ UNCHANGED <<count, lock>>

OpenUnchecked(t) == OpenThen(t, TryOpen(query[t].name))

(* The entry is filled, its name still the caller's string.  If there is no *)
(* _init function it stays so, but is not counted.                          *)
Open(t) == OpenThen(t, OpenSym(query[t].name))

(* Two stores, which x86 keeps in order. *)
CopyName(t) ==
    /\ Goes(t, "copy", "count")
    /\ m' = [m EXCEPT ![count].own = TRUE]
    /\ UNCHANGED <<count, lock>>

CountModule(t) ==
    /\ query[t].at = "count"
    /\ query' = [query EXCEPT ![t].at = "unlock", ![t].result = count]
    /\ count' = count + 1
    /\ UNCHANGED <<lock, m>>

Unlock(t) ==
    /\ Goes(t, "unlock", "return")
    /\ lock' = 0
    /\ UNCHANGED <<count, m>>

Return(t) ==
    /\ query[t].at = "return"
    /\ query' = [query EXCEPT ![t] = Idle]
    /\ UNCHANGED <<count, lock, m>>

QueryStep(t) == Search(t) \/ Lock(t) \/ Again(t) \/ Open(t) \/ CopyName(t)
                \/ CountModule(t) \/ Unlock(t)

ModuleNext ==
    \E t \in Caller:
       QueryStep(t) \/ Return(t) \/ \E name \in Module: Ask(t, name)

ModuleSpec == ModuleInit /\ [][ModuleNext]_moduleVars

-----------------------------------------------------------------------------
(* A module is loaded once however many threads launch it at the same time, *)
(* and what a search without the lock can find is complete and belongs to   *)
(* the table.                                                               *)
LoadedOnce ==
    /\ \A i \in Counted: m[i].own /\ m[i].init
    /\ \A i, j \in Counted: m[i].name = m[j].name => i = j

(* A query answers with the module that was asked for, and with nothing     *)
(* only if that module cannot be loaded or the others have filled the table.*)
QueryExact ==
    \A t \in Caller: query[t].at = "return" =>
        LET i == query[t].result IN
        IF i # -1 THEN i \in Counted /\ m[i].name = query[t].name
        ELSE \/ query[t].name \notin Complete
             \/ count = MaxModule /\ Lookup(query[t].name) = -1
=============================================================================
