----------------------------- MODULE SyncProofs -----------------------------
(***************************************************************************)
(* Theorems about the lock of the handle table, the table of modules, the  *)
(* watchdog and their composition Sync, for any number of workers,         *)
(* services and modules. The lock and the module table are proved exact on *)
(* their own; then, inside the composition, they are shown to behave as    *)
(* their own specifications say, and the watchdog to name only a service   *)
(* that has not got on, and to mark one that does not.                     *)
(***************************************************************************)
EXTENDS Sync, FiniteSetTheorems, TLAPS

-----------------------------------------------------------------------------
(* The reader-writer lock: its words count the threads at work in it.      *)
LockInv == TypeOK /\ Exact /\ MutualExclusion

LEMMA RegisteredFinite ==
    IsFiniteSet(Registered) /\ IsFiniteSet(Registered')
BY ThreadAssumption, FS_Subset, Registered \subseteq Thread, Registered' \subseteq Thread
   DEF Registered

(* A thread that becomes registered adds one, one that ceases takes one.   *)
LEMMA Register ==
    ASSUME read = Cardinality(Registered), NEW t \in Thread, t \notin Registered,
           Registered' = Registered \cup {t}, read' = read + 1
    PROVE  read' = Cardinality(Registered')
BY RegisteredFinite, FS_AddElement

LEMMA Unregister ==
    ASSUME read = Cardinality(Registered), NEW t \in Registered,
           Registered' = Registered \ {t}, read' = read - 1
    PROVE  read' = Cardinality(Registered')
BY RegisteredFinite, FS_RemoveElement

LEMMA NoneRegistered ==
    ASSUME read = Cardinality(Registered), read = 0
    PROVE  \A t \in Thread: pc[t] \notin {"check", "reading", "undo"}
BY RegisteredFinite, FS_EmptySet DEF Registered

LEMMA LockInvInit == Init => LockInv
<1> SUFFICES ASSUME Init PROVE LockInv
  OBVIOUS
<1>1. Registered = {}
  BY DEF Init, Registered
<1>2. read = Cardinality(Registered)
  BY <1>1, FS_EmptySet DEF Init
<1> QED BY <1>2 DEF Init, LockInv, TypeOK, Exact, MutualExclusion

LEMMA LockInvNext == LockInv /\ [Next]_vars => LockInv'
<1> SUFFICES ASSUME LockInv, [Next]_vars PROVE LockInv'
  OBVIOUS
<1>a. TypeOK /\ Exact /\ MutualExclusion /\ read = Cardinality(Registered)
  BY DEF LockInv, Exact
<1> USE DEF TypeOK, Go
<1>1. ASSUME NEW t \in Thread, RSpin(t) \/ REnter(t) \/ RBackOff(t) \/ RRespin(t)
      PROVE  LockInv'
  <2>1. Registered' = Registered /\ read' = read
    BY <1>1, <1>a DEF RSpin, REnter, RBackOff, RRespin, Registered
  <2>2. Exact'
    BY <1>1, <1>a, <2>1 DEF RSpin, REnter, RBackOff, RRespin, Exact
  <2>3. MutualExclusion'
    BY <1>1, <1>a DEF RSpin, REnter, RBackOff, RRespin, Exact, MutualExclusion
  <2> QED BY <1>1, <1>a, <2>2, <2>3 DEF RSpin, REnter, RBackOff, RRespin, LockInv
<1>2. ASSUME NEW t \in Thread, RRegister(t) PROVE LockInv'
  <2>1. t \notin Registered /\ Registered' = Registered \cup {t}
    BY <1>2, <1>a DEF RRegister, Registered
  <2>2. read' = Cardinality(Registered')
    BY <1>2, <1>a, <2>1, Register DEF RRegister
  <2>3. Exact' /\ MutualExclusion'
    BY <1>2, <1>a, <2>2 DEF RRegister, Exact, MutualExclusion
  <2> QED BY <1>2, <1>a, <2>3 DEF RRegister, LockInv
<1>3. ASSUME NEW t \in Thread, RUndo(t) \/ RUnlock(t) PROVE LockInv'
  <2>1. t \in Registered /\ Registered' = Registered \ {t}
    BY <1>3, <1>a DEF RUndo, RUnlock, Registered
  <2>2. read' = Cardinality(Registered')
    BY <1>3, <1>a, <2>1, Unregister DEF RUndo, RUnlock
  <2>3. Exact' /\ MutualExclusion'
    BY <1>3, <1>a, <2>2 DEF RUndo, RUnlock, Exact, MutualExclusion
  <2> QED BY <1>3, <1>a, <2>3 DEF RUndo, RUnlock, LockInv
<1>4. ASSUME NEW t \in Thread, WTake(t) \/ WUnlock(t) PROVE LockInv'
  <2>1. Registered' = Registered /\ read' = read
    BY <1>4, <1>a DEF WTake, WUnlock, Registered
  <2>2. Exact' /\ MutualExclusion'
    BY <1>4, <1>a, <2>1 DEF WTake, WUnlock, Exact, MutualExclusion
  <2> QED BY <1>4, <1>a, <2>2 DEF WTake, WUnlock, LockInv
<1>5. ASSUME NEW t \in Thread, WEnter(t) PROVE LockInv'
  <2>1. Registered' = Registered /\ read' = read
    BY <1>5, <1>a DEF WEnter, Registered
  <2>2. \A u \in Thread: pc[u] # "reading"
    BY <1>5, <1>a, NoneRegistered DEF WEnter
  <2>3. Exact' /\ MutualExclusion'
    BY <1>5, <1>a, <2>1, <2>2 DEF WEnter, Exact, MutualExclusion
  <2> QED BY <1>5, <1>a, <2>3 DEF WEnter, LockInv
<1>6. CASE UNCHANGED vars
  BY <1>6, <1>a DEF vars, LockInv, Exact, MutualExclusion, Registered
<1> QED BY <1>1, <1>2, <1>3, <1>4, <1>5, <1>6 DEF Next, Step

(* The words read and write count the threads at work in the lock.         *)
THEOREM LockInvariant == Spec => []LockInv
<1> QED BY LockInvInit, LockInvNext, PTL DEF Spec

(* A writer has the lock alone (rwlock_wlock, rwlock_rlock).               *)
THEOREM Exclusion == Spec => []MutualExclusion
<1>1. LockInv => MutualExclusion
  BY DEF LockInv
<1> QED BY <1>1, LockInvariant, PTL

(* No reader gets in once a writer has taken the flag.                     *)
THEOREM WritersFirst == Spec => NoReaderSlipsIn
<1>1. ASSUME LockInv, [Next]_vars, NEW t \in Thread,
             pc[t] # "reading", pc'[t] = "reading"
      PROVE  \A u \in Thread: pc[u] \notin {"drain", "writing"}
  <2>1. REnter(t)
    BY <1>1 DEF Next, Step, vars, LockInv, TypeOK, Go, RSpin, RRegister, REnter,
       RBackOff, RUndo, RRespin, RUnlock, WTake, WEnter, WUnlock
  <2> QED BY <1>1, <2>1 DEF REnter, LockInv, Exact
<1>2. LockInv /\ [Next]_vars
        => [\A t \in Thread: pc[t] # "reading" /\ pc'[t] = "reading"
              => \A u \in Thread: pc[u] \notin {"drain", "writing"}]_vars
  BY <1>1
<1> QED BY <1>2, LockInvariant, PTL DEF Spec, NoReaderSlipsIn

(* While a writer waits, every step of another thread brings it closer.    *)
THEOREM WriterWaitsBounded == Spec => WriterNears
<1>1. ASSUME LockInv, [Next]_vars, NEW w \in Thread, pc[w] = "drain", pc'[w] = "drain",
             NEW u \in Thread, pc'[u] # pc[u]
      PROVE  Distance(pc'[u]) < Distance(pc[u])
  <2> USE <1>1 DEF LockInv, TypeOK, Go
  <2>1. write = 1 /\ pc[u] \notin {"drain", "writing"}
    BY DEF Exact
  <2>2. RRegister(u) \/ RBackOff(u) \/ RUndo(u) \/ RUnlock(u)
    BY <2>1 DEF Next, Step, vars, RSpin, RRegister, REnter, RBackOff, RUndo,
       RRespin, RUnlock, WTake, WEnter, WUnlock
  <2>3. CASE RRegister(u)
    BY <2>3 DEF RRegister, Distance
  <2>4. CASE RBackOff(u)
    BY <2>4 DEF RBackOff, Distance
  <2>5. CASE RUndo(u)
    BY <2>5 DEF RUndo, Distance
  <2>6. CASE RUnlock(u)
    BY <2>6 DEF RUnlock, Distance
  <2> QED BY <2>2, <2>3, <2>4, <2>5, <2>6
<1>2. LockInv /\ [Next]_vars
        => [(\E t \in Thread: pc[t] = "drain" /\ pc'[t] = "drain") =>
              \A u \in Thread: pc'[u] # pc[u] =>
                 Distance(pc'[u]) < Distance(pc[u])]_vars
  BY <1>1
<1> QED BY <1>2, LockInvariant, PTL DEF Spec, WriterNears

-----------------------------------------------------------------------------
(* The module table: the double check under the lock keeps it exact, and   *)
(* the reads outside the lock are safe because a counted entry never       *)
(* changes.                                                                *)
Filling == {"open", "copy", "count"}
Holding == {"again", "unlock"} \cup Filling
Answered == {"unlock", "return"}

Entry == [name: Module \cup {Booted, NoModule}, own: BOOLEAN, init: BOOLEAN]

ModuleTypeOK ==
    /\ count \in 1 .. MaxModule /\ lock \in {0, 1}
    /\ m \in [Index -> Entry]
    /\ query \in [Caller -> [at: {"none", "search", "lock"} \cup Holding \cup Answered,
                             name: Module \cup {NoModule},
                             result: Index \cup {-1}]]

(* The threads between skynet_module_query's SPIN_LOCK and SPIN_UNLOCK.    *)
LockHeld ==
    \A t \in Caller: query[t].at \in Holding =>
        lock = 1 /\ \A u \in Caller: query[u].at \in Holding => u = t

Absent(name) == \A i \in Counted: m[i].name # name

(* The thread that loads: nobody else has, and the entry it fills is the   *)
(* first that is not counted.                                              *)
FillsNext ==
    \A t \in Caller: query[t].at \in Filling =>
        /\ count < MaxModule /\ Absent(query[t].name) /\ query[t].result = -1
        /\ query[t].at # "open" => m[count].name = query[t].name /\ m[count].init
        /\ query[t].at = "count" => m[count].own

Right(t) ==
    LET i == query[t].result IN
    IF i # -1 THEN i \in Counted /\ m[i].name = query[t].name
    ELSE \/ query[t].name \notin Complete
         \/ count = MaxModule /\ Absent(query[t].name)

(* QueryExact from the moment the answer is decided, still under the lock. *)
Answers == \A t \in Caller: query[t].at \in Answered => Right(t)

ModuleInv == ModuleTypeOK /\ LockHeld /\ FillsNext /\ LoadedOnce /\ Answers

-----------------------------------------------------------------------------
(* What _query returns.                                                    *)
LEMMA LookupFinds ==
    ASSUME NEW name
    PROVE  \/ Lookup(name) = -1 /\ Absent(name)
           \/ Lookup(name) \in Counted /\ m[Lookup(name)].name = name
BY ModuleAssumption DEF Lookup, Absent, Counted, Index

LEMMA LookupAbsent ==
    ASSUME NEW name
    PROVE  Lookup(name) = -1 <=> Absent(name)
BY ModuleAssumption DEF Lookup, Absent, Counted, Index

LEMMA AnswersExact == Answers => QueryExact
BY LookupAbsent DEF Answers, Right, QueryExact, Answered

LEMMA ModuleInvInit == ModuleInit => ModuleInv
<1> SUFFICES ASSUME ModuleInit PROVE ModuleInv
  OBVIOUS
<1> USE ModuleAssumption DEF ModuleInit, Idle, Index
<1>1. ModuleTypeOK
  BY DEF ModuleTypeOK, Entry, Holding, Filling, Answered
<1>2. LockHeld /\ FillsNext /\ Answers
  BY DEF LockHeld, FillsNext, Answers, Holding, Filling, Answered
<1>3. LoadedOnce
  BY DEF LoadedOnce, Counted
<1> QED BY <1>1, <1>2, <1>3 DEF ModuleInv

-----------------------------------------------------------------------------
(* A step that leaves the table alone keeps what is said of it; the others *)
(* are OpenThen, CopyName and CountModule.                                 *)
LEMMA TableKept ==
    ASSUME UNCHANGED <<count, m>>
    PROVE  /\ Counted' = Counted
           /\ LoadedOnce => LoadedOnce'
           /\ \A name: Absent(name)' <=> Absent(name)
BY DEF Counted, LoadedOnce, Absent

LEMMA EntryFilled ==
    ASSUME ModuleTypeOK, UNCHANGED count, NEW e, m' = [m EXCEPT ![count] = e]
    PROVE  /\ Counted' = Counted
           /\ \A i \in Counted: m'[i] = m[i]
           /\ LoadedOnce => LoadedOnce'
           /\ \A name: Absent(name)' <=> Absent(name)
BY DEF Counted, LoadedOnce, Absent, ModuleTypeOK, Index

LEMMA ModuleInvNext == ModuleInv /\ [ModuleNext]_moduleVars => ModuleInv'
<1> SUFFICES ASSUME ModuleInv, [ModuleNext]_moduleVars PROVE ModuleInv'
  OBVIOUS
<1> USE ModuleAssumption DEF ModuleInv, Goes, Holding, Filling, Answered
<1>1. ASSUME NEW t \in Caller, NEW name \in Module, Ask(t, name) PROVE ModuleInv'
  <2>1. ModuleTypeOK'
    BY <1>1 DEF Ask, Idle, ModuleTypeOK
  <2>2. LockHeld' /\ FillsNext' /\ Answers'
    BY <1>1, TableKept DEF Ask, Idle, ModuleTypeOK, LockHeld, FillsNext, Answers, Right
  <2> QED BY <1>1, <2>1, <2>2, TableKept DEF Ask
<1>2. ASSUME NEW t \in Caller, Search(t) PROVE ModuleInv'
  <2>1. ModuleTypeOK'
    BY <1>2, LookupFinds DEF Search, ModuleTypeOK, Counted
  <2>2. LockHeld' /\ FillsNext' /\ Answers'
    BY <1>2, TableKept, LookupFinds
       DEF Search, ModuleTypeOK, LockHeld, FillsNext, Answers, Right
  <2> QED BY <1>2, <2>1, <2>2, TableKept DEF Search
<1>3. ASSUME NEW t \in Caller, Lock(t) PROVE ModuleInv'
  <2>1. ModuleTypeOK'
    BY <1>3 DEF Lock, ModuleTypeOK
  <2>2. LockHeld' /\ FillsNext' /\ Answers'
    BY <1>3, TableKept DEF Lock, ModuleTypeOK, LockHeld, FillsNext, Answers, Right
  <2> QED BY <1>3, <2>1, <2>2, TableKept DEF Lock
<1>4. ASSUME NEW t \in Caller, Again(t) PROVE ModuleInv'
  <2>1. ModuleTypeOK'
    BY <1>4, LookupFinds DEF Again, ModuleTypeOK, Counted
  <2>2. LockHeld' /\ FillsNext' /\ Answers'
    BY <1>4, TableKept, LookupFinds
       DEF Again, ModuleTypeOK, LockHeld, FillsNext, Answers, Right
  <2> QED BY <1>4, <2>1, <2>2, TableKept DEF Again
<1>5. ASSUME NEW t \in Caller, Open(t) PROVE ModuleInv'
  <2> DEFINE e == [name |-> query[t].name, own |-> FALSE, init |-> OpenSym(query[t].name)]
  <2> USE <1>5 DEF Open, OpenThen
  <2>1. count \in Index /\ UNCHANGED count /\ (m' = m \/ m' = [m EXCEPT ![count] = e])
    BY DEF FillsNext, ModuleTypeOK, Index
  <2>2. ModuleTypeOK'
    <3>1. e \in Entry
      BY DEF ModuleTypeOK, Entry, OpenSym, TryOpen
    <3>2. m' \in [Index -> Entry]
      BY <2>1, <3>1 DEF ModuleTypeOK
    <3> HIDE DEF e
    <3> QED BY <3>2 DEF ModuleTypeOK
  <2>3. /\ LoadedOnce' /\ Counted' = Counted
        /\ \A i \in Counted: m'[i] = m[i]
        /\ \A name: Absent(name)' <=> Absent(name)
    <3>1. CASE m' = m
      BY <2>1, <3>1, TableKept
    <3>2. CASE m' = [m EXCEPT ![count] = e]
      BY <2>1, <3>2, EntryFilled
    <3> QED BY <2>1, <3>1, <3>2
  <2>4. LockHeld'
    BY DEF LockHeld, ModuleTypeOK
  <2>5. FillsNext'
    <3>1. query'[t].at = "copy" => m'[count].name = query[t].name /\ m'[count].init
      BY <2>1 DEF ModuleTypeOK, OpenSym
    <3> QED BY <2>1, <2>3, <3>1 DEF FillsNext, LockHeld, ModuleTypeOK
  <2>6. Answers'
    <3>1. query'[t].at = "unlock" => query[t].name \notin Complete /\ query[t].result = -1
      BY ModuleAssumption DEF ModuleTypeOK, OpenSym, TryOpen, FillsNext
    <3> QED BY <2>3, <3>1 DEF Answers, Right, ModuleTypeOK
  <2> QED BY <2>2, <2>3, <2>4, <2>5, <2>6
<1>6. ASSUME NEW t \in Caller, CopyName(t) PROVE ModuleInv'
  <2> USE <1>6 DEF CopyName
  <2>1. count \in Index /\ UNCHANGED count /\ m' = [m EXCEPT ![count] = [@ EXCEPT !.own = TRUE]]
    BY DEF FillsNext, ModuleTypeOK, Index
  <2>2. ModuleTypeOK'
    <3>0. m[count] \in Entry
      BY <2>1 DEF ModuleTypeOK
    <3>1. [m[count] EXCEPT !.own = TRUE] \in Entry
      BY <3>0 DEF Entry
    <3>2. m' \in [Index -> Entry]
      BY <2>1, <3>1 DEF ModuleTypeOK
    <3> QED BY <3>2 DEF ModuleTypeOK
  <2>3. /\ LoadedOnce' /\ Counted' = Counted
        /\ \A i \in Counted: m'[i] = m[i]
        /\ \A name: Absent(name)' <=> Absent(name)
    BY <2>1, EntryFilled
  <2>4. LockHeld'
    BY DEF LockHeld, ModuleTypeOK
  <2>5. FillsNext'
    BY <2>1, <2>3 DEF FillsNext, LockHeld, ModuleTypeOK, Entry
  <2>6. Answers'
    BY <2>3 DEF Answers, Right, ModuleTypeOK
  <2> QED BY <2>2, <2>3, <2>4, <2>5, <2>6
<1>7. ASSUME NEW t \in Caller, CountModule(t) PROVE ModuleInv'
  <2> USE <1>7 DEF CountModule
  <2>1. /\ count \in Index /\ count < MaxModule /\ count' = count + 1
        /\ Absent(query[t].name) /\ m[count].name = query[t].name
        /\ m[count].own /\ m[count].init
    BY DEF FillsNext, ModuleTypeOK, Index
  <2>2. ModuleTypeOK'
    <3>1. count' \in 1 .. MaxModule /\ UNCHANGED <<lock, m>>
      BY <2>1 DEF ModuleTypeOK
    <3> DEFINE next == [query[t] EXCEPT !.at = "unlock", !.result = count]
    <3>a. query' = [query EXCEPT ![t] = next]
      BY DEF ModuleTypeOK
    <3>b. next \in [at: {"none", "search", "lock"} \cup Holding \cup Answered,
                    name: Module \cup {NoModule}, result: Index \cup {-1}]
      BY <2>1 DEF ModuleTypeOK
    <3>2. query' \in [Caller -> [at: {"none", "search", "lock"} \cup Holding \cup Answered,
                                 name: Module \cup {NoModule},
                                 result: Index \cup {-1}]]
      BY <3>a, <3>b DEF ModuleTypeOK
    <3> QED BY <3>1, <3>2 DEF ModuleTypeOK
  <2>3. Counted' = Counted \cup {count}
    BY <2>1 DEF Counted, Index, ModuleTypeOK
  <2>4. LoadedOnce'
    BY <2>1, <2>3 DEF LoadedOnce, Absent
  <2>5. LockHeld'
    BY DEF LockHeld, ModuleTypeOK
  <2>6. FillsNext'
    BY <2>1 DEF FillsNext, LockHeld, ModuleTypeOK
  <2>7. Answers'
    BY <2>1, <2>3 DEF Answers, Right, ModuleTypeOK, Index
  <2> QED BY <2>2, <2>4, <2>5, <2>6, <2>7
<1>8. ASSUME NEW t \in Caller, Unlock(t) \/ Return(t) PROVE ModuleInv'
  <2>1. ModuleTypeOK'
    BY <1>8 DEF Unlock, Return, Idle, ModuleTypeOK
  <2>2. LockHeld' /\ FillsNext' /\ Answers'
    BY <1>8, TableKept DEF Unlock, Return, Idle, ModuleTypeOK, LockHeld, FillsNext, Answers, Right
  <2> QED BY <1>8, <2>1, <2>2, TableKept DEF Unlock, Return
<1>9. CASE UNCHANGED moduleVars
  BY <1>9, TableKept DEF moduleVars, ModuleTypeOK, LockHeld, FillsNext, Answers, Right
<1> QED BY <1>1, <1>2, <1>3, <1>4, <1>5, <1>6, <1>7, <1>8, <1>9 DEF ModuleNext, QueryStep

-----------------------------------------------------------------------------
LEMMA ModuleInvariant == ModuleSpec => []ModuleInv
<1> QED BY ModuleInvInit, ModuleInvNext, PTL DEF ModuleSpec

(* However many threads launch a module at once it is loaded and counted   *)
(* once, and what a search outside the lock can find is complete.          *)
THEOREM ModuleLoadedOnce == ModuleSpec => []LoadedOnce
<1>1. ModuleInv => LoadedOnce
  BY DEF ModuleInv
<1> QED BY <1>1, ModuleInvariant, PTL

(* skynet_module_query answers with the module it was asked for, and with  *)
(* NULL only if the module cannot be loaded or the table is full.          *)
THEOREM ModuleQueryExact == ModuleSpec => []QueryExact
<1>1. ModuleInv => QueryExact
  BY AnswersExact DEF ModuleInv
<1> QED BY <1>1, ModuleInvariant, PTL

-----------------------------------------------------------------------------

(***************************************************************************)
(* The invariant of the monitor's words.                                   *)
(***************************************************************************)
Address == Service \cup {None}

WatchTypeOK ==
    /\ version \in [Worker -> Nat] /\ check_version \in [Worker -> Nat]
    /\ destination \in [Worker -> Address]
    /\ look \in [of: Worker, at: {"compare", "test", "suspect", "grab", "copy"},
                 found: Address]
    /\ at \in [Worker -> {"idle", "grab", "enter", "entered", "callback", "query",
                          "register", "retire", "after", "given", "left"}]
    /\ serves \in [Worker -> Address]
    /\ service \in [Service -> {"live", "marked", "dead"}]
    /\ looks \in [Worker -> 0 .. 2] /\ moved \in BOOLEAN

(* A worker's destination is the service it serves, from the first store   *)
(* of the trigger before the callback to that of the trigger after it.     *)
Addressed ==
    \A w \in Worker:
       /\ at[w] # "idle" => serves[w] \in Service
       /\ destination[w] = IF Named(w) \/ at[w] = "entered" THEN serves[w] ELSE None

(* What the looks that ended since the dispatch was counted have left in   *)
(* check_version: before the first it lags, after the second it has caught *)
(* up.                                                                     *)
Followed ==
    \A w \in Worker:
       /\ check_version[w] <= version[w]
       /\ looks[w] > 0 => Named(w)
       /\ Named(w) /\ looks[w] = 0 => check_version[w] < version[w]
       /\ looks[w] = 2 => check_version[w] = version[w]

(* What the look that is under way knows.                                  *)
Seen ==
    LET w == look.of IN
    /\ look.at \in {"test", "suspect"} /\ ~moved =>
          version[w] = check_version[w] /\ at[w] \notin {"entered", "left"}
    /\ look.at = "suspect" /\ ~moved => destination[w] # None
    /\ look.at \in {"test", "suspect", "grab"} /\ looks[w] > 0 =>
          version[w] = check_version[w]
    /\ looks[w] = 2 => look.at # "copy"
    /\ look.at = "grab" /\ looks[w] > 0 => look.found = serves[w]

WatchInv == WatchTypeOK /\ Addressed /\ Followed /\ Seen

USE MonitorAssumption

LEMMA NextWorker ==
    ASSUME NEW w \in Worker
    PROVE  (w + 1) % Workers \in Worker
BY DEF Worker

LEMMA Onward ==
    ASSUME WatchTypeOK, Onwards
    PROVE  look'.of \in Worker /\ look'.at = "compare" /\ look'.found = None
BY NextWorker DEF WatchTypeOK, Onwards

LEMMA WatchInvInit == SyncInit => WatchInv
<1> SUFFICES ASSUME SyncInit PROVE WatchInv
  OBVIOUS
<1> USE DEF SyncInit, MonitorInit
<1>1. WatchTypeOK
  <2>1. 0 \in Worker /\ None \in Address
    BY DEF Worker, Address
  <2>2. look \in [of: Worker, at: {"compare", "test", "suspect", "grab", "copy"},
                  found: Address]
    BY <2>1
  <2>3. looks \in [Worker -> 0 .. 2]
    OBVIOUS
  <2>4. moved \in BOOLEAN
    OBVIOUS
  <2> QED BY <2>1, <2>2, <2>3, <2>4 DEF WatchTypeOK
<1>2. Addressed /\ Followed
  BY DEF Addressed, Followed, Named, InCallback
<1>3. Seen
  BY DEF Seen, Worker
<1> QED BY <1>1, <1>2, <1>3 DEF WatchInv

-----------------------------------------------------------------------------
(* A step of a worker that is not one of the four stores.                  *)
Quiet ==
    /\ UNCHANGED <<version, check_version, destination, look, looks, moved>>
    /\ at' \in [Worker -> {"idle", "grab", "enter", "entered", "callback", "query",
                           "register", "retire", "after", "given", "left"}]
    /\ serves' \in [Worker -> Address]
    /\ service' \in [Service -> {"live", "marked", "dead"}]
    /\ \A w \in Worker:
          /\ Named(w)' <=> Named(w)
          /\ at'[w] = "entered" <=> at[w] = "entered"
          /\ at'[w] = "left" <=> at[w] = "left"
          /\ Named(w) \/ at[w] = "entered" => serves'[w] = serves[w]
          /\ at'[w] # "idle" => serves'[w] \in Service

LEMMA QuietKeeps == WatchInv /\ Quiet => WatchInv'
<1> SUFFICES ASSUME WatchInv, Quiet PROVE WatchInv'
  OBVIOUS
<1> USE DEF WatchInv, Quiet
<1>1. WatchTypeOK'
  BY DEF WatchTypeOK
<1>2. Addressed' /\ Followed'
  BY DEF Addressed, Followed
<1>3. Seen'
  BY DEF Seen, WatchTypeOK, Followed
<1> QED BY <1>1, <1>2, <1>3

LEMMA WorkIsQuiet ==
    ASSUME WatchInv, NEW w \in Worker,
           \/ Grabbed(w) \/ GiveBack(w) \/ Launched(w) \/ Written(w) \/ Kill(w)
           \/ \E s \in Service: Pick(w, s)
           \/ \E name \in Module: Launch(w, name)
    PROVE  Quiet
<1> USE DEF WatchInv, WatchTypeOK, Addressed, Quiet, Moves, Address, Named, InCallback,
            monitorVars, history
<1>1. CASE Grabbed(w)
  BY <1>1 DEF Grabbed
<1>2. CASE GiveBack(w)
  BY <1>2 DEF GiveBack
<1>3. CASE Launched(w)
  BY <1>3 DEF Launched
<1>4. CASE Written(w)
  BY <1>4 DEF Written
<1>5. CASE Kill(w)
  BY <1>5 DEF Kill
<1>6. ASSUME NEW s \in Service, Pick(w, s) PROVE Quiet
  <2>1. /\ at[w] = "idle" /\ at' = [at EXCEPT ![w] = "grab"]
        /\ serves' = [serves EXCEPT ![w] = s]
        /\ UNCHANGED <<monitorVars, service, history>>
    BY <1>6 DEF Pick
  <2> QED BY <2>1
<1>7. ASSUME NEW name \in Module, Launch(w, name) PROVE Quiet
  BY <1>7 DEF Launch
<1> QED BY <1>1, <1>2, <1>3, <1>4, <1>5, <1>6, <1>7

LEMMA AskEndlessIsQuiet ==
    ASSUME WatchInv, NEW w \in Worker, AskEndless(w)
    PROVE  Quiet
<1>1. serves[w] \in Service
  BY DEF AskEndless, WatchInv, Addressed
<1> QED BY <1>1 DEF AskEndless, WatchInv, WatchTypeOK, Addressed, Quiet, Named, InCallback,
                    monitorVars, history

LEMMA LockIsQuiet ==
    ASSUME WatchInv,
           \/ \E t \in Thread: CallLock(t) \/ InLock(t)
           \/ \E w \in Worker: InQuery(w)
           \/ UNCHANGED syncVars
    PROVE  Quiet
BY DEF CallLock, InLock, InQuery, syncVars, monitorVars, workVars, history, WatchInv,
       WatchTypeOK, Addressed, Quiet, Named, InCallback

-----------------------------------------------------------------------------
(* The four stores of the triggers.                                        *)
LEMMA EnterKeeps ==
    ASSUME WatchInv, NEW w \in Worker, Enter(w)
    PROVE  WatchInv'
<1> USE DEF WatchInv, WatchTypeOK, Enter, Trigger, Moves, Name
<1>1. WatchTypeOK'
  BY DEF Addressed
<1>2. Addressed' /\ Followed'
  BY DEF Addressed, Followed, Named, InCallback
<1>3. Seen'
  BY DEF Seen, Followed, Named, InCallback
<1> QED BY <1>1, <1>2, <1>3

LEMMA EnteredKeeps ==
    ASSUME WatchInv, NEW w \in Worker, Entered(w)
    PROVE  WatchInv'
<1> USE DEF WatchInv, WatchTypeOK, Entered, Trigger, Moves, Count
<1>1. WatchTypeOK'
  BY DEF Addressed
<1>2. Addressed' /\ Followed'
  BY DEF Addressed, Followed, Named, InCallback
<1>3. Seen'
  BY DEF Seen, Followed, Named, InCallback
<1> QED BY <1>1, <1>2, <1>3

LEMMA LeaveKeeps ==
    ASSUME WatchInv, NEW w \in Worker, Leave(w)
    PROVE  WatchInv'
<1> USE DEF WatchInv, WatchTypeOK, Leave, Trigger, Moves, Name
<1>1. WatchTypeOK'
  BY DEF Addressed, Address
<1>2. Addressed' /\ Followed'
  BY DEF Addressed, Followed, Named, InCallback
<1>3. CASE look.of = w
  <2>1. ~(look'.at \in {"test", "suspect"} /\ ~moved')
    BY <1>3
  <2>2. ~(looks'[look'.of] > 0) /\ looks'[look'.of] # 2
    BY <1>3
  <2> QED BY <1>1, <1>2, <2>1, <2>2 DEF Seen
<1>4. CASE look.of # w
  BY <1>1, <1>2, <1>4 DEF Seen
<1> QED BY <1>3, <1>4

LEMMA LeftKeeps ==
    ASSUME WatchInv, NEW w \in Worker, Left(w)
    PROVE  WatchInv'
<1> USE DEF WatchInv, WatchTypeOK, Left, Trigger, Moves, Count
<1>1. WatchTypeOK'
  BY DEF Addressed, Address
<1>2. Addressed' /\ Followed'
  BY DEF Addressed, Followed, Named, InCallback
<1>3. Seen'
  BY DEF Seen, Followed, Named, InCallback
<1> QED BY <1>1, <1>2, <1>3

-----------------------------------------------------------------------------
(* The monitor thread.                                                     *)
LEMMA LookEnds ==
    ASSUME WatchInv, Onwards, Looked,
           UNCHANGED <<version, destination, at, serves>>,
           check_version' \in [Worker -> Nat],
           \A w \in Worker \ {look.of}: check_version'[w] = check_version[w],
           \/ check_version'[look.of] = version[look.of]
           \/ /\ check_version'[look.of] = check_version[look.of]
              /\ looks[look.of] > 0 => check_version[look.of] = version[look.of],
           service' \in [Service -> {"live", "marked", "dead"}]
    PROVE  WatchInv'
<1> USE DEF WatchInv, Looked
<1>1. look' \in [of: Worker, at: {"compare"}, found: {None}]
  BY NextWorker DEF Onwards, WatchTypeOK
<1>2. WatchTypeOK'
  <2>1. look' \in [of: Worker, at: {"compare", "test", "suspect", "grab", "copy"},
                   found: Address]
    BY <1>1 DEF Address
  <2>2. looks' \in [Worker -> 0 .. 2]
    BY DEF WatchTypeOK
  <2> QED BY <2>1, <2>2 DEF WatchTypeOK
<1>3. Addressed'
  BY DEF Addressed, Named, InCallback
<1>4. Followed'
  BY DEF Followed, WatchTypeOK, Named, InCallback
<1>5. Seen'
  BY <1>1 DEF Seen
<1> QED BY <1>2, <1>3, <1>4, <1>5

LEMMA WatchKeeps == WatchInv /\ Watch => WatchInv'
<1> SUFFICES ASSUME WatchInv, Watch PROVE WatchInv'
  OBVIOUS
<1> USE DEF WatchInv, At, Then
<1>a. UNCHANGED <<at, serves, service>>
  BY DEF Watch, workVars
<1>1. CASE Compare /\ moved' = (look'.at = "test" /\ at[look.of] \in {"entered", "left"})
           /\ UNCHANGED looks
  <2> USE <1>1, <1>a DEF Compare, WatchTypeOK
  <2>1. WatchTypeOK' /\ Addressed' /\ Followed'
    BY DEF Addressed, Followed, Named, InCallback
  <2>2. Seen'
    BY DEF Seen, Followed
  <2> QED BY <2>1, <2>2
<1>2. CASE Suspect /\ moved' = FALSE /\ UNCHANGED looks
  <2> USE <1>2, <1>a DEF Suspect, WatchTypeOK
  <2>1. WatchTypeOK' /\ Addressed' /\ Followed'
    BY DEF Addressed, Followed, Named, InCallback
  <2>2. Seen'
    BY DEF Seen, Followed, Addressed
  <2> QED BY <2>1, <2>2
<1>3. CASE Copy /\ Looked
  BY <1>3, <1>a, LookEnds DEF Copy, WatchTypeOK
<1>4. CASE Test /\ destination[look.of] = None /\ Looked
  BY <1>4, <1>a, LookEnds DEF Test, WatchTypeOK, Seen
<1>5. CASE Test /\ destination[look.of] # None /\ UNCHANGED history
  <2> USE <1>5, <1>a DEF Test, WatchTypeOK, history
  <2>1. WatchTypeOK' /\ Addressed' /\ Followed'
    BY DEF Addressed, Followed, Named, InCallback
  <2>2. Seen'
    BY DEF Seen
  <2> QED BY <2>1, <2>2
<1> QED BY <1>1, <1>2, <1>3, <1>4, <1>5 DEF Watch

LEMMA MarkKeeps == WatchInv /\ Mark => WatchInv'
BY LookEnds DEF Mark, WatchInv, WatchTypeOK, Seen, At

LEMMA WatchInvNext == WatchInv /\ [SyncNext]_syncVars => WatchInv'
BY QuietKeeps, WorkIsQuiet, AskEndlessIsQuiet, LockIsQuiet, EnterKeeps, EnteredKeeps,
   LeaveKeeps, LeftKeeps, WatchKeeps, MarkKeeps
   DEF SyncNext

LEMMA WatchInvariant == SyncSpec => []WatchInv
<1> QED BY WatchInvInit, WatchInvNext, PTL DEF SyncSpec

-----------------------------------------------------------------------------
(* skynet_monitor_check suspects no service out of the blue.               *)
THEOREM NoFalseBlame == SyncSpec => Blamed
<1>1. ASSUME WatchInv, [SyncNext]_syncVars, Suspect, ~moved
      PROVE  looks[look.of] > 0 /\ Named(look.of) /\ look'.found = serves[look.of]
  BY <1>1 DEF WatchInv, WatchTypeOK, Suspect, At, Seen, Addressed, Followed
<1>2. WatchInv /\ [SyncNext]_syncVars
        => [Suspect => moved \/ (/\ looks[look.of] > 0 /\ Named(look.of)
                                /\ look'.found = serves[look.of])]_syncVars
  BY <1>1 DEF WatchInv, WatchTypeOK
<1> QED BY <1>2, WatchInvariant, PTL DEF SyncSpec, Blamed

(* A service whose callback does not return is marked by the third look    *)
(* that ends, or it has left the table.                                    *)
THEOREM EndlessMarked == SyncSpec => EndlessSeen
<1>1. ASSUME WatchInv, [SyncNext]_syncVars, looks[look.of] = 2, Named(look.of),
             look'.of # look.of
      PROVE  service'[serves[look.of]] \in {"marked", "dead"}
  <2> USE <1>1 DEF WatchInv
  <2>1. serves[look.of] \in Service /\ destination[look.of] # None /\ look.at # "copy"
    BY DEF Addressed, Seen, Named, InCallback, WatchTypeOK
  <2>2. ~Quiet
    BY DEF Quiet
  <2>3. Mark
    BY <2>1, <2>2, WorkIsQuiet, AskEndlessIsQuiet, LockIsQuiet
       DEF SyncNext, Enter, Entered, Leave, Left, Name, Count, Watch, Compare, Suspect,
           Test, Copy, At, Then, WatchTypeOK
  <2> QED BY <2>1, <2>3 DEF Mark, At, Seen, InTable, WatchTypeOK
<1>2. WatchInv /\ [SyncNext]_syncVars
        => [looks[look.of] = 2 /\ Named(look.of) /\ look'.of # look.of
              => service'[serves[look.of]] \in {"marked", "dead"}]_syncVars
  BY <1>1
<1> QED BY <1>2, WatchInvariant, PTL DEF SyncSpec, EndlessSeen

-----------------------------------------------------------------------------
(* Every step of the composition is one of the lock's own, or none: the    *)
(* handle table's callers use rwlock.h as RWLock describes it.             *)
THEOREM LockInside == SyncSpec => Spec
<1> USE SyncAssumption
<1>1. SyncInit => Init
  BY DEF SyncInit
<1>2. [SyncNext]_syncVars => [Next]_vars
  <2> USE DEF Next, Step, vars, lockVars
  <2>1. ASSUME NEW w \in Worker, NEW s \in Service, Pick(w, s) PROVE [Next]_vars
    BY <2>1 DEF Pick
  <2>2. ASSUME NEW w \in Worker, NEW name \in Module, Launch(w, name) PROVE [Next]_vars
    BY <2>2 DEF Launch
  <2>3. ASSUME NEW w \in Worker,
               Grabbed(w) \/ Enter(w) \/ Entered(w) \/ GiveBack(w) \/ Leave(w) \/ Left(w)
        PROVE  [Next]_vars
    BY <2>3 DEF Grabbed, Enter, Entered, GiveBack, Leave, Left, Trigger
  <2>4. ASSUME NEW w \in Worker,
               Launched(w) \/ Written(w) \/ InQuery(w) \/ Kill(w) \/ AskEndless(w)
        PROVE  [Next]_vars
    BY <2>4 DEF Launched, Written, InQuery, Kill, AskEndless
  <2>5. ASSUME NEW t \in Thread, CallLock(t) \/ InLock(t) PROVE [Next]_vars
    BY <2>5 DEF CallLock, InLock, Inside
  <2>6. CASE Watch \/ Mark \/ UNCHANGED syncVars
    BY <2>6 DEF Watch, Mark, syncVars, Watcher
  <2> QED BY <2>1, <2>2, <2>3, <2>4, <2>5, <2>6 DEF SyncNext
<1> QED BY <1>1, <1>2, PTL DEF SyncSpec, Spec

(* The launches of the workers use the module table as ModuleTable does.   *)
THEOREM QueriesInside == SyncSpec => ModuleSpec
<1> USE SyncAssumption
<1>1. SyncInit => ModuleInit
  BY DEF SyncInit
<1>2. [SyncNext]_syncVars => [ModuleNext]_moduleVars
  <2> USE DEF ModuleNext, moduleVars
  <2>1. ASSUME NEW w \in Worker, NEW s \in Service, Pick(w, s)
        PROVE  [ModuleNext]_moduleVars
    BY <2>1 DEF Pick
  <2>2. ASSUME NEW w \in Worker, NEW name \in Module, Launch(w, name)
        PROVE  [ModuleNext]_moduleVars
    BY <2>2 DEF Launch
  <2>3. ASSUME NEW w \in Worker,
               Grabbed(w) \/ Enter(w) \/ Entered(w) \/ GiveBack(w) \/ Leave(w) \/ Left(w)
        PROVE  [ModuleNext]_moduleVars
    BY <2>3 DEF Grabbed, Enter, Entered, GiveBack, Leave, Left, Trigger
  <2>4. ASSUME NEW w \in Worker,
               Launched(w) \/ Written(w) \/ InQuery(w) \/ Kill(w) \/ AskEndless(w)
        PROVE  [ModuleNext]_moduleVars
    BY <2>4 DEF Launched, Written, InQuery, Kill, AskEndless
  <2>5. ASSUME NEW t \in Thread, CallLock(t) \/ InLock(t) PROVE [ModuleNext]_moduleVars
    BY <2>5 DEF CallLock, InLock
  <2>6. CASE Watch \/ Mark \/ UNCHANGED syncVars
    BY <2>6 DEF Watch, Mark, syncVars
  <2> QED BY <2>1, <2>2, <2>3, <2>4, <2>5, <2>6 DEF SyncNext
<1> QED BY <1>1, <1>2, PTL DEF SyncSpec, ModuleSpec

(* So what holds of the parts holds of the whole.                          *)
THEOREM SyncSafe ==
    SyncSpec => /\ []MutualExclusion /\ NoReaderSlipsIn /\ WriterNears
                /\ []LoadedOnce /\ []QueryExact
BY LockInside, QueriesInside, Exclusion, WritersFirst, WriterWaitsBounded,
   ModuleLoadedOnce, ModuleQueryExact
=============================================================================
