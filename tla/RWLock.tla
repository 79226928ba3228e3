------------------------------- MODULE RWLock -------------------------------
(***************************************************************************)
(* The reader-writer spin lock of rwlock.h, one action per access to the   *)
(* words write and read.  It guards the handle table.                      *)
(***************************************************************************)
EXTENDS Integers, FiniteSets

CONSTANT Thread

ASSUME ThreadAssumption == IsFiniteSet(Thread)

VARIABLES write,  \* lock->write, a flag
          read,   \* lock->read, a count
          pc      \* where each thread is

vars == <<write, read, pc>>

(* rwlock_init *)
Init ==
    /\ write = 0 /\ read = 0
    /\ pc = [t \in Thread |-> "out"]

Go(t, from, to) == pc[t] = from /\ pc' = [pc EXCEPT ![t] = to]

-----------------------------------------------------------------------------
(* rwlock_rlock: wait for write to be 0, register, look at write again. *)
RSpin(t) ==
    /\ Go(t, "out", "register") /\ write = 0
    /\ UNCHANGED <<write, read>>

RRegister(t) ==
    /\ Go(t, "register", "check")
    /\ read' = read + 1
    /\ UNCHANGED write

REnterBlind(t) ==
    /\ Go(t, "check", "reading")
    /\ UNCHANGED <<write, read>>

REnter(t) ==
    /\ Go(t, "check", "reading") /\ write = 0
    /\ UNCHANGED <<write, read>>

RBackOff(t) ==
    /\ Go(t, "check", "undo") /\ write = 1
    /\ UNCHANGED <<write, read>>

RUndo(t) ==
    /\ Go(t, "undo", "respin")
    /\ read' = read - 1
    /\ UNCHANGED write

RRespinBlind(t) ==
    /\ Go(t, "respin", "register")
    /\ UNCHANGED <<write, read>>

RRespin(t) ==
    /\ Go(t, "respin", "register") /\ write = 0
    /\ UNCHANGED <<write, read>>

(* rwlock_runlock *)
RUnlock(t) ==
    /\ Go(t, "reading", "out")
    /\ read' = read - 1
    /\ UNCHANGED write

(* rwlock_wlock: take the flag, wait for the registered readers to leave. *)
WTake(t) ==
    /\ Go(t, "out", "drain") /\ write = 0
    /\ write' = 1
    /\ UNCHANGED read

WEnter(t) ==
    /\ Go(t, "drain", "writing") /\ read = 0
    /\ UNCHANGED <<write, read>>

(* rwlock_wunlock *)
WUnlock(t) ==
    /\ Go(t, "writing", "out")
    /\ write' = 0
    /\ UNCHANGED read

Step(t) == RRegister(t) \/ REnter(t) \/ RBackOff(t) \/ RUndo(t) \/ RRespin(t)
           \/ RUnlock(t) \/ WEnter(t) \/ WUnlock(t)

Next == \E t \in Thread: RSpin(t) \/ WTake(t) \/ Step(t)

Spec == Init /\ [][Next]_vars

-----------------------------------------------------------------------------
TypeOK ==
    /\ write \in {0, 1} /\ read \in Int
    /\ pc \in [Thread -> {"out", "register", "check", "reading", "undo",
                          "respin", "drain", "writing"}]

Registered == {t \in Thread : pc[t] \in {"check", "reading", "undo"}}

(* A writer has the lock alone; readers share it with readers only.        *)
MutualExclusion ==
    \A t, u \in Thread:
       t # u /\ pc[t] = "writing" => pc[u] \notin {"writing", "reading"}

(* The words say what the threads do: back-off never loses a reader.       *)
Exact ==
    /\ read = Cardinality(Registered)
    /\ write = 1 <=> \E t \in Thread: pc[t] \in {"drain", "writing"}
    /\ \A t, u \in Thread:
         pc[t] \in {"drain", "writing"} /\ pc[u] \in {"drain", "writing"} => t = u

(* Writers go first: once a writer has taken the flag no reader gets in.   *)
NoReaderSlipsIn ==
    [][\A t \in Thread: pc[t] # "reading" /\ pc'[t] = "reading"
          => \A u \in Thread: pc[u] \notin {"drain", "writing"}]_vars

(* A writer that has taken the flag waits for a bounded number of steps:    *)
(* meanwhile every other thread only gets nearer to letting it in.  A reader *)
(* that has let it pass does not register again.                            *)
Distance(where) ==
    CASE where = "register" -> 3
      [] where = "check" -> 2
      [] where \in {"undo", "reading"} -> 1
      [] OTHER -> 0

WriterNears ==
    [][(\E t \in Thread: pc[t] = "drain" /\ pc'[t] = "drain") =>
         \A u \in Thread: pc'[u] # pc[u] => Distance(pc'[u]) < Distance(pc[u])]_vars
=============================================================================
