------------------------------- MODULE Handle -------------------------------
(***************************************************************************)
(* skynet_handle.c: the table that gives services their handles and names. *)
(*                                                                         *)
(* A function that holds the table's lock is one step (module RWLock shows *)
(* that writers exclude each other and readers).  Two things happen        *)
(* outside the lock: skynet_handle_register writes the handle into the     *)
(* service after it unlocked, and skynet_handle_retireall reads the handle *)
(* of a service it saw in the table a moment before.  In between everybody *)
(* else may use the table.                                                 *)
(*                                                                         *)
(* A service's memory is recycled: Ctx are the places malloc hands out,    *)
(* and what a place holds before it is written is any number.              *)
(***************************************************************************)
EXTENDS Integers, Sequences, FiniteSets

CONSTANTS Ctx, Thread,
          Mask,       \* HANDLE_MASK
          SlotSize,   \* DEFAULT_SLOT_SIZE
          Name,       \* names of services, numbers in the order of strcmp
          None,
          MaxRegister \* bound: services registered

HandleOf == 0..Mask

(* The sizes of the table are powers of two, as Mask + 1 is. *)
ASSUME HandleAssumption ==
    /\ Mask \in Nat /\ SlotSize \in Nat \ {0} /\ SlotSize <= Mask + 1
    /\ Name \subseteq Nat /\ MaxRegister \in Nat
    /\ None \notin Ctx
    /\ IsFiniteSet(Thread)
    /\ (Mask + 1) % SlotSize = 0
    /\ \A size \in 1..Mask+1:
         size % SlotSize = 0 /\ (Mask + 1) % size = 0 /\ 2 * size <= Mask + 1
         => (Mask + 1) % (2 * size) = 0

VARIABLES
    slot,         \* the array of struct handle_storage; its domain is slot_size
    handle_index,
    name,         \* the array name: records, in the order of their names
    handle,       \* handle[c]: the field of struct skynet_context
    ref,          \* ref[c]: its reference count; 0 when the memory is free
    pc,           \* what each thread is doing
    ctx,          \* the service the thread works on
    new,          \* the handle it got for it
    i, n,         \* the locals of skynet_handle_retireall
    registered,   \* services registered so far
    moved         \* history: the services that the last growth of the table
                  \* has placed by a handle they had not been given

table  == <<slot, handle_index, name>>
thread == <<pc, ctx, new, i, n>>
vars   == <<table, handle, ref, thread, registered, moved>>

slot_size == Cardinality(DOMAIN slot)
Hash(h, size) == h % size

(* skynet_handle_init *)
Init ==
    /\ slot = [s \in 0..SlotSize-1 |-> None]
    /\ handle_index = 1
    /\ name = <<>>
    /\ handle = [c \in Ctx |-> 0]
    /\ ref = [c \in Ctx |-> 0]
    /\ pc = [t \in Thread |-> "idle"]
    /\ ctx = [t \in Thread |-> None]
    /\ new = [t \in Thread |-> 0]
    /\ i = [t \in Thread |-> 0]
    /\ n = [t \in Thread |-> 0]
    /\ registered = 0 /\ moved = {}

(* The services that are between registration and skynet_context_init. *)
Newcomers == {ctx[t] : t \in {u \in Thread : pc[u] = "init"}}

-----------------------------------------------------------------------------
(* The handle of the first free slot of table s, from handle_index on.     *)
FreeHandle(s) ==
    LET size == Cardinality(DOMAIN s)
        Try(k) == (k + handle_index) % (Mask + 1)
        Free == {k \in 0..size-1 : s[Hash(Try(k), size)] = None}
    IN Try(CHOOSE k \in Free: \A l \in Free: k <= l)

Full == \A s \in DOMAIN slot: slot[s] # None

NewSlotOld(s) == Hash(handle[slot[s]], slot_size)

(* Every service of a full table gets the slot of its handle in a table of *)
(* double size; the code asserts that no two get the same.                 *)
NewSlot(s) == Hash(handle[slot[s]], 2 * slot_size)
NoClash == \A s, u \in DOMAIN slot: s # u => NewSlot(s) # NewSlot(u)
Doubled == [k \in 0..2*slot_size-1 |->
              IF \E s \in DOMAIN slot: NewSlot(s) = k
              THEN slot[CHOOSE s \in DOMAIN slot: NewSlot(s) = k]
              ELSE None]

(* skynet_handle_register up to the unlock, where its assertions hold. *)
Register(t) ==
    /\ pc[t] = "idle" /\ registered < MaxRegister
    /\ Full => 2 * slot_size - 1 <= Mask /\ NoClash
    /\ LET s == IF Full THEN Doubled ELSE slot
           h == FreeHandle(s)
       IN \E c \in Ctx, garbage \in HandleOf:
          /\ ref[c] = 0
          /\ slot' = [s EXCEPT ![Hash(h, Cardinality(DOMAIN s))] = c]
          /\ handle_index' = h + 1
          /\ new' = [new EXCEPT ![t] = h]
          /\ ctx' = [ctx EXCEPT ![t] = c]
          /\ handle' = [handle EXCEPT ![c] = garbage]
          /\ ref' = [ref EXCEPT ![c] = 2]
          /\ moved' = (IF Full THEN Newcomers ELSE moved) \ {c}
    /\ pc' = [pc EXCEPT ![t] = "init"]
    /\ registered' = registered + 1
    /\ UNCHANGED <<name, i, n>>

(* skynet_context_init *)
ContextInit(t) ==
    /\ pc[t] = "init"
    /\ handle' = [handle EXCEPT ![ctx[t]] = new[t]]
    /\ pc' = [pc EXCEPT ![t] = "use"]
    /\ UNCHANGED <<table, ref, ctx, new, i, n, registered, moved>>

(* skynet_handle_grab *)
Found(h) == LET c == slot[Hash(h, slot_size)]
            IN IF c # None /\ handle[c] = h THEN c ELSE None

Grab(t) ==
    /\ pc[t] = "idle"
    /\ \E h \in HandleOf:
       /\ Found(h) # None
       /\ ref' = [ref EXCEPT ![Found(h)] = @ + 1]
       /\ ctx' = [ctx EXCEPT ![t] = Found(h)]
    /\ pc' = [pc EXCEPT ![t] = "use"]
    /\ UNCHANGED <<table, handle, new, i, n, registered, moved>>

(* The user of a service gives up its reference. *)
Release(t) ==
    /\ pc[t] = "use"
    /\ ref' = [ref EXCEPT ![ctx[t]] = @ - 1]
    /\ pc' = [pc EXCEPT ![t] = "idle"]
    /\ ctx' = [ctx EXCEPT ![t] = None]
    /\ UNCHANGED <<table, handle, new, i, n, registered, moved>>

RetireKeepsNames(h) ==
    IF Found(h) # None
    THEN /\ ref' = [ref EXCEPT ![Found(h)] = @ - 1]
         /\ slot' = [slot EXCEPT ![Hash(h, slot_size)] = None]
         /\ UNCHANGED name
    ELSE UNCHANGED <<ref, slot, name>>

(* The members of list at the positions at, in their order. *)
Sublist(list, at) ==
    [k \in 1..Cardinality(at) |->
       list[CHOOSE j \in at: Cardinality({l \in at : l <= j}) = k]]

(* skynet_handle_retire *)
RetireHandle(h) ==
    IF Found(h) # None
    THEN /\ ref' = [ref EXCEPT ![Found(h)] = @ - 1]
         /\ slot' = [slot EXCEPT ![Hash(h, slot_size)] = None]
         /\ name' = Sublist(name, {k \in DOMAIN name : name[k].handle # h})
    ELSE UNCHANGED <<ref, slot, name>>

Retire(t) ==
    /\ pc[t] = "idle"
    /\ \E h \in HandleOf: RetireHandle(h)
    /\ UNCHANGED <<handle_index, handle, thread, registered, moved>>

-----------------------------------------------------------------------------
Spans == (0..Len(name)) \X (-1..Len(name)-1)

SearchShort(x) ==
    LET find[span \in Spans] ==
          LET begin == span[1]
              end   == span[2]
              mid   == (begin + end) \div 2
              y     == name[mid + 1].name
          IN IF begin >= end THEN [found |-> FALSE, at |-> begin]
             ELSE IF y = x THEN [found |-> TRUE, at |-> mid]
             ELSE IF y < x THEN find[<<mid + 1, end>>]
             ELSE find[<<begin, mid - 1>>]
    IN find[<<0, Len(name) - 1>>]

(* The binary search of skynet_handle_findname and _insert_name between    *)
(* begin and end: the index of x, or the place before which it belongs.    *)
Search(x) ==
    LET find[span \in Spans] ==
          LET begin == span[1]
              end   == span[2]
              mid   == (begin + end) \div 2
              y     == name[mid + 1].name
          IN IF begin > end THEN [found |-> FALSE, at |-> begin]
             ELSE IF y = x THEN [found |-> TRUE, at |-> mid]
             ELSE IF y < x THEN find[<<mid + 1, end>>]
             ELSE find[<<begin, mid - 1>>]
    IN find[<<0, Len(name) - 1>>]

(* skynet_handle_findname *)
FindName(x) == IF Search(x).found THEN name[Search(x).at + 1].handle ELSE 0

(* _insert_name_before, whether or not the array grows *)
InsertBefore(r, before) ==
    SubSeq(name, 1, before) \o <<r>> \o SubSeq(name, before + 1, Len(name))

(* skynet_handle_namehandle, by command REG of a service that runs: a      *)
(* newcomer has no callback yet.                                           *)
NameHandle(t) ==
    /\ pc[t] = "use" /\ ctx[t] \notin Newcomers
    /\ \E x \in Name:
       /\ ~Search(x).found
       /\ name' = InsertBefore([name |-> x, handle |-> handle[ctx[t]]], Search(x).at)
    /\ UNCHANGED <<slot, handle_index, handle, ref, thread, registered, moved>>

-----------------------------------------------------------------------------
(* skynet_handle_retireall *)
AbortStart(t) ==
    /\ pc[t] = "idle"
    /\ pc' = [pc EXCEPT ![t] = "scan"]
    /\ i' = [i EXCEPT ![t] = 0]
    /\ n' = [n EXCEPT ![t] = 0]
    /\ UNCHANGED <<table, handle, ref, ctx, new, registered, moved>>

AbortLook(t) ==
    /\ pc[t] = "scan" /\ i[t] < slot_size
    /\ IF slot[i[t]] = None
       THEN i' = [i EXCEPT ![t] = @ + 1] /\ UNCHANGED <<pc, ctx, n>>
       ELSE /\ n' = [n EXCEPT ![t] = 1]
            /\ pc' = [pc EXCEPT ![t] = "retire"]
            /\ ctx' = [ctx EXCEPT ![t] = slot[i[t]]]
            /\ UNCHANGED i
    /\ UNCHANGED <<table, handle, ref, new, registered, moved>>

(* The service may be freed by now, and its memory anything. *)
AbortRetire(t) ==
    /\ pc[t] = "retire"
    /\ \E h \in IF ref[ctx[t]] = 0 THEN HandleOf ELSE {handle[ctx[t]]}:
           RetireHandle(h)
    /\ pc' = [pc EXCEPT ![t] = "scan"]
    /\ ctx' = [ctx EXCEPT ![t] = None]
    /\ i' = [i EXCEPT ![t] = @ + 1]
    /\ UNCHANGED <<handle_index, handle, new, n, registered, moved>>

AbortRound(t) ==
    /\ pc[t] = "scan" /\ i[t] >= slot_size
    /\ i' = [i EXCEPT ![t] = 0]
    /\ n' = [n EXCEPT ![t] = 0]
    /\ pc' = [pc EXCEPT ![t] = IF n[t] = 0 THEN "idle" ELSE "scan"]
    /\ UNCHANGED <<table, handle, ref, ctx, new, registered, moved>>

-----------------------------------------------------------------------------
GoOn(t) == ContextInit(t) \/ Release(t) \/ AbortLook(t) \/ AbortRetire(t) \/ AbortRound(t)

Next ==
    \E t \in Thread:
        Register(t) \/ Grab(t) \/ Retire(t) \/ NameHandle(t) \/ AbortStart(t) \/ GoOn(t)

Spec == Init /\ [][Next]_vars

-----------------------------------------------------------------------------
InTable(c) == \E s \in DOMAIN slot: slot[s] = c
Ready(c) == InTable(c) /\ c \notin Newcomers

TypeOK ==
    /\ slot_size \in 1..Mask+1
    /\ slot \in [0..slot_size-1 -> Ctx \cup {None}]
    /\ handle_index \in 1..Mask+1
    /\ name \in Seq([name: Name, handle: HandleOf])
    /\ handle \in [Ctx -> HandleOf]
    /\ ref \in [Ctx -> Nat]
    /\ pc \in [Thread -> {"idle", "init", "use", "scan", "retire"}]
    /\ ctx \in [Thread -> Ctx \cup {None}]
    /\ new \in [Thread -> HandleOf]
    /\ i \in [Thread -> 0..Mask+1] /\ n \in [Thread -> {0, 1}]
    /\ moved \subseteq Ctx

(* The assertion of skynet_handle_register: when the table grows, no two   *)
(* services are put into the same slot.                                    *)
GrowsWithoutClash == Full /\ (\E t \in Thread: pc[t] = "idle") => NoClash

(* A registered service is found under its handle, wherever the wraps of   *)
(* handle_index and the growth of the table have put it, and growing again *)
(* would not put it on another one.  What others do to the table while it  *)
(* waits for its handle does no harm to it unless the table grows then.    *)
Settled == \A c \in Ctx: InTable(c) => Ready(c) /\ c \notin moved
Reachable ==
    /\ TypeOK
    /\ Full /\ Settled => NoClash
    /\ \A c \in Ctx: Ready(c) /\ c \notin moved => Found(handle[c]) = c

(* A binary search over the names finds what a linear search finds.        *)
FindsNames ==
    \A x \in Name:
       FindName(x) = IF \E k \in DOMAIN name: name[k].name = x
                     THEN (CHOOSE r \in {name[k] : k \in DOMAIN name} : r.name = x).handle
                     ELSE 0

(* The service of a handle, once it has been given it; the handle of a     *)
(* name.                                                                   *)
Lookup(list, x) ==
    IF \E k \in DOMAIN list: list[k].name = x
    THEN (CHOOSE r \in {list[k] : k \in DOMAIN list} : r.name = x).handle
    ELSE None

Bound == [h \in HandleOf |-> IF Found(h) \in Newcomers THEN None ELSE Found(h)]
Named == [x \in Name |-> Lookup(name, x)]

(* The table implements Directory.                                         *)
Dir == INSTANCE Directory WITH bound <- Bound, named <- Named
ImplementsDirectory == Dir!Spec
=============================================================================
