----------------------------- MODULE Directory -----------------------------
(* What the handle table promises: a handle names one live service until   *)
(* it is retired, and a name one handle.                                   *)
CONSTANTS Ctx, HandleOf, Name, None

VARIABLES bound,   \* bound[h]: the service of handle h, or None
          named    \* named[n]: the handle of name n, or None

vars == <<bound, named>>

Init ==
    /\ bound = [h \in HandleOf |-> None]
    /\ named = [n \in Name |-> None]

(* Services get handles that nobody has, usually one service at a time.    *)
Register ==
    /\ bound' \in [HandleOf -> Ctx \cup {None}]
    /\ \A h \in HandleOf: bound[h] # None => bound'[h] = bound[h]
    /\ \A g, h \in HandleOf: bound'[g] = bound'[h] /\ bound'[g] # None => g = h
    /\ UNCHANGED named

(* The names of a handle go with it. *)
Retire(h) ==
    /\ bound' = [bound EXCEPT ![h] = None]
    /\ named' = [n \in Name |-> IF named[n] = h THEN None ELSE named[n]]

(* A name that is taken stays with its handle. *)
NameHandle(h, n) ==
    /\ named[n] = None
    /\ named' = [named EXCEPT ![n] = h]
    /\ UNCHANGED bound

Next ==
    \/ Register
    \/ \E h \in HandleOf: Retire(h) \/ \E n \in Name: NameHandle(h, n)

Spec == Init /\ [][Next]_vars
=============================================================================
