---------------------------- MODULE AbstractTimer ----------------------------
(* What the timer promises: an event asked for with delay d fires at the   *)
(* d-th tick from then, once, and events of the same tick fire in the      *)
(* order in which they were asked for.                                     *)
EXTENDS Integers, Sequences, FiniteSets

CONSTANTS Delay, MaxEvent

VARIABLES now,      \* the ticks so far
          asked,    \* how many events were asked for; an event is its number
          pending,  \* the events that have not fired: records id, expire
          fired     \* the events that fired, in order

vars == <<now, asked, pending, fired>>

Init == now = 0 /\ asked = 0 /\ pending = {} /\ fired = <<>>

Ask(d) ==
    /\ asked < MaxEvent
    /\ asked' = asked + 1
    /\ IF d = 0
       THEN /\ fired' = Append(fired, asked + 1)
            /\ UNCHANGED pending
       ELSE /\ pending' = pending \cup {[id |-> asked + 1, expire |-> now + d]}
            /\ UNCHANGED fired
    /\ UNCHANGED now

Due == {e \in pending : e.expire = now + 1}

(* The events of a set in the order of their numbers. *)
Sorted(S) == {s \in [1..Cardinality(S) -> S] :
                \A i, j \in 1..Cardinality(S): i < j => s[i] < s[j]}

Tick ==
    /\ now' = now + 1
    /\ pending' = pending \ Due
    /\ \E s \in Sorted({e.id : e \in Due}): fired' = fired \o s
    /\ UNCHANGED asked

Next == Tick \/ \E d \in Delay: Ask(d)

Spec == Init /\ [][Next]_vars
=============================================================================
