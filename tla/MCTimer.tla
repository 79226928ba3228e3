------------------------------ MODULE MCTimer ------------------------------
(* The delays and the wheel that TLC explores. *)
EXTENDS Timer

Masks == [i \in 0..Levels |-> Near * Level^i]
Delays == {0, 1, 2, 3, 5, 7}
=============================================================================
