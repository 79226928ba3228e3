------------------------------ MODULE MCHandle ------------------------------
(* Instances of Handle for TLC. *)
EXTENDS Handle, TLC

Symmetric == Permutations(Ctx) \cup Permutations(Thread)
=============================================================================
