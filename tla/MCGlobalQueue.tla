--------------------------- MODULE MCGlobalQueue ---------------------------
(* Instances of GlobalQueue for TLC. *)
EXTENDS GlobalQueue, TLC

Symmetric == Permutations(Thread) \cup Permutations(MQ)
=============================================================================
