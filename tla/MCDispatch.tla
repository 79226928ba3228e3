----------------------------- MODULE MCDispatch -----------------------------
(* Instances of Dispatch for TLC: which services skynet_start launched.    *)
EXTENDS Dispatch, TLC

CONSTANTS a, b

BootA  == <<a>>
BootAB == <<a, b>>

WorkerSymmetry == Permutations(Worker)
=============================================================================
