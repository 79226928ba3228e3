------------------------------- MODULE MCStart -------------------------------
EXTENDS Start, TLC

Symmetric == Permutations(Worker)
=============================================================================
