---------------------------- MODULE MCDelivery ----------------------------
EXTENDS SessionSystem, TLC
Symmetric == Permutations(Conns) \cup Permutations(Members)
=============================================================================
