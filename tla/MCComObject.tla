----------------------------- MODULE MCComObject ----------------------------
EXTENDS ComObject, TLC

Symmetric == Permutations(Threads) \cup Permutations(Objects)
=============================================================================
