--------------------------- MODULE MCSharedLedger ---------------------------
EXTENDS SharedLedger, TLC

Symmetry == Permutations(Servers)
=============================================================================
