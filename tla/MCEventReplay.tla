--------------------------- MODULE MCEventReplay ---------------------------
EXTENDS EventReplay, TLC

Symmetry == Permutations(Txns)
=============================================================================
