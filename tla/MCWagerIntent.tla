--------------------------- MODULE MCWagerIntent ---------------------------
EXTENDS WagerIntent, TLC

Symmetry == Permutations(Users) \cup Permutations(Wagers) \cup Permutations(Reqs)
=============================================================================
