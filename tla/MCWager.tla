------------------------------ MODULE MCWager ------------------------------
EXTENDS Wager, TLC

Symmetry == Permutations(Users) \cup Permutations(Wagers) \cup Permutations(Reqs)
=============================================================================
