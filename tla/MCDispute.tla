----------------------------- MODULE MCDispute -----------------------------
EXTENDS Dispute, TLC

Symmetry == Permutations(Jobs) \cup Permutations(Signups) \cup Permutations(Wagers)
=============================================================================
