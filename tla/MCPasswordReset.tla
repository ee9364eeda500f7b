-------------------------- MODULE MCPasswordReset --------------------------
EXTENDS PasswordReset, TLC

Symmetry == Permutations(Emails) \cup Permutations(Reqs)
=============================================================================
