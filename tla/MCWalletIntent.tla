--------------------------- MODULE MCWalletIntent ---------------------------
EXTENDS WalletIntent, TLC

Symmetry == Permutations(Withdrawals) \cup Permutations(Keys)
=============================================================================
