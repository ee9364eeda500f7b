----------------------------- MODULE MCAccounts -----------------------------
EXTENDS Accounts, TLC

Symmetry == Permutations(Reqs) \cup Permutations(Emails) \cup Permutations(Names)
              \cup Permutations(Members) \cup Permutations(Ids \ Members)
=============================================================================
