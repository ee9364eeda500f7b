------------------------------ MODULE MCWallet ------------------------------
\* One user, one key and one amount or two are in the configurations.  Liveness
\* is checked in both, so there is no symmetry set.
EXTENDS Wallet
=============================================================================
