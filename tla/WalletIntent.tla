---------------------------- MODULE WalletIntent ----------------------------
(***************************************************************************)
(* What the comments and messages of the wallet service say of deposits    *)
(* and withdrawals, as properties of Wallet.tla.  TLC finds each of them   *)
(* violated.                                                               *)
(***************************************************************************)
EXTENDS Wallet

\* "Store idempotency key to prevent similar withdrawal attempts within the
\* next 15 mins" (processWithdrawal): while a key is stored, no transaction is
\* created for another request with that key.
KeyPreventsRepeat ==
  [][\A w \in Withdrawals :
       tx[w].status = "none" /\ tx'[w].status # "none"
         => keys[req[w].key] = "absent"]_vars

\* "Retry pending transaction after 30 seconds" (processDeposit): a deposit
\* whose retry was scheduled is looked up again, and decided in the end.
RetriesAreMade ==
  \A d \in Deposits :
    (tx[d].status = "PENDING" /\ tx[d].retries > 0) ~> (tx[d].status # "PENDING")
=============================================================================
