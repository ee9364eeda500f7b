--------------------------- MODULE WalletContract ---------------------------
(***************************************************************************)
(* What the wallet service promises, with every operation one atomic step: *)
(* a withdrawal leaves the platform and the user's funds together, once; a *)
(* deposit comes in once, after the chain has confirmed it; one that fails *)
(* has moved nothing.  The promise is for work that is not interrupted.    *)
(* Work that is may have paid out without taking the funds, and is done    *)
(* again once or not at all.  Wallet.tla shows that handlers, jobs and     *)
(* timers keep this, whatever interleaves and whatever fails.              *)
(***************************************************************************)
EXTENDS Integers

CONSTANTS Users, NoUser, Deposits, Withdrawals,
          Values,         \* amounts in dollars, as in the row of a transaction
          InitialBalance

VARIABLES
  deal,     \* every transaction: its stage, terms and whether its work was whole
  funds,    \* every user's money
  paid,     \* payouts of each withdrawal that the chain has seen
  moved,    \* how often each transaction has moved its user's funds
  chain     \* what the chain says of each deposit

contractVars == <<deal, funds, paid, moved, chain>>

All == Deposits \cup Withdrawals

\* Work is whole, or was broken off once to be done again, or is over for good.
Deal == [stage : {"none", "pending", "done", "failed"},
         user : Users \cup {NoUser}, amount : Values \cup {0},
         work : {"whole", "broken", "over"}]
NoDeal == [stage |-> "none", user |-> NoUser, amount |-> 0, work |-> "whole"]

MinDollars == 5

ContractInit ==
  /\ deal = [r \in All |-> NoDeal]
  /\ funds = [u \in Users |-> InitialBalance]
  /\ paid = [w \in Withdrawals |-> 0]
  /\ moved = [r \in All |-> 0]
  /\ chain = [d \in Deposits |-> "unconfirmed"]

\* How often work may be done from its beginning.
Runs(r) == IF deal[r].work = "whole" THEN 1 ELSE 2

Open(r, u, a) ==
  /\ deal[r] = NoDeal
  /\ r \in Withdrawals => a >= MinDollars
  /\ deal' = [deal EXCEPT ![r] = [stage |-> "pending", user |-> u, amount |-> a, work |-> "whole"]]
  /\ UNCHANGED <<funds, paid, moved, chain>>

\* The funds of r move by sign times its amount: the first time its work is
\* done, and again only when that was broken off.
Move(r, sign) ==
  /\ deal[r].stage # "none" /\ deal[r].work # "over"
  /\ deal[r].stage = "pending" \/ deal[r].work = "broken"
  /\ moved[r] < Runs(r)
  /\ deal' = [deal EXCEPT ![r].stage = "done"]
  /\ funds' = [funds EXCEPT ![deal[r].user] = @ + sign * deal[r].amount]
  /\ moved' = [moved EXCEPT ![r] = @ + 1]

Withdraw(w) ==
  /\ paid[w] < Runs(w)
  /\ Move(w, -1)
  /\ paid' = [paid EXCEPT ![w] = @ + 1]
  /\ UNCHANGED chain

Credit(d) ==
  /\ chain[d] = "valid"
  /\ Move(d, 1)
  /\ UNCHANGED <<paid, chain>>

\* Nothing has moved, on either side, unless the work was broken off.
Fail(r) ==
  /\ deal[r].stage = "pending" /\ deal[r].work # "over"
  /\ r \in Withdrawals /\ deal[r].work = "whole" => paid[r] = 0
  /\ deal' = [deal EXCEPT ![r].stage = "failed"]
  /\ UNCHANGED <<funds, paid, moved, chain>>

\* The work at the transactions in S is cut short: what was whole may be done
\* again, what was broken before may not.  Those in L have paid out without
\* taking the funds, each in the run that is cut short.
Interrupt(S, L, work) ==
  /\ \A r \in S : deal[r].work # "over" /\ (deal[r].work = "broken" => work[r] = "over")
  /\ \A w \in L : deal[w].stage # "none" /\ paid[w] < Runs(w)
  /\ deal' = [r \in All |-> IF r \in S THEN [deal[r] EXCEPT !.work = work[r]] ELSE deal[r]]
  /\ paid' = [w \in Withdrawals |-> IF w \in L THEN paid[w] + 1 ELSE paid[w]]
  /\ UNCHANGED <<funds, moved, chain>>

Confirm(d) ==
  /\ chain[d] = "unconfirmed"
  /\ \E c \in {"valid", "invalid"} : chain' = [chain EXCEPT ![d] = c]
  /\ UNCHANGED <<deal, funds, paid, moved>>

ContractNext ==
  \/ \E r \in All : Fail(r) \/ \E u \in Users, a \in Values : Open(r, u, a)
  \/ \E w \in Withdrawals : Withdraw(w)
  \/ \E d \in Deposits : Credit(d) \/ Confirm(d)
  \/ \E S \in SUBSET All, work \in [All -> {"broken", "over"}] :
       \E L \in SUBSET (S \cap Withdrawals) : Interrupt(S, L, work)

ContractSpec == ContractInit /\ [][ContractNext]_contractVars
=============================================================================
