---------------------------- MODULE WagerContract ----------------------------
(***************************************************************************)
(* What the wager service promises its players, with every operation one   *)
(* atomic step: a stake is taken when a seat is, the prize is paid once,   *)
(* to one of the two players, and only to a player who claimed it unless   *)
(* a dispute was opened.  WagerOrderly.tla shows when the handlers of      *)
(* apps/wager keep this promise.                                           *)
(***************************************************************************)
EXTENDS FeeSchedule

CONSTANTS Users, NoUser, Wagers, Amounts, InitialBalance

VARIABLES
  deal,    \* every wager: its stage, prize, players and claimants
  funds    \* every user's money

dealVars == <<deal, funds>>

Stages == {"none", "open", "matched", "claimed", "disputed", "settled", "void"}

Deal == [stage     : Stages,
         amount    : Amounts \cup {0},
         playerOne : Users \cup {NoUser},
         playerTwo : Users \cup {NoUser},
         claimants : SUBSET Users]

NoDeal == [stage |-> "none", amount |-> 0, playerOne |-> NoUser,
           playerTwo |-> NoUser, claimants |-> {}]

ContractInit ==
  /\ deal = [w \in Wagers |-> NoDeal]
  /\ funds = [u \in Users |-> InitialBalance]

Players(w) == {deal[w].playerOne, deal[w].playerTwo}

TakeStake(u, a) ==
  /\ Affordable(a, funds[u])
  /\ funds' = [funds EXCEPT ![u] = @ - StakeDebit(a)]

Open(u, w, a) ==
  /\ deal[w].stage = "none"
  /\ TakeStake(u, a)
  /\ deal' = [deal EXCEPT ![w] = [NoDeal EXCEPT !.stage = "open",
                                                !.amount = a,
                                                !.playerOne = u]]

Match(u, w) ==
  /\ deal[w].stage = "open"
  /\ u # deal[w].playerOne
  /\ TakeStake(u, deal[w].amount)
  /\ deal' = [deal EXCEPT ![w].stage = "matched", ![w].playerTwo = u]

\* The creator deletes an open wager; the stake is forfeited.
Void(w) ==
  /\ deal[w].stage = "open"
  /\ deal' = [deal EXCEPT ![w].stage = "void"]
  /\ UNCHANGED funds

Claim(u, w) ==
  /\ deal[w].stage \in {"matched", "claimed"}
  /\ u \in Players(w)
  /\ deal' = [deal EXCEPT ![w].stage = "claimed",
                          ![w].claimants = @ \cup {u}]
  /\ UNCHANGED funds

Dispute(w) ==
  /\ deal[w].stage = "claimed"
  /\ deal' = [deal EXCEPT ![w].stage = "disputed"]
  /\ UNCHANGED funds

Award(u, w) ==
  /\ \/ deal[w].stage = "claimed" /\ u \in deal[w].claimants
     \/ deal[w].stage = "disputed" /\ u \in Players(w)
  /\ deal' = [deal EXCEPT ![w].stage = "settled"]
  /\ funds' = [funds EXCEPT ![u] = @ + Prize(deal[w].amount)]

ContractNext ==
  \E w \in Wagers :
    \/ \E u \in Users :
         \/ \E a \in Amounts : Open(u, w, a)
         \/ Match(u, w) \/ Claim(u, w) \/ Award(u, w)
    \/ Void(w) \/ Dispute(w)

ContractSpec == ContractInit /\ [][ContractNext]_dealVars

-----------------------------------------------------------------------------

\* What the service holds for a wager: the stakes taken and not paid out.
Pot(w) ==
  LET stake == StakeDebit(deal[w].amount)
  IN  CASE deal[w].stage = "none" -> 0
        [] deal[w].stage \in {"open", "void"} -> stake
        [] deal[w].stage = "settled" -> 2 * stake - Prize(deal[w].amount)
        [] OTHER -> 2 * stake
=============================================================================
