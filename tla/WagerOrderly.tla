---------------------------- MODULE WagerOrderly ----------------------------
(***************************************************************************)
(* The wager service used in an orderly way.  The handlers are those of    *)
(* Wager.tla; what is restricted is when requests arrive and when the      *)
(* timer fires:                                                            *)
(*   - the requests about one wager come one at a time, and none while its *)
(*     settle-wager job runs, nor does the job start during a request;     *)
(*   - a user has one staking request at a time;                           *)
(*   - a request is made in the stage it is meant for: a claim, acceptance *)
(*     or contest when the wager is ACTIVE, a resolution in a DISPUTE.     *)
(* The code enforces none of this (the violation runs of Wager.tla show    *)
(* what happens without it).  Under it the handlers keep WagerContract.    *)
(***************************************************************************)
EXTENDS Wager, Functions

\* The tables are finite.
ASSUME FiniteTables == IsFiniteSet(Users) /\ IsFiniteSet(Wagers)

\* No handler and no job is working on w.
Quiet(w) ==
  /\ \A r \in Reqs : req[r].pc \in Steps => req[r].wager # w
  /\ settleJob[w].state \notin ActiveStates

\* No handler is about to check or debit the stake of u.
NotStaking(u) ==
  \A r \in Reqs : req[r].pc \in {"insert", "debitCreator", "checkFunds",
                                 "joinRow", "debitJoiner"} => req[r].user # u

OrderlySent(r) ==
  \/ \E u \in Users, a \in Amounts, t \in Terms :
       NotStaking(u) /\ CreateWager(r, u, a, t)
  \/ \E w \in Wagers :
       /\ Quiet(w)
       /\ \/ /\ row[w].status = "PENDING"
             /\ \E u \in Users :
                  \/ NotStaking(u) /\ JoinWager(r, u, w)
                  \/ DeleteWager(r, u, w)
                  \/ \E t \in Terms : UpdateWager(r, u, w, t)
          \/ row[w].status = "ACTIVE" /\ \E u \in Users : ClaimWager(r, u, w)
          \/ /\ row[w].status = "ACTIVE" /\ row[w].winner # NoUser
             /\ AcceptClaim(r, w) \/ ContestClaim(r, w)
          \/ /\ row[w].status = "DISPUTE"
             /\ \E u \in {row[w].playerOne, row[w].playerTwo} :
                  ResolveDispute(r, u, w)

OrderlyTimer(w) == Quiet(w) /\ StartSettle(w)

OrderlyNext ==
  \/ \E r \in Reqs : OrderlySent(r) \/ Resumes(r)
  \/ \E w \in Wagers : OrderlyTimer(w) \/ Works(w)

\* Handlers that have started get on with it, since every call they await
\* returns; a due job is picked up, and the worker goes through with it.
OrderlySpec ==
  /\ Init
  /\ [][OrderlyNext]_vars
  /\ \A r \in Reqs : WF_vars(Resumes(r))
  /\ \A w \in Wagers : WF_vars(OrderlyTimer(w)) /\ WF_vars(Works(w))

-----------------------------------------------------------------------------

Pending(w, pcs) == \E r \in Reqs : req[r].pc \in pcs /\ req[r].wager = w

\* The stage of a wager moves with the money: a seat is taken when its debit is
\* done, and the prize is awarded when the credit is.
StageOf(w) ==
  CASE row[w].status = "none"    -> "none"
    [] row[w].status = "PENDING" ->
         IF Pending(w, {"debitCreator"}) THEN "none" ELSE "open"
    [] row[w].status = "ACTIVE"  ->
         IF Pending(w, {"debitJoiner"}) THEN "open"
         ELSE IF row[w].winner = NoUser THEN "matched" ELSE "claimed"
    [] row[w].status = "DISPUTE" -> "disputed"
    [] row[w].status = "SETTLED" ->
         IF Pending(w, {"creditResolved"}) THEN "disputed"
         ELSE IF Pending(w, {"creditWinner"}) \/ settleJob[w].state = "crediting"
              THEN "claimed" ELSE "settled"
    [] row[w].status = "deleted" -> "void"

DealOf(w) ==
  LET stage == StageOf(w)
  IN  [stage     |-> stage,
       amount    |-> IF stage = "none" THEN 0 ELSE row[w].amount,
       playerOne |-> IF stage = "none" THEN NoUser ELSE row[w].playerOne,
       playerTwo |-> IF stage \in {"none", "open"} THEN NoUser ELSE row[w].playerTwo,
       claimants |-> {u \in Users : \/ <<w, u>> \in notices
                                    \/ row[w].status = "ACTIVE" /\ row[w].winner = u}]

Contract == INSTANCE WagerContract
              WITH deal <- [w \in Wagers |-> DealOf(w)], funds <- balance

\* Used in an orderly way, the handlers of the wager service implement the
\* contract: every one of their steps is a step of it or leaves it unchanged.
KeepsContract == Contract!ContractSpec

\* No user's balance goes below zero: the funds a handler checked are still
\* there when it comes to the debit.
NoOverdraft == \A u \in Users : balance[u] >= 0

\* Every dollar is in a balance or in the pot of a wager; what stays in the pot
\* of a settled or deleted wager is the platform's, and it is never negative.
MoneyConserved ==
  /\ SumFunctionOnSet(balance, Users)
       + SumFunctionOnSet([w \in Wagers |-> Contract!Pot(w)], Wagers)
     = InitialBalance * Cardinality(Users)
  /\ \A w \in Wagers : Contract!Pot(w) >= 0

\* "This wager has already been settled!" (claimWager, acceptWagerClaim,
\* contestWagerClaim): the prize of a wager is paid out at most once.  True in
\* orderly use; two acceptances that overlap break it.
PrizePaidOnce ==
  \A w \in Wagers : row[w].status # "none" =>
    SumFunctionOnSet(paid[w], Users) <= Prize(row[w].amount)

\* A claim does not stay open: its timer fires unless the opponent accepts it
\* or opens a dispute first, also when both players claim.
ClaimsEnd ==
  \A w \in Wagers :
    (row[w].status = "ACTIVE" /\ row[w].winner # NoUser)
      ~> (row[w].status \in {"SETTLED", "DISPUTE"})

\* A wager whose status is SETTLED ends with its prize in one balance.
SettledEndsPaid ==
  \A w \in Wagers :
    (row[w].status = "SETTLED") ~> (\E u \in Users : paid[w][u] = Prize(row[w].amount))
=============================================================================
