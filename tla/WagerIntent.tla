---------------------------- MODULE WagerIntent ----------------------------
(***************************************************************************)
(* What the messages and comments of wager.service.ts say of a wager, as   *)
(* properties of the handlers of Wager.tla when their requests may         *)
(* interleave and come in any order, as the service lets them.  TLC finds  *)
(* each of them violated.                                                  *)
(***************************************************************************)
EXTENDS WagerOrderly

\* The players' requests and the timer, with no fault and no admin.
PlayersNext ==
  \/ \E r \in Reqs : PlayerSent(r) \/ Resumes(r)
  \/ \E w \in Wagers : StartSettle(w) \/ Works(w)

PlayersSpec == Init /\ [][PlayersNext]_vars

\* "Store the claimant as the winner temporarily until the opponent takes
\* action within 24 hours" (claimWager): when the timer settles a wager, it
\* pays the user the row names as its winner (violated even in orderly use).
TimerPaysStoredWinner ==
  \A w \in Wagers :
    (settleJob[w].state = "crediting" /\ row[w].status = "SETTLED") =>
       settleJob[w].claimant = row[w].winner
=============================================================================
