------------------------- MODULE WagerOrderlyProofs -------------------------
(***************************************************************************)
(* Used in an orderly way the wager service keeps its contract, for any    *)
(* number of users, wagers and requests: every step of a handler or a job  *)
(* is one step of WagerContract, or changes nothing that it speaks of.     *)
(*                                                                         *)
(* The invariant says what orderly use is good for: one handler or job at  *)
(* a wager, which therefore finds the wager in the stage it was meant for, *)
(* and one staking handler per user, which finds the funds it checked.     *)
(***************************************************************************)
EXTENDS WagerOrderly, WagerProofs

\* The handler of r is working on the wager w.
Busy(r, w) == req[r].pc \in Steps /\ req[r].wager = w

Alone(w) == \A r, s \in Reqs : Busy(r, w) /\ Busy(s, w) => r = s

\* The stage of w in which a handler stops before its step, and what it has found
\* out about w by then.
Meant(r, w) ==
  LET q == req[r]
      x == row[w]
  IN  /\ q.pc # "insert"   \* which has no wager yet
      /\ q.pc \in {"debitCreator", "checkFunds", "joinRow", "updateRow", "deleteRow"} =>
           x.status = "PENDING"
      /\ q.pc \in {"debitJoiner", "setWinner", "notify", "schedule", "acceptUnschedule",
                   "acceptRow", "contestUnschedule", "contestRow"} => x.status = "ACTIVE"
      /\ q.pc \in {"queueContest", "resolveRow"} => x.status = "DISPUTE"
      /\ q.pc \in {"creditWinner", "creditResolved"} => x.status = "SETTLED"
      /\ q.pc = "debitCreator" => x.playerOne = q.user
      /\ q.pc = "debitJoiner" => x.playerTwo = q.user /\ x.winner = NoUser
      /\ q.pc \in {"setWinner", "resolveRow", "creditResolved"} =>
           q.user \in {x.playerOne, x.playerTwo}
      /\ q.pc \in {"notify", "schedule"} => x.winner = q.user
      /\ q.pc \in {"acceptUnschedule", "acceptRow", "contestUnschedule", "contestRow"} =>
           x.winner # NoUser
      /\ q.pc \in {"acceptUnschedule", "acceptRow"} => q.seen.winner = x.winner
      /\ q.pc = "creditWinner" => <<w, q.seen.winner>> \in notices
      /\ q.pc \in {"acceptRow", "contestRow"} => settleJob[w].state = "none"

\* The notices, the timer and the winner of w are those of its stage.
InStage(w) ==
  /\ row[w].status \in {"none", "PENDING", "deleted"} =>
       \A u \in Users : <<w, u>> \notin notices
  /\ row[w].status = "PENDING" =>
       row[w].playerTwo = NoUser /\ row[w].winner = NoUser
  /\ row[w].status = "ACTIVE" /\ row[w].winner # NoUser =>
       \/ <<w, row[w].winner>> \in notices
       \/ \E r \in Reqs : req[r].pc = "notify" /\ req[r].wager = w
  /\ row[w].status = "DISPUTE" => row[w].playerTwo # NoUser
  /\ settleJob[w].state \in {"queued", "settling"} =>
       row[w].status = "ACTIVE" /\ row[w].winner # NoUser
  /\ settleJob[w].state \in {"crediting", "mailing", "completed", "failed"} =>
       row[w].status = "SETTLED"

InLine(w) ==
  /\ Alone(w)
  /\ InStage(w)
  /\ \A r \in Reqs : Busy(r, w) => Meant(r, w) /\ settleJob[w].state \notin ActiveStates

\* The steps between the check of a stake and its debit, or before the check.
Staking == {"insert", "debitCreator", "checkFunds", "joinRow", "debitJoiner"}

\* A user stakes with one handler at a time, so what it checked is still there.
OneStake ==
  \A r, s \in Reqs :
    req[r].pc \in Staking /\ req[s].pc \in Staking /\ req[r].user = req[s].user => r = s

Funded ==
  \A r \in Reqs : req[r].pc \in Staking \ {"checkFunds"} =>
    Affordable(req[r].seen.amount, balance[req[r].user])

OInv ==
  /\ IInv
  /\ lost = {}
  /\ \A w \in Wagers : InLine(w)
  /\ OneStake /\ Funded /\ NoOverdraft

-----------------------------------------------------------------------------
(* What a step at one wager leaves alone.                                  *)

\* Nothing that is kept of v changes.
SameWager(v) ==
  /\ row'[v] = row[v] /\ settleJob'[v] = settleJob[v]
  /\ \A u \in Users \cup {NoUser} : <<v, u>> \in notices' <=> <<v, u>> \in notices

\* Whoever moves, it is not at v.
Elsewhere(v) ==
  \A s \in Reqs : req'[s] = req[s] \/ (~Busy(s, v) /\ ~Busy(s, v)')

LEMMA OthersInLine ==
  ASSUME TypeOK, NEW v \in Wagers, InLine(v), SameWager(v), Elsewhere(v)
  PROVE  InLine(v)'
<1> USE DEF Busy
<1>1. Alone(v)'
  <2>1. \A s \in Reqs : Busy(s, v)' => Busy(s, v)
    BY DEF Elsewhere
  <2> QED BY <2>1 DEF InLine, Alone
<1>2. InStage(v)'
  <2>1. row[v].winner \in Users \cup {NoUser}
    BY DEF TypeOK, Row
  <2>2. ASSUME NEW r \in Reqs, req[r].pc = "notify", req[r].wager = v
        PROVE  req'[r] = req[r]
    BY <2>2 DEF Elsewhere, Busy, Steps
  <2> QED BY <2>1, <2>2 DEF InLine, InStage, SameWager
<1>3. ASSUME NEW r \in Reqs, Busy(r, v)'
      PROVE  Meant(r, v)' /\ settleJob'[v].state \notin ActiveStates
  <2>1. req'[r] = req[r] /\ Busy(r, v)
    BY <1>3 DEF Elsewhere, Busy
  <2>2. Meant(r, v) /\ settleJob[v].state \notin ActiveStates
    BY <2>1 DEF InLine
  <2>3. req[r].seen.winner \in Users \cup {NoUser}
    BY DEF TypeOK, Request, Row
  <2> QED BY <2>1, <2>2, <2>3 DEF Meant, SameWager
<1> QED BY <1>1, <1>2, <1>3 DEF InLine

\* The handlers that are about to move the money of a stage.
MoneySteps == {"debitCreator", "debitJoiner", "creditWinner", "creditResolved"}

Claimed(v, u) == <<v, u>> \in notices \/ (row[v].status = "ACTIVE" /\ row[v].winner = u)

\* What DealOf(v) is made of.
DealSame(v) ==
  /\ row'[v].status = row[v].status /\ row'[v].amount = row[v].amount
  /\ row'[v].playerOne = row[v].playerOne /\ row'[v].playerTwo = row[v].playerTwo
  /\ row'[v].winner = row[v].winner
  /\ settleJob'[v].state = "crediting" <=> settleJob[v].state = "crediting"
  /\ \A u \in Users : Claimed(v, u)' <=> Claimed(v, u)
  /\ \A s \in Reqs :
       \/ req'[s] = req[s]
       \/ /\ ~(req[s].pc \in MoneySteps /\ req[s].wager = v)
          /\ ~(req'[s].pc \in MoneySteps /\ req'[s].wager = v)

LEMMA DealKept ==
  ASSUME NEW v \in Wagers, DealSame(v)
  PROVE  DealOf(v)' = DealOf(v)
<1>1. ASSUME NEW p \in MoneySteps PROVE Pending(v, {p})' <=> Pending(v, {p})
  BY DEF Pending, DealSame
<1>2. StageOf(v)' = StageOf(v)
  BY <1>1 DEF StageOf, DealSame, MoneySteps
<1>3. {u \in Users : Claimed(v, u)}' = {u \in Users : Claimed(v, u)}
  BY DEF DealSame
<1> QED BY <1>2, <1>3 DEF DealOf, DealSame, Claimed

LEMMA OthersKeepDeals ==
  ASSUME NEW v \in Wagers, SameWager(v), Elsewhere(v)
  PROVE  DealOf(v)' = DealOf(v)
<1>1. DealSame(v)
  BY DEF DealSame, SameWager, Elsewhere, Claimed, Busy, MoneySteps, Steps
<1> QED BY <1>1, DealKept

-----------------------------------------------------------------------------
(* What a step has to show.                                                *)

StakesHold == OneStake' /\ Funded' /\ NoOverdraft'

Kept == OInv' /\ [Contract!ContractNext]_(Contract!dealVars)

LEMMA StepAt ==
  ASSUME OInv, IInv', lost' = {}, NEW w \in Wagers,
         \A v \in Wagers : v # w => SameWager(v) /\ Elsewhere(v),
         InLine(w)', StakesHold
  PROVE  OInv' /\ \A v \in Wagers : v # w => DealOf(v)' = DealOf(v)
<1>1. \A v \in Wagers : v # w => InLine(v)'
  BY OthersInLine DEF OInv, IInv
<1>2. \A v \in Wagers : InLine(v)'
  BY <1>1
<1> QED BY <1>2, OthersKeepDeals DEF OInv, StakesHold

LEMMA SilentStep ==
  ASSUME OInv', balance' = balance, \A v \in Wagers : DealOf(v)' = DealOf(v)
  PROVE  Kept
BY DEF Kept, Contract!dealVars

\* The handler of r is the only one at w.
LEMMA MoverInLine ==
  ASSUME OInv, NEW r \in Reqs, NEW w \in Wagers, Busy(r, w), OnlyMoves(r),
         req'[r].pc \in Steps => req'[r].wager = w /\ Meant(r, w)',
         InStage(w)', settleJob'[w].state \notin ActiveStates
  PROVE  /\ InLine(w)'
         /\ \A v \in Wagers : v # w => Elsewhere(v)
<1>1. ASSUME NEW s \in Reqs, s # r PROVE req'[s] = req[s] /\ ~Busy(s, w) /\ ~Busy(s, w)'
  BY <1>1 DEF OInv, InLine, Alone, OnlyMoves, Busy
<1>2. Alone(w)'
  BY <1>1 DEF Alone
<1>3. \A s \in Reqs : Busy(s, w)' => Meant(s, w)'
  BY <1>1 DEF Busy
<1>4. \A v \in Wagers : v # w => Elsewhere(v)
  BY DEF Elsewhere, OnlyMoves, Busy
<1> QED BY <1>2, <1>3, <1>4 DEF InLine

\* A handler has the stake of its user for itself.
LEMMA StakesKeptBy ==
  ASSUME OInv, IInv', NEW r \in Reqs, OnlyMoves(r),
         req'[r].pc \in Staking =>
           req[r].pc \in Staking /\ req'[r].user = req[r].user,
         req'[r].pc \in Staking \ {"checkFunds"} =>
           Affordable(req'[r].seen.amount, balance'[req'[r].user]),
         \A u \in Users :
           \/ balance'[u] >= balance[u]
           \/ /\ req[r].pc \in Staking /\ req'[r].pc \notin Staking
              /\ req[r].user = u /\ balance'[u] >= 0
  PROVE  StakesHold
<1>1. OneStake'
  BY DEF OInv, OneStake, OnlyMoves
<1>2. balance \in [Users -> Int] /\ balance' \in [Users -> Int]
  BY DEF OInv, IInv, TypeOK
<1>3. NoOverdraft'
  <2> SUFFICES ASSUME NEW u \in Users PROVE balance'[u] >= 0
    BY DEF NoOverdraft
  <2>1. balance[u] \in Int /\ balance'[u] \in Int /\ balance[u] >= 0
    BY <1>2 DEF OInv, NoOverdraft
  <2> QED BY <2>1
<1>4. ASSUME NEW s \in Reqs, s # r, req[s].pc \in Staking \ {"checkFunds"}
      PROVE  Affordable(req[s].seen.amount, balance'[req[s].user])
  <2>1. req[s].user \in Users
    BY <1>4 DEF OInv, IInv, Core, SnapshotsHold, Snapshot, Staking, Steps
  <2>2. req[r].pc \in Staking => req[r].user # req[s].user
    BY <1>4 DEF OInv, OneStake
  <2>3. balance'[req[s].user] >= balance[req[s].user]
    BY <2>1, <2>2
  <2>4. Affordable(req[s].seen.amount, balance[req[s].user])
    BY <1>4 DEF OInv, Funded
  <2>5. req[s].seen.amount \in Int
    <3>1. req[s].seen \in Row
      BY DEF OInv, IInv, TypeOK, Request
    <3> QED BY <3>1, AmountsAreNat DEF Row
  <2> QED BY <1>2, <2>1, <2>3, <2>4, <2>5 DEF Affordable
<1>5. Funded'
  BY <1>4 DEF Funded, OnlyMoves
<1> QED BY <1>1, <1>3, <1>5 DEF StakesHold

-----------------------------------------------------------------------------
(* A request arrives.                                                      *)

\* The request of a user who has no other stake under way.
LEMMA NewStakerHolds ==
  ASSUME OInv, IInv', NEW r \in Reqs, NEW u \in Users \cup {NoUser}, NEW p \in Steps,
         OnlyMoves(r), req[r].pc = "idle", req'[r].pc = p, req'[r].user = u,
         balance' = balance,
         p \in Staking => u \in Users /\ NotStaking(u),
         p \in Staking \ {"checkFunds"} => Affordable(req'[r].seen.amount, balance[u])
  PROVE  StakesHold
<1>1. OneStake'
  <2>1. ASSUME NEW s \in Reqs, s # r, p \in Staking, req[s].pc \in Staking
        PROVE  req[s].user # u
    BY <2>1 DEF NotStaking, Staking
  <2> QED BY <2>1 DEF OInv, OneStake, OnlyMoves
<1>2. Funded'
  BY DEF OInv, Funded, OnlyMoves
<1>3. NoOverdraft'
  BY DEF OInv, NoOverdraft
<1> QED BY <1>1, <1>2, <1>3 DEF StakesHold

LEMMA ArrivalKept ==
  ASSUME OInv, IInv', NEW r \in Reqs, NEW w \in Wagers, NEW u \in Users \cup {NoUser},
         NEW seen \in Row, NEW p \in Steps \ (MoneySteps \cup {"insert", "joinRow"}),
         Arrive(r, p, u, w, seen), Quiet(w),
         req'[r] = [pc |-> p, user |-> u, wager |-> w, seen |-> seen] => Meant(r, w)',
         p = "checkFunds" => u \in Users /\ NotStaking(u)
  PROVE  Kept
<1>1. /\ req' = [req EXCEPT ![r] = [pc |-> p, user |-> u, wager |-> w, seen |-> seen]]
      /\ req[r].pc = "idle"
      /\ UNCHANGED <<row, balance, settleJob, notices, lost>>
  BY DEF Arrive, tables, queues
<1>2. /\ req'[r] = [pc |-> p, user |-> u, wager |-> w, seen |-> seen]
      /\ OnlyMoves(r)
  BY <1>1 DEF OInv, IInv, TypeOK, OnlyMoves
<1>3. req'[r].pc = p /\ req'[r].user = u /\ req'[r].wager = w
  BY <1>2
<1>4. \A s \in Reqs : s # r => req'[s] = req[s] /\ ~Busy(s, w)
  BY <1>2 DEF OnlyMoves, Quiet, Busy
<1>5. ~Busy(r, w)
  BY <1>1 DEF Busy, Steps
<1>6. InLine(w)'
  <2>1. Alone(w)' /\ \A s \in Reqs : Busy(s, w)' => s = r
    BY <1>4 DEF Alone, Busy
  <2>2. InStage(w)'
    BY <1>1, <1>4, <1>5 DEF OInv, InLine, InStage, Busy, Steps
  <2>3. settleJob'[w].state \notin ActiveStates
    BY <1>1 DEF Quiet
  <2> QED BY <1>2, <2>1, <2>2, <2>3 DEF InLine
<1>7. \A v \in Wagers : v # w => SameWager(v) /\ Elsewhere(v)
  BY <1>1, <1>2, <1>3 DEF SameWager, Elsewhere, OnlyMoves, Busy, Steps
<1>8. StakesHold
  BY <1>1, <1>2, <1>3, NewStakerHolds DEF Staking, MoneySteps
<1>9. DealOf(w)' = DealOf(w)
  <2>1. DealSame(w)
    BY <1>1, <1>2, <1>3 DEF DealSame, OnlyMoves, Claimed, MoneySteps, Steps
  <2> QED BY <2>1, DealKept
<1> QED BY <1>1, <1>6, <1>7, <1>8, <1>9, StepAt, SilentStep DEF OInv

LEMMA CreateKept ==
  ASSUME OInv, IInv', NEW r \in Reqs, NEW u \in Users, NEW a \in Amounts, NEW t \in Terms,
         NotStaking(u), CreateWager(r, u, a, t)
  PROVE  Kept
<1>1. /\ req' = [req EXCEPT ![r] = [pc |-> "insert", user |-> u, wager |-> NoWager,
                                    seen |-> NewRow(u, a, t)]]
      /\ req[r].pc = "idle" /\ Affordable(a, balance[u])
      /\ UNCHANGED <<row, balance, settleJob, notices, lost>>
  BY DEF CreateWager, Arrive, tables, queues
<1>2. /\ req'[r] = [pc |-> "insert", user |-> u, wager |-> NoWager, seen |-> NewRow(u, a, t)]
      /\ OnlyMoves(r)
  BY <1>1 DEF OInv, IInv, TypeOK, OnlyMoves
<1>3. /\ req'[r].pc = "insert" /\ req'[r].user = u /\ req'[r].wager = NoWager
      /\ req'[r].seen.amount = a
  BY <1>2 DEF NewRow
<1>4. \A v \in Wagers : SameWager(v) /\ Elsewhere(v)
  BY <1>1, <1>2, <1>3, ConstantsAssumption
     DEF SameWager, Elsewhere, OnlyMoves, Busy, Steps
<1>5. StakesHold
  BY <1>1, <1>2, <1>3, NewStakerHolds DEF Steps
<1>6. OInv'
  BY <1>1, <1>4, <1>5, OthersInLine DEF OInv, IInv, StakesHold
<1> QED BY <1>1, <1>4, <1>6, OthersKeepDeals, SilentStep

LEMMA SentKept ==
  ASSUME OInv, IInv', NEW r \in Reqs, OrderlySent(r)
  PROVE  Kept
<1>1. \A w \in Wagers : row[w] \in Row
  BY DEF OInv, IInv, TypeOK
<1>2. UNCHANGED <<row, settleJob, notices>>
  BY DEF OrderlySent, CreateWager, JoinWager, DeleteWager, UpdateWager, ClaimWager,
         AcceptClaim, ContestClaim, ResolveDispute, Arrive, tables, queues
<1>3. ASSUME NEW w \in Wagers, NEW u \in Users, Quiet(w), row[w].status = "PENDING",
             NotStaking(u), JoinWager(r, u, w)
      PROVE  Kept
  <2>1. Arrive(r, "checkFunds", u, w, row[w])
    BY <1>3 DEF JoinWager
  <2>2. req'[r] = [pc |-> "checkFunds", user |-> u, wager |-> w, seen |-> row[w]]
          => Meant(r, w)'
    BY <1>2, <1>3 DEF Meant
  <2> QED BY <1>1, <1>3, <2>1, <2>2, ArrivalKept DEF Steps, MoneySteps
<1>4. ASSUME NEW w \in Wagers, NEW u \in Users, Quiet(w), row[w].status = "PENDING",
             DeleteWager(r, u, w)
      PROVE  Kept
  <2>1. Arrive(r, "deleteRow", u, w, row[w])
    BY <1>4 DEF DeleteWager
  <2>2. req'[r] = [pc |-> "deleteRow", user |-> u, wager |-> w, seen |-> row[w]]
          => Meant(r, w)'
    BY <1>2, <1>4 DEF Meant
  <2> QED BY <1>1, <1>4, <2>1, <2>2, ArrivalKept DEF Steps, MoneySteps
<1>5. ASSUME NEW w \in Wagers, NEW u \in Users, NEW t \in Terms, Quiet(w),
             row[w].status = "PENDING", UpdateWager(r, u, w, t)
      PROVE  Kept
  <2>1. PICK seen \in Row : seen = [row[w] EXCEPT !.terms = t]
    BY <1>1 DEF Row
  <2>2. Arrive(r, "updateRow", u, w, seen)
    BY <1>5, <2>1 DEF UpdateWager
  <2>3. req'[r] = [pc |-> "updateRow", user |-> u, wager |-> w, seen |-> seen]
          => Meant(r, w)'
    BY <1>2, <1>5 DEF Meant
  <2> QED BY <1>5, <2>2, <2>3, ArrivalKept DEF Steps, MoneySteps
<1>6. ASSUME NEW w \in Wagers, NEW u \in Users, Quiet(w), row[w].status = "ACTIVE",
             ClaimWager(r, u, w)
      PROVE  Kept
  <2>1. Arrive(r, "setWinner", u, w, row[w]) /\ u \in {row[w].playerOne, row[w].playerTwo}
    BY <1>6 DEF ClaimWager
  <2>2. req'[r] = [pc |-> "setWinner", user |-> u, wager |-> w, seen |-> row[w]]
          => Meant(r, w)'
    BY <1>2, <1>6, <2>1 DEF Meant
  <2> QED BY <1>1, <1>6, <2>1, <2>2, ArrivalKept DEF Steps, MoneySteps
<1>7. ASSUME NEW w \in Wagers, Quiet(w), row[w].status = "ACTIVE", row[w].winner # NoUser,
             NEW p \in {"acceptUnschedule", "contestUnschedule"},
             Arrive(r, p, NoUser, w, row[w])
      PROVE  Kept
  <2>1. req'[r] = [pc |-> p, user |-> NoUser, wager |-> w, seen |-> row[w]]
          => Meant(r, w)'
    BY <1>2, <1>7 DEF Meant
  <2> QED BY <1>1, <1>7, <2>1, ArrivalKept DEF Steps, MoneySteps
<1>8. ASSUME NEW w \in Wagers, Quiet(w), row[w].status = "DISPUTE",
             NEW u \in {row[w].playerOne, row[w].playerTwo}, ResolveDispute(r, u, w)
      PROVE  Kept
  <2>1. Arrive(r, "resolveRow", u, w, row[w])
    BY <1>8 DEF ResolveDispute
  <2>2. u \in Users \cup {NoUser}
    BY <1>1 DEF Row
  <2>3. req'[r] = [pc |-> "resolveRow", user |-> u, wager |-> w, seen |-> row[w]]
          => Meant(r, w)'
    BY <1>2, <1>8 DEF Meant
  <2> QED BY <1>1, <1>8, <2>1, <2>2, <2>3, ArrivalKept DEF Steps, MoneySteps
<1> QED BY <1>3, <1>4, <1>5, <1>6, <1>7, <1>8, CreateKept
        DEF OrderlySent, AcceptClaim, ContestClaim

-----------------------------------------------------------------------------
(* A handler goes on.                                                      *)

\* What the handler of r finds when it is its turn: its wager is for itself.
LEMMA MoverFacts ==
  ASSUME OInv, NEW r \in Reqs, req[r].pc \in Steps \ {"insert"}
  PROVE  /\ req[r].wager \in Wagers
         /\ row[req[r].wager] \in Row
         /\ row[req[r].wager].amount \in Amounts
         /\ req[r].seen \in Row
         /\ req[r].seen.amount = row[req[r].wager].amount
         /\ Meant(r, req[r].wager)
         /\ InStage(req[r].wager)
         /\ settleJob[req[r].wager].state \notin ActiveStates
         /\ \A s \in Reqs : s # r => ~Busy(s, req[r].wager)
<1>1. /\ req[r].wager \in Wagers /\ req[r].seen.amount = row[req[r].wager].amount
      /\ row[req[r].wager].status # "none"
  BY DEF OInv, IInv, Core, SnapshotsHold, Snapshot
<1>2. row[req[r].wager] \in Row /\ req[r].seen \in Row
  BY <1>1 DEF OInv, IInv, TypeOK, Request
<1>3. row[req[r].wager].amount \in Amounts
  BY <1>1 DEF OInv, IInv, Core, RowFilled
<1>4. Busy(r, req[r].wager) /\ InLine(req[r].wager)
  BY <1>1 DEF OInv, Busy
<1> QED BY <1>1, <1>2, <1>3, <1>4 DEF InLine, Alone

LEMMA HandlerStep ==
  ASSUME OInv, IInv', lost' = lost, NEW r \in Reqs, NEW w \in Wagers, Busy(r, w),
         OnlyMoves(r),
         \A v \in Wagers : v # w => SameWager(v),
         req'[r].pc \in Steps => req'[r].wager = w /\ Meant(r, w)',
         InStage(w)', settleJob'[w].state \notin ActiveStates,
         StakesHold
  PROVE  OInv' /\ \A v \in Wagers : v # w => DealOf(v)' = DealOf(v)
<1>1. InLine(w)' /\ \A v \in Wagers : v # w => Elsewhere(v)
  BY MoverInLine
<1>2. lost' = {}
  BY DEF OInv
<1> QED BY <1>1, <1>2, StepAt

\* A step of a handler that no stake depends on.
LEMMA NotAtStake ==
  ASSUME OInv, IInv', NEW r \in Reqs, OnlyMoves(r), req'[r].pc \notin Staking,
         \A u \in Users : balance'[u] >= balance[u]
  PROVE  StakesHold
BY StakesKeptBy

LEMMA SameBalance ==
  ASSUME OInv, balance' = balance
  PROVE  \A u \in Users : balance'[u] >= balance[u]
BY DEF OInv, IInv, TypeOK

-----------------------------------------------------------------------------
(* Steps that the contract does not see: the row is being prepared for the *)
(* debit or the credit, or only queues and locals change.                  *)

LEMMA SilentHandler ==
  ASSUME OInv, IInv', lost' = lost, NEW r \in Reqs, NEW w \in Wagers, Busy(r, w),
         OnlyMoves(r), balance' = balance,
         \A v \in Wagers : v # w => SameWager(v),
         req'[r].pc \in Steps => req'[r].wager = w /\ Meant(r, w)',
         InStage(w)', settleJob'[w].state \notin ActiveStates,
         StakesHold, DealOf(w)' = DealOf(w)
  PROVE  Kept
<1>1. OInv' /\ \A v \in Wagers : v # w => DealOf(v)' = DealOf(v)
  BY HandlerStep
<1>2. \A v \in Wagers : DealOf(v)' = DealOf(v)
  BY <1>1
<1> QED BY <1>1, <1>2, SilentStep

LEMMA CheckFundsKept ==
  ASSUME OInv, IInv', NEW r \in Reqs, CheckFunds(r)
  PROVE  Kept
<1>1. /\ req[r].pc = "checkFunds"
      /\ UNCHANGED <<row, balance, settleJob, notices, lost>>
  BY DEF CheckFunds, At, Goto, Return, tables, queues
<1> PICK w \in Wagers : w = req[r].wager
  BY <1>1, MoverFacts DEF Steps
<1>2. /\ row[w].status = "PENDING"
      /\ InStage(w) /\ settleJob[w].state \notin ActiveStates
      /\ \A s \in Reqs : s # r => ~Busy(s, w)
      /\ Busy(r, w)
  BY <1>1, MoverFacts DEF Steps, Meant, Busy
<1>3. \/ /\ req'[r].pc = "joinRow" /\ req'[r].user = req[r].user
         /\ req'[r].wager = w /\ req'[r].seen = req[r].seen
         /\ Affordable(req[r].seen.amount, balance[req[r].user])
         /\ OnlyMoves(r)
      \/ req'[r].pc = "done" /\ OnlyMoves(r)
  <2>1. CASE Goto(r, "joinRow") /\ Affordable(req[r].seen.amount, balance[req[r].user])
    BY <2>1, GotoEffect DEF OInv, PCs, Steps
  <2>2. CASE Return(r)
    BY <2>2, ReturnEffect DEF OInv
  <2> QED BY <2>1, <2>2 DEF CheckFunds
<1>4. InStage(w)'
  BY <1>1, <1>2, <1>3 DEF InStage, OnlyMoves
<1>5. req'[r].pc \in Steps => req'[r].wager = w /\ Meant(r, w)'
  BY <1>1, <1>2, <1>3 DEF Meant, Steps
<1>6. \A v \in Wagers : v # w => SameWager(v)
  BY <1>1 DEF SameWager
<1>7. StakesHold
  BY <1>1, <1>3, StakesKeptBy, SameBalance DEF Staking
<1>8. DealSame(w)
  BY <1>1, <1>3 DEF DealSame, OnlyMoves, Claimed, MoneySteps
<1> QED BY <1>1, <1>2, <1>3, <1>4, <1>5, <1>6, <1>7, <1>8, DealKept, SilentHandler

LEMMA UpdateRowKept ==
  ASSUME OInv, IInv', NEW r \in Reqs, UpdateRow(r)
  PROVE  Kept
<1>p. req[r].pc = "updateRow"
  BY DEF UpdateRow, Rewrites, At
<1> PICK w \in Wagers : w = req[r].wager
  BY <1>p, MoverFacts DEF Steps
<1>1. Rewrites(r, "updateRow", [row[w] EXCEPT !.terms = req[r].seen.terms]) /\ Return(r)
  BY DEF UpdateRow
<1>2. /\ row'[w] = [row[w] EXCEPT !.terms = req[r].seen.terms]
      /\ UNCHANGED <<balance, settleJob, notices, lost>>
      /\ \A v \in Wagers : v # w => SameWager(v)
  BY <1>1 DEF Rewrites, Return, queues, SameWager, OInv, IInv, TypeOK
<1>3. /\ row[w] \in Row /\ row[w].status = "PENDING" /\ InStage(w)
      /\ settleJob[w].state \notin ActiveStates /\ Busy(r, w)
  BY <1>p, MoverFacts DEF Steps, Busy, Meant
<1>4. /\ row'[w].status = "PENDING" /\ row'[w].amount = row[w].amount
      /\ row'[w].playerOne = row[w].playerOne /\ row'[w].playerTwo = row[w].playerTwo
      /\ row'[w].winner = row[w].winner
  BY <1>2, <1>3 DEF Row
<1>5. req'[r].pc = "done" /\ OnlyMoves(r)
  BY <1>1, ReturnEffect DEF OInv
<1>6. InStage(w)'
  BY <1>2, <1>3, <1>4 DEF InStage
<1>7. StakesHold
  BY <1>2, <1>5, NotAtStake, SameBalance DEF Staking
<1>8. DealSame(w)
  BY <1>p, <1>2, <1>3, <1>4, <1>5 DEF DealSame, OnlyMoves, Claimed, MoneySteps
<1>9. req'[r].pc \notin Steps
  BY <1>5 DEF Steps
<1> QED BY <1>2, <1>3, <1>5, <1>6, <1>7, <1>8, <1>9, DealKept, SilentHandler

LEMMA InsertKept ==
  ASSUME OInv, IInv', NEW r \in Reqs, NEW w \in Wagers, InsertWager(r, w)
  PROVE  Kept
<1>1. /\ req[r].pc = "insert" /\ row[w].status = "none"
      /\ UNCHANGED <<balance, settleJob, notices, lost>>
  BY DEF InsertWager, At, queues
<1>2. PICK u \in Users, a \in Amounts, t \in Terms :
        req[r].user = u /\ req[r].seen = NewRow(u, a, t)
  BY <1>1 DEF OInv, IInv, Core, SnapshotsHold, Snapshot
<1>3. /\ row'[w] = NewRow(u, a, t)
      /\ \A v \in Wagers : v # w => row'[v] = row[v]
  BY <1>2 DEF InsertWager, OInv, IInv, TypeOK
<1>4. /\ req'[r].pc = "debitCreator" /\ req'[r].user = u /\ req'[r].wager = w
      /\ req'[r].seen = NewRow(u, a, t)
      /\ OnlyMoves(r)
  BY <1>2 DEF InsertWager, OInv, IInv, TypeOK, Request, OnlyMoves
<1>5. /\ row'[w].status = "PENDING" /\ row'[w].playerOne = u
      /\ row'[w].playerTwo = NoUser /\ row'[w].winner = NoUser
  BY <1>3 DEF NewRow
<1>6. settleJob[w].state = "none"
  BY <1>1 DEF OInv, IInv, Core, JobHolds
<1>7. \A s \in Reqs : ~Busy(s, w)
  <2>1. ASSUME NEW s \in Reqs, Busy(s, w) PROVE req[s].pc = "insert" \/ row[w].status # "none"
    BY <2>1 DEF Busy, OInv, IInv, Core, SnapshotsHold, Snapshot
  <2>2. ASSUME NEW s \in Reqs, Busy(s, w) PROVE req[s].pc # "insert"
    BY <2>2 DEF OInv, InLine, Meant
  <2> QED BY <1>1, <2>1, <2>2
<1>8. InStage(w) /\ notices' = notices
  BY <1>1 DEF OInv, InLine
<1>9. InLine(w)'
  <2>1. Alone(w)'
    BY <1>4, <1>7 DEF Alone, OnlyMoves, Busy
  <2>2. InStage(w)'
    BY <1>1, <1>5, <1>6, <1>8 DEF InStage
  <2>3. \A s \in Reqs : Busy(s, w)' => s = r
    BY <1>4, <1>7 DEF OnlyMoves, Busy
  <2>4. Meant(r, w)'
    BY <1>4, <1>5 DEF Meant
  <2>5. settleJob'[w].state \notin ActiveStates
    BY <1>1, <1>6 DEF ActiveStates
  <2> QED BY <2>1, <2>2, <2>3, <2>4, <2>5 DEF InLine
<1>10. \A v \in Wagers : v # w => SameWager(v) /\ Elsewhere(v)
  <2>1. \A v \in Wagers : ~Busy(r, v)
    BY <1>1 DEF OInv, InLine, Meant
  <2> QED BY <1>1, <1>3, <1>4, <2>1 DEF SameWager, Elsewhere, OnlyMoves, Busy
<1>11. StakesHold
  <2>1. Affordable(req[r].seen.amount, balance[req[r].user])
    BY <1>1 DEF OInv, Funded, Staking
  <2>2. Affordable(req'[r].seen.amount, balance'[req'[r].user])
    BY <1>1, <1>2, <1>4, <2>1
  <2> QED BY <1>1, <1>2, <1>4, <2>2, StakesKeptBy, SameBalance DEF Staking
<1>12. DealOf(w)' = DealOf(w)
  <2>1. Pending(w, {"debitCreator"})'
    BY <1>4 DEF Pending
  <2>2. StageOf(w) = "none" /\ StageOf(w)' = "none"
    BY <1>1, <1>5, <2>1 DEF StageOf
  <2>3. \A x \in Users : ~Claimed(w, x) /\ ~Claimed(w, x)'
    BY <1>1, <1>5, <1>8 DEF Claimed, InStage
  <2> QED BY <2>2, <2>3 DEF DealOf, Claimed
<1> QED BY <1>1, <1>9, <1>10, <1>11, <1>12, StepAt, SilentStep DEF OInv

\* The seat is taken in the row first; for the contract the wager is open until
\* the debit.
LEMMA JoinRowKept ==
  ASSUME OInv, IInv', NEW r \in Reqs, JoinRow(r)
  PROVE  Kept
<1>1. req[r].pc = "joinRow"
  BY DEF JoinRow, Rewrites, At
<1> PICK w \in Wagers : w = req[r].wager
  BY <1>1, MoverFacts DEF Steps
<1>2. /\ row[w] \in Row /\ row[w].status = "PENDING" /\ InStage(w) /\ Busy(r, w)
      /\ settleJob[w].state \notin ActiveStates
      /\ \A s \in Reqs : s # r => ~Busy(s, w)
  BY <1>1, MoverFacts DEF Steps, Busy, Meant
<1>3. /\ Rewrites(r, "joinRow", [row[w] EXCEPT !.playerTwo = req[r].user, !.status = "ACTIVE"])
      /\ Goto(r, "debitJoiner") /\ lost' = lost
  BY DEF JoinRow, Goto
<1>4. /\ row'[w] = [row[w] EXCEPT !.playerTwo = req[r].user, !.status = "ACTIVE"]
      /\ UNCHANGED <<balance, settleJob, notices, lost>>
      /\ \A v \in Wagers : v # w => SameWager(v)
  BY <1>3 DEF Rewrites, queues, SameWager, OInv, IInv, TypeOK
<1>5. /\ row'[w].status = "ACTIVE" /\ row'[w].amount = row[w].amount
      /\ row'[w].playerOne = row[w].playerOne /\ row'[w].playerTwo = req[r].user
      /\ row'[w].winner = NoUser
  BY <1>2, <1>4 DEF Row, InStage
<1>6. /\ req'[r].pc = "debitJoiner" /\ req'[r].wager = w /\ req'[r].user = req[r].user
      /\ req'[r].seen = req[r].seen /\ OnlyMoves(r)
  BY <1>3, GotoEffect DEF OInv, PCs, Steps
<1>7. InStage(w)' /\ Meant(r, w)'
  BY <1>2, <1>4, <1>5, <1>6 DEF InStage, Meant, ActiveStates
<1>8. StakesHold
  <2>1. Affordable(req[r].seen.amount, balance[req[r].user])
    BY <1>1 DEF OInv, Funded, Staking
  <2> QED BY <1>1, <1>4, <1>6, <2>1, StakesKeptBy, SameBalance DEF Staking
<1>9. DealOf(w)' = DealOf(w)
  <2>1. ~Pending(w, {"debitCreator"}) /\ Pending(w, {"debitJoiner"})'
    BY <1>1, <1>2, <1>6 DEF Pending, Busy, Steps
  <2>2. StageOf(w) = "open" /\ StageOf(w)' = "open"
    BY <1>2, <1>5, <2>1 DEF StageOf
  <2>3. \A u \in Users : ~Claimed(w, u) /\ ~Claimed(w, u)'
    BY <1>2, <1>4, <1>5, ConstantsAssumption DEF Claimed, InStage
  <2> QED BY <1>5, <2>2, <2>3 DEF DealOf, Claimed
<1> QED BY <1>2, <1>4, <1>6, <1>7, <1>8, <1>9, SilentHandler

LEMMA NoticeKept ==
  ASSUME OInv, IInv', NEW r \in Reqs, QueueNotice(r)
  PROVE  Kept
<1>1. /\ req[r].pc = "notify" /\ Goto(r, "schedule")
      /\ notices' = notices \cup {<<req[r].wager, req[r].user>>}
      /\ UNCHANGED <<row, balance, settleJob, lost>>
  BY DEF QueueNotice, At, Goto, tables
<1> PICK w \in Wagers : w = req[r].wager
  BY <1>1, MoverFacts DEF Steps
<1>2. /\ row[w].status = "ACTIVE" /\ row[w].winner = req[r].user
      /\ InStage(w) /\ Busy(r, w) /\ settleJob[w].state \notin ActiveStates
  BY <1>1, MoverFacts DEF Steps, Busy, Meant
<1>3. /\ req'[r].pc = "schedule" /\ req'[r].wager = w /\ req'[r].user = req[r].user
      /\ OnlyMoves(r)
  BY <1>1, GotoEffect DEF OInv, PCs, Steps
<1>4. \A v \in Wagers : v # w => SameWager(v)
  BY <1>1 DEF SameWager
<1>5. InStage(w)' /\ Meant(r, w)'
  BY <1>1, <1>2, <1>3 DEF InStage, Meant
<1>6. StakesHold
  BY <1>1, <1>3, NotAtStake, SameBalance DEF Staking
<1>7. DealSame(w)
  BY <1>1, <1>2, <1>3 DEF DealSame, OnlyMoves, Claimed, MoneySteps
<1> QED BY <1>1, <1>2, <1>3, <1>4, <1>5, <1>6, <1>7, DealKept, SilentHandler

\* The timer is started, removed or left alone in its queue.
LEMMA ScheduleKept ==
  ASSUME OInv, IInv', NEW r \in Reqs, QueueSettle(r)
  PROVE  Kept
<1>1. /\ req[r].pc = "schedule" /\ Return(r)
      /\ AddSettleJob(req[r].wager, req[r].user, OpponentSeen(r))
      /\ UNCHANGED <<row, balance, notices, lost>>
  BY DEF QueueSettle, At, Return, tables
<1> PICK w \in Wagers : w = req[r].wager
  BY <1>1, MoverFacts DEF Steps
<1>2. /\ row[w].status = "ACTIVE" /\ row[w].winner = req[r].user
      /\ InStage(w) /\ Busy(r, w) /\ settleJob[w].state \notin ActiveStates
      /\ <<w, req[r].user>> \in notices /\ req[r].user \in Users
  BY <1>1, MoverFacts DEF Steps, Busy, Meant, OInv, IInv, Core, SnapshotsHold, Snapshot
<1>3. req'[r].pc = "done" /\ OnlyMoves(r)
  BY <1>1, ReturnEffect DEF OInv
<1>4. /\ \A v \in Wagers : v # w => settleJob'[v] = settleJob[v]
      /\ settleJob'[w] = settleJob[w] \/ settleJob'[w].state = "queued"
  BY <1>1 DEF AddSettleJob, OInv, IInv, TypeOK, NoJob
<1>5. \A v \in Wagers : v # w => SameWager(v)
  BY <1>1, <1>4 DEF SameWager
<1>6. /\ InStage(w)' /\ settleJob'[w].state \notin ActiveStates
      /\ req'[r].pc \notin Steps
  BY <1>1, <1>2, <1>3, <1>4, ConstantsAssumption DEF InStage, ActiveStates, Steps
<1>7. StakesHold
  BY <1>1, <1>3, NotAtStake, SameBalance DEF Staking
<1>8. DealSame(w)
  BY <1>1, <1>2, <1>3, <1>4 DEF DealSame, OnlyMoves, Claimed, MoneySteps, ActiveStates
<1> QED BY <1>1, <1>2, <1>3, <1>5, <1>6, <1>7, <1>8, DealKept, SilentHandler

LEMMA UnscheduleKept ==
  ASSUME OInv, IInv', NEW r \in Reqs, AcceptUnschedule(r) \/ ContestUnschedule(r)
  PROVE  Kept
<1>1. /\ req[r].pc \in {"acceptUnschedule", "contestUnschedule"}
      /\ RemoveJob(req[r].wager)
      /\ UNCHANGED <<row, balance, notices, lost>>
  BY DEF AcceptUnschedule, ContestUnschedule, At, Goto, tables
<1> PICK w \in Wagers : w = req[r].wager
  BY <1>1, MoverFacts DEF Steps
<1>2. /\ row[w].status = "ACTIVE" /\ row[w].winner # NoUser
      /\ req[r].pc = "acceptUnschedule" => req[r].seen.winner = row[w].winner
      /\ InStage(w) /\ Busy(r, w) /\ settleJob[w].state \notin ActiveStates
      /\ \A s \in Reqs : s # r => ~Busy(s, w)
  BY <1>1, MoverFacts DEF Steps, Busy, Meant
<1>3. /\ \/ req'[r].pc = "acceptRow" /\ req[r].pc = "acceptUnschedule"
         \/ req'[r].pc = "contestRow"
      /\ req'[r].wager = w /\ req'[r].seen = req[r].seen /\ OnlyMoves(r)
  <2>1. CASE AcceptUnschedule(r)
    BY <2>1, GotoEffect DEF OInv, AcceptUnschedule, At, PCs, Steps
  <2>2. CASE ContestUnschedule(r)
    BY <2>2, GotoEffect DEF OInv, ContestUnschedule, At, PCs, Steps
  <2> QED BY <2>1, <2>2
<1>4. /\ \A v \in Wagers : v # w => settleJob'[v] = settleJob[v]
      /\ settleJob'[w].state = "none"
  BY <1>1, <1>2 DEF RemoveJob, OInv, IInv, TypeOK, NoJob
<1>5. \A v \in Wagers : v # w => SameWager(v)
  BY <1>1, <1>4 DEF SameWager
<1>6. InStage(w)' /\ Meant(r, w)' /\ settleJob'[w].state \notin ActiveStates
  BY <1>1, <1>2, <1>3, <1>4 DEF InStage, Meant, ActiveStates, OnlyMoves
<1>7. StakesHold
  BY <1>1, <1>3, NotAtStake, SameBalance DEF Staking
<1>8. DealSame(w)
  BY <1>1, <1>2, <1>3, <1>4 DEF DealSame, OnlyMoves, Claimed, MoneySteps, ActiveStates
<1> QED BY <1>1, <1>2, <1>3, <1>5, <1>6, <1>7, <1>8, DealKept, SilentHandler

LEMMA QueueContestKept ==
  ASSUME OInv, IInv', NEW r \in Reqs, QueueContest(r)
  PROVE  Kept
<1>1. /\ req[r].pc = "queueContest" /\ Return(r)
      /\ UNCHANGED <<row, balance, settleJob, notices, lost>>
  BY DEF QueueContest, At, Return, tables
<1> PICK w \in Wagers : w = req[r].wager
  BY <1>1, MoverFacts DEF Steps
<1>2. /\ row[w].status = "DISPUTE"
      /\ InStage(w) /\ Busy(r, w) /\ settleJob[w].state \notin ActiveStates
  BY <1>1, MoverFacts DEF Steps, Busy, Meant
<1>3. req'[r].pc = "done" /\ OnlyMoves(r)
  BY <1>1, ReturnEffect DEF OInv
<1>4. \A v \in Wagers : v # w => SameWager(v)
  BY <1>1 DEF SameWager
<1>5. InStage(w)' /\ req'[r].pc \notin Steps
  BY <1>1, <1>2, <1>3 DEF InStage, Steps
<1>6. StakesHold
  BY <1>1, <1>3, NotAtStake, SameBalance DEF Staking
<1>7. DealSame(w)
  BY <1>1, <1>2, <1>3 DEF DealSame, OnlyMoves, Claimed, MoneySteps
<1> QED BY <1>1, <1>2, <1>3, <1>4, <1>5, <1>6, <1>7, DealKept, SilentHandler

\* The winner of a claim was sent to the opponent, unless the claim is still
\* being notified.
LEMMA WinnerNoticed ==
  ASSUME OInv, NEW w \in Wagers, row[w].status = "ACTIVE", row[w].winner # NoUser,
         \A s \in Reqs : ~(req[s].pc = "notify" /\ req[s].wager = w)
  PROVE  <<w, row[w].winner>> \in notices
BY DEF OInv, InLine, InStage

\* For the contract the claim stands until the credit.
LEMMA AcceptRowKept ==
  ASSUME OInv, IInv', NEW r \in Reqs, AcceptRow(r)
  PROVE  Kept
<1>1. req[r].pc = "acceptRow"
  BY DEF AcceptRow, Rewrites, At
<1> PICK w \in Wagers : w = req[r].wager
  BY <1>1, MoverFacts DEF Steps
<1>2. /\ row[w] \in Row /\ row[w].status = "ACTIVE" /\ row[w].winner # NoUser
      /\ req[r].seen.winner = row[w].winner
      /\ settleJob[w].state = "none" /\ InStage(w) /\ Busy(r, w)
      /\ \A s \in Reqs : s # r => ~Busy(s, w)
  BY <1>1, MoverFacts DEF Steps, Busy, Meant
<1>3. /\ Rewrites(r, "acceptRow", [row[w] EXCEPT !.status = "SETTLED"])
      /\ Goto(r, "creditWinner") /\ lost' = lost
  BY DEF AcceptRow, Goto
<1>4. /\ row'[w] = [row[w] EXCEPT !.status = "SETTLED"]
      /\ UNCHANGED <<balance, settleJob, notices, lost>>
      /\ \A v \in Wagers : v # w => SameWager(v)
  BY <1>3 DEF Rewrites, queues, SameWager, OInv, IInv, TypeOK
<1>5. /\ row'[w].status = "SETTLED" /\ row'[w].amount = row[w].amount
      /\ row'[w].playerOne = row[w].playerOne /\ row'[w].playerTwo = row[w].playerTwo
  BY <1>2, <1>4 DEF Row
<1>6. /\ req'[r].pc = "creditWinner" /\ req'[r].wager = w
      /\ req'[r].seen = req[r].seen /\ OnlyMoves(r)
  BY <1>3, GotoEffect DEF OInv, PCs, Steps
<1>7. <<w, row[w].winner>> \in notices
  BY <1>1, <1>2, WinnerNoticed DEF Busy, Steps
<1>8. InStage(w)' /\ Meant(r, w)' /\ settleJob'[w].state \notin ActiveStates
  BY <1>2, <1>4, <1>5, <1>6, <1>7 DEF InStage, Meant, ActiveStates
<1>9. StakesHold
  BY <1>4, <1>6, NotAtStake, SameBalance DEF Staking
<1>10. DealOf(w)' = DealOf(w)
  <2>1. /\ ~Pending(w, {"debitJoiner"})
        /\ Pending(w, {"creditWinner"})' /\ ~Pending(w, {"creditResolved"})'
    BY <1>1, <1>2, <1>6 DEF Pending, Busy, Steps, OnlyMoves
  <2>2. StageOf(w) = "claimed" /\ StageOf(w)' = "claimed"
    BY <1>2, <1>5, <2>1 DEF StageOf
  <2>3. \A u \in Users : Claimed(w, u)' <=> Claimed(w, u)
    BY <1>2, <1>4, <1>5, <1>7 DEF Claimed
  <2> QED BY <1>5, <2>2, <2>3 DEF DealOf, Claimed
<1> QED BY <1>2, <1>4, <1>6, <1>8, <1>9, <1>10, SilentHandler

\* For the contract the dispute stands until the credit.
LEMMA ResolveRowKept ==
  ASSUME OInv, IInv', NEW r \in Reqs, ResolveRow(r)
  PROVE  Kept
<1>1. req[r].pc = "resolveRow"
  BY DEF ResolveRow, Rewrites, At
<1> PICK w \in Wagers : w = req[r].wager
  BY <1>1, MoverFacts DEF Steps
<1>2. /\ row[w] \in Row /\ row[w].status = "DISPUTE"
      /\ req[r].user \in {row[w].playerOne, row[w].playerTwo}
      /\ settleJob[w].state \notin ActiveStates /\ InStage(w) /\ Busy(r, w)
      /\ \A s \in Reqs : s # r => ~Busy(s, w)
  BY <1>1, MoverFacts DEF Steps, Busy, Meant
<1>3. /\ Rewrites(r, "resolveRow", [row[w] EXCEPT !.winner = req[r].user, !.status = "SETTLED"])
      /\ Goto(r, "creditResolved") /\ lost' = lost
  BY DEF ResolveRow, Goto
<1>4. /\ row'[w] = [row[w] EXCEPT !.winner = req[r].user, !.status = "SETTLED"]
      /\ UNCHANGED <<balance, settleJob, notices, lost>>
      /\ \A v \in Wagers : v # w => SameWager(v)
  BY <1>3 DEF Rewrites, queues, SameWager, OInv, IInv, TypeOK
<1>5. /\ row'[w].status = "SETTLED" /\ row'[w].amount = row[w].amount
      /\ row'[w].playerOne = row[w].playerOne /\ row'[w].playerTwo = row[w].playerTwo
  BY <1>2, <1>4 DEF Row
<1>6. /\ req'[r].pc = "creditResolved" /\ req'[r].wager = w /\ req'[r].user = req[r].user
      /\ OnlyMoves(r)
  BY <1>3, GotoEffect DEF OInv, PCs, Steps
<1>7. InStage(w)' /\ Meant(r, w)' /\ settleJob'[w].state \notin ActiveStates
  BY <1>2, <1>4, <1>5, <1>6 DEF InStage, Meant, ActiveStates
<1>8. StakesHold
  BY <1>4, <1>6, NotAtStake, SameBalance DEF Staking
<1>9. DealOf(w)' = DealOf(w)
  <2>1. Pending(w, {"creditResolved"})'
    BY <1>6 DEF Pending
  <2>2. StageOf(w) = "disputed" /\ StageOf(w)' = "disputed"
    BY <1>2, <1>5, <2>1 DEF StageOf
  <2>3. \A u \in Users : Claimed(w, u)' <=> Claimed(w, u)
    BY <1>2, <1>4, <1>5 DEF Claimed
  <2> QED BY <1>5, <2>2, <2>3 DEF DealOf, Claimed
<1> QED BY <1>2, <1>4, <1>6, <1>7, <1>8, <1>9, SilentHandler

-----------------------------------------------------------------------------
(* Steps of the contract.                                                  *)

Deals == [v \in Wagers |-> DealOf(v)]

LEMMA DealsTyped ==
  /\ OInv => Deals \in [Wagers -> Contract!Deal]
  /\ OInv' => Deals' \in [Wagers -> Contract!Deal]
<1>1. ASSUME OInv, NEW v \in Wagers PROVE DealOf(v) \in Contract!Deal
  <2>1. row[v] \in Row
    BY <1>1 DEF OInv, IInv, TypeOK
  <2>2. StageOf(v) \in Contract!Stages
    BY <2>1 DEF StageOf, Row, Live, Contract!Stages
  <2> QED BY <2>1, <2>2 DEF DealOf, Row, Contract!Deal
<1>2. ASSUME OInv', NEW v \in Wagers PROVE DealOf(v)' \in Contract!Deal
  <2>1. row'[v] \in Row
    BY <1>2 DEF OInv, IInv, TypeOK
  <2>2. StageOf(v)' \in Contract!Stages
    BY <2>1 DEF StageOf, Row, Live, Contract!Stages
  <2> QED BY <2>1, <2>2 DEF DealOf, Row, Contract!Deal
<1> QED BY <1>1, <1>2 DEF Deals

\* Only the deal of w changes.
OnlyDeal(w) == \A v \in Wagers : v # w => DealOf(v)' = DealOf(v)

LEMMA OneDeal ==
  ASSUME OInv, OInv', NEW w \in Wagers, OnlyDeal(w)
  PROVE  /\ Deals \in [Wagers -> Contract!Deal] /\ Deals' \in [Wagers -> Contract!Deal]
         /\ \A v \in Wagers : v # w => Deals'[v] = Deals[v]
BY DealsTyped DEF Deals, OnlyDeal

\* Deals that differ in what a step of the contract says, and in no more.
LEMMA StageMoved ==
  ASSUME OInv, OInv', NEW w \in Wagers, OnlyDeal(w), NEW s \in Contract!Stages,
         Deals'[w].stage = s, Deals'[w].amount = Deals[w].amount,
         Deals'[w].playerOne = Deals[w].playerOne,
         Deals'[w].playerTwo = Deals[w].playerTwo,
         Deals'[w].claimants = Deals[w].claimants
  PROVE  Deals' = [Deals EXCEPT ![w].stage = s]
BY OneDeal DEF Contract!Deal

LEMMA StageTyped ==
  ASSUME Deals \in [Wagers -> Contract!Deal], NEW w \in Wagers, NEW s \in Contract!Stages
  PROVE  [Deals EXCEPT ![w].stage = s] \in [Wagers -> Contract!Deal]
BY DEF Contract!Deal

LEMMA SeatTaken ==
  ASSUME OInv, OInv', NEW w \in Wagers, OnlyDeal(w), NEW u \in Users,
         Deals'[w].stage = "matched", Deals'[w].amount = Deals[w].amount,
         Deals'[w].playerOne = Deals[w].playerOne, Deals'[w].playerTwo = u,
         Deals'[w].claimants = Deals[w].claimants
  PROVE  Deals' = [Deals EXCEPT ![w].stage = "matched", ![w].playerTwo = u]
<1>t. /\ Deals \in [Wagers -> Contract!Deal] /\ Deals' \in [Wagers -> Contract!Deal]
      /\ \A v \in Wagers : v # w => Deals'[v] = Deals[v]
  BY OneDeal
<1>1. PICK F \in [Wagers -> Contract!Deal] : F = [Deals EXCEPT ![w].stage = "matched"]
  BY <1>t, StageTyped DEF Contract!Stages
<1>2. /\ F[w].stage = "matched" /\ F[w].amount = Deals[w].amount
      /\ F[w].playerOne = Deals[w].playerOne /\ F[w].claimants = Deals[w].claimants
      /\ \A v \in Wagers : v # w => F[v] = Deals[v]
  BY <1>1, <1>t DEF Contract!Deal
<1>3. Deals' = [F EXCEPT ![w].playerTwo = u]
  BY <1>2, <1>t DEF Contract!Deal
<1> QED BY <1>1, <1>3

LEMMA ClaimMade ==
  ASSUME OInv, OInv', NEW w \in Wagers, OnlyDeal(w), NEW u \in Users,
         Deals'[w].stage = "claimed", Deals'[w].amount = Deals[w].amount,
         Deals'[w].playerOne = Deals[w].playerOne,
         Deals'[w].playerTwo = Deals[w].playerTwo,
         Deals'[w].claimants = Deals[w].claimants \cup {u}
  PROVE  Deals' = [Deals EXCEPT ![w].stage = "claimed", ![w].claimants = @ \cup {u}]
<1>t. /\ Deals \in [Wagers -> Contract!Deal] /\ Deals' \in [Wagers -> Contract!Deal]
      /\ \A v \in Wagers : v # w => Deals'[v] = Deals[v]
  BY OneDeal
<1>1. PICK F \in [Wagers -> Contract!Deal] : F = [Deals EXCEPT ![w].stage = "claimed"]
  BY <1>t, StageTyped DEF Contract!Stages
<1>2. /\ F[w].stage = "claimed" /\ F[w].amount = Deals[w].amount
      /\ F[w].playerOne = Deals[w].playerOne /\ F[w].playerTwo = Deals[w].playerTwo
      /\ F[w].claimants = Deals[w].claimants
      /\ \A v \in Wagers : v # w => F[v] = Deals[v]
  BY <1>1, <1>t DEF Contract!Deal
<1>3. PICK c \in SUBSET Users : c = Deals[w].claimants \cup {u}
  BY <1>t DEF Contract!Deal
<1>4. Deals' = [F EXCEPT ![w].claimants = c]
  <2>1. Deals'[w].claimants = c
    BY <1>3
  <2> QED BY <1>2, <1>t, <2>1 DEF Contract!Deal
<1>5. Deals' = [F EXCEPT ![w].claimants = F[w].claimants \cup {u}]
  BY <1>2, <1>3, <1>4
<1> QED BY <1>1, <1>5

Opened(u, a) == [Contract!NoDeal EXCEPT !.stage = "open", !.amount = a, !.playerOne = u]

LEMMA DealOpened ==
  ASSUME OInv, OInv', NEW w \in Wagers, OnlyDeal(w), NEW u \in Users, NEW a \in Amounts,
         Deals'[w].stage = "open", Deals'[w].amount = a, Deals'[w].playerOne = u,
         Deals'[w].playerTwo = NoUser, Deals'[w].claimants = {}
  PROVE  Deals' = [Deals EXCEPT ![w] = Opened(u, a)]
<1>t. /\ Deals \in [Wagers -> Contract!Deal] /\ Deals' \in [Wagers -> Contract!Deal]
      /\ \A v \in Wagers : v # w => Deals'[v] = Deals[v]
  BY OneDeal
<1>1. PICK d \in Contract!Deal : d = Opened(u, a)
  <2>1. Contract!NoDeal \in Contract!Deal
    BY DEF Contract!NoDeal, Contract!Deal, Contract!Stages
  <2> QED BY <2>1 DEF Contract!Deal, Contract!Stages, Opened
<1>2. /\ d.stage = "open" /\ d.amount = a /\ d.playerOne = u
      /\ d.playerTwo = NoUser /\ d.claimants = {}
  BY <1>1 DEF Contract!NoDeal, Contract!Deal, Opened
<1>3. Deals'[w] = d
  BY <1>2, <1>t DEF Contract!Deal
<1>4. Deals' = [Deals EXCEPT ![w] = d]
  BY <1>3, <1>t
<1> QED BY <1>1, <1>4

\* The contract reckons with the same fee schedule.
LEMMA SameFees ==
  ASSUME NEW a, NEW b
  PROVE  /\ Contract!StakeDebit(a) = StakeDebit(a)
         /\ Contract!Affordable(a, b) <=> Affordable(a, b)
         /\ Contract!Prize(a) = Prize(a)
<1>1. Contract!TieredFee(a) = TieredFee(a)
  BY DEF Contract!TieredFee, TieredFee, Contract!Between, Between
<1>2. Contract!calculatePlatformFee(a) = calculatePlatformFee(a)
  BY <1>1 DEF Contract!calculatePlatformFee, calculatePlatformFee, Contract!MIN_FEE, MIN_FEE
<1> QED BY <1>2 DEF Contract!StakeDebit, StakeDebit, Contract!Affordable, Affordable,
                    Contract!Prize, Prize, Contract!UnitsPerDollar, UnitsPerDollar

LEMMA DealShape ==
  ASSUME NEW w \in Wagers
  PROVE  /\ Deals[w].stage = StageOf(w)
         /\ Deals[w].amount = IF StageOf(w) = "none" THEN 0 ELSE row[w].amount
         /\ Deals[w].playerOne = IF StageOf(w) = "none" THEN NoUser ELSE row[w].playerOne
         /\ Deals[w].playerTwo =
              IF StageOf(w) \in {"none", "open"} THEN NoUser ELSE row[w].playerTwo
         /\ Deals[w].claimants = {u \in Users : Claimed(w, u)}
         /\ Deals'[w].stage = StageOf(w)'
         /\ Deals'[w].amount = IF StageOf(w)' = "none" THEN 0 ELSE row'[w].amount
         /\ Deals'[w].playerOne = IF StageOf(w)' = "none" THEN NoUser ELSE row'[w].playerOne
         /\ Deals'[w].playerTwo =
              IF StageOf(w)' \in {"none", "open"} THEN NoUser ELSE row'[w].playerTwo
         /\ Deals'[w].claimants = {u \in Users : Claimed(w, u)}'
BY DEF Deals, DealOf, Claimed

LEMMA DeleteRowKept ==
  ASSUME OInv, IInv', NEW r \in Reqs, DeleteRow(r)
  PROVE  Kept
<1>1. req[r].pc = "deleteRow"
  BY DEF DeleteRow, Rewrites, At
<1> PICK w \in Wagers : w = req[r].wager
  BY <1>1, MoverFacts DEF Steps
<1>2. /\ row[w] \in Row /\ row[w].status = "PENDING"
      /\ settleJob[w].state \notin ActiveStates /\ InStage(w) /\ Busy(r, w)
      /\ \A s \in Reqs : s # r => ~Busy(s, w)
  BY <1>1, MoverFacts DEF Steps, Busy, Meant
<1>3. /\ Rewrites(r, "deleteRow", [row[w] EXCEPT !.status = "deleted"])
      /\ Return(r) /\ lost' = lost
  BY DEF DeleteRow, Return
<1>4. /\ row'[w] = [row[w] EXCEPT !.status = "deleted"]
      /\ UNCHANGED <<balance, settleJob, notices, lost>>
      /\ \A v \in Wagers : v # w => SameWager(v)
  BY <1>3 DEF Rewrites, queues, SameWager, OInv, IInv, TypeOK
<1>5. /\ row'[w].status = "deleted" /\ row'[w].amount = row[w].amount
      /\ row'[w].playerOne = row[w].playerOne /\ row'[w].playerTwo = row[w].playerTwo
  BY <1>2, <1>4 DEF Row
<1>6. req'[r].pc = "done" /\ OnlyMoves(r)
  BY <1>3, ReturnEffect DEF OInv
<1>7. /\ InStage(w)' /\ settleJob'[w].state \notin ActiveStates
      /\ req'[r].pc \notin Steps
  BY <1>2, <1>4, <1>5, <1>6 DEF InStage, ActiveStates, Steps
<1>8. StakesHold
  BY <1>4, <1>6, NotAtStake, SameBalance DEF Staking
<1>9. OInv' /\ \A v \in Wagers : v # w => DealOf(v)' = DealOf(v)
  BY <1>2, <1>4, <1>6, <1>7, <1>8, HandlerStep
<1>10. StageOf(w) = "open" /\ StageOf(w)' = "void"
  <2>1. ~Pending(w, {"debitCreator"})
    BY <1>1, <1>2 DEF Pending, Busy, Steps
  <2> QED BY <1>2, <1>5, <2>1 DEF StageOf
<1>11. Contract!Void(w)
  <2>1. row[w].playerTwo = NoUser /\ \A u \in Users : Claimed(w, u)' <=> Claimed(w, u)
    BY <1>2, <1>4, <1>5 DEF Claimed, InStage
  <2>2. {u \in Users : Claimed(w, u)}' = {u \in Users : Claimed(w, u)}
    BY <2>1
  <2>3. Deals' = [Deals EXCEPT ![w].stage = "void"]
    <3>1. "void" \in Contract!Stages /\ OnlyDeal(w)
      BY <1>9 DEF Contract!Stages, OnlyDeal
    <3>2. /\ Deals'[w].stage = "void" /\ Deals'[w].amount = Deals[w].amount
          /\ Deals'[w].playerOne = Deals[w].playerOne
          /\ Deals'[w].playerTwo = Deals[w].playerTwo
          /\ Deals'[w].claimants = Deals[w].claimants
      BY <1>5, <1>10, <2>1, <2>2, DealShape
    <3> QED BY <1>9, <3>1, <3>2, StageMoved
  <2>4. Deals[w].stage = "open"
    BY <1>10, DealShape
  <2> QED BY <1>4, <2>3, <2>4 DEF Contract!Void, Deals
<1> QED BY <1>9, <1>11 DEF Kept, Contract!ContractNext

\* A debit of what is there takes a stake.
LEMMA StakeTaken ==
  ASSUME OInv, NEW r \in Reqs, NEW w \in Wagers, NEW u \in Users, NEW a \in Amounts,
         req[r].pc \in Debits, req[r].user = u, req[r].seen.amount = a,
         Debit(w, u, a)
  PROVE  /\ Affordable(a, balance[u])
         /\ balance' = [balance EXCEPT ![u] = @ - StakeDebit(a)]
         /\ balance'[u] >= 0
         /\ \A x \in Users : x # u => balance'[x] >= balance[x]
<1>1. Affordable(a, balance[u])
  BY DEF OInv, Funded, Staking, Debits
<1>2. balance \in [Users -> Int] /\ StakeDebit(a) \in Nat /\ a \in Nat
  BY AmountsAreNat DEF OInv, IInv, TypeOK
<1>3. balance[u] >= StakeDebit(a)
  BY <1>1, <1>2 DEF Affordable, StakeDebit
<1> QED BY <1>1, <1>2, <1>3 DEF Debit

LEMMA DebitCreatorKept ==
  ASSUME OInv, IInv', NEW r \in Reqs, DebitCreator(r)
  PROVE  Kept
<1>1. /\ req[r].pc = "debitCreator" /\ Return(r)
      /\ Debit(req[r].wager, req[r].user, req[r].seen.amount)
      /\ UNCHANGED <<row, settleJob, notices, lost>>
  BY DEF DebitCreator, At, Return, queues
<1> PICK w \in Wagers : w = req[r].wager
  BY <1>1, MoverFacts DEF Steps
<1>2. /\ row[w] \in Row /\ row[w].status = "PENDING" /\ row[w].playerOne = req[r].user
      /\ row[w].amount \in Amounts /\ req[r].seen.amount = row[w].amount
      /\ settleJob[w].state \notin ActiveStates /\ InStage(w) /\ Busy(r, w)
      /\ \A s \in Reqs : s # r => ~Busy(s, w)
  BY <1>1, MoverFacts DEF Steps, Busy, Meant
<1> PICK u \in Users : u = req[r].user
  BY <1>1 DEF OInv, IInv, Core, SnapshotsHold, Snapshot, Steps
<1> PICK a \in Amounts : a = row[w].amount
  BY <1>2
<1>3. req'[r].pc = "done" /\ OnlyMoves(r)
  BY <1>1, ReturnEffect DEF OInv
<1>4. /\ Affordable(a, balance[u])
      /\ balance' = [balance EXCEPT ![u] = @ - StakeDebit(a)]
      /\ balance'[u] >= 0
      /\ \A x \in Users : x # u => balance'[x] >= balance[x]
  BY <1>1, <1>2, StakeTaken DEF Debits
<1>5. \A v \in Wagers : v # w => SameWager(v)
  BY <1>1 DEF SameWager
<1>6. /\ InStage(w)' /\ settleJob'[w].state \notin ActiveStates
      /\ req'[r].pc \notin Steps
  BY <1>1, <1>2, <1>3 DEF InStage, Steps
<1>7. StakesHold
  BY <1>1, <1>3, <1>4, StakesKeptBy DEF Staking
<1>8. OInv' /\ \A v \in Wagers : v # w => DealOf(v)' = DealOf(v)
  BY <1>1, <1>2, <1>3, <1>5, <1>6, <1>7, HandlerStep
<1>9. StageOf(w) = "none" /\ StageOf(w)' = "open"
  <2>1. Pending(w, {"debitCreator"}) /\ ~Pending(w, {"debitCreator"})'
    BY <1>1, <1>2, <1>3 DEF Pending, Busy, Steps, OnlyMoves
  <2> QED BY <1>1, <1>2, <2>1 DEF StageOf
<1>10. Contract!Open(u, w, a)
  <2>1. \A x \in Users : ~Claimed(w, x)'
    BY <1>1, <1>2 DEF Claimed, InStage
  <2>2. {x \in Users : Claimed(w, x)}' = {}
    BY <2>1
  <2>3. /\ Deals'[w].stage = "open" /\ Deals'[w].amount = a /\ Deals'[w].playerOne = u
        /\ Deals'[w].playerTwo = NoUser /\ Deals'[w].claimants = {}
    BY <1>1, <1>2, <1>9, <2>2, DealShape
  <2>4. Deals' = [Deals EXCEPT ![w] = Opened(u, a)]
    <3>1. OnlyDeal(w)
      BY <1>8 DEF OnlyDeal
    <3> QED BY <1>8, <2>3, <3>1, DealOpened
  <2>5. Deals[w].stage = "none"
    BY <1>9, DealShape
  <2>6. Contract!TakeStake(u, a)
    BY <1>4, SameFees DEF Contract!TakeStake
  <2> QED BY <2>4, <2>5, <2>6, Zenon DEF Contract!Open, Deals, Opened
<1> QED BY <1>8, <1>10 DEF Kept, Contract!ContractNext

LEMMA DebitJoinerKept ==
  ASSUME OInv, IInv', NEW r \in Reqs, DebitJoiner(r)
  PROVE  Kept
<1>1. /\ req[r].pc = "debitJoiner" /\ Return(r)
      /\ Debit(req[r].wager, req[r].user, req[r].seen.amount)
      /\ UNCHANGED <<row, settleJob, notices, lost>>
  BY DEF DebitJoiner, At, Return, queues
<1> PICK w \in Wagers : w = req[r].wager
  BY <1>1, MoverFacts DEF Steps
<1>2. /\ row[w] \in Row /\ row[w].status = "ACTIVE" /\ row[w].playerTwo = req[r].user
      /\ row[w].winner = NoUser
      /\ row[w].amount \in Amounts /\ req[r].seen.amount = row[w].amount
      /\ settleJob[w].state \notin ActiveStates /\ InStage(w) /\ Busy(r, w)
      /\ \A s \in Reqs : s # r => ~Busy(s, w)
  BY <1>1, MoverFacts DEF Steps, Busy, Meant
<1> PICK u \in Users : u = req[r].user /\ u # row[w].playerOne
  BY <1>1 DEF OInv, IInv, Core, SnapshotsHold, Snapshot, Steps
<1> PICK a \in Amounts : a = row[w].amount
  BY <1>2
<1>3. req'[r].pc = "done" /\ OnlyMoves(r)
  BY <1>1, ReturnEffect DEF OInv
<1>4. /\ Affordable(a, balance[u])
      /\ balance' = [balance EXCEPT ![u] = @ - StakeDebit(a)]
      /\ balance'[u] >= 0
      /\ \A x \in Users : x # u => balance'[x] >= balance[x]
  BY <1>1, <1>2, StakeTaken DEF Debits
<1>5. \A v \in Wagers : v # w => SameWager(v)
  BY <1>1 DEF SameWager
<1>6. /\ InStage(w)' /\ settleJob'[w].state \notin ActiveStates
      /\ req'[r].pc \notin Steps
  BY <1>1, <1>2, <1>3 DEF InStage, Steps
<1>7. StakesHold
  BY <1>1, <1>3, <1>4, StakesKeptBy DEF Staking
<1>8. OInv' /\ \A v \in Wagers : v # w => DealOf(v)' = DealOf(v)
  BY <1>1, <1>2, <1>3, <1>5, <1>6, <1>7, HandlerStep
<1>9. StageOf(w) = "open" /\ StageOf(w)' = "matched"
  <2>1. Pending(w, {"debitJoiner"}) /\ ~Pending(w, {"debitJoiner"})'
    BY <1>1, <1>2, <1>3 DEF Pending, Busy, Steps, OnlyMoves
  <2> QED BY <1>1, <1>2, <2>1 DEF StageOf
<1>10. Contract!Match(u, w)
  <2>1. \A x \in Users : Claimed(w, x)' <=> Claimed(w, x)
    BY <1>1 DEF Claimed
  <2>2. {x \in Users : Claimed(w, x)}' = {x \in Users : Claimed(w, x)}
    BY <2>1
  <2>3. Deals' = [Deals EXCEPT ![w].stage = "matched", ![w].playerTwo = u]
    <3>1. /\ Deals'[w].stage = "matched" /\ Deals'[w].amount = Deals[w].amount
          /\ Deals'[w].playerOne = Deals[w].playerOne /\ Deals'[w].playerTwo = u
          /\ Deals'[w].claimants = Deals[w].claimants
      BY <1>1, <1>2, <1>9, <2>2, DealShape
    <3> QED BY <1>8, <3>1, SeatTaken DEF OnlyDeal
  <2>4. Deals[w].stage = "open" /\ Deals[w].amount = a /\ Deals[w].playerOne = row[w].playerOne
    BY <1>9, DealShape
  <2>5. Contract!TakeStake(u, a)
    BY <1>4, SameFees DEF Contract!TakeStake
  <2>6. u # Deals[w].playerOne
    BY <2>4
  <2>7. Contract!TakeStake(u, Deals[w].amount)
    BY <2>4, <2>5
  <2> QED BY <2>3, <2>4, <2>6, <2>7, Zenon DEF Contract!Match, Deals
<1> QED BY <1>8, <1>10 DEF Kept, Contract!ContractNext

LEMMA SetWinnerKept ==
  ASSUME OInv, IInv', NEW r \in Reqs, SetWinner(r)
  PROVE  Kept
<1>1. req[r].pc = "setWinner"
  BY DEF SetWinner, Rewrites, At
<1> PICK w \in Wagers : w = req[r].wager
  BY <1>1, MoverFacts DEF Steps
<1>2. /\ row[w] \in Row /\ row[w].status = "ACTIVE"
      /\ req[r].user \in {row[w].playerOne, row[w].playerTwo}
      /\ settleJob[w].state \notin ActiveStates /\ InStage(w) /\ Busy(r, w)
      /\ \A s \in Reqs : s # r => ~Busy(s, w)
  BY <1>1, MoverFacts DEF Steps, Busy, Meant
<1> PICK u \in Users : u = req[r].user
  BY <1>1 DEF OInv, IInv, Core, SnapshotsHold, Snapshot, Steps
<1>3. /\ Rewrites(r, "setWinner", [row[w] EXCEPT !.winner = u])
      /\ Goto(r, "notify") /\ lost' = lost
  BY DEF SetWinner, Goto
<1>4. /\ row'[w] = [row[w] EXCEPT !.winner = u]
      /\ UNCHANGED <<balance, settleJob, notices, lost>>
      /\ \A v \in Wagers : v # w => SameWager(v)
  BY <1>3 DEF Rewrites, queues, SameWager, OInv, IInv, TypeOK
<1>5. /\ row'[w].status = "ACTIVE" /\ row'[w].amount = row[w].amount
      /\ row'[w].playerOne = row[w].playerOne /\ row'[w].playerTwo = row[w].playerTwo
      /\ row'[w].winner = u /\ u # NoUser
  BY <1>2, <1>4, ConstantsAssumption DEF Row
<1>6. /\ req'[r].pc = "notify" /\ req'[r].wager = w /\ req'[r].user = u /\ OnlyMoves(r)
  BY <1>3, GotoEffect DEF OInv, PCs, Steps
<1>7. InStage(w)' /\ Meant(r, w)' /\ settleJob'[w].state \notin ActiveStates
  BY <1>2, <1>4, <1>5, <1>6 DEF InStage, Meant, ActiveStates
<1>8. StakesHold
  BY <1>4, <1>6, NotAtStake, SameBalance DEF Staking
<1>9. OInv' /\ \A v \in Wagers : v # w => DealOf(v)' = DealOf(v)
  BY <1>2, <1>4, <1>6, <1>7, <1>8, HandlerStep
<1>10. StageOf(w) \in {"matched", "claimed"} /\ StageOf(w)' = "claimed"
  <2>1. ~Pending(w, {"debitJoiner"}) /\ ~Pending(w, {"debitJoiner"})'
    BY <1>1, <1>2, <1>6 DEF Pending, Busy, Steps, OnlyMoves
  <2> QED BY <1>2, <1>5, <2>1 DEF StageOf
<1>11. Contract!Claim(u, w)
  <2>1. \A x \in Users : Claimed(w, x)' <=> Claimed(w, x) \/ x = u
    <3>1. row[w].winner # NoUser => <<w, row[w].winner>> \in notices
      BY <1>1, <1>2, WinnerNoticed DEF Busy, Steps
    <3> QED BY <1>2, <1>4, <1>5, <3>1, ConstantsAssumption DEF Claimed
  <2>2. {x \in Users : Claimed(w, x)}' = {x \in Users : Claimed(w, x)} \cup {u}
    BY <2>1
  <2>3. Deals' = [Deals EXCEPT ![w].stage = "claimed", ![w].claimants = @ \cup {u}]
    <3>1. OnlyDeal(w)
      BY <1>9 DEF OnlyDeal
    <3>2. /\ Deals'[w].stage = "claimed" /\ Deals'[w].amount = Deals[w].amount
          /\ Deals'[w].playerOne = Deals[w].playerOne
          /\ Deals'[w].playerTwo = Deals[w].playerTwo
          /\ Deals'[w].claimants = Deals[w].claimants \cup {u}
      BY <1>5, <1>10, <2>2, DealShape
    <3> QED BY <1>9, <3>1, <3>2, ClaimMade
  <2>4. /\ Deals[w].stage \in {"matched", "claimed"}
        /\ u \in {Deals[w].playerOne, Deals[w].playerTwo}
    BY <1>2, <1>10, DealShape
  <2> QED BY <1>4, <2>3, <2>4, Zenon DEF Contract!Claim, Contract!Players, Deals
<1> QED BY <1>9, <1>11 DEF Kept, Contract!ContractNext

LEMMA ContestRowKept ==
  ASSUME OInv, IInv', NEW r \in Reqs, ContestRow(r)
  PROVE  Kept
<1>1. req[r].pc = "contestRow"
  BY DEF ContestRow, Rewrites, At
<1> PICK w \in Wagers : w = req[r].wager
  BY <1>1, MoverFacts DEF Steps
<1>2. /\ row[w] \in Row /\ row[w].status = "ACTIVE" /\ row[w].winner # NoUser
      /\ settleJob[w].state = "none" /\ InStage(w) /\ Busy(r, w)
      /\ \A s \in Reqs : s # r => ~Busy(s, w)
      /\ row[w].playerTwo # NoUser
  BY <1>1, MoverFacts DEF Steps, Busy, Meant, OInv, IInv, Core, TwoPlayers
<1>3. /\ Rewrites(r, "contestRow", [row[w] EXCEPT !.status = "DISPUTE", !.winner = NoUser])
      /\ Goto(r, "queueContest") /\ lost' = lost
  BY DEF ContestRow, Goto
<1>4. /\ row'[w] = [row[w] EXCEPT !.status = "DISPUTE", !.winner = NoUser]
      /\ UNCHANGED <<balance, settleJob, notices, lost>>
      /\ \A v \in Wagers : v # w => SameWager(v)
  BY <1>3 DEF Rewrites, queues, SameWager, OInv, IInv, TypeOK
<1>5. /\ row'[w].status = "DISPUTE" /\ row'[w].amount = row[w].amount
      /\ row'[w].playerOne = row[w].playerOne /\ row'[w].playerTwo = row[w].playerTwo
  BY <1>2, <1>4 DEF Row
<1>6. req'[r].pc = "queueContest" /\ req'[r].wager = w /\ OnlyMoves(r)
  BY <1>3, GotoEffect DEF OInv, PCs, Steps
<1>7. InStage(w)' /\ Meant(r, w)' /\ settleJob'[w].state \notin ActiveStates
  BY <1>2, <1>4, <1>5, <1>6 DEF InStage, Meant, ActiveStates
<1>8. StakesHold
  BY <1>4, <1>6, NotAtStake, SameBalance DEF Staking
<1>9. OInv' /\ \A v \in Wagers : v # w => DealOf(v)' = DealOf(v)
  <2>1. settleJob'[w].state \notin ActiveStates
    BY <1>7
  <2> QED BY <1>2, <1>4, <1>6, <1>7, <1>8, <2>1, HandlerStep
<1>10. StageOf(w) = "claimed" /\ StageOf(w)' = "disputed"
  <2>1. ~Pending(w, {"debitJoiner"})
    BY <1>1, <1>2 DEF Pending, Busy, Steps
  <2> QED BY <1>2, <1>5, <2>1 DEF StageOf
<1>11. Contract!Dispute(w)
  <2>1. \A x \in Users : Claimed(w, x)' <=> Claimed(w, x)
    <3>1. <<w, row[w].winner>> \in notices
      BY <1>1, <1>2, WinnerNoticed DEF Busy, Steps
    <3> QED BY <1>2, <1>4, <1>5, <3>1 DEF Claimed
  <2>2. {x \in Users : Claimed(w, x)}' = {x \in Users : Claimed(w, x)}
    BY <2>1
  <2>3. Deals' = [Deals EXCEPT ![w].stage = "disputed"]
    <3>1. "disputed" \in Contract!Stages /\ OnlyDeal(w)
      BY <1>9 DEF Contract!Stages, OnlyDeal
    <3>2. /\ Deals'[w].stage = "disputed" /\ Deals'[w].amount = Deals[w].amount
          /\ Deals'[w].playerOne = Deals[w].playerOne
          /\ Deals'[w].playerTwo = Deals[w].playerTwo
          /\ Deals'[w].claimants = Deals[w].claimants
      BY <1>5, <1>10, <2>2, DealShape
    <3> QED BY <1>9, <3>1, <3>2, StageMoved
  <2>4. Deals[w].stage = "claimed"
    BY <1>10, DealShape
  <2> QED BY <1>4, <2>3, <2>4 DEF Contract!Dispute, Deals
<1> QED BY <1>9, <1>11 DEF Kept, Contract!ContractNext

\* A credit and the end of its wager.
Awards(w, u) ==
  /\ row[w].amount \in Amounts /\ Credit(w, u, row[w].amount) /\ row' = row
  /\ StageOf(w) # "settled" /\ StageOf(w)' = "settled"

Awarded == \E w \in Wagers, u \in Users : Awards(w, u)

\* The credit of a claimed or disputed wager awards the prize.
LEMMA AwardMade ==
  ASSUME OInv, OInv', NEW w \in Wagers, OnlyDeal(w), NEW u \in Users, NEW a \in Amounts,
         a = row[w].amount, Credit(w, u, a), row' = row, notices' = notices,
         \/ StageOf(w) = "claimed" /\ <<w, u>> \in notices
         \/ StageOf(w) = "disputed" /\ u \in {row[w].playerOne, row[w].playerTwo},
         StageOf(w)' = "settled"
  PROVE  Kept
<1>1. \A x \in Users : Claimed(w, x)' <=> Claimed(w, x)
  BY DEF Claimed
<1>2. {x \in Users : Claimed(w, x)}' = {x \in Users : Claimed(w, x)}
  BY <1>1
<1>3. Deals' = [Deals EXCEPT ![w].stage = "settled"]
  <2>1. "settled" \in Contract!Stages
    BY DEF Contract!Stages
  <2>2. /\ Deals'[w].stage = "settled" /\ Deals'[w].amount = Deals[w].amount
        /\ Deals'[w].playerOne = Deals[w].playerOne
        /\ Deals'[w].playerTwo = Deals[w].playerTwo
        /\ Deals'[w].claimants = Deals[w].claimants
    BY <1>2, DealShape
  <2> QED BY <2>1, <2>2, StageMoved
<1>4. /\ Deals[w].amount = a
      /\ \/ Deals[w].stage = "claimed" /\ u \in Deals[w].claimants
         \/ Deals[w].stage = "disputed" /\ u \in {Deals[w].playerOne, Deals[w].playerTwo}
  BY DealShape DEF Claimed
<1>5. balance' = [balance EXCEPT ![u] = @ + Contract!Prize(Deals[w].amount)]
  BY <1>4, SameFees DEF Credit
<1>6. Contract!Award(u, w)
  BY <1>3, <1>4, <1>5, Zenon DEF Contract!Award, Contract!Players, Deals
<1> QED BY <1>6 DEF Kept, Contract!ContractNext

LEMMA CreditGrows ==
  ASSUME OInv, NEW w \in Wagers, NEW u \in Users, NEW a \in Amounts, Credit(w, u, a)
  PROVE  \A x \in Users : balance'[x] >= balance[x]
<1>1. balance \in [Users -> Int] /\ Prize(a) \in Nat
  BY PrizesAreNat DEF OInv, IInv, TypeOK
<1> QED BY <1>1 DEF Credit

LEMMA HandlersCreditKept ==
  ASSUME OInv, IInv', NEW r \in Reqs, CreditWinner(r) \/ CreditResolved(r)
  PROVE  Kept /\ Awarded
<1>1. /\ req[r].pc \in {"creditWinner", "creditResolved"} /\ Return(r)
      /\ UNCHANGED <<row, settleJob, notices, lost>>
  BY DEF CreditWinner, CreditResolved, At, Return, queues
<1> PICK w \in Wagers : w = req[r].wager
  BY <1>1, MoverFacts DEF Steps
<1>2. /\ row[w] \in Row /\ row[w].status = "SETTLED"
      /\ req[r].pc = "creditWinner" => <<w, req[r].seen.winner>> \in notices
      /\ req[r].pc = "creditResolved" => req[r].user \in {row[w].playerOne, row[w].playerTwo}
      /\ row[w].amount \in Amounts /\ req[r].seen.amount = row[w].amount
      /\ settleJob[w].state \notin ActiveStates /\ InStage(w) /\ Busy(r, w)
      /\ \A s \in Reqs : s # r => ~Busy(s, w)
  BY <1>1, MoverFacts DEF Steps, Busy, Meant
<1> PICK a \in Amounts : a = row[w].amount
  BY <1>2
<1>3. PICK u \in Users :
        /\ Credit(w, u, a)
        /\ req[r].pc = "creditWinner" => <<w, u>> \in notices
        /\ req[r].pc = "creditResolved" => u \in {row[w].playerOne, row[w].playerTwo}
  <2>1. CASE CreditWinner(r)
    <3>1. req[r].pc = "creditWinner" /\ Credit(w, req[r].seen.winner, a)
      BY <1>2, <2>1 DEF CreditWinner, At
    <3>2. req[r].seen.winner \in Users
      BY <1>2, <3>1 DEF OInv, IInv, TypeOK
    <3> QED BY <1>2, <3>1, <3>2
  <2>2. CASE CreditResolved(r)
    <3>1. req[r].pc = "creditResolved" /\ Credit(w, req[r].user, a)
      BY <1>2, <2>2 DEF CreditResolved, At
    <3>2. req[r].user \in Users
      BY <3>1 DEF OInv, IInv, Core, SnapshotsHold, Snapshot
    <3> QED BY <1>2, <3>1, <3>2
  <2> QED BY <2>1, <2>2
<1>4. req'[r].pc = "done" /\ OnlyMoves(r)
  BY <1>1, ReturnEffect DEF OInv
<1>5. \A v \in Wagers : v # w => SameWager(v)
  BY <1>1 DEF SameWager
<1>6. /\ InStage(w)' /\ settleJob'[w].state \notin ActiveStates
      /\ req'[r].pc \notin Steps
  BY <1>1, <1>2, <1>4 DEF InStage, Steps
<1>7. StakesHold
  BY <1>3, <1>4, NotAtStake, CreditGrows DEF Staking
<1>8. OInv' /\ \A v \in Wagers : v # w => DealOf(v)' = DealOf(v)
  BY <1>1, <1>2, <1>4, <1>5, <1>6, <1>7, HandlerStep
<1>9. /\ req[r].pc = "creditWinner" => StageOf(w) = "claimed"
      /\ req[r].pc = "creditResolved" => StageOf(w) = "disputed"
      /\ StageOf(w)' = "settled"
  <2>1. /\ Pending(w, {"creditWinner"}) <=> req[r].pc = "creditWinner"
        /\ Pending(w, {"creditResolved"}) <=> req[r].pc = "creditResolved"
        /\ ~Pending(w, {"creditWinner"})' /\ ~Pending(w, {"creditResolved"})'
    BY <1>1, <1>2, <1>4 DEF Pending, Busy, Steps, OnlyMoves
  <2>2. settleJob[w].state # "crediting" /\ settleJob'[w].state # "crediting"
    BY <1>1, <1>2 DEF ActiveStates
  <2> QED BY <1>1, <1>2, <2>1, <2>2 DEF StageOf
<1>10. OnlyDeal(w)
  BY <1>8 DEF OnlyDeal
<1>11. Awards(w, u)
  BY <1>1, <1>2, <1>3, <1>9 DEF Awards
<1> QED BY <1>1, <1>3, <1>8, <1>9, <1>10, <1>11, AwardMade DEF Awarded

\* These handlers do not fail: a winner who was noticed is a user, and the row
\* of a wager in play is there.
LEMMA NobodyThrows ==
  ASSUME OInv, NEW r \in Reqs
  PROVE  ~CreditNobody(r) /\ ~RowMissing(r)
<1>1. ASSUME CreditNobody(r) PROVE FALSE
  <2>1. req[r].pc = "creditWinner" /\ req[r].seen.winner = NoUser
    BY <1>1 DEF CreditNobody, At
  <2>2. <<req[r].wager, req[r].seen.winner>> \in notices
    BY <2>1, MoverFacts DEF Steps, Meant
  <2> QED BY <2>1, <2>2, ConstantsAssumption DEF OInv, IInv, TypeOK
<1>2. ASSUME RowMissing(r) PROVE FALSE
  <2>1. req[r].pc \in RowSteps /\ ~Exists(req[r].wager)
    BY <1>2 DEF RowMissing
  <2>2. Meant(r, req[r].wager)
    BY <2>1, MoverFacts DEF Steps, RowSteps
  <2> QED BY <2>1, <2>2 DEF Meant, RowSteps, Exists, Live
<1> QED BY <1>1, <1>2

-----------------------------------------------------------------------------
(* The settle-wager job.                                                   *)

LEMMA JobStakes ==
  ASSUME OInv, IInv', req' = req, \A u \in Users : balance'[u] >= balance[u]
  PROVE  StakesHold
<1>1. balance \in [Users -> Int] /\ balance' \in [Users -> Int]
  BY DEF OInv, IInv, TypeOK
<1>2. OneStake'
  BY DEF OInv, OneStake
<1>3. NoOverdraft'
  <2> SUFFICES ASSUME NEW u \in Users PROVE balance'[u] >= 0
    BY DEF NoOverdraft
  <2>1. balance[u] \in Int /\ balance'[u] \in Int /\ balance[u] >= 0
    BY <1>1 DEF OInv, NoOverdraft
  <2> QED BY <2>1
<1>4. ASSUME NEW s \in Reqs, req[s].pc \in Staking \ {"checkFunds"}
      PROVE  Affordable(req[s].seen.amount, balance'[req[s].user])
  <2>1. req[s].user \in Users
    BY <1>4 DEF OInv, IInv, Core, SnapshotsHold, Snapshot, Staking, Steps
  <2>2. Affordable(req[s].seen.amount, balance[req[s].user])
    BY <1>4 DEF OInv, Funded
  <2>3. req[s].seen.amount \in Int
    <3>1. req[s].seen \in Row
      BY DEF OInv, IInv, TypeOK, Request
    <3> QED BY <3>1, AmountsAreNat DEF Row
  <2> QED BY <1>1, <2>1, <2>2, <2>3 DEF Affordable
<1>5. Funded'
  BY <1>4 DEF Funded
<1> QED BY <1>2, <1>3, <1>5 DEF StakesHold

LEMMA JobStep ==
  ASSUME OInv, IInv', lost' = lost, req' = req, NEW w \in Wagers,
         \A r \in Reqs : ~Busy(r, w),
         \A v \in Wagers : v # w => SameWager(v),
         InStage(w)', \A u \in Users : balance'[u] >= balance[u]
  PROVE  OInv' /\ OnlyDeal(w)
<1>1. \A v \in Wagers : v # w => Elsewhere(v)
  BY DEF Elsewhere
<1>2. InLine(w)'
  BY DEF InLine, Alone, Busy
<1>3. lost' = {} /\ StakesHold
  BY JobStakes DEF OInv
<1> QED BY <1>1, <1>2, <1>3, StepAt DEF OnlyDeal

\* A job that runs is alone at its wager.
LEMMA WorkerFacts ==
  ASSUME OInv, NEW w \in Wagers, settleJob[w].state \in ActiveStates
  PROVE  InStage(w) /\ \A r \in Reqs : ~Busy(r, w)
BY DEF OInv, InLine

\* The job is started, or ends.
LEMMA JobMovesKept ==
  ASSUME OInv, IInv', NEW w \in Wagers, OrderlyTimer(w) \/ FinishSettle(w)
  PROVE  Kept
<1>1. /\ InStage(w) /\ \A r \in Reqs : ~Busy(r, w)
      /\ UNCHANGED <<row, balance, notices, req, lost>>
  <2>1. CASE OrderlyTimer(w)
    BY <2>1 DEF OrderlyTimer, StartSettle, Quiet, Busy, tables, OInv, InLine
  <2>2. CASE FinishSettle(w)
    BY <2>2, WorkerFacts DEF FinishSettle, JobAt, ActiveStates, tables
  <2> QED BY <2>1, <2>2
<1>2. /\ \A v \in Wagers : v # w => settleJob'[v] = settleJob[v]
      /\ \/ settleJob[w].state = "queued" /\ settleJob'[w].state = "settling"
         \/ settleJob[w].state = "mailing" /\ settleJob'[w].state \in {"completed", "failed"}
  <2>1. settleJob \in [Wagers -> Job]
    BY DEF OInv, IInv, TypeOK
  <2>2. CASE OrderlyTimer(w)
    BY <2>1, <2>2 DEF OrderlyTimer, StartSettle, JobAt, JobGoto, Job
  <2>3. CASE FinishSettle(w)
    BY <2>1, <2>3 DEF FinishSettle, JobAt, JobGoto, Job
  <2> QED BY <2>2, <2>3
<1>3. \A v \in Wagers : v # w => SameWager(v)
  BY <1>1, <1>2 DEF SameWager
<1>4. InStage(w)'
  BY <1>1, <1>2 DEF InStage
<1>5. OInv' /\ OnlyDeal(w)
  BY <1>1, <1>3, <1>4, JobStep, SameBalance
<1>6. DealSame(w)
  BY <1>1, <1>2 DEF DealSame, Claimed
<1>7. \A v \in Wagers : DealOf(v)' = DealOf(v)
  BY <1>5, <1>6, DealKept DEF OnlyDeal
<1> QED BY <1>1, <1>5, <1>7, SilentStep

\* For the contract the claim stands until the credit.
LEMMA SettleRowKept ==
  ASSUME OInv, IInv', NEW w \in Wagers, SettleRow(w)
  PROVE  Kept
<1>1. settleJob[w].state = "settling" /\ UNCHANGED <<balance, notices, req, lost>>
  BY DEF SettleRow, JobAt
<1>2. /\ InStage(w) /\ \A r \in Reqs : ~Busy(r, w)
      /\ row[w].status = "ACTIVE" /\ row[w].winner # NoUser /\ row[w] \in Row
  BY <1>1, WorkerFacts DEF ActiveStates, InStage, OInv, IInv, TypeOK
<1>3. /\ row' = [row EXCEPT ![w].status = "SETTLED"]
      /\ settleJob' = [settleJob EXCEPT ![w].state = "crediting", ![w].amount = row[w].amount]
  BY <1>2 DEF SettleRow, Exists, Live
<1>4. /\ \A v \in Wagers : v # w => row'[v] = row[v] /\ settleJob'[v] = settleJob[v]
      /\ settleJob'[w].state = "crediting"
      /\ row'[w].status = "SETTLED" /\ row'[w].amount = row[w].amount
      /\ row'[w].playerOne = row[w].playerOne /\ row'[w].playerTwo = row[w].playerTwo
  BY <1>3 DEF OInv, IInv, TypeOK, Row, Job
<1>5. \A v \in Wagers : v # w => SameWager(v)
  BY <1>1, <1>4 DEF SameWager
<1>6. InStage(w)'
  BY <1>1, <1>4 DEF InStage
<1>7. OInv' /\ OnlyDeal(w)
  BY <1>1, <1>2, <1>5, <1>6, JobStep, SameBalance
<1>8. DealOf(w)' = DealOf(w)
  <2>1. ~Pending(w, {"debitJoiner"}) /\ ~Pending(w, {"creditResolved"})'
    BY <1>1, <1>2 DEF Pending, Busy, Steps
  <2>2. StageOf(w) = "claimed" /\ StageOf(w)' = "claimed"
    BY <1>2, <1>4, <2>1 DEF StageOf
  <2>3. <<w, row[w].winner>> \in notices
    BY <1>2, WinnerNoticed DEF Busy, Steps
  <2>4. \A u \in Users : Claimed(w, u)' <=> Claimed(w, u)
    BY <1>1, <1>2, <1>4, <2>3 DEF Claimed
  <2> QED BY <1>4, <2>2, <2>4 DEF DealOf, Claimed
<1>9. \A v \in Wagers : DealOf(v)' = DealOf(v)
  BY <1>7, <1>8 DEF OnlyDeal
<1> QED BY <1>1, <1>7, <1>9, SilentStep

LEMMA CreditClaimantKept ==
  ASSUME OInv, IInv', NEW w \in Wagers, CreditClaimant(w)
  PROVE  Kept /\ Awarded
<1>1. /\ settleJob[w].state = "crediting" /\ JobGoto(w, "mailing")
      /\ Credit(w, settleJob[w].claimant, settleJob[w].amount)
      /\ UNCHANGED <<row, notices, req, lost>>
  BY DEF CreditClaimant, JobAt
<1>2. /\ InStage(w) /\ \A r \in Reqs : ~Busy(r, w)
      /\ row[w].status = "SETTLED"
  BY <1>1, WorkerFacts DEF ActiveStates, InStage
<1>3. /\ settleJob[w].claimant \in Users /\ <<w, settleJob[w].claimant>> \in notices
      /\ settleJob[w].amount = row[w].amount /\ row[w].amount \in Amounts
  BY <1>1 DEF OInv, IInv, Core, JobHolds, TimeoutPaysStaker, NoticeFirst, RowFilled
<1> PICK u \in Users : u = settleJob[w].claimant
  BY <1>3
<1> PICK a \in Amounts : a = row[w].amount
  BY <1>3
<1>4. /\ \A v \in Wagers : v # w => settleJob'[v] = settleJob[v]
      /\ settleJob'[w].state = "mailing"
  BY <1>1 DEF JobGoto, OInv, IInv, TypeOK, Job
<1>5. Credit(w, u, a)
  BY <1>1, <1>3
<1>6. \A v \in Wagers : v # w => SameWager(v)
  BY <1>1, <1>4 DEF SameWager
<1>7. InStage(w)'
  BY <1>1, <1>2, <1>4 DEF InStage
<1>8. OInv' /\ OnlyDeal(w)
  BY <1>1, <1>2, <1>5, <1>6, <1>7, JobStep, CreditGrows
<1>9. StageOf(w) = "claimed" /\ StageOf(w)' = "settled"
  <2>1. /\ ~Pending(w, {"creditResolved"})
        /\ ~Pending(w, {"creditResolved"})' /\ ~Pending(w, {"creditWinner"})'
    BY <1>1, <1>2 DEF Pending, Busy, Steps
  <2> QED BY <1>1, <1>2, <1>4, <2>1 DEF StageOf
<1>10. Awards(w, u)
  BY <1>1, <1>5, <1>9 DEF Awards
<1> QED BY <1>1, <1>3, <1>5, <1>8, <1>9, <1>10, AwardMade DEF Awarded

-----------------------------------------------------------------------------
(* The theorems.                                                           *)

LEMMA OrderlyIsNext ==
  ASSUME OInv, OrderlyNext
  PROVE  Next
<1>1. ASSUME NEW r \in Reqs, OrderlySent(r) PROVE Next
  <2>1. ASSUME NEW w \in Wagers, row[w].status = "DISPUTE",
               NEW u \in {row[w].playerOne, row[w].playerTwo}, ResolveDispute(r, u, w)
        PROVE  Next
    <3>1. row[w] \in Row /\ row[w].playerOne \in Users /\ row[w].playerTwo # NoUser
      BY <2>1 DEF OInv, IInv, TypeOK, Core, RowFilled, InLine, InStage
    <3>2. u \in Users
      BY <3>1 DEF Row
    <3> QED BY <2>1, <3>2 DEF Next, AdminSent
  <2>2. OrderlySent(r) =>
          \/ PlayerSent(r)
          \/ \E w \in Wagers : /\ row[w].status = "DISPUTE"
                              /\ \E u \in {row[w].playerOne, row[w].playerTwo} :
                                   ResolveDispute(r, u, w)
    BY DEF OrderlySent, PlayerSent
  <2> QED BY <1>1, <2>1, <2>2 DEF Next
<1>2. ASSUME NEW r \in Reqs, Resumes(r) PROVE Next
  BY <1>2 DEF Next
<1>3. ASSUME NEW w \in Wagers, OrderlyTimer(w) \/ Works(w) PROVE Next
  BY <1>3 DEF Next, OrderlyTimer
<1> QED BY <1>1, <1>2, <1>3 DEF OrderlyNext

LEMMA OrderlyStep ==
  ASSUME OInv, [OrderlyNext]_vars
  PROVE  Kept
<1>1. CASE UNCHANGED vars
  <2>1. UNCHANGED <<row, balance, settleJob, notices, contestJobs, req, lost, faults,
                    staked, paid>>
    BY <1>1 DEF vars
  <2>2. IInv'
    BY <1>1, StutterIsFine DEF OInv
  <2>3. \A v \in Wagers : SameWager(v) /\ Elsewhere(v)
    BY <2>1 DEF SameWager, Elsewhere
  <2>4. StakesHold
    BY <2>1, <2>2, JobStakes, SameBalance
  <2>5. OInv'
    BY <2>1, <2>2, <2>3, <2>4, OthersInLine DEF OInv, IInv, StakesHold
  <2> QED BY <2>1, <2>3, <2>5, OthersKeepDeals, SilentStep
<1>2. CASE OrderlyNext
  <2>1. IInv'
    BY <1>2, OrderlyIsNext, StepIsFine DEF OInv
  <2>2. ASSUME NEW r \in Reqs, OrderlySent(r) PROVE Kept
    BY <2>1, <2>2, SentKept
  <2>3. ASSUME NEW r \in Reqs, Resumes(r) PROVE Kept
    <3>1. CASE \E w \in Wagers : InsertWager(r, w)
      BY <2>1, <3>1, InsertKept
    <3>2. CASE DebitCreator(r) \/ CheckFunds(r) \/ JoinRow(r) \/ DebitJoiner(r)
      BY <2>1, <3>2, DebitCreatorKept, CheckFundsKept, JoinRowKept, DebitJoinerKept
    <3>3. CASE UpdateRow(r) \/ DeleteRow(r) \/ SetWinner(r)
      BY <2>1, <3>3, UpdateRowKept, DeleteRowKept, SetWinnerKept
    <3>4. CASE QueueNotice(r) \/ QueueSettle(r) \/ QueueContest(r)
      BY <2>1, <3>4, NoticeKept, ScheduleKept, QueueContestKept
    <3>5. CASE AcceptUnschedule(r) \/ ContestUnschedule(r)
      BY <2>1, <3>5, UnscheduleKept
    <3>6. CASE AcceptRow(r) \/ ContestRow(r) \/ ResolveRow(r)
      BY <2>1, <3>6, AcceptRowKept, ContestRowKept, ResolveRowKept
    <3>7. CASE CreditWinner(r) \/ CreditResolved(r)
      BY <2>1, <3>7, HandlersCreditKept
    <3>8. ~CreditNobody(r) /\ ~RowMissing(r)
      BY NobodyThrows
    <3> QED BY <2>3, <3>1, <3>2, <3>3, <3>4, <3>5, <3>6, <3>7, <3>8 DEF Resumes
  <2>4. ASSUME NEW w \in Wagers, OrderlyTimer(w) \/ Works(w) PROVE Kept
    BY <2>1, <2>4, JobMovesKept, SettleRowKept, CreditClaimantKept DEF Works
  <2> QED BY <1>2, <2>2, <2>3, <2>4 DEF OrderlyNext
<1> QED BY <1>1, <1>2

LEMMA OrderlyInit == Init => OInv /\ Contract!ContractInit
<1> SUFFICES ASSUME Init PROVE OInv /\ Contract!ContractInit
  OBVIOUS
<1>1. /\ \A w \in Wagers : /\ row[w].status = "none" /\ settleJob[w].state = "none"
      /\ \A r \in Reqs : req[r].pc = "idle"
      /\ notices = {} /\ lost = {} /\ balance = [u \in Users |-> InitialBalance]
  BY DEF Init, NoRow, NoJob, NotSent
<1>2. \A r \in Reqs : req[r].pc \notin Steps
  BY <1>1 DEF Steps
<1>3. OInv
  <2>1. \A w \in Wagers : InLine(w)
    BY <1>1, <1>2 DEF InLine, Alone, InStage, Busy
  <2>2. OneStake /\ Funded
    BY <1>1 DEF OneStake, Funded, Staking
  <2>3. NoOverdraft
    BY <1>1, ConstantsAssumption DEF NoOverdraft
  <2> QED BY <1>1, <2>1, <2>2, <2>3, InitIsFine DEF OInv
<1>4. ASSUME NEW w \in Wagers PROVE DealOf(w) = Contract!NoDeal
  <2>1. StageOf(w) = "none"
    BY <1>1 DEF StageOf
  <2>2. {u \in Users : Claimed(w, u)} = {}
    BY <1>1 DEF Claimed
  <2> QED BY <2>1, <2>2 DEF DealOf, Claimed, Contract!NoDeal
<1> QED BY <1>1, <1>3, <1>4 DEF Contract!ContractInit

\* Used in an orderly way, every step of a handler or of the settle-wager job is
\* a step of the contract or changes nothing it speaks of: a stake is taken with
\* the seat, and the prize paid once, to a claimant or after a dispute.
THEOREM OrderlyImplementsContract == OrderlySpec => KeepsContract
<1>1. Init => OInv /\ Contract!ContractInit
  BY OrderlyInit
<1>2. OInv /\ [OrderlyNext]_vars => OInv' /\ [Contract!ContractNext]_(Contract!dealVars)
  BY OrderlyStep DEF Kept
<1> QED BY <1>1, <1>2, PTL DEF OrderlySpec, KeepsContract, Contract!ContractSpec

\* Used in an orderly way no balance goes below zero: the funds a staking handler
\* checked are still there when it comes to its debit.
THEOREM NoOverdraftInOrder == OrderlySpec => []NoOverdraft
<1>1. Init => OInv
  BY OrderlyInit
<1>2. OInv /\ [OrderlyNext]_vars => OInv'
  BY OrderlyStep DEF Kept
<1>3. OInv => NoOverdraft
  BY DEF OInv
<1> QED BY <1>1, <1>2, <1>3, PTL DEF OrderlySpec

-----------------------------------------------------------------------------
(* Where the money is.                                                     *)

Pots == [w \in Wagers |-> Contract!Pot(w)]
Total == SumFunctionOnSet(balance, Users) + SumFunctionOnSet(Pots, Wagers)

\* What is in a pot at every stage.
LEMMA PotAtStage ==
  ASSUME NEW w \in Wagers
  PROVE  LET stake == StakeDebit(Deals[w].amount)
             s == Deals[w].stage
         IN  /\ s = "none" => Contract!Pot(w) = 0
             /\ s \in {"open", "void"} => Contract!Pot(w) = stake
             /\ s = "settled" => Contract!Pot(w) = 2 * stake - Prize(Deals[w].amount)
             /\ s \in {"matched", "claimed", "disputed"} => Contract!Pot(w) = 2 * stake
<1>1. /\ Contract!StakeDebit(Deals[w].amount) = StakeDebit(Deals[w].amount)
      /\ Contract!Prize(Deals[w].amount) = Prize(Deals[w].amount)
  BY SameFees
<1> QED BY <1>1 DEF Contract!Pot, Deals

LEMMA PotAtNextStage ==
  ASSUME NEW w \in Wagers
  PROVE  LET stake == StakeDebit(Deals'[w].amount)
             s == Deals'[w].stage
         IN  /\ s = "none" => Contract!Pot(w)' = 0
             /\ s \in {"open", "void"} => Contract!Pot(w)' = stake
             /\ s = "settled" => Contract!Pot(w)' = 2 * stake - Prize(Deals'[w].amount)
             /\ s \in {"matched", "claimed", "disputed"} => Contract!Pot(w)' = 2 * stake
<1>1. /\ Contract!StakeDebit(Deals'[w].amount) = StakeDebit(Deals'[w].amount)
      /\ Contract!Prize(Deals'[w].amount) = Prize(Deals'[w].amount)
  BY SameFees
<1> QED BY <1>1 DEF Contract!Pot, Deals

\* No pot is overdrawn: a prize is at most the two stakes.
LEMMA PotsFilled ==
  ASSUME OInv, NEW w \in Wagers
  PROVE  /\ Contract!Pot(w) \in Int /\ Contract!Pot(w) >= 0
         /\ StakeDebit(Deals[w].amount) \in Nat /\ Prize(Deals[w].amount) \in Int
<1>1. Deals[w] \in Contract!Deal
  BY DealsTyped
<1>2. Deals[w].amount \in Amounts \cup {0} /\ Deals[w].stage \in Contract!Stages
  BY <1>1 DEF Contract!Deal
<1>3. StakeDebit(Deals[w].amount) \in Nat /\ Deals[w].amount \in Nat
  BY <1>2, AmountsAreNat
<1>4. Prize(Deals[w].amount) \in Int
  BY <1>3, FeeBounds DEF Prize, UnitsPerDollar
<1>5. CASE Deals[w].stage = "settled"
  <2>1. StageOf(w) = "settled" /\ Deals[w].amount = row[w].amount
    BY <1>5, DealShape
  <2>2. row[w] \in Row /\ RowFilled(w)
    BY DEF OInv, IInv, TypeOK, Core
  <2>3. row[w].status = "SETTLED"
    BY <2>1, <2>2 DEF StageOf, Row, Live
  <2>4. row[w].amount \in Amounts
    BY <2>2, <2>3 DEF RowFilled
  <2>5. Deals[w].amount \in Nat /\ Deals[w].amount >= 2
    BY <2>1, <2>4, ConstantsAssumption
  <2>6. Prize(Deals[w].amount) <= 2 * StakeDebit(Deals[w].amount)
    BY <2>5, PrizeBounds
  <2> QED BY <1>3, <1>4, <1>5, <2>6, PotAtStage
<1>6. CASE Deals[w].stage # "settled"
  <2>1. Contract!Pot(w) \in {0, StakeDebit(Deals[w].amount), 2 * StakeDebit(Deals[w].amount)}
    BY <1>2, <1>6, PotAtStage DEF Contract!Stages
  <2> QED BY <1>3, <1>4, <2>1
<1> QED BY <1>5, <1>6

LEMMA TotalTyped ==
  ASSUME OInv
  PROVE  /\ SumFunctionOnSet(balance, Users) \in Int
         /\ SumFunctionOnSet(Pots, Wagers) \in Int
         /\ \A u \in Users : balance[u] \in Int
<1>1. \A u \in Users : balance[u] \in Int
  BY DEF OInv, IInv, TypeOK
<1>2. \A w \in Wagers : Pots[w] \in Int
  BY PotsFilled DEF Pots
<1> QED BY <1>1, <1>2, SumType, FiniteTables

\* The pots that do not change hold what they held.
LEMMA PotsKept ==
  ASSUME NEW w \in Wagers, Deals'[w] = Deals[w], OInv
  PROVE  Contract!Pot(w)' = Contract!Pot(w)
<1>1. Deals[w].stage \in Contract!Stages
  BY DealsTyped DEF Contract!Deal
<1> QED BY <1>1, PotAtStage, PotAtNextStage DEF Contract!Stages

\* Money goes from the pot of w to the balance of u, or back.
LEMMA MoneyMoves ==
  ASSUME OInv, NEW w \in Wagers, NEW u \in Users, NEW c \in Int,
         balance'[u] = balance[u] + c, \A x \in Users : x # u => balance'[x] = balance[x],
         \A v \in Wagers : v # w => Deals'[v] = Deals[v],
         Contract!Pot(w)' = Contract!Pot(w) - c
  PROVE  Total' = Total
<1>1. \A x \in Users : balance[x] \in Int
  BY TotalTyped
<1>2. balance[u] \in Int /\ balance'[u] \in Int
  BY <1>1
<1>3. SumFunctionOnSet(balance', Users) = SumFunctionOnSet(balance, Users) + balance'[u] - balance[u]
  BY <1>1, <1>2, SumChange, FiniteTables
<1> DEFINE f == Pots
           g == [v \in Wagers |-> Contract!Pot(v)']
<1>4. /\ \A v \in Wagers : f[v] \in Int
      /\ \A v \in Wagers : v # w => g[v] = f[v]
      /\ g[w] = f[w] - c
  BY PotsFilled, PotsKept DEF Pots
<1>5. SumFunctionOnSet(Pots, Wagers)' = SumFunctionOnSet(g, Wagers)
  BY DEF Pots
<1> HIDE DEF f, g
<1>6. g[w] \in Int
  BY <1>4
<1>7. SumFunctionOnSet(g, Wagers) = SumFunctionOnSet(f, Wagers) + g[w] - f[w]
  BY <1>4, <1>6, SumChange, FiniteTables
<1>8. SumFunctionOnSet(f, Wagers) \in Int /\ SumFunctionOnSet(balance, Users) \in Int
  BY TotalTyped DEF f
<1> DEFINE a == SumFunctionOnSet(balance, Users)
           b == SumFunctionOnSet(f, Wagers)
<1>9. /\ Total = a + b /\ Total' = (a + c) + (b - c) /\ a \in Int /\ b \in Int
  <2>1. SumFunctionOnSet(balance, Users)' = a + c
    BY <1>2, <1>3, <1>8
  <2>2. SumFunctionOnSet(Pots, Wagers)' = b - c
    BY <1>4, <1>5, <1>7, <1>8
  <2>3. Total = a + b
    BY DEF Total, f
  <2> QED BY <1>8, <2>1, <2>2, <2>3 DEF Total
<1> HIDE DEF a, b
<1> QED BY <1>9

LEMMA MoneyRests ==
  ASSUME OInv, balance' = balance, \A w \in Wagers : Contract!Pot(w)' = Contract!Pot(w)
  PROVE  Total' = Total
<1> DEFINE g == [v \in Wagers |-> Contract!Pot(v)']
<1>1. g = Pots /\ Pots' = g
  BY DEF Pots
<1> QED BY <1>1 DEF Total

\* A step of the contract moves money and makes none.
LEMMA ContractConserves ==
  ASSUME OInv, OInv', [Contract!ContractNext]_(Contract!dealVars)
  PROVE  Total' = Total
<1>1. CASE UNCHANGED Contract!dealVars
  <2>1. Deals' = Deals /\ balance' = balance
    BY <1>1 DEF Contract!dealVars, Deals
  <2> QED BY <2>1, PotsKept, MoneyRests
<1>2. CASE Contract!ContractNext
  <2>1. PICK w \in Wagers :
          \/ \E u \in Users :
               \/ \E a \in Amounts : Contract!Open(u, w, a)
               \/ Contract!Match(u, w) \/ Contract!Claim(u, w) \/ Contract!Award(u, w)
          \/ Contract!Void(w) \/ Contract!Dispute(w)
    BY <1>2 DEF Contract!ContractNext
  <2>2. Deals \in [Wagers -> Contract!Deal]
    BY DealsTyped
  <2> DEFINE a == Deals[w].amount
             stake == StakeDebit(a)
  <2>3. a \in Amounts \cup {0} /\ stake \in Nat /\ Prize(a) \in Int
    BY <2>2, PotsFilled DEF Contract!Deal
  \* The stage alone changes, and no money moves.
  <2>4. ASSUME balance' = balance, \A v \in Wagers : v # w => Deals'[v] = Deals[v],
               Deals'[w].amount = Deals[w].amount,
               \/ Deals[w].stage = "open" /\ Deals'[w].stage = "void"
               \/ /\ Deals[w].stage \in {"matched", "claimed"}
                  /\ Deals'[w].stage \in {"claimed", "disputed"}
        PROVE  Total' = Total
    <3>1. Contract!Pot(w)' = Contract!Pot(w)
      BY <2>4, PotAtStage, PotAtNextStage
    <3> QED BY <2>4, <3>1, PotsKept, MoneyRests
  <2>5. CASE Contract!Void(w)
    <3>1. /\ Deals[w].stage = "open" /\ balance' = balance
          /\ Deals' = [Deals EXCEPT ![w].stage = "void"]
      BY <2>5 DEF Contract!Void, Deals
    <3>2. /\ Deals'[w].stage = "void" /\ Deals'[w].amount = Deals[w].amount
          /\ \A v \in Wagers : v # w => Deals'[v] = Deals[v]
      BY <2>2, <3>1 DEF Contract!Deal
    <3> QED BY <2>4, <3>1, <3>2
  <2>6. CASE Contract!Dispute(w)
    <3>1. /\ Deals[w].stage = "claimed" /\ balance' = balance
          /\ Deals' = [Deals EXCEPT ![w].stage = "disputed"]
      BY <2>6 DEF Contract!Dispute, Deals
    <3>2. /\ Deals'[w].stage = "disputed" /\ Deals'[w].amount = Deals[w].amount
          /\ \A v \in Wagers : v # w => Deals'[v] = Deals[v]
      BY <2>2, <3>1 DEF Contract!Deal
    <3> QED BY <2>4, <3>1, <3>2
  <2>7. ASSUME NEW u \in Users, Contract!Claim(u, w) PROVE Total' = Total
    <3>1. /\ Deals[w].stage \in {"matched", "claimed"} /\ balance' = balance
          /\ Deals' = [Deals EXCEPT ![w].stage = "claimed", ![w].claimants = @ \cup {u}]
      BY <2>7 DEF Contract!Claim, Deals
    <3>2. PICK d : d = [Deals[w] EXCEPT !.stage = "claimed", !.claimants = @ \cup {u}]
      OBVIOUS
    <3>3. d.stage = "claimed" /\ d.amount = Deals[w].amount
      BY <2>2, <3>2 DEF Contract!Deal
    <3>4. Deals' = [Deals EXCEPT ![w] = d]
      BY <2>2, <3>1, <3>2
    <3>5. Deals'[w] = d /\ \A v \in Wagers : v # w => Deals'[v] = Deals[v]
      BY <2>2, <3>4
    <3> QED BY <2>4, <3>1, <3>3, <3>5
  <2>8. ASSUME NEW u \in Users, Contract!Award(u, w) PROVE Total' = Total
    <3>1. /\ Deals[w].stage \in {"claimed", "disputed"}
          /\ balance' = [balance EXCEPT ![u] = @ + Prize(a)]
          /\ Deals' = [Deals EXCEPT ![w].stage = "settled"]
      BY <2>8, SameFees DEF Contract!Award, Deals
    <3>2. /\ Deals'[w].stage = "settled" /\ Deals'[w].amount = a
          /\ \A v \in Wagers : v # w => Deals'[v] = Deals[v]
      BY <2>2, <3>1 DEF Contract!Deal
    <3>3. Contract!Pot(w) = 2 * stake /\ Contract!Pot(w)' = 2 * stake - Prize(a)
      BY <3>1, <3>2, PotAtStage, PotAtNextStage
    <3> HIDE DEF a, stake
    <3>4. /\ balance'[u] = balance[u] + Prize(a)
          /\ \A x \in Users : x # u => balance'[x] = balance[x]
      <4>1. balance \in [Users -> Int]
        BY DEF OInv, IInv, TypeOK
      <4> QED BY <3>1, <4>1
    <3> QED BY <2>3, <3>2, <3>3, <3>4, MoneyMoves
  <2>9. ASSUME NEW u \in Users, Contract!Match(u, w) PROVE Total' = Total
    <3>1. /\ Deals[w].stage = "open"
          /\ balance' = [balance EXCEPT ![u] = @ - stake]
          /\ Deals' = [Deals EXCEPT ![w].stage = "matched", ![w].playerTwo = u]
      BY <2>9, SameFees DEF Contract!Match, Contract!TakeStake, Deals
    <3>2. PICK d : d = [Deals[w] EXCEPT !.stage = "matched", !.playerTwo = u]
      OBVIOUS
    <3>3. d.stage = "matched" /\ d.amount = a
      BY <2>2, <3>2 DEF Contract!Deal
    <3>4. Deals' = [Deals EXCEPT ![w] = d]
      BY <2>2, <3>1, <3>2
    <3>5. Deals'[w] = d /\ \A v \in Wagers : v # w => Deals'[v] = Deals[v]
      BY <2>2, <3>4
    <3>6. Contract!Pot(w) = stake /\ Contract!Pot(w)' = 2 * stake
      BY <3>1, <3>3, <3>5, PotAtStage, PotAtNextStage
    <3> HIDE DEF stake
    <3>7. /\ balance'[u] = balance[u] + (-stake) /\ -stake \in Int
          /\ \A x \in Users : x # u => balance'[x] = balance[x]
      <4>1. balance \in [Users -> Int]
        BY DEF OInv, IInv, TypeOK
      <4>2. balance'[u] = balance[u] - stake /\ balance[u] \in Int
        BY <3>1, <4>1
      <4> QED BY <2>3, <3>1, <4>1, <4>2
    <3>8. Contract!Pot(w)' = Contract!Pot(w) - (-stake)
      BY <2>3, <3>6
    <3> QED BY <3>5, <3>7, <3>8, MoneyMoves
  <2>10. ASSUME NEW u \in Users, NEW b \in Amounts, Contract!Open(u, w, b)
         PROVE  Total' = Total
    <3>1. /\ Deals[w].stage = "none"
          /\ balance' = [balance EXCEPT ![u] = @ - StakeDebit(b)]
          /\ Deals' = [Deals EXCEPT ![w] = Opened(u, b)]
      BY <2>10, SameFees DEF Contract!Open, Contract!TakeStake, Deals, Opened
    <3>2. PICK d : d = Opened(u, b)
      OBVIOUS
    <3>3. d.stage = "open" /\ d.amount = b
      BY <3>2 DEF Contract!NoDeal, Opened
    <3>4. Deals'[w] = d /\ \A v \in Wagers : v # w => Deals'[v] = Deals[v]
      BY <2>2, <3>1, <3>2
    <3>5. Contract!Pot(w) = 0 /\ Contract!Pot(w)' = StakeDebit(b) /\ StakeDebit(b) \in Nat
      BY <3>1, <3>3, <3>4, PotAtStage, PotAtNextStage, AmountsAreNat
    <3> DEFINE debit == StakeDebit(b)
    <3>6. debit \in Nat /\ Contract!Pot(w)' = debit /\ balance' = [balance EXCEPT ![u] = @ - debit]
      BY <3>1, <3>5
    <3> HIDE DEF debit
    <3>7. /\ balance'[u] = balance[u] + (-debit) /\ -debit \in Int
          /\ \A x \in Users : x # u => balance'[x] = balance[x]
      <4>1. balance \in [Users -> Int]
        BY DEF OInv, IInv, TypeOK
      <4>2. balance'[u] = balance[u] - debit /\ balance[u] \in Int
        BY <3>6, <4>1
      <4> QED BY <3>6, <4>1, <4>2
    <3>8. Contract!Pot(w)' = Contract!Pot(w) - (-debit)
      BY <3>5, <3>6
    <3> QED BY <3>4, <3>7, <3>8, MoneyMoves
  <2> QED BY <2>1, <2>5, <2>6, <2>7, <2>8, <2>9, <2>10
<1> QED BY <1>1, <1>2

\* At the start everything is in the balances.
LEMMA TotalAtStart ==
  ASSUME Init
  PROVE  Total = InitialBalance * Cardinality(Users)
<1>1. OInv /\ balance = [u \in Users |-> InitialBalance]
  BY OrderlyInit DEF Init
<1>2. ASSUME NEW w \in Wagers PROVE Pots[w] = 0
  <2>1. Deals[w].stage = "none"
    <3>1. row[w].status = "none"
      BY DEF Init, NoRow
    <3> QED BY <3>1, DealShape DEF StageOf
  <2> QED BY <2>1, PotAtStage DEF Pots
<1>3. SumFunctionOnSet(balance, Users) = InitialBalance * Cardinality(Users)
  BY <1>1, SumConstant, FiniteTables, ConstantsAssumption
<1>4. SumFunctionOnSet(Pots, Wagers) = 0 * Cardinality(Wagers)
  BY <1>2, SumConstant, FiniteTables
<1>5. Cardinality(Wagers) \in Nat /\ Cardinality(Users) \in Nat
  BY FiniteTables, FS_CardinalityType
<1>6. 0 * Cardinality(Wagers) = 0 /\ InitialBalance * Cardinality(Users) \in Int
  BY <1>5, ConstantsAssumption
<1> QED BY <1>3, <1>4, <1>6 DEF Total

Whole == Total = InitialBalance * Cardinality(Users)

\* Used in an orderly way the service makes and loses no money: every dollar is in
\* a balance or in the pot of a wager, and no pot is overdrawn.
THEOREM MoneyIsConserved == OrderlySpec => []MoneyConserved
<1>1. Init => OInv /\ Whole
  BY OrderlyInit, TotalAtStart DEF Whole
<1>2. OInv /\ [OrderlyNext]_vars => OInv' /\ (Whole => Whole')
  <2>1. ASSUME OInv, [OrderlyNext]_vars, Whole PROVE Whole'
    <3>1. Total' = Total
      BY <2>1, OrderlyStep, ContractConserves DEF Kept
    <3> QED BY <2>1, <3>1 DEF Whole
  <2> QED BY <2>1, OrderlyStep DEF Kept
<1>3. OInv /\ Whole => MoneyConserved
  BY PotsFilled DEF Whole, Total, Pots, MoneyConserved
<1> QED BY <1>1, <1>2, <1>3, PTL DEF OrderlySpec

-----------------------------------------------------------------------------
(* How often a prize is paid.                                              *)

\* Nobody is paid for a wager before it is settled, and then one user is, once.
RewardOf(w) ==
  IF Deals[w].stage # "settled" THEN \A x \in Users : paid[w][x] = 0
  ELSE \E u \in Users \cup {NoUser} :
         /\ \A x \in Users : x # u => paid[w][x] = 0
         /\ u \in Users => paid[w][u] <= Prize(Deals[w].amount)

Rewarded == \A w \in Wagers : RewardOf(w)

LEMMA RewardBound ==
  ASSUME OInv, NEW w \in Wagers, RewardOf(w), row[w].status # "none"
  PROVE  SumFunctionOnSet(paid[w], Users) <= Prize(row[w].amount)
<1>1. Prize(row[w].amount) \in Nat
  BY PrizesAreNat DEF OInv, IInv, Core, RowFilled
<1>2. IsFiniteSet(Users) /\ \A x \in Users : paid[w][x] \in Int
  BY FiniteTables DEF OInv, IInv, TypeOK
<1>3. CASE \A x \in Users : paid[w][x] = 0
  <2>1. SumFunctionOnSet(paid[w], Users) = 0 * Cardinality(Users)
    BY <1>2, <1>3, SumConstant
  <2>2. Cardinality(Users) \in Nat
    BY <1>2, FS_CardinalityType
  <2> QED BY <1>1, <2>1, <2>2
<1>4. CASE Deals[w].stage = "settled"
  <2>1. PICK u \in Users \cup {NoUser} :
          /\ \A x \in Users : x # u => paid[w][x] = 0
          /\ u \in Users => paid[w][u] <= Prize(row[w].amount)
    BY <1>4, DealShape DEF RewardOf
  <2>2. CASE u \in Users
    <3> DEFINE f == [x \in Users |-> 0]
    <3>1. SumFunctionOnSet(f, Users) = 0 * Cardinality(Users)
      BY <1>2, SumConstant
    <3>2. SumFunctionOnSet(paid[w], Users) = SumFunctionOnSet(f, Users) + paid[w][u] - f[u]
      BY <1>2, <2>1, <2>2, SumChange
    <3>3. Cardinality(Users) \in Nat /\ f[u] = 0
      BY <1>2, <2>2, FS_CardinalityType
    <3> QED BY <1>1, <1>2, <2>1, <2>2, <3>1, <3>2, <3>3
  <2> QED BY <1>3, <2>1, <2>2
<1> QED BY <1>3, <1>4 DEF RewardOf

\* A settled wager stays settled, for the same amount.
LEMMA SettledStays ==
  ASSUME OInv, Kept, NEW w \in Wagers, Deals[w].stage = "settled"
  PROVE  Deals'[w].stage = "settled" /\ Deals'[w].amount = Deals[w].amount
<1>1. CASE UNCHANGED Contract!dealVars
  BY <1>1 DEF Contract!dealVars, Deals
<1>2. CASE Contract!ContractNext
  <2> USE DEF Deals
  <2>1. PICK v \in Wagers :
          \/ \E u \in Users :
               \/ \E a \in Amounts : Contract!Open(u, v, a)
               \/ Contract!Match(u, v) \/ Contract!Claim(u, v) \/ Contract!Award(u, v)
          \/ Contract!Void(v) \/ Contract!Dispute(v)
    BY <1>2 DEF Contract!ContractNext
  <2>2. ASSUME NEW a \in Amounts, NEW u \in Users, Contract!Open(u, v, a)
        PROVE  Deals'[w] = Deals[w]
    BY <2>2 DEF Contract!Open
  <2>3. ASSUME NEW u \in Users, Contract!Match(u, v) PROVE Deals'[w] = Deals[w]
    BY <2>3 DEF Contract!Match
  <2>4. ASSUME NEW u \in Users, Contract!Claim(u, v) PROVE Deals'[w] = Deals[w]
    BY <2>4 DEF Contract!Claim
  <2>5. ASSUME NEW u \in Users, Contract!Award(u, v) PROVE Deals'[w] = Deals[w]
    BY <2>5 DEF Contract!Award
  <2>6. ASSUME Contract!Void(v) \/ Contract!Dispute(v) PROVE Deals'[w] = Deals[w]
    BY <2>6 DEF Contract!Void, Contract!Dispute
  <2> QED BY <2>1, <2>2, <2>3, <2>4, <2>5, <2>6
<1> QED BY <1>1, <1>2 DEF Kept

\* Only an award pays anybody.
LEMMA PaidByAward ==
  ASSUME OInv, [OrderlyNext]_vars
  PROVE  paid' = paid \/ Awarded
<1>1. CASE UNCHANGED vars
  BY <1>1 DEF vars
<1>2. CASE OrderlyNext
  <2>1. IInv'
    BY <1>2, OrderlyIsNext, StepIsFine DEF OInv
  <2>2. ASSUME NEW r \in Reqs, OrderlySent(r) PROVE paid' = paid
    BY <2>2 DEF OrderlySent, CreateWager, JoinWager, DeleteWager, UpdateWager, ClaimWager,
                AcceptClaim, ContestClaim, ResolveDispute, Arrive, ledger
  <2>3. ASSUME NEW r \in Reqs, Resumes(r) PROVE paid' = paid \/ Awarded
    <3>1. CASE CreditWinner(r) \/ CreditResolved(r)
      BY <2>1, <3>1, HandlersCreditKept
    <3>2. ~CreditNobody(r) /\ ~RowMissing(r)
      BY NobodyThrows
    <3>3. CASE \/ \E w \in Wagers : InsertWager(r, w)
               \/ CheckFunds(r) \/ JoinRow(r) \/ UpdateRow(r) \/ DeleteRow(r) \/ SetWinner(r)
               \/ QueueNotice(r) \/ QueueSettle(r) \/ QueueContest(r)
               \/ AcceptUnschedule(r) \/ ContestUnschedule(r)
               \/ AcceptRow(r) \/ ContestRow(r) \/ ResolveRow(r)
      BY <3>3 DEF InsertWager, CheckFunds, JoinRow, UpdateRow, DeleteRow, SetWinner,
                  QueueNotice, QueueSettle, QueueContest, AcceptUnschedule,
                  ContestUnschedule, AcceptRow, ContestRow, ResolveRow, Rewrites, ledger
    <3>4. CASE DebitCreator(r) \/ DebitJoiner(r)
      BY <3>4 DEF DebitCreator, DebitJoiner, Debit
    <3> QED BY <2>3, <3>1, <3>2, <3>3, <3>4 DEF Resumes
  <2>4. ASSUME NEW w \in Wagers, OrderlyTimer(w) \/ Works(w) PROVE paid' = paid \/ Awarded
    <3>1. CASE CreditClaimant(w)
      BY <2>1, <3>1, CreditClaimantKept
    <3>2. CASE OrderlyTimer(w) \/ SettleRow(w) \/ FinishSettle(w)
      BY <3>2 DEF OrderlyTimer, StartSettle, SettleRow, FinishSettle, ledger
    <3> QED BY <2>4, <3>1, <3>2 DEF Works
  <2> QED BY <1>2, <2>2, <2>3, <2>4 DEF OrderlyNext
<1> QED BY <1>1, <1>2

LEMMA RewardKept ==
  ASSUME OInv, [OrderlyNext]_vars, Rewarded
  PROVE  Rewarded'
<1>1. Kept
  BY OrderlyStep
<1> SUFFICES ASSUME NEW w \in Wagers PROVE RewardOf(w)'
  BY DEF Rewarded
<1>2. RewardOf(w) /\ RowFilled(w)
  BY DEF Rewarded, OInv, IInv, Core
<1>3. CASE paid'[w] = paid[w] /\ Deals[w].stage = "settled"
  BY <1>1, <1>2, <1>3, SettledStays DEF RewardOf
<1>4. CASE paid'[w] = paid[w] /\ Deals[w].stage # "settled"
  <2>1. \A x \in Users : paid'[w][x] = 0
    BY <1>2, <1>4 DEF RewardOf
  <2>2. NoUser \notin Users
    BY ConstantsAssumption
  <2> QED BY <2>1, <2>2 DEF RewardOf
<1>5. CASE paid'[w] # paid[w]
  <2>1. PICK u \in Users : Awards(w, u)
    <3>1. PICK v \in Wagers, u \in Users : Awards(v, u)
      BY <1>5, PaidByAward DEF Awarded
    <3>2. v = w
      BY <1>5, <3>1 DEF Awards, Credit, OInv, IInv, TypeOK
    <3> QED BY <3>1, <3>2
  <2>2. /\ Deals[w].stage # "settled" /\ Deals'[w].stage = "settled"
        /\ Deals'[w].amount = row[w].amount
    BY <2>1, DealShape DEF Awards, Deals, DealOf
  <2>3. \A x \in Users : paid[w][x] = 0
    BY <1>2, <2>2 DEF RewardOf
  <2>4. /\ paid'[w][u] = Prize(row[w].amount)
        /\ \A x \in Users : x # u => paid'[w][x] = 0
    BY <2>1, <2>3, PrizesAreNat DEF Awards, Credit, OInv, IInv, TypeOK
  <2> QED BY <2>2, <2>4, PrizesAreNat, <2>1 DEF RewardOf, Awards
<1> QED BY <1>3, <1>4, <1>5

\* Used in an orderly way, the service pays the prize of a wager at most once:
\* what "This wager has already been settled!" says.
THEOREM PrizeIsPaidOnce == OrderlySpec => []PrizePaidOnce
<1>1. Init => OInv /\ Rewarded
  <2>1. Init => \A w \in Wagers : Deals[w].stage = "none" /\ \A x \in Users : paid[w][x] = 0
    BY OrderlyInit DEF Init, Contract!ContractInit, Contract!NoDeal, Deals
  <2> QED BY <2>1, OrderlyInit DEF Rewarded, RewardOf
<1>2. OInv /\ Rewarded /\ [OrderlyNext]_vars => OInv' /\ Rewarded'
  BY OrderlyStep, RewardKept DEF Kept
<1>3. OInv /\ Rewarded => PrizePaidOnce
  BY RewardBound DEF Rewarded, PrizePaidOnce
<1> QED BY <1>1, <1>2, <1>3, PTL DEF OrderlySpec
=============================================================================
