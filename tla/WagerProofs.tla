---------------------------- MODULE WagerProofs ----------------------------
(***************************************************************************)
(* Proofs about the wager service, for any number of users, wagers and     *)
(* requests, any interleaving of handlers and jobs, and any faults.        *)
(*                                                                         *)
(* The invariant IInv is preserved because a step changes one row, one     *)
(* request and one job at most, and what it changes is again in order: the *)
(* lemmas of the first part say so for each conjunct of IInv, once and for *)
(* all, and the proof of an action only shows what it changes.             *)
(***************************************************************************)
EXTENDS Wager, MoneyProofs

\* The invariant without types: its conjuncts rest on one another through
\* Backed and through the handlers' snapshots.
Core ==
  /\ \A w \in Wagers : RowFilled(w)
  /\ SeatsBacked
  /\ SnapshotsHold
  /\ JobHolds
  /\ TimeoutPaysStaker
  /\ NoticeFirst
  /\ TwoPlayers

IInv == TypeOK /\ Core

PCs == Steps \cup {"idle", "done", "threw"}
JobStates == {"none", "queued", "completed", "failed"} \cup ActiveStates
Debits == {"debitCreator", "debitJoiner"}

-----------------------------------------------------------------------------
(* Numbers.                                                                *)

LEMMA AmountsAreNat ==
  ASSUME NEW a \in Amounts \cup {0}
  PROVE  a \in Nat /\ StakeDebit(a) \in Nat
<1>1. a \in Nat
  BY ConstantsAssumption
<1>2. QED
  BY <1>1 DEF StakeDebit

LEMMA PrizesAreNat ==
  ASSUME NEW a \in Amounts
  PROVE  Prize(a) \in Nat /\ Prize(a) > 0
<1>1. a \in Nat /\ a >= 2
  BY ConstantsAssumption
<1>2. StakeDebit(a) \in Nat /\ StakeDebit(a) >= 1
  BY <1>1 DEF StakeDebit
<1>3. QED
  BY <1>1, <1>2, PrizeBounds

-----------------------------------------------------------------------------
(* What never gets lost in a step.                                         *)

\* No row loses its prize or its creator, or ceases to have existed.
RowsKept ==
  \A w \in Wagers : row[w].status # "none" =>
    /\ row'[w].status # "none"
    /\ row'[w].amount = row[w].amount
    /\ row'[w].playerOne = row[w].playerOne

\* Debits only accumulate, and a handler leaves its debit by making it.
StakesKept ==
  /\ \A w \in Wagers, u \in Users : staked'[w][u] >= staked[w][u]
  /\ \A r \in Reqs : req[r].pc \in Debits =>
       \/ req'[r] = req[r]
       \/ staked'[req[r].wager][req[r].user] >= StakeDebit(req[r].seen.amount)

\* Backed after the step.
BackedNext(w, u) ==
  \/ staked'[w][u] >= StakeDebit(row'[w].amount)
  \/ \E r \in Reqs : req'[r].pc \in Debits /\ req'[r].wager = w /\ req'[r].user = u

LEMMA BackedKept ==
  ASSUME TypeOK, TypeOK', SnapshotsHold, RowsKept, StakesKept,
         NEW w \in Wagers, NEW u \in Users, row[w].status # "none", Backed(w, u)
  PROVE  BackedNext(w, u)
<1>1. row'[w].amount = row[w].amount
  BY DEF RowsKept
<1>2. CASE staked[w][u] >= StakeDebit(row[w].amount)
  <2>1. /\ staked'[w][u] >= staked[w][u]
        /\ staked[w][u] \in Nat /\ staked'[w][u] \in Nat
    BY DEF StakesKept, TypeOK
  <2>2. StakeDebit(row[w].amount) \in Int
    BY AmountsAreNat DEF TypeOK, Row
  <2>3. staked'[w][u] >= StakeDebit(row[w].amount)
    BY <1>2, <2>1, <2>2
  <2>4. QED
    BY <1>1, <2>3 DEF BackedNext
<1>3. ASSUME NEW r \in Reqs, req[r].pc \in Debits,
             req[r].wager = w, req[r].user = u
      PROVE  BackedNext(w, u)
  <2>1. req[r].seen.amount = row[w].amount
    BY <1>3 DEF SnapshotsHold, Snapshot, Debits, Steps
  <2>2. CASE req'[r] = req[r]
    BY <1>3, <2>2 DEF BackedNext
  <2>3. CASE staked'[w][u] >= StakeDebit(req[r].seen.amount)
    BY <1>1, <2>1, <2>3 DEF BackedNext
  <2>4. QED
    BY <1>3, <2>2, <2>3 DEF StakesKept
<1>4. QED
  BY <1>2, <1>3 DEF Backed, Debits

-----------------------------------------------------------------------------
(* Each conjunct of Core holds again when everything that the step did not *)
(* leave alone is in order.                                                *)

\* A row a step changes has its seats in order again.
SeatsInOrder ==
  \A w \in Wagers :
    \/ row'[w].status = "none"
    \/ row[w].status # "none" /\ row'[w].playerTwo = row[w].playerTwo
    \/ RowFilled(w)' /\ SeatBacked(w)'

\* A wager that becomes ACTIVE has its second player.
PlayersInOrder ==
  \A w \in Wagers : row'[w].status = "ACTIVE" =>
    \/ row[w].status = "ACTIVE" /\ row'[w].playerTwo = row[w].playerTwo
    \/ row'[w].playerTwo # NoUser

\* A handler that moved is in order where it is now.
HandlersInOrder == \A r \in Reqs : req'[r] = req[r] \/ Snapshot(r)'

\* A job is gone, or has moved on with the claimant it has, or is new.
JobMoved(w) ==
  /\ settleJob[w].state # "none"
  /\ settleJob'[w].claimant = settleJob[w].claimant
  /\ settleJob'[w].state = "crediting" => settleJob'[w].amount = row[w].amount

JobNew(w) ==
  /\ settleJob'[w].state # "crediting"
  /\ row[w].status # "none"
  /\ settleJob'[w].claimant \in Users
  /\ Backed(w, settleJob'[w].claimant)
  /\ <<w, settleJob'[w].claimant>> \in notices

JobsInOrder ==
  \A w \in Wagers : settleJob'[w].state = "none" \/ JobMoved(w) \/ JobNew(w)

LEMMA SeatsKept ==
  ASSUME IInv, TypeOK', RowsKept, StakesKept, SeatsInOrder
  PROVE  (\A w \in Wagers : RowFilled(w)') /\ SeatsBacked'
<1> SUFFICES ASSUME NEW w \in Wagers
             PROVE  RowFilled(w)' /\ SeatBacked(w)'
  BY DEF SeatsBacked
<1>1. CASE row'[w].status = "none"
  BY <1>1 DEF RowFilled, SeatBacked
<1>2. CASE row[w].status # "none" /\ row'[w].playerTwo = row[w].playerTwo
  <2>1. /\ row'[w].amount = row[w].amount
        /\ row'[w].playerOne = row[w].playerOne
    BY <1>2 DEF RowsKept
  <2>2. RowFilled(w) /\ SeatBacked(w)
    BY DEF IInv, Core, SeatsBacked
  <2>3. /\ row[w].playerOne \in Users
        /\ row[w].playerTwo \in Users \cup {NoUser}
    BY <1>2, <2>2 DEF RowFilled, IInv, TypeOK, Row
  <2>4. /\ BackedNext(w, row[w].playerOne)
        /\ row[w].playerTwo # NoUser => BackedNext(w, row[w].playerTwo)
    <3>1. \A u \in Users : Backed(w, u) => BackedNext(w, u)
      BY <1>2, BackedKept DEF IInv, Core
    <3>2. QED
      BY <1>2, <2>2, <2>3, <3>1 DEF SeatBacked
  <2>5. RowFilled(w)'
    BY <1>2, <2>1, <2>2 DEF RowFilled
  <2>6. SeatBacked(w)'
    BY <1>2, <2>1, <2>4 DEF SeatBacked, Backed, BackedNext, Debits
  <2>7. QED
    BY <2>5, <2>6
<1>3. QED
  BY <1>1, <1>2 DEF SeatsInOrder

LEMMA PlayersKept ==
  ASSUME IInv, \A w \in Wagers : RowFilled(w)', PlayersInOrder
  PROVE  TwoPlayers'
<1> SUFFICES ASSUME NEW w \in Wagers, row'[w].status = "ACTIVE"
             PROVE  row'[w].playerTwo # NoUser /\ row'[w].playerTwo # row'[w].playerOne
  BY DEF TwoPlayers
<1>1. row'[w].playerTwo # NoUser
  BY DEF PlayersInOrder, IInv, Core, TwoPlayers
<1>2. row'[w].playerTwo # row'[w].playerOne
  BY DEF RowFilled
<1>3. QED
  BY <1>1, <1>2

LEMMA SnapshotsKept ==
  ASSUME IInv, TypeOK', RowsKept, StakesKept, notices \subseteq notices',
         HandlersInOrder
  PROVE  SnapshotsHold'
<1> SUFFICES ASSUME NEW r \in Reqs, req'[r] = req[r]
             PROVE  Snapshot(r)'
  BY DEF SnapshotsHold, HandlersInOrder
<1> DEFINE w == req[r].wager
           u == req[r].user
<1>1. Snapshot(r)
  BY DEF IInv, Core, SnapshotsHold
<1>2. ASSUME req[r].pc \in (Steps \cup {"threw"}) \ {"insert"}
      PROVE  /\ w \in Wagers
             /\ row[w].status # "none"
             /\ row'[w].status # "none"
             /\ req[r].seen.amount = row'[w].amount
             /\ req[r].seen.playerOne = row'[w].playerOne
             /\ row'[w].playerOne = row[w].playerOne
  BY <1>1, <1>2 DEF Snapshot, RowsKept
<1>3. ASSUME req[r].pc \in {"setWinner", "notify", "schedule"}
      PROVE  BackedNext(w, u)
  <2>1. u \in Users /\ Backed(w, u)
    BY <1>1, <1>3 DEF Snapshot
  <2>2. w \in Wagers /\ row[w].status # "none"
    BY <1>2, <1>3 DEF Steps
  <2>3. QED
    BY <2>1, <2>2, BackedKept DEF IInv, Core
<1>4. QED
  BY <1>1, <1>2, <1>3 DEF Snapshot, Backed, BackedNext, Debits, Steps

LEMMA JobsKept ==
  ASSUME IInv, TypeOK', RowsKept, StakesKept, notices \subseteq notices',
         JobsInOrder
  PROVE  JobHolds' /\ TimeoutPaysStaker' /\ NoticeFirst'
<1> SUFFICES ASSUME NEW w \in Wagers, settleJob'[w].state # "none"
             PROVE  /\ row'[w].status # "none"
                    /\ settleJob'[w].state = "crediting" =>
                         settleJob'[w].amount = row'[w].amount
                    /\ settleJob'[w].claimant \in Users
                    /\ BackedNext(w, settleJob'[w].claimant)
                    /\ <<w, settleJob'[w].claimant>> \in notices'
  BY DEF JobHolds, TimeoutPaysStaker, NoticeFirst, Backed, BackedNext, Debits
<1>1. /\ row[w].status # "none"
      /\ settleJob'[w].state = "crediting" => settleJob'[w].amount = row[w].amount
      /\ settleJob'[w].claimant \in Users
      /\ Backed(w, settleJob'[w].claimant)
      /\ <<w, settleJob'[w].claimant>> \in notices
  <2>1. CASE JobMoved(w)
    BY <2>1 DEF JobMoved, IInv, Core, JobHolds, TimeoutPaysStaker, NoticeFirst
  <2>2. CASE JobNew(w)
    BY <2>2 DEF JobNew
  <2>3. QED
    BY <2>1, <2>2 DEF JobsInOrder
<1>2. /\ row'[w].status # "none"
      /\ row'[w].amount = row[w].amount
  BY <1>1 DEF RowsKept
<1>3. BackedNext(w, settleJob'[w].claimant)
  BY <1>1, BackedKept DEF IInv, Core
<1>4. QED
  BY <1>1, <1>2, <1>3

LEMMA CoreKept ==
  ASSUME IInv, TypeOK', RowsKept, StakesKept, notices \subseteq notices',
         SeatsInOrder, PlayersInOrder, HandlersInOrder, JobsInOrder
  PROVE  IInv'
<1>1. (\A w \in Wagers : RowFilled(w)') /\ SeatsBacked'
  BY SeatsKept
<1>2. TwoPlayers'
  BY <1>1, PlayersKept
<1>3. SnapshotsHold'
  BY SnapshotsKept
<1>4. JobHolds' /\ TimeoutPaysStaker' /\ NoticeFirst'
  BY JobsKept
<1>5. QED
  BY <1>1, <1>2, <1>3, <1>4 DEF IInv, Core

\* A step that writes no row has the rows in order, and one that touches no
\* job the jobs.
LEMMA NoRowWritten ==
  ASSUME IInv, row' = row
  PROVE  RowsKept /\ SeatsInOrder /\ PlayersInOrder
<1>1. RowsKept /\ SeatsInOrder
  BY DEF RowsKept, SeatsInOrder
<1>2. PlayersInOrder
  BY DEF PlayersInOrder
<1>3. QED
  BY <1>1, <1>2

LEMMA NoJobTouched ==
  ASSUME IInv, settleJob' = settleJob
  PROVE  JobsInOrder
BY DEF JobsInOrder, JobMoved, IInv, Core, JobHolds

-----------------------------------------------------------------------------
(* What the building blocks of the actions do.                             *)

\* Only the handler of r moves.
OnlyMoves(r) == \A s \in Reqs : s # r => req'[s] = req[s]

LEMMA GotoEffect ==
  ASSUME IInv, NEW r \in Reqs, NEW p \in PCs, Goto(r, p)
  PROVE  /\ req' \in [Reqs -> Request]
         /\ req'[r].pc = p
         /\ req'[r].user = req[r].user
         /\ req'[r].wager = req[r].wager
         /\ req'[r].seen = req[r].seen
         /\ OnlyMoves(r)
         /\ lost' \subseteq Reqs /\ faults' \in 0 .. MaxFaults
<1>1. req \in [Reqs -> Request] /\ req' = [req EXCEPT ![r].pc = p]
  BY DEF IInv, TypeOK, Goto
<1>2. /\ req' \in [Reqs -> Request]
      /\ req'[r].pc = p
      /\ req'[r].user = req[r].user
      /\ req'[r].wager = req[r].wager
      /\ req'[r].seen = req[r].seen
      /\ OnlyMoves(r)
  BY <1>1 DEF Request, PCs, OnlyMoves
<1>3. QED
  BY <1>2 DEF IInv, TypeOK, Goto

LEMMA NullsAreTyped == NoRow \in Row /\ Answered \in Request /\ NotSent \in Request /\ NoJob \in Job
<1>1. NoRow \in Row
  BY DEF NoRow, Row
<1>2. NotSent \in Request /\ Answered \in Request
  BY <1>1 DEF NotSent, Answered, Request
<1>3. NoJob \in Job
  BY DEF NoJob, Job
<1>4. QED
  BY <1>1, <1>2, <1>3

LEMMA ReturnEffect ==
  ASSUME IInv, NEW r \in Reqs, Return(r)
  PROVE  /\ req' \in [Reqs -> Request]
         /\ req'[r].pc = "done"
         /\ OnlyMoves(r)
         /\ lost' \subseteq Reqs /\ faults' \in 0 .. MaxFaults
         /\ HandlersInOrder
<1>1. req \in [Reqs -> Request] /\ req' = [req EXCEPT ![r] = Answered]
  BY DEF IInv, TypeOK, Return
<1>2. req' \in [Reqs -> Request] /\ req'[r] = Answered /\ OnlyMoves(r)
  BY <1>1, NullsAreTyped DEF OnlyMoves
<1>3. req'[r].pc = "done"
  BY <1>2 DEF Answered, NotSent
<1>4. HandlersInOrder
  BY <1>2, <1>3 DEF HandlersInOrder, OnlyMoves, Snapshot, Steps
<1>5. QED
  BY <1>2, <1>3, <1>4 DEF IInv, TypeOK, Return

LEMMA ArriveEffect ==
  ASSUME IInv, NEW r \in Reqs, NEW p \in Steps, NEW u \in Users \cup {NoUser},
         NEW w \in Wagers \cup {NoWager}, NEW seen \in Row,
         Arrive(r, p, u, w, seen)
  PROVE  /\ TypeOK'
         /\ req'[r] = [pc |-> p, user |-> u, wager |-> w, seen |-> seen]
         /\ Snapshot(r)' => IInv'
<1>1. /\ req \in [Reqs -> Request]
      /\ req' = [req EXCEPT ![r] = [pc |-> p, user |-> u, wager |-> w, seen |-> seen]]
  BY DEF IInv, TypeOK, Arrive
<1>2. /\ req' \in [Reqs -> Request]
      /\ req'[r] = [pc |-> p, user |-> u, wager |-> w, seen |-> seen]
      /\ OnlyMoves(r)
  BY <1>1 DEF Request, OnlyMoves
<1>3. UNCHANGED <<row, balance, settleJob, notices, contestJobs, lost, faults,
                  staked, paid>>
  BY DEF Arrive, tables, queues, ledger
<1>4. TypeOK'
  BY <1>2, <1>3 DEF IInv, TypeOK
<1>5. StakesKept
  BY <1>2, <1>3 DEF IInv, TypeOK, StakesKept, OnlyMoves, Arrive, Debits
<1>6. Snapshot(r)' => HandlersInOrder
  BY <1>2 DEF HandlersInOrder, OnlyMoves
<1>7. Snapshot(r)' => IInv'
  BY <1>3, <1>4, <1>5, <1>6, NoRowWritten, NoJobTouched, CoreKept
<1>8. QED
  BY <1>2, <1>4, <1>7

\* A step of a handler that is not at a debit leaves the stakes as they are.
LEMMA StakesUntouched ==
  ASSUME IInv, staked' = staked,
         \A s \in Reqs : req'[s] = req[s] \/ req[s].pc \notin Debits
  PROVE  StakesKept
BY DEF StakesKept, IInv, TypeOK

LEMMA DebitEffect ==
  ASSUME IInv, NEW w \in Wagers, NEW u \in Users, NEW a \in Amounts, Debit(w, u, a)
  PROVE  /\ balance' \in [Users -> Int]
         /\ staked' \in [Wagers -> [Users -> Nat]]
         /\ paid' = paid
         /\ staked'[w][u] >= StakeDebit(a)
         /\ \A v \in Wagers, x \in Users : staked'[v][x] >= staked[v][x]
<1>1. StakeDebit(a) \in Nat
  BY AmountsAreNat
<1>2. balance \in [Users -> Int] /\ staked \in [Wagers -> [Users -> Nat]]
  BY DEF IInv, TypeOK
<1>3. QED
  BY <1>1, <1>2 DEF Debit

LEMMA CreditEffect ==
  ASSUME IInv, NEW w \in Wagers, NEW u \in Users, NEW a \in Amounts, Credit(w, u, a)
  PROVE  /\ balance' \in [Users -> Int]
         /\ paid' \in [Wagers -> [Users -> Nat]]
         /\ staked' = staked
         /\ paid'[w][u] > 0
         /\ \A v \in Wagers, x \in Users : paid'[v][x] >= paid[v][x]
<1>1. Prize(a) \in Nat /\ Prize(a) > 0
  BY PrizesAreNat
<1>2. balance \in [Users -> Int] /\ paid \in [Wagers -> [Users -> Nat]]
  BY DEF IInv, TypeOK
<1>3. QED
  BY <1>1, <1>2 DEF Credit

\* Rewriting the status, winner or terms of a row that exists.
LEMMA RowRewritten ==
  ASSUME IInv, NEW w \in Wagers, row[w].status # "none",
         \A v \in Wagers : v # w => row'[v] = row[v],
         row'[w].amount = row[w].amount,
         row'[w].playerOne = row[w].playerOne,
         row'[w].playerTwo = row[w].playerTwo,
         row'[w].status # "none",
         row'[w].status = "ACTIVE" => row[w].status = "ACTIVE"
  PROVE  RowsKept /\ SeatsInOrder /\ PlayersInOrder
<1>1. RowsKept
  BY DEF RowsKept
<1>2. SeatsInOrder
  BY DEF SeatsInOrder
<1>3. PlayersInOrder
  BY DEF PlayersInOrder
<1>4. QED
  BY <1>1, <1>2, <1>3

LEMMA RemoveJobEffect ==
  ASSUME IInv, NEW w \in Wagers, RemoveJob(w)
  PROVE  settleJob' \in [Wagers -> Job] /\ JobsInOrder
<1>1. settleJob \in [Wagers -> Job]
  BY DEF IInv, TypeOK
<1>2. CASE settleJob' = settleJob
  BY <1>1, <1>2, NoJobTouched
<1>3. CASE settleJob' = [settleJob EXCEPT ![w] = NoJob]
  <2>1. settleJob' \in [Wagers -> Job] /\ settleJob'[w].state = "none"
    BY <1>1, <1>3, NullsAreTyped DEF NoJob
  <2>2. \A v \in Wagers : v # w => settleJob'[v] = settleJob[v]
    BY <1>1, <1>3
  <2>3. JobsInOrder
    BY <2>1, <2>2 DEF JobsInOrder, JobMoved, IInv, Core, JobHolds
  <2>4. QED
    BY <2>1, <2>3
<1>4. QED
  BY <1>2, <1>3 DEF RemoveJob

LEMMA JobGotoEffect ==
  ASSUME IInv, NEW w \in Wagers, NEW s \in JobStates \ {"crediting"},
         JobGoto(w, s), settleJob[w].state # "none"
  PROVE  settleJob' \in [Wagers -> Job] /\ JobsInOrder
<1>1. settleJob \in [Wagers -> Job] /\ settleJob' = [settleJob EXCEPT ![w].state = s]
  BY DEF IInv, TypeOK, JobGoto
<1>2. /\ settleJob' \in [Wagers -> Job]
      /\ settleJob'[w].state = s
      /\ settleJob'[w].claimant = settleJob[w].claimant
      /\ \A v \in Wagers : v # w => settleJob'[v] = settleJob[v]
  BY <1>1 DEF Job, JobStates, ActiveStates
<1>3. JobsInOrder
  BY <1>2 DEF JobsInOrder, JobMoved, IInv, Core, JobHolds
<1>4. QED
  BY <1>2, <1>3

-----------------------------------------------------------------------------
(* The first step of every handler.                                        *)

\* The handlers that read the row of a wager on arrival.
LEMMA ReaderArrives ==
  ASSUME IInv, NEW r \in Reqs, NEW p \in Steps \ {"insert", "schedule"},
         NEW u \in Users \cup {NoUser}, NEW w \in Wagers, NEW seen \in Row,
         Arrive(r, p, u, w, seen),
         row[w].status # "none",
         seen.amount = row[w].amount, seen.playerOne = row[w].playerOne,
         p \in {"debitCreator", "updateRow", "deleteRow", "resolveRow",
               "creditResolved"} => u \in Users,
         p \in {"checkFunds", "joinRow", "debitJoiner"} =>
            u \in Users \ {row[w].playerOne},
         p \in {"setWinner", "notify", "schedule"} => u \in Users /\ Backed(w, u)
  PROVE  IInv'
<1>1. /\ TypeOK'
      /\ req'[r] = [pc |-> p, user |-> u, wager |-> w, seen |-> seen]
      /\ Snapshot(r)' => IInv'
  BY ArriveEffect
<1>2. UNCHANGED <<row, staked, notices>> /\ req[r].pc = "idle"
  BY DEF Arrive, tables, queues, ledger
<1>3. /\ req'[r].pc = p /\ req'[r].user = u
      /\ req'[r].wager = w /\ req'[r].seen = seen
  BY <1>1
<1>4. Backed(w, u) => BackedNext(w, u)
  <2>1. StakesKept
    BY <1>1, <1>2 DEF StakesKept, IInv, TypeOK, Arrive, Debits
  <2>2. u \in Users => (Backed(w, u) => BackedNext(w, u))
    BY <1>1, <1>2, <2>1, BackedKept, NoRowWritten DEF IInv, Core
  <2>3. u \notin Users => ~Backed(w, u) \/ BackedNext(w, u)
    <3>1. ASSUME NEW s \in Reqs, req[s].pc \in Debits PROVE req'[s] = req[s]
      BY <1>2, <3>1 DEF Arrive, Debits, IInv, TypeOK
    <3>2. QED
      BY <1>2, <3>1 DEF Backed, BackedNext, Debits
  <2>4. QED
    BY <2>2, <2>3
<1>5. Snapshot(r)'
  BY <1>2, <1>3, <1>4 DEF Snapshot, Backed, BackedNext, Debits, Steps
<1>6. QED
  BY <1>1, <1>5

LEMMA CreateArrives ==
  ASSUME IInv, NEW r \in Reqs, NEW u \in Users, NEW a \in Amounts, NEW t \in Terms,
         CreateWager(r, u, a, t)
  PROVE  IInv'
<1>1. NewRow(u, a, t) \in Row
  BY DEF NewRow, Row, Live
<1>2. /\ req'[r] = [pc |-> "insert", user |-> u, wager |-> NoWager,
                    seen |-> NewRow(u, a, t)]
      /\ Snapshot(r)' => IInv'
  BY <1>1, ArriveEffect DEF CreateWager, Steps
<1>3. Snapshot(r)'
  BY <1>2 DEF Snapshot
<1>4. QED
  BY <1>2, <1>3

LEMMA PlayerArrives ==
  ASSUME IInv, NEW r \in Reqs, PlayerSent(r)
  PROVE  IInv'
<1>1. \A w \in Wagers : row[w] \in Row
  BY DEF IInv, TypeOK
<1>2. ASSUME NEW u \in Users, NEW a \in Amounts, NEW t \in Terms,
             CreateWager(r, u, a, t)
      PROVE  IInv'
  BY <1>2, CreateArrives
<1>3. ASSUME NEW u \in Users, NEW w \in Wagers, NEW t \in Terms,
             UpdateWager(r, u, w, t)
      PROVE  IInv'
  <2>1. [row[w] EXCEPT !.terms = t] \in Row
    BY <1>1 DEF Row
  <2>2. /\ [row[w] EXCEPT !.terms = t].amount = row[w].amount
        /\ [row[w] EXCEPT !.terms = t].playerOne = row[w].playerOne
    BY <1>1 DEF Row
  <2>3. QED
    BY <1>3, <2>1, <2>2, ReaderArrives DEF UpdateWager, Steps
<1>4. ASSUME NEW u \in Users, NEW w \in Wagers, JoinWager(r, u, w) PROVE IInv'
  BY <1>1, <1>4, ReaderArrives DEF JoinWager, Exists, Live, Steps
<1>5. ASSUME NEW u \in Users, NEW w \in Wagers, DeleteWager(r, u, w) PROVE IInv'
  BY <1>1, <1>5, ReaderArrives DEF DeleteWager, Steps
<1>6. ASSUME NEW u \in Users, NEW w \in Wagers, ClaimWager(r, u, w) PROVE IInv'
  <2>1. row[w].status # "none"
    BY <1>6 DEF ClaimWager, Exists, Live
  <2>2. Backed(w, u)
    BY <1>6, <2>1, ConstantsAssumption
       DEF ClaimWager, IInv, Core, SeatsBacked, SeatBacked
  <2>3. QED
    BY <1>1, <1>6, <2>1, <2>2, ReaderArrives DEF ClaimWager, Steps
<1>7. ASSUME NEW w \in Wagers, AcceptClaim(r, w) PROVE IInv'
  BY <1>1, <1>7, ReaderArrives DEF AcceptClaim, Exists, Live, Steps
<1>8. ASSUME NEW w \in Wagers, ContestClaim(r, w) PROVE IInv'
  BY <1>1, <1>8, ReaderArrives DEF ContestClaim, Exists, Live, Steps
<1>9. QED
  BY <1>2, <1>3, <1>4, <1>5, <1>6, <1>7, <1>8 DEF PlayerSent

LEMMA AdminArrives ==
  ASSUME IInv, NEW r \in Reqs, AdminSent(r)
  PROVE  IInv'
<1>1. ASSUME NEW u \in Users, NEW w \in Wagers, ResolveDispute(r, u, w) PROVE IInv'
  <2>1. row[w] \in Row
    BY DEF IInv, TypeOK
  <2>2. QED
    BY <1>1, <2>1, ReaderArrives DEF ResolveDispute, Exists, Live, Steps
<1>2. QED
  BY <1>1 DEF AdminSent

-----------------------------------------------------------------------------
(* createWager and joinWager: a row is written, then the stake is debited.  *)

LEMMA InsertPreserves ==
  ASSUME IInv, NEW r \in Reqs, NEW w \in Wagers, InsertWager(r, w)
  PROVE  IInv'
<1>1. /\ req[r].pc = "insert" /\ row[w].status = "none"
      /\ UNCHANGED <<balance, settleJob, notices, contestJobs, staked, paid, lost, faults>>
  BY DEF InsertWager, At, queues, ledger
<1>2. PICK u \in Users, a \in Amounts, t \in Terms :
        req[r].user = u /\ req[r].seen = NewRow(u, a, t)
  BY <1>1 DEF IInv, Core, SnapshotsHold, Snapshot
<1>3. req \in [Reqs -> Request] /\ row \in [Wagers -> Row]
  BY DEF IInv, TypeOK
<1>4. /\ req' \in [Reqs -> Request]
      /\ req'[r].pc = "debitCreator"
      /\ req'[r].user = u
      /\ req'[r].wager = w
      /\ req'[r].seen = NewRow(u, a, t)
      /\ OnlyMoves(r)
  <2>1. req' = [req EXCEPT ![r].pc = "debitCreator", ![r].wager = w]
    BY DEF InsertWager
  <2>2. QED
    BY <1>2, <1>3, <2>1 DEF Request, Steps, OnlyMoves
<1>5. /\ row' \in [Wagers -> Row]
      /\ row'[w] = NewRow(u, a, t)
      /\ \A v \in Wagers : v # w => row'[v] = row[v]
  <2>1. row' = [row EXCEPT ![w] = NewRow(u, a, t)]
    BY <1>2 DEF InsertWager
  <2>2. NewRow(u, a, t) \in Row
    BY DEF NewRow, Row, Live
  <2>3. QED
    BY <1>3, <2>1, <2>2
<1>6. /\ row'[w].status = "PENDING" /\ row'[w].amount = a
      /\ row'[w].playerOne = u /\ row'[w].playerTwo = NoUser
  BY <1>5 DEF NewRow
<1>7. TypeOK'
  BY <1>1, <1>4, <1>5 DEF IInv, TypeOK
<1>8. RowsKept
  BY <1>1, <1>5 DEF RowsKept
<1>9. StakesKept
  BY <1>1, <1>4, StakesUntouched DEF OnlyMoves, Debits
<1>10. SeatsInOrder
  <2>1. RowFilled(w)'
    BY <1>6, ConstantsAssumption DEF RowFilled
  <2>2. SeatBacked(w)'
    BY <1>4, <1>6 DEF SeatBacked, Backed
  <2>3. QED
    BY <1>5, <2>1, <2>2 DEF SeatsInOrder
<1>11. PlayersInOrder
  BY <1>5, <1>6 DEF PlayersInOrder
<1>12. HandlersInOrder
  <2>1. /\ req'[r].seen.amount = row'[w].amount
        /\ req'[r].seen.playerOne = row'[w].playerOne
    BY <1>4, <1>5
  <2>2. Snapshot(r)'
    BY <1>4, <1>6, <2>1 DEF Snapshot, Steps
  <2>3. QED
    BY <1>4, <2>2 DEF HandlersInOrder, OnlyMoves
<1>13. QED
  BY <1>1, <1>7, <1>8, <1>9, <1>10, <1>11, <1>12, NoJobTouched, CoreKept

\* DebitCreator and DebitJoiner.
LEMMA DebitPreserves ==
  ASSUME IInv, NEW r \in Reqs, req[r].pc \in Debits,
         Debit(req[r].wager, req[r].user, req[r].seen.amount), Return(r),
         UNCHANGED <<row, queues>>
  PROVE  IInv'
<1> DEFINE w == req[r].wager
           u == req[r].user
<1>1. /\ w \in Wagers /\ u \in Users /\ row[w].status # "none"
      /\ req[r].seen.amount = row[w].amount
  BY DEF IInv, Core, SnapshotsHold, Snapshot, Debits, Steps
<1>2. req[r].seen.amount \in Amounts
  BY <1>1 DEF IInv, Core, RowFilled
<1>3. /\ balance' \in [Users -> Int]
      /\ staked' \in [Wagers -> [Users -> Nat]]
      /\ paid' = paid
      /\ staked'[w][u] >= StakeDebit(req[r].seen.amount)
      /\ \A v \in Wagers, x \in Users : staked'[v][x] >= staked[v][x]
  BY <1>1, <1>2, DebitEffect
<1>4. /\ req' \in [Reqs -> Request] /\ OnlyMoves(r)
      /\ lost' \subseteq Reqs /\ faults' \in 0 .. MaxFaults
      /\ HandlersInOrder
  BY ReturnEffect
<1>5. UNCHANGED <<row, settleJob, notices, contestJobs>>
  BY DEF queues
<1>6. TypeOK'
  BY <1>3, <1>4, <1>5 DEF IInv, TypeOK
<1>7. StakesKept
  BY <1>3, <1>4 DEF StakesKept, OnlyMoves
<1>8. QED
  BY <1>4, <1>5, <1>6, <1>7, NoRowWritten, NoJobTouched, CoreKept

\* A handler that goes on, or returns, and leaves rows, jobs, notices and the
\* stakes alone.
LEMMA QuietStep ==
  ASSUME IInv, NEW r \in Reqs, req[r].pc \notin Debits,
         req' \in [Reqs -> Request], OnlyMoves(r), HandlersInOrder,
         UNCHANGED <<row, settleJob, notices, staked>>,
         balance' \in [Users -> Int], contestJobs' \in [Wagers -> Nat],
         paid' \in [Wagers -> [Users -> Nat]],
         lost' \subseteq Reqs, faults' \in 0 .. MaxFaults
  PROVE  IInv'
<1>1. TypeOK'
  BY DEF IInv, TypeOK
<1>2. StakesKept
  BY StakesUntouched DEF OnlyMoves
<1>3. QED
  BY <1>1, <1>2, NoRowWritten, NoJobTouched, CoreKept

LEMMA CheckFundsPreserves ==
  ASSUME IInv, NEW r \in Reqs, CheckFunds(r)
  PROVE  IInv'
<1>1. /\ req[r].pc = "checkFunds" /\ UNCHANGED <<tables, queues, ledger>>
  BY DEF CheckFunds, At
<1>2. CASE Goto(r, "joinRow")
  <2>1. /\ req' \in [Reqs -> Request]
        /\ req'[r].pc = "joinRow"
        /\ req'[r].user = req[r].user
        /\ req'[r].wager = req[r].wager
        /\ req'[r].seen = req[r].seen
        /\ OnlyMoves(r)
        /\ lost' \subseteq Reqs /\ faults' \in 0 .. MaxFaults
    BY <1>2, GotoEffect DEF PCs, Steps
  <2>2. Snapshot(r)'
    BY <1>1, <2>1 DEF IInv, Core, SnapshotsHold, Snapshot, Steps, tables
  <2>3. HandlersInOrder
    BY <2>1, <2>2 DEF HandlersInOrder, OnlyMoves
  <2>4. QED
    BY <1>1, <2>1, <2>3, QuietStep DEF tables, queues, ledger, Debits, IInv, TypeOK
<1>3. CASE Return(r)
  BY <1>1, <1>3, ReturnEffect, QuietStep
     DEF tables, queues, ledger, Debits, IInv, TypeOK
<1>4. QED
  BY <1>2, <1>3 DEF CheckFunds

LEMMA JoinRowPreserves ==
  ASSUME IInv, NEW r \in Reqs, JoinRow(r)
  PROVE  IInv'
<1>1. /\ req[r].pc = "joinRow" /\ Goto(r, "debitJoiner")
      /\ UNCHANGED <<balance, settleJob, notices, contestJobs, staked, paid>>
  BY DEF JoinRow, Rewrites, At, queues, ledger
<1>2. PICK w \in Wagers, u \in Users :
        /\ w = req[r].wager /\ u = req[r].user
        /\ u # row[w].playerOne
        /\ row[w].status # "none"
        /\ req[r].seen.amount = row[w].amount
        /\ req[r].seen.playerOne = row[w].playerOne
  BY <1>1 DEF IInv, Core, SnapshotsHold, Snapshot, Steps
<1>3. /\ req' \in [Reqs -> Request]
      /\ req'[r].pc = "debitJoiner"
      /\ req'[r].user = u
      /\ req'[r].wager = w
      /\ req'[r].seen = req[r].seen
      /\ OnlyMoves(r)
      /\ lost' \subseteq Reqs /\ faults' \in 0 .. MaxFaults
  BY <1>1, <1>2, GotoEffect DEF PCs, Steps
<1>4. /\ row' \in [Wagers -> Row]
      /\ row'[w].status = "ACTIVE" /\ row'[w].playerTwo = u
      /\ row'[w].amount = row[w].amount /\ row'[w].playerOne = row[w].playerOne
      /\ \A v \in Wagers : v # w => row'[v] = row[v]
  <2>1. row \in [Wagers -> Row]
    BY DEF IInv, TypeOK
  <2>2. row' = [row EXCEPT ![w] = [row[w] EXCEPT !.playerTwo = u, !.status = "ACTIVE"]]
    BY <1>2 DEF JoinRow, Rewrites
  <2>3. QED
    BY <2>1, <2>2 DEF Row, Live
<1>5. TypeOK'
  BY <1>1, <1>3, <1>4 DEF IInv, TypeOK
<1>6. RowsKept
  BY <1>4 DEF RowsKept
<1>7. StakesKept
  BY <1>1, <1>3, StakesUntouched DEF OnlyMoves, Debits
<1>8. RowFilled(w) /\ SeatBacked(w)
  BY <1>2 DEF IInv, Core, SeatsBacked
<1>9. SeatsInOrder
  <2>1. RowFilled(w)'
    BY <1>2, <1>4, <1>8 DEF RowFilled
  <2>2. BackedNext(w, row[w].playerOne)
    BY <1>2, <1>5, <1>6, <1>7, <1>8, BackedKept DEF RowFilled, SeatBacked, IInv, Core
  <2>3. BackedNext(w, u)
    BY <1>3 DEF BackedNext, Debits
  <2>4. SeatBacked(w)'
    BY <1>4, <2>2, <2>3 DEF SeatBacked, Backed, BackedNext, Debits
  <2>5. QED
    BY <1>4, <2>1, <2>4 DEF SeatsInOrder
<1>10. PlayersInOrder
  BY <1>2, <1>4, ConstantsAssumption DEF PlayersInOrder
<1>11. HandlersInOrder
  <2>1. Snapshot(r)'
    BY <1>2, <1>3, <1>4 DEF Snapshot, Steps
  <2>2. QED
    BY <1>3, <2>1 DEF HandlersInOrder, OnlyMoves
<1>12. QED
  BY <1>1, <1>5, <1>6, <1>7, <1>9, <1>10, <1>11, NoJobTouched, CoreKept

-----------------------------------------------------------------------------
(* The handlers that rewrite the row of a wager that exists.                *)

\* A handler that goes on to a later step of its own is in order there.
LEMMA GoesOn ==
  ASSUME IInv, TypeOK', RowsKept, StakesKept, notices \subseteq notices',
         NEW r \in Reqs, NEW p \in (Steps \cup {"threw"}) \ (Debits \cup {"insert"}),
         Goto(r, p),
         req[r].pc \in Steps \ {"insert"},
         p \in {"updateRow", "deleteRow", "resolveRow", "creditResolved"} =>
            req[r].user \in Users,
         p \in {"checkFunds", "joinRow"} => req[r].pc \in {"checkFunds", "joinRow"},
         p \in {"setWinner", "notify", "schedule"} =>
            req[r].pc \in {"setWinner", "notify", "schedule"},
         p = "schedule" => <<req[r].wager, req[r].user>> \in notices'
  PROVE  HandlersInOrder
<1>1. /\ req'[r].pc = p
      /\ req'[r].user = req[r].user
      /\ req'[r].wager = req[r].wager
      /\ req'[r].seen = req[r].seen
      /\ OnlyMoves(r)
  BY GotoEffect DEF PCs
<1>2. PICK w \in Wagers :
        /\ w = req[r].wager
        /\ row[w].status # "none"
        /\ req[r].seen.amount = row[w].amount
        /\ req[r].seen.playerOne = row[w].playerOne
  BY DEF IInv, Core, SnapshotsHold, Snapshot
<1>3. /\ row'[w].status # "none"
      /\ row'[w].amount = row[w].amount
      /\ row'[w].playerOne = row[w].playerOne
  BY <1>2 DEF RowsKept
<1>4. Snapshot(r)
  BY DEF IInv, Core, SnapshotsHold
<1>5. p \in {"setWinner", "notify", "schedule"} =>
        req[r].user \in Users /\ BackedNext(w, req[r].user)
  <2> SUFFICES ASSUME p \in {"setWinner", "notify", "schedule"}
               PROVE  req[r].user \in Users /\ BackedNext(w, req[r].user)
    OBVIOUS
  <2>1. req[r].user \in Users /\ Backed(w, req[r].user)
    BY <1>2, <1>4 DEF Snapshot
  <2>2. QED
    BY <1>2, <2>1, BackedKept DEF IInv, Core
<1>6. p \in {"checkFunds", "joinRow"} => req[r].user \in Users \ {row[w].playerOne}
  BY <1>2, <1>4 DEF Snapshot
<1>7. Snapshot(r)'
  BY <1>1, <1>2, <1>3, <1>5, <1>6 DEF Snapshot, Backed, BackedNext, Debits
<1>8. QED
  BY <1>1, <1>7 DEF HandlersInOrder, OnlyMoves

\* UpdateRow, DeleteRow, SetWinner, AcceptRow, ContestRow and ResolveRow: the
\* row keeps its prize and players, and does not become ACTIVE.
LEMMA RewriteStep ==
  ASSUME IInv, NEW r \in Reqs, req[r].pc \in RowSteps \ {"joinRow"},
         NEW w \in Wagers, w = req[r].wager, NEW x \in Row,
         row' = [row EXCEPT ![w] = x],
         x.amount = row[w].amount,
         x.playerOne = row[w].playerOne,
         x.playerTwo = row[w].playerTwo,
         x.status # "none",
         x.status = "ACTIVE" => row[w].status = "ACTIVE",
         \/ Return(r)
         \/ Goto(r, "notify") /\ req[r].pc = "setWinner"
         \/ Goto(r, "creditWinner")
         \/ Goto(r, "queueContest")
         \/ Goto(r, "creditResolved") /\ req[r].pc = "resolveRow",
         UNCHANGED <<balance, queues, ledger>>
  PROVE  IInv'
<1>1. UNCHANGED <<balance, settleJob, notices, contestJobs, staked, paid>>
  BY DEF queues, ledger
<1>2. /\ req[r].pc \in Steps \ {"insert"} /\ req[r].pc \notin Debits
      /\ row[w].status # "none"
      /\ req[r].pc = "resolveRow" => req[r].user \in Users
  BY DEF IInv, Core, SnapshotsHold, Snapshot, RowSteps, Steps, Debits
<1>3. /\ row' \in [Wagers -> Row]
      /\ row'[w] = x
      /\ \A v \in Wagers : v # w => row'[v] = row[v]
  BY DEF IInv, TypeOK
<1>4. RowsKept /\ SeatsInOrder /\ PlayersInOrder
  BY <1>2, <1>3, RowRewritten
<1>5. /\ req' \in [Reqs -> Request] /\ OnlyMoves(r)
      /\ lost' \subseteq Reqs /\ faults' \in 0 .. MaxFaults
  BY ReturnEffect, GotoEffect DEF PCs, Steps
<1>6. TypeOK'
  BY <1>1, <1>3, <1>5 DEF IInv, TypeOK
<1>7. StakesKept
  BY <1>1, <1>2, <1>5, StakesUntouched DEF OnlyMoves
<1>8. HandlersInOrder
  <2>1. CASE Return(r)
    BY <2>1, ReturnEffect
  <2>2. CASE Goto(r, "notify") /\ req[r].pc = "setWinner"
    BY <1>1, <1>2, <1>4, <1>6, <1>7, <2>2, GoesOn DEF Steps, Debits
  <2>3. CASE Goto(r, "creditWinner")
    BY <1>1, <1>2, <1>4, <1>6, <1>7, <2>3, GoesOn DEF Steps, Debits
  <2>4. CASE Goto(r, "queueContest")
    BY <1>1, <1>2, <1>4, <1>6, <1>7, <2>4, GoesOn DEF Steps, Debits
  <2>5. CASE Goto(r, "creditResolved") /\ req[r].pc = "resolveRow"
    BY <1>1, <1>2, <1>4, <1>6, <1>7, <2>5, GoesOn DEF Steps, Debits
  <2>6. QED
    BY <2>1, <2>2, <2>3, <2>4, <2>5
<1>9. QED
  BY <1>1, <1>4, <1>6, <1>7, <1>8, NoJobTouched, CoreKept

LEMMA RewritersPreserve ==
  ASSUME IInv, NEW r \in Reqs,
         \/ UpdateRow(r) \/ DeleteRow(r) \/ SetWinner(r)
         \/ AcceptRow(r) \/ ContestRow(r) \/ ResolveRow(r)
  PROVE  IInv'
<1>1. req[r].pc \in RowSteps \ {"joinRow"}
  BY DEF UpdateRow, DeleteRow, SetWinner, AcceptRow, ContestRow, ResolveRow,
         Rewrites, At, RowSteps
<1>2. PICK w \in Wagers : w = req[r].wager /\ row[w].status # "none"
  BY <1>1 DEF IInv, Core, SnapshotsHold, Snapshot, RowSteps, Steps
<1>3. row \in [Wagers -> Row] /\ row[w] \in Row /\ req[r] \in Request
  BY DEF IInv, TypeOK
<1>4. CASE UpdateRow(r)
  <2> DEFINE x == [row[w] EXCEPT !.terms = req[r].seen.terms]
  <2>1. row' = [row EXCEPT ![w] = x] /\ Return(r)
        /\ UNCHANGED <<balance, queues, ledger>>
    BY <1>2, <1>4 DEF UpdateRow, Rewrites
  <2>2. x \in Row /\ x.amount = row[w].amount /\ x.playerOne = row[w].playerOne
        /\ x.playerTwo = row[w].playerTwo /\ x.status = row[w].status
    BY <1>3 DEF Row, Request
  <2>3. QED
    BY <1>1, <1>2, <2>1, <2>2, RewriteStep
<1>5. CASE DeleteRow(r)
  <2> DEFINE x == [row[w] EXCEPT !.status = "deleted"]
  <2>1. row' = [row EXCEPT ![w] = x] /\ Return(r)
        /\ UNCHANGED <<balance, queues, ledger>>
    BY <1>2, <1>5 DEF DeleteRow, Rewrites
  <2>2. x \in Row /\ x.amount = row[w].amount /\ x.playerOne = row[w].playerOne
        /\ x.playerTwo = row[w].playerTwo /\ x.status = "deleted"
    BY <1>3 DEF Row
  <2>3. QED
    BY <1>1, <1>2, <2>1, <2>2, RewriteStep
<1>6. CASE SetWinner(r)
  <2> DEFINE x == [row[w] EXCEPT !.winner = req[r].user]
  <2>1. row' = [row EXCEPT ![w] = x] /\ Goto(r, "notify") /\ req[r].pc = "setWinner"
        /\ UNCHANGED <<balance, queues, ledger>>
    BY <1>2, <1>6 DEF SetWinner, Rewrites, At
  <2>2. x \in Row /\ x.amount = row[w].amount /\ x.playerOne = row[w].playerOne
        /\ x.playerTwo = row[w].playerTwo /\ x.status = row[w].status
    BY <1>3 DEF Row, Request
  <2>3. QED
    BY <1>1, <1>2, <2>1, <2>2, RewriteStep
<1>7. CASE AcceptRow(r)
  <2> DEFINE x == [row[w] EXCEPT !.status = "SETTLED"]
  <2>1. row' = [row EXCEPT ![w] = x] /\ Goto(r, "creditWinner")
        /\ UNCHANGED <<balance, queues, ledger>>
    BY <1>2, <1>7 DEF AcceptRow, Rewrites
  <2>2. x \in Row /\ x.amount = row[w].amount /\ x.playerOne = row[w].playerOne
        /\ x.playerTwo = row[w].playerTwo /\ x.status = "SETTLED"
    BY <1>3 DEF Row, Live
  <2>3. QED
    BY <1>1, <1>2, <2>1, <2>2, RewriteStep
<1>8. CASE ContestRow(r)
  <2> DEFINE x == [row[w] EXCEPT !.status = "DISPUTE", !.winner = NoUser]
  <2>1. row' = [row EXCEPT ![w] = x] /\ Goto(r, "queueContest")
        /\ UNCHANGED <<balance, queues, ledger>>
    BY <1>2, <1>8 DEF ContestRow, Rewrites
  <2>2. x \in Row /\ x.amount = row[w].amount /\ x.playerOne = row[w].playerOne
        /\ x.playerTwo = row[w].playerTwo /\ x.status = "DISPUTE"
    BY <1>3 DEF Row, Live
  <2>3. QED
    BY <1>1, <1>2, <2>1, <2>2, RewriteStep
<1>9. CASE ResolveRow(r)
  <2> DEFINE x == [row[w] EXCEPT !.winner = req[r].user, !.status = "SETTLED"]
  <2>1. row' = [row EXCEPT ![w] = x]
        /\ Goto(r, "creditResolved") /\ req[r].pc = "resolveRow"
        /\ UNCHANGED <<balance, queues, ledger>>
    BY <1>2, <1>9 DEF ResolveRow, Rewrites, At
  <2>2. x \in Row /\ x.amount = row[w].amount /\ x.playerOne = row[w].playerOne
        /\ x.playerTwo = row[w].playerTwo /\ x.status = "SETTLED"
    BY <1>3 DEF Row, Live, Request
  <2>3. QED
    BY <1>1, <1>2, <2>1, <2>2, RewriteStep
<1>10. QED
  BY <1>4, <1>5, <1>6, <1>7, <1>8, <1>9

-----------------------------------------------------------------------------
(* The steps that touch the queue, and the credits.                        *)

LEMMA RowMissingPreserves ==
  ASSUME IInv, NEW r \in Reqs, RowMissing(r)
  PROVE  IInv'
<1>1. /\ req[r].pc \notin Debits /\ Return(r)
      /\ UNCHANGED <<row, balance, settleJob, notices, contestJobs, staked, paid>>
  BY DEF RowMissing, RowSteps, Debits, tables, queues, ledger
<1>2. QED
  BY <1>1, ReturnEffect, QuietStep DEF IInv, TypeOK

LEMMA NoticePreserves ==
  ASSUME IInv, NEW r \in Reqs, QueueNotice(r)
  PROVE  IInv'
<1>1. /\ req[r].pc = "notify" /\ Goto(r, "schedule")
      /\ notices' = notices \cup {<<req[r].wager, req[r].user>>}
      /\ UNCHANGED <<row, balance, settleJob, contestJobs, staked, paid>>
  BY DEF QueueNotice, At, tables, ledger
<1>2. req[r].wager \in Wagers /\ req[r].user \in Users
  BY <1>1 DEF IInv, Core, SnapshotsHold, Snapshot, Steps
<1>3. /\ req' \in [Reqs -> Request] /\ OnlyMoves(r)
      /\ lost' \subseteq Reqs /\ faults' \in 0 .. MaxFaults
  BY <1>1, GotoEffect DEF PCs, Steps
<1>4. notices \subseteq notices' /\ notices' \subseteq Wagers \X Users
  BY <1>1, <1>2 DEF IInv, TypeOK
<1>5. TypeOK'
  BY <1>1, <1>3, <1>4 DEF IInv, TypeOK
<1>6. StakesKept
  BY <1>1, <1>3, StakesUntouched DEF OnlyMoves, Debits
<1>7. HandlersInOrder
  <2>1. <<req[r].wager, req[r].user>> \in notices'
    BY <1>1
  <2>2. QED
    BY <1>1, <1>4, <1>5, <1>6, <2>1, NoRowWritten, GoesOn DEF Steps, Debits
<1>8. QED
  BY <1>1, <1>4, <1>5, <1>6, <1>7, NoRowWritten, NoJobTouched, CoreKept

LEMMA SchedulePreserves ==
  ASSUME IInv, NEW r \in Reqs, QueueSettle(r)
  PROVE  IInv'
<1>1. /\ req[r].pc = "schedule" /\ Return(r)
      /\ UNCHANGED <<row, balance, notices, contestJobs, staked, paid>>
  BY DEF QueueSettle, At, tables, ledger
<1>2. PICK w \in Wagers, u \in Users :
        /\ w = req[r].wager /\ u = req[r].user
        /\ row[w].status # "none"
        /\ Backed(w, u)
        /\ <<w, u>> \in notices
  BY <1>1 DEF IInv, Core, SnapshotsHold, Snapshot, Steps
<1>3. /\ req' \in [Reqs -> Request] /\ OnlyMoves(r) /\ HandlersInOrder
      /\ lost' \subseteq Reqs /\ faults' \in 0 .. MaxFaults
  BY <1>1, ReturnEffect
<1>4. settleJob' \in [Wagers -> Job] /\ JobsInOrder
  <2>1. CASE settleJob' = settleJob
    BY <2>1, NoJobTouched DEF IInv, TypeOK
  <2>2. CASE settleJob' # settleJob
    <3> DEFINE job == [NoJob EXCEPT !.state = "queued", !.claimant = u,
                                    !.opponent = OpponentSeen(r)]
    <3>1. settleJob' = [settleJob EXCEPT ![w] = job]
      BY <1>2, <2>2 DEF QueueSettle, AddSettleJob
    <3>2. OpponentSeen(r) \in Users \cup {NoUser}
      BY DEF OpponentSeen, IInv, TypeOK, Request, Row
    <3>3. job \in Job /\ job.state = "queued" /\ job.claimant = u
      BY <3>2, NullsAreTyped DEF Job, NoJob
    <3> HIDE DEF job
    <3>4. settleJob \in [Wagers -> Job]
      BY DEF IInv, TypeOK
    <3>5. /\ settleJob' \in [Wagers -> Job] /\ settleJob'[w] = job
          /\ \A v \in Wagers : v # w => settleJob'[v] = settleJob[v]
      BY <3>1, <3>3, <3>4
    <3>6. JobNew(w)
      BY <1>2, <3>3, <3>5 DEF JobNew
    <3>7. \A v \in Wagers : v # w => settleJob'[v].state = "none" \/ JobMoved(v)
      BY <3>5 DEF JobMoved, IInv, Core, JobHolds
    <3>8. QED
      BY <3>5, <3>6, <3>7 DEF JobsInOrder
  <2>3. QED
    BY <2>1, <2>2
<1>5. TypeOK'
  BY <1>1, <1>3, <1>4 DEF IInv, TypeOK
<1>6. StakesKept
  BY <1>1, <1>3, StakesUntouched DEF OnlyMoves, Debits
<1>7. QED
  BY <1>1, <1>3, <1>4, <1>5, <1>6, NoRowWritten, CoreKept

LEMMA UnschedulePreserves ==
  ASSUME IInv, NEW r \in Reqs, AcceptUnschedule(r) \/ ContestUnschedule(r)
  PROVE  IInv'
<1>1. /\ req[r].pc \in {"acceptUnschedule", "contestUnschedule"}
      /\ RemoveJob(req[r].wager)
      /\ Goto(r, "acceptRow") \/ Goto(r, "contestRow")
      /\ UNCHANGED <<row, balance, notices, contestJobs, staked, paid>>
  BY DEF AcceptUnschedule, ContestUnschedule, At, tables, ledger
<1>2. req[r].wager \in Wagers
  BY <1>1 DEF IInv, Core, SnapshotsHold, Snapshot, Steps
<1>3. /\ req' \in [Reqs -> Request] /\ OnlyMoves(r)
      /\ lost' \subseteq Reqs /\ faults' \in 0 .. MaxFaults
  BY <1>1, GotoEffect DEF PCs, Steps
<1>4. settleJob' \in [Wagers -> Job] /\ JobsInOrder
  BY <1>1, <1>2, RemoveJobEffect
<1>5. TypeOK'
  BY <1>1, <1>3, <1>4 DEF IInv, TypeOK
<1>6. StakesKept
  BY <1>1, <1>3, StakesUntouched DEF OnlyMoves, Debits
<1>7. HandlersInOrder
  <2>1. CASE Goto(r, "acceptRow")
    BY <1>1, <1>5, <1>6, <2>1, NoRowWritten, GoesOn DEF Steps, Debits
  <2>2. CASE Goto(r, "contestRow")
    BY <1>1, <1>5, <1>6, <2>2, NoRowWritten, GoesOn DEF Steps, Debits
  <2>3. QED
    BY <1>1, <2>1, <2>2
<1>8. QED
  BY <1>1, <1>4, <1>5, <1>6, <1>7, NoRowWritten, CoreKept

LEMMA QueueContestPreserves ==
  ASSUME IInv, NEW r \in Reqs, QueueContest(r)
  PROVE  IInv'
<1>1. /\ req[r].pc = "queueContest" /\ Return(r)
      /\ contestJobs' = [contestJobs EXCEPT ![req[r].wager] = @ + 1]
      /\ UNCHANGED <<row, balance, settleJob, notices, staked, paid>>
  BY DEF QueueContest, At, tables, ledger
<1>2. contestJobs' \in [Wagers -> Nat]
  <2>1. PICK w \in Wagers : w = req[r].wager
    BY <1>1 DEF IInv, Core, SnapshotsHold, Snapshot, Steps
  <2>2. contestJobs \in [Wagers -> Nat] /\ contestJobs[w] + 1 \in Nat
    BY DEF IInv, TypeOK
  <2>3. contestJobs' = [contestJobs EXCEPT ![w] = contestJobs[w] + 1]
    BY <1>1, <2>1
  <2>4. QED
    BY <2>2, <2>3
<1>3. QED
  BY <1>1, <1>2, ReturnEffect, QuietStep DEF IInv, TypeOK, Debits

LEMMA CreditPreserves ==
  ASSUME IInv, NEW r \in Reqs, CreditWinner(r) \/ CreditResolved(r)
  PROVE  IInv'
<1>1. /\ req[r].pc \in {"creditWinner", "creditResolved"} /\ Return(r)
      /\ UNCHANGED <<row, settleJob, notices, contestJobs>>
  BY DEF CreditWinner, CreditResolved, At, queues
<1>2. /\ req[r].wager \in Wagers
      /\ req[r].seen.amount \in Amounts
      /\ req[r].pc = "creditResolved" => req[r].user \in Users
      /\ req[r].seen.winner \in Users \cup {NoUser}
  BY <1>1 DEF IInv, TypeOK, Core, SnapshotsHold, Snapshot, RowFilled, Steps,
              Request, Row
<1>3. PICK u \in Users : Credit(req[r].wager, u, req[r].seen.amount)
  BY <1>2 DEF CreditWinner, CreditResolved, At
<1>4. /\ balance' \in [Users -> Int] /\ paid' \in [Wagers -> [Users -> Nat]]
      /\ staked' = staked
  BY <1>2, <1>3, CreditEffect
<1>5. QED
  BY <1>1, <1>4, ReturnEffect, QuietStep DEF IInv, TypeOK, Debits

LEMMA CreditNobodyPreserves ==
  ASSUME IInv, NEW r \in Reqs, CreditNobody(r)
  PROVE  IInv'
<1>1. /\ req[r].pc = "creditWinner" /\ Goto(r, "threw")
      /\ UNCHANGED <<row, balance, settleJob, notices, contestJobs, staked, paid>>
  BY DEF CreditNobody, At, tables, queues, ledger
<1>2. /\ req' \in [Reqs -> Request] /\ OnlyMoves(r)
      /\ lost' \subseteq Reqs /\ faults' \in 0 .. MaxFaults
  BY <1>1, GotoEffect DEF PCs
<1>3. TypeOK'
  BY <1>1, <1>2 DEF IInv, TypeOK
<1>4. StakesKept
  BY <1>1, <1>2, StakesUntouched DEF OnlyMoves, Debits
<1>5. HandlersInOrder
  BY <1>1, <1>3, <1>4, NoRowWritten, GoesOn DEF Steps, Debits
<1>6. QED
  BY <1>1, <1>2, <1>5, QuietStep DEF IInv, TypeOK, Debits

-----------------------------------------------------------------------------
(* The settle-wager job and the faults.                                    *)

\* A step that moves no handler.
LEMMA NobodyMoves ==
  ASSUME IInv, req' = req
  PROVE  HandlersInOrder /\ (staked' = staked => StakesKept)
BY StakesUntouched DEF HandlersInOrder

LEMMA JobPreserves ==
  ASSUME IInv, NEW w \in Wagers,
         \/ StartSettle(w) \/ FinishSettle(w) \/ JobFails(w)
  PROVE  IInv'
<1>1. /\ UNCHANGED <<row, balance, notices, contestJobs, req, lost, staked, paid>>
      /\ faults' \in 0 .. MaxFaults
      /\ settleJob[w].state # "none"
  BY ConstantsAssumption
     DEF StartSettle, FinishSettle, JobFails, JobAt, ActiveStates, tables, ledger,
         IInv, TypeOK
<1>2. PICK s \in JobStates \ {"crediting"} : JobGoto(w, s)
  BY DEF StartSettle, FinishSettle, JobFails, JobStates, ActiveStates
<1>3. settleJob' \in [Wagers -> Job] /\ JobsInOrder
  BY <1>1, <1>2, JobGotoEffect
<1>4. TypeOK'
  BY <1>1, <1>3 DEF IInv, TypeOK
<1>5. QED
  BY <1>1, <1>3, <1>4, NobodyMoves, NoRowWritten, CoreKept

LEMMA SettleRowPreserves ==
  ASSUME IInv, NEW w \in Wagers, SettleRow(w)
  PROVE  IInv'
<1>1. /\ settleJob[w].state = "settling"
      /\ UNCHANGED <<balance, notices, contestJobs, req, lost, faults, staked, paid>>
  BY DEF SettleRow, JobAt, ledger
<1>2. row[w].status # "none" /\ row[w].amount \in Amounts
  BY <1>1 DEF IInv, Core, JobHolds, RowFilled
<1>3. row \in [Wagers -> Row] /\ settleJob \in [Wagers -> Job]
  BY DEF IInv, TypeOK
<1>4. CASE Exists(w)
  <2>1. /\ row' = [row EXCEPT ![w].status = "SETTLED"]
        /\ settleJob' = [settleJob EXCEPT ![w].state = "crediting",
                                          ![w].amount = row[w].amount]
    BY <1>4 DEF SettleRow
  <2>2. /\ row' \in [Wagers -> Row]
        /\ row'[w].status = "SETTLED"
        /\ row'[w].amount = row[w].amount
        /\ row'[w].playerOne = row[w].playerOne
        /\ row'[w].playerTwo = row[w].playerTwo
        /\ \A v \in Wagers : v # w => row'[v] = row[v]
    BY <1>3, <2>1 DEF Row, Live
  <2>3. /\ settleJob' \in [Wagers -> Job]
        /\ settleJob'[w].claimant = settleJob[w].claimant
        /\ settleJob'[w].amount = row[w].amount
        /\ \A v \in Wagers : v # w => settleJob'[v] = settleJob[v]
    BY <1>2, <1>3, <2>1 DEF Job, ActiveStates
  <2>4. RowsKept /\ SeatsInOrder /\ PlayersInOrder
    BY <1>2, <2>2, RowRewritten
  <2>5. JobsInOrder
    BY <1>1, <2>3 DEF JobsInOrder, JobMoved, IInv, Core, JobHolds
  <2>6. TypeOK'
    BY <1>1, <2>2, <2>3 DEF IInv, TypeOK
  <2>7. QED
    BY <1>1, <2>4, <2>5, <2>6, NobodyMoves, CoreKept
<1>5. CASE ~Exists(w)
  <2>1. JobGoto(w, "failed") /\ row' = row
    BY <1>5 DEF SettleRow
  <2>2. settleJob' \in [Wagers -> Job] /\ JobsInOrder
    BY <1>1, <2>1, JobGotoEffect DEF JobStates, ActiveStates
  <2>3. TypeOK'
    BY <1>1, <2>1, <2>2 DEF IInv, TypeOK
  <2>4. QED
    BY <1>1, <2>1, <2>2, <2>3, NobodyMoves, NoRowWritten, CoreKept
<1>6. QED
  BY <1>4, <1>5

LEMMA CreditClaimantPreserves ==
  ASSUME IInv, NEW w \in Wagers, CreditClaimant(w)
  PROVE  IInv'
<1>1. /\ settleJob[w].state = "crediting" /\ JobGoto(w, "mailing")
      /\ Credit(w, settleJob[w].claimant, settleJob[w].amount)
      /\ UNCHANGED <<row, notices, contestJobs, req, lost, faults>>
  BY DEF CreditClaimant, JobAt
<1>2. settleJob[w].claimant \in Users /\ settleJob[w].amount \in Amounts
  BY <1>1 DEF IInv, Core, JobHolds, TimeoutPaysStaker, RowFilled
<1>3. /\ balance' \in [Users -> Int] /\ paid' \in [Wagers -> [Users -> Nat]]
      /\ staked' = staked
  BY <1>1, <1>2, CreditEffect
<1>4. settleJob' \in [Wagers -> Job] /\ JobsInOrder
  BY <1>1, JobGotoEffect DEF JobStates, ActiveStates
<1>5. TypeOK'
  BY <1>1, <1>3, <1>4 DEF IInv, TypeOK
<1>6. QED
  BY <1>1, <1>3, <1>4, <1>5, NobodyMoves, NoRowWritten, CoreKept

LEMMA CallFailsPreserves ==
  ASSUME IInv, NEW r \in Reqs, CallFails(r)
  PROVE  IInv'
<1>1. /\ UNCHANGED <<row, balance, settleJob, notices, contestJobs, req, staked, paid>>
      /\ lost' \subseteq Reqs /\ faults' \in 0 .. MaxFaults
  BY ConstantsAssumption DEF CallFails, tables, queues, ledger, IInv, TypeOK
<1>2. TypeOK'
  BY <1>1 DEF IInv, TypeOK
<1>3. QED
  BY <1>1, <1>2, NobodyMoves, NoRowWritten, NoJobTouched, CoreKept

LEMMA CrashPreserves ==
  ASSUME IInv, Crash
  PROVE  IInv'
<1>1. /\ UNCHANGED <<row, balance, notices, contestJobs, req, staked, paid>>
      /\ lost' \subseteq Reqs /\ faults' \in 0 .. MaxFaults
      /\ settleJob' = [w \in Wagers |-> Stall(settleJob[w])]
  BY ConstantsAssumption DEF Crash, tables, ledger, IInv, TypeOK
<1>2. ASSUME NEW w \in Wagers
      PROVE  /\ Stall(settleJob[w]) \in Job
             /\ Stall(settleJob[w]) = settleJob[w] \/ settleJob[w].state # "none"
             /\ Stall(settleJob[w]).claimant = settleJob[w].claimant
             /\ Stall(settleJob[w]).state # "crediting"
  <2>1. settleJob[w] \in Job
    BY DEF IInv, TypeOK
  <2>2. QED
    BY <2>1 DEF Stall, Job, ActiveStates
<1>3. settleJob' \in [Wagers -> Job]
  BY <1>1, <1>2
<1>4. JobsInOrder
  <2> SUFFICES ASSUME NEW w \in Wagers
               PROVE  settleJob'[w].state = "none" \/ JobMoved(w)
    BY DEF JobsInOrder
  <2>1. settleJob'[w] = Stall(settleJob[w])
    BY <1>1
  <2>2. QED
    BY <1>2, <2>1 DEF JobMoved
<1>5. TypeOK'
  BY <1>1, <1>3 DEF IInv, TypeOK
<1>6. QED
  BY <1>1, <1>4, <1>5, NobodyMoves, NoRowWritten, CoreKept

-----------------------------------------------------------------------------

LEMMA InitIsFine == Init => IInv
<1> SUFFICES ASSUME Init PROVE IInv
  OBVIOUS
<1>1. TypeOK
  BY ConstantsAssumption, NullsAreTyped DEF Init, TypeOK
<1>2. /\ \A w \in Wagers : row[w].status = "none" /\ settleJob[w].state = "none"
      /\ \A r \in Reqs : req[r].pc = "idle"
  BY DEF Init, NoRow, NoJob, NotSent
<1>3. Core
  BY <1>2 DEF Core, RowFilled, SeatsBacked, SeatBacked, SnapshotsHold, Snapshot,
              JobHolds, TimeoutPaysStaker, NoticeFirst, TwoPlayers, Steps
<1>4. QED
  BY <1>1, <1>3 DEF IInv

LEMMA StutterIsFine == IInv /\ UNCHANGED vars => IInv'
BY DEF vars, IInv, TypeOK, Core, RowFilled, SeatsBacked, SeatBacked, SnapshotsHold,
       Snapshot, Backed, JobHolds, TimeoutPaysStaker, NoticeFirst, TwoPlayers

LEMMA StepIsFine == IInv /\ Next => IInv'
<1> SUFFICES ASSUME IInv, Next PROVE IInv'
  OBVIOUS
<1>1. ASSUME NEW r \in Reqs, PlayerSent(r) PROVE IInv'
  BY <1>1, PlayerArrives
<1>2. ASSUME NEW r \in Reqs, AdminSent(r) PROVE IInv'
  BY <1>2, AdminArrives
<1>3. ASSUME NEW r \in Reqs, Resumes(r) PROVE IInv'
  <2>1. ASSUME NEW w \in Wagers, InsertWager(r, w) PROVE IInv'
    BY <2>1, InsertPreserves
  <2>2. CASE DebitCreator(r)
    BY <2>2, DebitPreserves DEF DebitCreator, At, Debits
  <2>3. CASE DebitJoiner(r)
    BY <2>3, DebitPreserves DEF DebitJoiner, At, Debits
  <2>4. CASE CheckFunds(r)
    BY <2>4, CheckFundsPreserves
  <2>5. CASE JoinRow(r)
    BY <2>5, JoinRowPreserves
  <2>6. CASE UpdateRow(r) \/ DeleteRow(r) \/ SetWinner(r)
             \/ AcceptRow(r) \/ ContestRow(r) \/ ResolveRow(r)
    BY <2>6, RewritersPreserve
  <2>7. CASE QueueNotice(r)
    BY <2>7, NoticePreserves
  <2>8. CASE QueueSettle(r)
    BY <2>8, SchedulePreserves
  <2>9. CASE AcceptUnschedule(r) \/ ContestUnschedule(r)
    BY <2>9, UnschedulePreserves
  <2>10. CASE CreditWinner(r) \/ CreditResolved(r)
    BY <2>10, CreditPreserves
  <2>11. CASE CreditNobody(r)
    BY <2>11, CreditNobodyPreserves
  <2>12. CASE QueueContest(r)
    BY <2>12, QueueContestPreserves
  <2>13. CASE RowMissing(r)
    BY <2>13, RowMissingPreserves
  <2>14. QED
    BY <1>3, <2>1, <2>2, <2>3, <2>4, <2>5, <2>6, <2>7, <2>8, <2>9, <2>10, <2>11,
       <2>12, <2>13 DEF Resumes
<1>4. ASSUME NEW r \in Reqs, CallFails(r) PROVE IInv'
  BY <1>4, CallFailsPreserves
<1>5. ASSUME NEW w \in Wagers, StartSettle(w) \/ Works(w) \/ JobFails(w) PROVE IInv'
  BY <1>5, JobPreserves, SettleRowPreserves, CreditClaimantPreserves DEF Works
<1>6. CASE Crash
  BY <1>6, CrashPreserves
<1>7. QED
  BY <1>1, <1>2, <1>3, <1>4, <1>5, <1>6 DEF Next

LEMMA Inductive == Spec => []IInv
<1>1. IInv /\ [Next]_vars => IInv'
  BY StepIsFine, StutterIsFine
<1>2. QED
  BY <1>1, InitIsFine, PTL DEF Spec

\* Every reachable state of the wager service is well typed.
THEOREM TypeCorrect == Spec => []TypeOK
<1>1. IInv => TypeOK
  BY DEF IInv
<1>2. QED
  BY <1>1, Inductive, PTL

\* Whoever sits in a wager has been debited its stake or is owed a debit by a
\* handler in flight or dead, whatever races and crashes there were.
THEOREM SeatsAreBacked == Spec => []SeatsBacked
<1>1. IInv => SeatsBacked
  BY DEF IInv, Core
<1>2. QED
  BY <1>1, Inductive, PTL

\* The settle-wager job only ever pays a user who has staked in its wager, and
\* only after the notice of that user's claim was queued.
THEOREM TimeoutIsSafe == Spec => [](TimeoutPaysStaker /\ NoticeFirst)
<1>1. IInv => TimeoutPaysStaker /\ NoticeFirst
  BY DEF IInv, Core
<1>2. QED
  BY <1>1, Inductive, PTL

\* A wager in play has two different players.
THEOREM ActiveHasTwoPlayers == Spec => []TwoPlayers
<1>1. IInv => TwoPlayers
  BY DEF IInv, Core
<1>2. QED
  BY <1>1, Inductive, PTL

\* The prize and the creator a handler or a job goes on with are those of the
\* row, however stale the rest of what it read may be.
THEOREM SnapshotsAreSafe == Spec => [](SnapshotsHold /\ JobHolds)
<1>1. IInv => SnapshotsHold /\ JobHolds
  BY DEF IInv, Core
<1>2. QED
  BY <1>1, Inductive, PTL
-----------------------------------------------------------------------------
(* No prize and no dispute of the wager service is forgotten: DisputeQueued *)
(* and SettledPaid are inductive relative to IInv.                          *)

Owed == DisputeQueued /\ SettledPaid

\* What a step leaves in order about one wager.
OwedOf(w) ==
  /\ row[w].status = "DISPUTE" => QueuerOf(w)
  /\ row[w].status = "SETTLED" => PayerOf(w)

LEMMA OwedIsOwedOf == Owed <=> \A w \in Wagers : OwedOf(w)
BY DEF Owed, OwedOf, DisputeQueued, SettledPaid

-----------------------------------------------------------------------------
(* A wager whose status stays is in order when nobody lets go of it.        *)

\* The counters of w do not go back.
CountersGrow(w) ==
  /\ contestJobs'[w] >= contestJobs[w]
  /\ \A u \in Users : paid'[w][u] >= paid[w][u]

\* A handler that has to queue a dispute or to pay for w still has to, or has
\* done it.
HandlersGoOn(w) ==
  \A s \in Reqs : req[s].wager = w =>
    /\ req[s].pc = "queueContest" => QueuerOf(w)'
    /\ req[s].pc \in Payers => PayerOf(w)'

\* A job that has to pay for w, or may not have, still counts.
JobGoesOn(w) ==
  settleJob[w].state = "crediting" \/ Interrupted(w) => PayerOf(w)'

LEMMA OwedStays ==
  ASSUME TypeOK, TypeOK', NEW w \in Wagers, OwedOf(w), row'[w].status = row[w].status,
         CountersGrow(w), HandlersGoOn(w), JobGoesOn(w)
  PROVE  OwedOf(w)'
<1>1. ASSUME QueuerOf(w) PROVE QueuerOf(w)'
  <2>1. CASE contestJobs[w] > 0
    BY <2>1 DEF CountersGrow, QueuerOf, TypeOK
  <2>2. QED
    BY <1>1, <2>1 DEF QueuerOf, HandlersGoOn
<1>2. ASSUME PayerOf(w) PROVE PayerOf(w)'
  <2>1. ASSUME NEW u \in Users, paid[w][u] > 0 PROVE PayerOf(w)'
    BY <2>1 DEF CountersGrow, PayerOf, TypeOK
  <2>2. QED
    BY <1>2, <2>1 DEF PayerOf, HandlersGoOn, JobGoesOn
<1>3. QED
  BY <1>1, <1>2 DEF OwedOf

\* A handler that stays where it is.
LEMMA StaysThere ==
  ASSUME NEW w \in Wagers, NEW s \in Reqs, req[s].wager = w, req'[s] = req[s]
  PROVE  /\ req[s].pc = "queueContest" => QueuerOf(w)'
         /\ req[s].pc \in Payers => PayerOf(w)'
BY DEF QueuerOf, PayerOf

\* A step of one handler that does not concern disputes and payments.
LEMMA Unconcerned ==
  ASSUME IInv, TypeOK', Owed, NEW r \in Reqs,
         OnlyMoves(r),
         req[r].pc \notin Payers \cup {"queueContest"},
         \A w \in Wagers : row'[w].status = row[w].status
                             \/ row'[w].status \notin {"DISPUTE", "SETTLED"},
         \A w \in Wagers : settleJob[w].state # "none" => settleJob'[w] = settleJob[w],
         UNCHANGED <<contestJobs, paid>>
  PROVE  Owed'
<1> SUFFICES ASSUME NEW w \in Wagers PROVE OwedOf(w)'
  BY DEF Owed, OwedOf, DisputeQueued, SettledPaid
<1>1. CASE row'[w].status \notin {"DISPUTE", "SETTLED"}
  BY <1>1 DEF OwedOf
<1>2. CASE row'[w].status = row[w].status
  <2>1. CountersGrow(w)
    BY DEF CountersGrow, IInv, TypeOK
  <2>2. HandlersGoOn(w)
    BY StaysThere DEF HandlersGoOn, OnlyMoves
  <2>3. JobGoesOn(w)
    BY DEF JobGoesOn, Interrupted, PayerOf
  <2>4. QED
    BY <1>2, <2>1, <2>2, <2>3, OwedStays, OwedIsOwedOf DEF IInv
<1>3. QED
  BY <1>1, <1>2

\* A step that writes no row, and moves no job that exists.
LEMMA Aside ==
  ASSUME IInv, TypeOK', Owed, NEW r \in Reqs, OnlyMoves(r),
         req[r].pc \notin Payers \cup {"queueContest"},
         UNCHANGED <<row, settleJob, contestJobs, paid>>
  PROVE  Owed'
BY Unconcerned

-----------------------------------------------------------------------------
(* The handlers that write no status of interest.                          *)

LEMMA ArrivalsOwe ==
  ASSUME IInv, IInv', Owed, NEW r \in Reqs, PlayerSent(r) \/ AdminSent(r)
  PROVE  Owed'
<1>1. PICK p \in Steps, u \in Users \cup {NoUser}, w \in Wagers \cup {NoWager} :
        \E seen : Arrive(r, p, u, w, seen)
  BY DEF PlayerSent, AdminSent, CreateWager, UpdateWager, JoinWager, DeleteWager,
         ClaimWager, AcceptClaim, ContestClaim, ResolveDispute, Steps
<1>2. /\ req[r].pc = "idle" /\ OnlyMoves(r)
      /\ UNCHANGED <<row, settleJob, contestJobs, paid>>
  BY <1>1 DEF Arrive, OnlyMoves, tables, queues, ledger, IInv, TypeOK
<1>3. QED
  BY <1>2, Aside DEF IInv, Payers

LEMMA StakersOwe ==
  ASSUME IInv, IInv', Owed, NEW r \in Reqs,
         \/ \E w \in Wagers : InsertWager(r, w)
         \/ DebitCreator(r) \/ CheckFunds(r) \/ JoinRow(r) \/ DebitJoiner(r)
  PROVE  Owed'
<1>1. /\ req[r].pc \in {"insert", "debitCreator", "checkFunds", "joinRow", "debitJoiner"}
      /\ UNCHANGED <<settleJob, contestJobs, paid>>
  BY DEF InsertWager, DebitCreator, CheckFunds, JoinRow, DebitJoiner, Rewrites, At,
         Debit, tables, queues, ledger
<1>2. OnlyMoves(r)
  BY DEF InsertWager, DebitCreator, CheckFunds, JoinRow, DebitJoiner, Goto, Return,
         OnlyMoves, IInv, TypeOK
<1>3. ASSUME NEW v \in Wagers
      PROVE  \/ row'[v].status = row[v].status
             \/ row'[v].status \notin {"DISPUTE", "SETTLED"}
  <2>1. row \in [Wagers -> Row]
    BY DEF IInv, TypeOK
  <2>2. ASSUME NEW w \in Wagers, InsertWager(r, w)
        PROVE  row'[v] = row[v] \/ row'[v].status = "PENDING"
    <3>1. row' = [row EXCEPT ![w] = req[r].seen] /\ req[r].pc = "insert"
      BY <2>2 DEF InsertWager, At
    <3>2. PICK u \in Users, a \in Amounts, t \in Terms : req[r].seen = NewRow(u, a, t)
      BY <3>1 DEF IInv, Core, SnapshotsHold, Snapshot
    <3>3. req[r].seen.status = "PENDING"
      BY <3>2 DEF NewRow
    <3>4. QED
      BY <2>1, <3>1, <3>3
  <2>3. CASE JoinRow(r)
    <3>1. row' = [row EXCEPT ![req[r].wager] = [row[req[r].wager] EXCEPT
                    !.playerTwo = req[r].user, !.status = "ACTIVE"]]
      BY <2>3 DEF JoinRow, Rewrites
    <3>2. QED
      BY <2>1, <3>1 DEF Row
  <2>4. CASE DebitCreator(r) \/ CheckFunds(r) \/ DebitJoiner(r)
    BY <2>4 DEF DebitCreator, CheckFunds, DebitJoiner, tables
  <2>5. QED
    BY <2>2, <2>3, <2>4
<1>4. QED
  BY <1>1, <1>2, <1>3, Unconcerned DEF IInv, Payers

LEMMA EditorsOwe ==
  ASSUME IInv, IInv', Owed, NEW r \in Reqs,
         UpdateRow(r) \/ DeleteRow(r) \/ SetWinner(r)
  PROVE  Owed'
<1>1. /\ req[r].pc \in {"updateRow", "deleteRow", "setWinner"} /\ OnlyMoves(r)
      /\ UNCHANGED <<settleJob, contestJobs, paid>>
  BY DEF UpdateRow, DeleteRow, SetWinner, Rewrites, At, Goto, Return, OnlyMoves,
         queues, ledger, IInv, TypeOK
<1>2. ASSUME NEW v \in Wagers
      PROVE  \/ row'[v].status = row[v].status
             \/ row'[v].status \notin {"DISPUTE", "SETTLED"}
  <2>1. row \in [Wagers -> Row]
    BY DEF IInv, TypeOK
  <2>2. QED
    BY <2>1 DEF UpdateRow, DeleteRow, SetWinner, Rewrites, Row
<1>3. QED
  BY <1>1, <1>2, Unconcerned DEF IInv, Payers

LEMMA ClaimJobsOwe ==
  ASSUME IInv, IInv', Owed, NEW r \in Reqs, QueueNotice(r) \/ QueueSettle(r)
  PROVE  Owed'
<1>1. /\ req[r].pc \in {"notify", "schedule"} /\ OnlyMoves(r)
      /\ UNCHANGED <<row, contestJobs, paid>>
  BY DEF QueueNotice, QueueSettle, At, Goto, Return, OnlyMoves, tables, ledger,
         IInv, TypeOK
<1>2. ASSUME NEW w \in Wagers, settleJob[w].state # "none"
      PROVE  settleJob'[w] = settleJob[w]
  BY <1>2 DEF QueueNotice, QueueSettle, AddSettleJob, IInv, TypeOK
<1>3. QED
  BY <1>1, <1>2, Unconcerned DEF IInv, Payers

-----------------------------------------------------------------------------
(* Acceptance, contest and resolution.                                     *)

LEMMA UnschedulersOwe ==
  ASSUME IInv, IInv', Owed, NEW r \in Reqs, AcceptUnschedule(r) \/ ContestUnschedule(r)
  PROVE  Owed'
<1>1. /\ req[r].pc \in {"acceptUnschedule", "contestUnschedule"}
      /\ OnlyMoves(r)
      /\ UNCHANGED <<row, contestJobs, paid>>
  BY DEF AcceptUnschedule, ContestUnschedule, At, Goto, OnlyMoves, tables, ledger,
         IInv, TypeOK
<1>2. req'[r].pc \in Payers /\ req'[r].wager = req[r].wager
  BY DEF AcceptUnschedule, ContestUnschedule, Goto, Payers, IInv, TypeOK, Request
<1>3. \A w \in Wagers : w # req[r].wager => settleJob'[w] = settleJob[w]
  BY DEF AcceptUnschedule, ContestUnschedule, RemoveJob, IInv, TypeOK
<1> SUFFICES ASSUME NEW w \in Wagers PROVE OwedOf(w)'
  BY DEF Owed, OwedOf, DisputeQueued, SettledPaid
<1>4. CountersGrow(w)
  BY <1>1 DEF CountersGrow, IInv, TypeOK
<1>5. HandlersGoOn(w)
  BY <1>1, StaysThere DEF HandlersGoOn, OnlyMoves, Payers
<1>6. JobGoesOn(w)
  <2>1. CASE w = req[r].wager
    BY <1>2, <2>1 DEF JobGoesOn, PayerOf
  <2>2. CASE w # req[r].wager
    BY <1>3, <2>2 DEF JobGoesOn, Interrupted, PayerOf
  <2>3. QED
    BY <2>1, <2>2
<1>7. QED
  BY <1>1, <1>4, <1>5, <1>6, OwedStays, OwedIsOwedOf DEF IInv

\* AcceptRow, ContestRow and ResolveRow: the handler goes on to pay or to queue.
LEMMA DecidersOwe ==
  ASSUME IInv, IInv', Owed, NEW r \in Reqs,
         AcceptRow(r) \/ ContestRow(r) \/ ResolveRow(r)
  PROVE  Owed'
<1> DEFINE v == req[r].wager
<1>1. /\ req[r].pc \in {"acceptRow", "contestRow", "resolveRow"}
      /\ OnlyMoves(r)
      /\ req'[r].wager = v
      /\ UNCHANGED <<settleJob, contestJobs, paid>>
  BY DEF AcceptRow, ContestRow, ResolveRow, Rewrites, At, Goto, OnlyMoves, queues,
         ledger, IInv, TypeOK, Request
<1>2. \/ row'[v].status = "SETTLED" /\ req'[r].pc \in {"creditWinner", "creditResolved"}
      \/ row'[v].status = "DISPUTE" /\ req'[r].pc = "queueContest"
  <2>1. v \in Wagers
    BY <1>1 DEF IInv, Core, SnapshotsHold, Snapshot, Steps
  <2>2. row \in [Wagers -> Row] /\ req \in [Reqs -> Request]
    BY DEF IInv, TypeOK
  <2>3. CASE AcceptRow(r)
    <3>1. /\ row' = [row EXCEPT ![v] = [row[v] EXCEPT !.status = "SETTLED"]]
          /\ req' = [req EXCEPT ![r].pc = "creditWinner"]
      BY <2>3 DEF AcceptRow, Rewrites, Goto
    <3>2. QED
      BY <2>1, <2>2, <3>1 DEF Row, Request
  <2>4. CASE ContestRow(r)
    <3>1. /\ row' = [row EXCEPT ![v] = [row[v] EXCEPT !.status = "DISPUTE",
                                                     !.winner = NoUser]]
          /\ req' = [req EXCEPT ![r].pc = "queueContest"]
      BY <2>4 DEF ContestRow, Rewrites, Goto
    <3>2. QED
      BY <2>1, <2>2, <3>1 DEF Row, Request
  <2>5. CASE ResolveRow(r)
    <3>1. /\ row' = [row EXCEPT ![v] = [row[v] EXCEPT !.winner = req[r].user,
                                                     !.status = "SETTLED"]]
          /\ req' = [req EXCEPT ![r].pc = "creditResolved"]
      BY <2>5 DEF ResolveRow, Rewrites, Goto
    <3>2. QED
      BY <2>1, <2>2, <3>1 DEF Row, Request
  <2>6. QED
    BY <2>3, <2>4, <2>5
<1>3. \A w \in Wagers : w # v => row'[w] = row[w]
  BY DEF AcceptRow, ContestRow, ResolveRow, Rewrites, IInv, TypeOK
<1> SUFFICES ASSUME NEW w \in Wagers PROVE OwedOf(w)'
  BY DEF Owed, OwedOf, DisputeQueued, SettledPaid
<1>4. CASE w = v
  BY <1>1, <1>2, <1>4 DEF OwedOf, QueuerOf, PayerOf, Payers
<1>5. CASE w # v
  <2>1. CountersGrow(w)
    BY <1>1 DEF CountersGrow, IInv, TypeOK
  <2>2. HandlersGoOn(w)
    BY <1>1, <1>5, StaysThere DEF HandlersGoOn, OnlyMoves
  <2>3. JobGoesOn(w)
    BY <1>1 DEF JobGoesOn, Interrupted, PayerOf
  <2>4. QED
    BY <1>3, <1>5, <2>1, <2>2, <2>3, OwedStays, OwedIsOwedOf DEF IInv
<1>6. QED
  BY <1>4, <1>5

LEMMA QueuersOwe ==
  ASSUME IInv, IInv', Owed, NEW r \in Reqs, QueueContest(r)
  PROVE  Owed'
<1>1. /\ req[r].pc = "queueContest"
      /\ OnlyMoves(r)
      /\ contestJobs' = [contestJobs EXCEPT ![req[r].wager] = @ + 1]
      /\ UNCHANGED <<row, settleJob, paid>>
  BY DEF QueueContest, At, Return, OnlyMoves, tables, ledger, IInv, TypeOK
<1>2. contestJobs \in [Wagers -> Nat] /\ contestJobs' \in [Wagers -> Nat]
  BY DEF IInv, TypeOK
<1> SUFFICES ASSUME NEW w \in Wagers PROVE OwedOf(w)'
  BY DEF Owed, OwedOf, DisputeQueued, SettledPaid
<1>3. CountersGrow(w)
  BY <1>1, <1>2 DEF CountersGrow, IInv, TypeOK
<1>4. HandlersGoOn(w)
  <2>1. w = req[r].wager => QueuerOf(w)'
    BY <1>1, <1>2 DEF QueuerOf
  <2>2. QED
    BY <1>1, <2>1, StaysThere DEF HandlersGoOn, OnlyMoves, Payers
<1>5. JobGoesOn(w)
  BY <1>1 DEF JobGoesOn, Interrupted, PayerOf
<1>6. QED
  BY <1>1, <1>3, <1>4, <1>5, OwedStays, OwedIsOwedOf DEF IInv

LEMMA CreditorsOwe ==
  ASSUME IInv, IInv', Owed, NEW r \in Reqs,
         CreditWinner(r) \/ CreditResolved(r) \/ CreditNobody(r)
  PROVE  Owed'
<1>1. /\ req[r].pc \in {"creditWinner", "creditResolved"}
      /\ OnlyMoves(r)
      /\ UNCHANGED <<row, settleJob, contestJobs>>
  BY DEF CreditWinner, CreditResolved, CreditNobody, At, Return, Goto, OnlyMoves,
         tables, queues, ledger, IInv, TypeOK
<1>2. /\ req[r].wager \in Wagers
      /\ req[r].seen.amount \in Amounts
      /\ req[r].pc = "creditResolved" => req[r].user \in Users
      /\ req[r].seen.winner \in Users \cup {NoUser}
  BY <1>1 DEF IInv, TypeOK, Core, SnapshotsHold, Snapshot, RowFilled, Steps,
              Request, Row
<1> PICK mine \in Wagers : mine = req[r].wager
  BY <1>2
<1>3. /\ \A v \in Wagers, x \in Users : paid'[v][x] >= paid[v][x]
      /\ PayerOf(mine)'
  <2>1. CASE CreditNobody(r)
    <3>1. req' = [req EXCEPT ![r].pc = "threw"] /\ paid' = paid
      BY <2>1 DEF CreditNobody, Goto, ledger
    <3>2. req'[r].pc = "threw" /\ req'[r].wager = req[r].wager
      BY <3>1 DEF IInv, TypeOK, Request
    <3>3. QED
      BY <3>1, <3>2 DEF PayerOf, Payers, IInv, TypeOK
  <2>2. CASE CreditWinner(r) \/ CreditResolved(r)
    <3>1. PICK u \in Users : Credit(mine, u, req[r].seen.amount)
      BY <1>2, <2>2 DEF CreditWinner, CreditResolved, At
    <3>2. /\ paid'[mine][u] > 0
          /\ \A v \in Wagers, x \in Users : paid'[v][x] >= paid[v][x]
      BY <1>2, <3>1, CreditEffect
    <3>3. QED
      BY <3>2 DEF PayerOf
  <2>3. QED
    BY <2>1, <2>2
<1> SUFFICES ASSUME NEW w \in Wagers PROVE OwedOf(w)'
  BY DEF Owed, OwedOf, DisputeQueued, SettledPaid
<1>4. CountersGrow(w)
  BY <1>1, <1>3 DEF CountersGrow, IInv, TypeOK
<1>5. HandlersGoOn(w)
  BY <1>1, <1>3, StaysThere DEF HandlersGoOn, OnlyMoves
<1>6. JobGoesOn(w)
  BY <1>1 DEF JobGoesOn, Interrupted, PayerOf
<1>7. QED
  BY <1>1, <1>4, <1>5, <1>6, OwedStays, OwedIsOwedOf DEF IInv

\* The row of the handler is gone, so its status is not of interest.
LEMMA MissingOwe ==
  ASSUME IInv, IInv', Owed, NEW r \in Reqs, RowMissing(r)
  PROVE  Owed'
<1>1. /\ OnlyMoves(r) /\ req[r].pc # "queueContest"
      /\ row[req[r].wager].status \notin {"DISPUTE", "SETTLED"}
      /\ UNCHANGED <<row, settleJob, contestJobs, paid>>
  BY DEF RowMissing, RowSteps, Return, OnlyMoves, Exists, Live, tables, queues,
         ledger, IInv, TypeOK
<1> SUFFICES ASSUME NEW w \in Wagers PROVE OwedOf(w)'
  BY DEF Owed, OwedOf, DisputeQueued, SettledPaid
<1>2. CASE w = req[r].wager
  BY <1>1, <1>2 DEF OwedOf
<1>3. CASE w # req[r].wager
  <2>1. CountersGrow(w)
    BY <1>1 DEF CountersGrow, IInv, TypeOK
  <2>2. HandlersGoOn(w)
    BY <1>1, <1>3, StaysThere DEF HandlersGoOn, OnlyMoves
  <2>3. JobGoesOn(w)
    BY <1>1 DEF JobGoesOn, Interrupted, PayerOf
  <2>4. QED
    BY <1>1, <2>1, <2>2, <2>3, OwedStays, OwedIsOwedOf DEF IInv
<1>4. QED
  BY <1>2, <1>3

-----------------------------------------------------------------------------
(* The job and the faults: no handler moves.                               *)

LEMMA HandlersStay ==
  ASSUME IInv, IInv', NEW w \in Wagers, OwedOf(w), req' = req, contestJobs' = contestJobs,
         row'[w].status = row[w].status,
         \A u \in Users : paid'[w][u] >= paid[w][u],
         JobGoesOn(w)
  PROVE  OwedOf(w)'
<1>1. CountersGrow(w)
  BY DEF CountersGrow, IInv, TypeOK
<1>2. HandlersGoOn(w)
  BY StaysThere DEF HandlersGoOn
<1>3. QED
  BY <1>1, <1>2, OwedStays DEF IInv

\* StartSettle, FinishSettle and JobFails change the state of the job.
LEMMA JobStepsOwe ==
  ASSUME IInv, IInv', Owed, NEW v \in Wagers,
         StartSettle(v) \/ FinishSettle(v) \/ JobFails(v)
  PROVE  Owed'
<1>1. UNCHANGED <<row, req, contestJobs, paid>>
  BY DEF StartSettle, FinishSettle, JobFails, tables, ledger
<1>2. PICK s \in JobStates : JobGoto(v, s) /\ (settleJob[v].state = "crediting" => s = "failed")
  BY DEF StartSettle, FinishSettle, JobFails, JobAt, JobStates, ActiveStates
<1>3. settleJob \in [Wagers -> Job]
  BY DEF IInv, TypeOK
<1>4. /\ settleJob[v].state \notin {"none", "failed"}
      /\ settleJob'[v].state = s /\ settleJob'[v].stalls = settleJob[v].stalls
      /\ s # "none"
      /\ \A w \in Wagers : w # v => settleJob'[w] = settleJob[w]
  BY <1>2, <1>3 DEF StartSettle, FinishSettle, JobFails, JobAt, JobGoto, Job,
                    ActiveStates
<1> SUFFICES ASSUME NEW w \in Wagers PROVE OwedOf(w)'
  BY DEF Owed, OwedOf, DisputeQueued, SettledPaid
<1>5. JobGoesOn(w)
  <2>1. CASE w = v
    BY <1>2, <1>4, <2>1 DEF JobGoesOn, Interrupted, PayerOf
  <2>2. CASE w # v
    BY <1>4, <2>2 DEF JobGoesOn, Interrupted, PayerOf
  <2>3. QED
    BY <2>1, <2>2
<1>6. \A u \in Users : paid'[w][u] >= paid[w][u]
  BY <1>1 DEF IInv, TypeOK
<1>7. QED
  BY <1>1, <1>5, <1>6, HandlersStay, OwedIsOwedOf

LEMMA SettleRowOwes ==
  ASSUME IInv, IInv', Owed, NEW v \in Wagers, SettleRow(v)
  PROVE  Owed'
<1>1. /\ settleJob[v].state = "settling"
      /\ UNCHANGED <<req, contestJobs, paid>>
  BY DEF SettleRow, JobAt, ledger
<1>2. settleJob \in [Wagers -> Job] /\ row \in [Wagers -> Row]
  BY DEF IInv, TypeOK
<1>3. /\ \A w \in Wagers : w # v => settleJob'[w] = settleJob[w] /\ row'[w] = row[w]
      /\ \/ settleJob'[v].state = "crediting" /\ row'[v].status = "SETTLED"
         \/ settleJob'[v].state = "failed" /\ row'[v] = row[v]
  BY <1>2 DEF SettleRow, JobGoto, Job, Row
<1> SUFFICES ASSUME NEW w \in Wagers PROVE OwedOf(w)'
  BY DEF Owed, OwedOf, DisputeQueued, SettledPaid
<1>4. CASE w = v
  BY <1>1, <1>3, <1>4, OwedIsOwedOf DEF OwedOf, PayerOf, QueuerOf, Interrupted
<1>5. CASE w # v
  <2>1. JobGoesOn(w)
    BY <1>3, <1>5 DEF JobGoesOn, Interrupted, PayerOf
  <2>2. \A u \in Users : paid'[w][u] >= paid[w][u]
    BY <1>1 DEF IInv, TypeOK
  <2>3. QED
    BY <1>1, <1>3, <1>5, <2>1, <2>2, HandlersStay, OwedIsOwedOf
<1>6. QED
  BY <1>4, <1>5

LEMMA CreditClaimantOwes ==
  ASSUME IInv, IInv', Owed, NEW v \in Wagers, CreditClaimant(v)
  PROVE  Owed'
<1>1. /\ settleJob[v].state = "crediting" /\ JobGoto(v, "mailing")
      /\ Credit(v, settleJob[v].claimant, settleJob[v].amount)
      /\ UNCHANGED <<row, req, contestJobs>>
  BY DEF CreditClaimant, JobAt
<1>2. settleJob[v].claimant \in Users /\ settleJob[v].amount \in Amounts
  BY <1>1 DEF IInv, Core, JobHolds, TimeoutPaysStaker, RowFilled
<1>3. /\ paid'[v][settleJob[v].claimant] > 0
      /\ \A w \in Wagers, u \in Users : paid'[w][u] >= paid[w][u]
  BY <1>1, <1>2, CreditEffect
<1> SUFFICES ASSUME NEW w \in Wagers PROVE OwedOf(w)'
  BY DEF Owed, OwedOf, DisputeQueued, SettledPaid
<1>4. JobGoesOn(w)
  <2>1. CASE w = v
    BY <1>2, <1>3, <2>1 DEF JobGoesOn, PayerOf
  <2>2. CASE w # v
    BY <1>1, <2>2 DEF JobGoesOn, JobGoto, Interrupted, PayerOf, IInv, TypeOK
  <2>3. QED
    BY <2>1, <2>2
<1>5. QED
  BY <1>1, <1>3, <1>4, HandlersStay, OwedIsOwedOf

LEMMA CrashOwes ==
  ASSUME IInv, IInv', Owed, Crash
  PROVE  Owed'
<1>1. /\ UNCHANGED <<row, req, contestJobs, paid>>
      /\ settleJob' = [w \in Wagers |-> Stall(settleJob[w])]
  BY DEF Crash, tables, ledger
<1> SUFFICES ASSUME NEW w \in Wagers PROVE OwedOf(w)'
  BY DEF Owed, OwedOf, DisputeQueued, SettledPaid
<1>2. JobGoesOn(w)
  <2>1. settleJob[w] \in Job /\ settleJob'[w] = Stall(settleJob[w])
    BY <1>1 DEF IInv, TypeOK
  <2>2. settleJob[w].state = "crediting" \/ Interrupted(w) => Interrupted(w)'
    BY <2>1 DEF Interrupted, Stall, Job, ActiveStates
  <2>3. QED
    BY <2>2 DEF JobGoesOn, PayerOf
<1>3. \A u \in Users : paid'[w][u] >= paid[w][u]
  BY <1>1 DEF IInv, TypeOK
<1>4. QED
  BY <1>1, <1>2, <1>3, HandlersStay, OwedIsOwedOf

\* A step that leaves the rows, the jobs and the handlers where they are.
LEMMA NothingOwes ==
  ASSUME Owed, UNCHANGED <<row, req, settleJob, contestJobs, paid>>
  PROVE  Owed'
BY DEF Owed, DisputeQueued, SettledPaid, QueuerOf, PayerOf, Interrupted

-----------------------------------------------------------------------------

LEMMA OwedStep == IInv /\ IInv' /\ Owed /\ [Next]_vars => Owed'
<1> SUFFICES ASSUME IInv, IInv', Owed, [Next]_vars PROVE Owed'
  OBVIOUS
<1>1. ASSUME NEW r \in Reqs, PlayerSent(r) \/ AdminSent(r) PROVE Owed'
  BY <1>1, ArrivalsOwe
<1>2. ASSUME NEW r \in Reqs, Resumes(r) PROVE Owed'
  <2>1. CASE \/ \E w \in Wagers : InsertWager(r, w)
             \/ DebitCreator(r) \/ CheckFunds(r) \/ JoinRow(r) \/ DebitJoiner(r)
    BY <2>1, StakersOwe
  <2>2. CASE UpdateRow(r) \/ DeleteRow(r) \/ SetWinner(r)
    BY <2>2, EditorsOwe
  <2>3. CASE QueueNotice(r) \/ QueueSettle(r)
    BY <2>3, ClaimJobsOwe
  <2>4. CASE AcceptUnschedule(r) \/ ContestUnschedule(r)
    BY <2>4, UnschedulersOwe
  <2>5. CASE AcceptRow(r) \/ ContestRow(r) \/ ResolveRow(r)
    BY <2>5, DecidersOwe
  <2>6. CASE CreditWinner(r) \/ CreditNobody(r) \/ CreditResolved(r)
    BY <2>6, CreditorsOwe
  <2>7. CASE QueueContest(r)
    BY <2>7, QueuersOwe
  <2>8. CASE RowMissing(r)
    BY <2>8, MissingOwe
  <2>9. QED
    BY <1>2, <2>1, <2>2, <2>3, <2>4, <2>5, <2>6, <2>7, <2>8 DEF Resumes
<1>3. ASSUME NEW r \in Reqs, CallFails(r) PROVE Owed'
  BY <1>3, NothingOwes DEF CallFails, tables, queues, ledger
<1>4. ASSUME NEW w \in Wagers, StartSettle(w) \/ Works(w) \/ JobFails(w) PROVE Owed'
  BY <1>4, JobStepsOwe, SettleRowOwes, CreditClaimantOwes DEF Works
<1>5. CASE Crash
  BY <1>5, CrashOwes
<1>6. CASE UNCHANGED vars
  BY <1>6, NothingOwes DEF vars
<1>7. QED
  BY <1>1, <1>2, <1>3, <1>4, <1>5, <1>6 DEF Next

LEMMA AlwaysOwed == Spec => []Owed
<1>1. Init => Owed
  BY DEF Init, Owed, DisputeQueued, SettledPaid, NoRow
<1>2. IInv /\ IInv' /\ Owed /\ [Next]_vars => Owed'
  BY OwedStep
<1>3. QED
  BY <1>1, <1>2, Inductive, PTL DEF Spec

\* No dispute is forgotten: a wager in DISPUTE has its contest job queued, or a
\* handler that owes it, if only one that died before it could add the job.
THEOREM DisputesAreQueued == Spec => []DisputeQueued
<1>1. Owed => DisputeQueued
  BY DEF Owed
<1>2. QED
  BY <1>1, AlwaysOwed, PTL

\* No prize is forgotten: a SETTLED wager has paid or has a payer, or its loss
\* goes back to a crash, a failed call or a claim that nobody made.
THEOREM NothingForgotten == Spec => []SettledPaid
<1>1. Owed => SettledPaid
  BY DEF Owed
<1>2. QED
  BY <1>1, AlwaysOwed, PTL
-----------------------------------------------------------------------------
(* The history of a row.                                                   *)

LEMMA SameRow ==
  ASSUME NEW w \in Wagers, row'[w] = row[w]
  PROVE  KeepsHistory(w)
BY DEF KeepsHistory

\* Every row update of a handler is of a row that exists.
LEMMA RewriteKeepsHistory ==
  ASSUME IInv, NEW r \in Reqs, NEW p, NEW x, Rewrites(r, p, x),
         x.amount = row[req[r].wager].amount,
         x.playerOne = row[req[r].wager].playerOne,
         row[req[r].wager].playerTwo # NoUser => x.playerTwo # NoUser,
         x.status = "PENDING" => row[req[r].wager].status = "PENDING"
  PROVE  \A w \in Wagers : KeepsHistory(w)
<1>1. /\ row[req[r].wager].status # "deleted"
      /\ row' = [row EXCEPT ![req[r].wager] = x]
  BY DEF Rewrites, Exists, Live
<1>2. row \in [Wagers -> Row]
  BY DEF IInv, TypeOK
<1> SUFFICES ASSUME NEW w \in Wagers PROVE KeepsHistory(w)
  OBVIOUS
<1>3. CASE w = req[r].wager
  BY <1>1, <1>2, <1>3 DEF KeepsHistory
<1>4. CASE w # req[r].wager
  BY <1>1, <1>2, <1>4, SameRow
<1>5. QED
  BY <1>3, <1>4

LEMMA ResumesKeepHistory ==
  ASSUME IInv, NEW r \in Reqs, Resumes(r)
  PROVE  \A w \in Wagers : KeepsHistory(w)
<1>1. row \in [Wagers -> Row]
  BY DEF IInv, TypeOK
<1>2. ASSUME NEW v \in Wagers, InsertWager(r, v) PROVE \A w \in Wagers : KeepsHistory(w)
  BY <1>1, <1>2 DEF InsertWager, KeepsHistory
<1>3. CASE row' = row
  BY <1>3, SameRow
<1>4. CASE \/ UpdateRow(r) \/ DeleteRow(r) \/ SetWinner(r) \/ AcceptRow(r)
           \/ ContestRow(r) \/ ResolveRow(r) \/ JoinRow(r)
  <2>1. /\ req[r].pc \in RowSteps
        /\ req[r].pc = "joinRow" => req[r].user # NoUser
        /\ req[r].wager \in Wagers
    BY <1>4, ConstantsAssumption
       DEF UpdateRow, DeleteRow, SetWinner, AcceptRow, ContestRow, ResolveRow, JoinRow,
           Rewrites, At, RowSteps, IInv, Core, SnapshotsHold, Snapshot, Steps
  <2>2. row[req[r].wager] \in Row
    BY <1>1, <2>1
  <2>3. CASE UpdateRow(r) \/ DeleteRow(r) \/ SetWinner(r)
    BY <2>2, <2>3, RewriteKeepsHistory DEF UpdateRow, DeleteRow, SetWinner, Row
  <2>4. CASE AcceptRow(r) \/ ContestRow(r) \/ ResolveRow(r)
    BY <2>2, <2>4, RewriteKeepsHistory DEF AcceptRow, ContestRow, ResolveRow, Row
  <2>5. CASE JoinRow(r)
    <3>1. req[r].user # NoUser
      BY <2>1, <2>5 DEF JoinRow, Rewrites, At
    <3>2. QED
      BY <2>2, <2>5, <3>1, RewriteKeepsHistory DEF JoinRow, Row
  <2>6. QED
    BY <1>4, <2>3, <2>4, <2>5
<1>5. QED
  BY <1>2, <1>3, <1>4
     DEF Resumes, DebitCreator, CheckFunds, DebitJoiner, QueueNotice, QueueSettle,
         AcceptUnschedule, CreditWinner, CreditNobody, ContestUnschedule, QueueContest,
         CreditResolved, RowMissing, tables

LEMMA StepKeepsHistory ==
  ASSUME IInv, Next
  PROVE  \A w \in Wagers : KeepsHistory(w)
<1>1. CASE row' = row
  BY <1>1, SameRow
<1>2. ASSUME NEW r \in Reqs, Resumes(r) PROVE \A w \in Wagers : KeepsHistory(w)
  BY <1>2, ResumesKeepHistory
<1>3. ASSUME NEW r \in Reqs, PlayerSent(r) \/ AdminSent(r) PROVE row' = row
  BY <1>3 DEF PlayerSent, AdminSent, CreateWager, UpdateWager, JoinWager, DeleteWager,
              ClaimWager, AcceptClaim, ContestClaim, ResolveDispute, Arrive, tables
<1>4. ASSUME NEW v \in Wagers, SettleRow(v) PROVE \A w \in Wagers : KeepsHistory(w)
  <2>1. row \in [Wagers -> Row]
    BY DEF IInv, TypeOK
  <2>2. CASE row' = [row EXCEPT ![v].status = "SETTLED"] /\ Exists(v)
    BY <2>1, <2>2 DEF KeepsHistory, Row, Exists, Live
  <2>3. QED
    BY <1>1, <1>4, <2>2 DEF SettleRow
<1>5. ASSUME NEW v \in Wagers,
             StartSettle(v) \/ CreditClaimant(v) \/ FinishSettle(v) \/ JobFails(v)
      PROVE  row' = row
  BY <1>5 DEF StartSettle, CreditClaimant, FinishSettle, JobFails, tables
<1>6. ASSUME NEW r \in Reqs, CallFails(r) PROVE row' = row
  BY <1>6 DEF CallFails, tables
<1>7. CASE Crash
  BY <1>1, <1>7 DEF Crash, tables
<1>8. QED
  BY <1>1, <1>2, <1>3, <1>4, <1>5, <1>6, <1>7 DEF Next, Works

\* No step of a handler or a job, however stale what it read, takes back the
\* prize, the creator or the second player of a wager, reopens it or revives it.
THEOREM HistoryIsKept == Spec => RowHistory
<1>1. IInv /\ [Next]_vars => [\A w \in Wagers : KeepsHistory(w)]_vars
  BY StepKeepsHistory
<1>2. QED
  BY <1>1, Inductive, PTL DEF Spec, RowHistory
=============================================================================
