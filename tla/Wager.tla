------------------------------- MODULE Wager -------------------------------
(***************************************************************************)
(* The wager service (apps/wager): the rows of the wager table, the        *)
(* balances of the players, the delayed settle-wager job of Bull and the   *)
(* handlers of wager.service.ts and wager.processor.ts.                    *)
(*                                                                         *)
(* A handler awaits the database or the queue at every step, so requests   *)
(* interleave there: an action is what a handler does between two awaits.  *)
(* The first action of a handler takes the request in, reads the row and   *)
(* applies the early returns; a request that is turned away changes        *)
(* nothing, so it is an action that is not enabled.  What the handler read *)
(* stays in its own "seen" and is what its later steps use.                *)
(***************************************************************************)
EXTENDS FeeSchedule, FiniteSets

CONSTANTS
  Users, NoUser,    \* ids of users; NoUser is null
  Wagers, NoWager,  \* ids of wagers
  Reqs,             \* requests, each sent at most once
  Terms, NoTerms,   \* contents of a wager's title, category and conditions
  Amounts,          \* the prizes (dto.stake * 2) that creators ask for
  InitialBalance,   \* the balance of every user at the start
  MaxFaults         \* bound on the crashes and failed calls of a behaviour

ASSUME ConstantsAssumption ==
  /\ NoUser \notin Users /\ NoWager \notin Wagers /\ NoTerms \notin Terms
  /\ Amounts \subseteq Nat \ {0, 1}   \* minimum stake is $1
  /\ InitialBalance \in Nat
  /\ MaxFaults \in Nat

VARIABLES
  row,          \* the wager table
  balance,      \* User.balance
  settleJob,    \* the job with id "wager-<id>" in wager-queue
  notices,      \* claim-wager jobs added: <<wager, claimant>>
  contestJobs,  \* number of contest-wager jobs added, per wager
  req,          \* the requests: where each handler is, and its locals
  lost,         \* requests whose handler died before its next step
  faults,       \* crashes and failed calls so far
  staked,       \* history: what each user has been debited for each wager
  paid          \* history: what each user has been credited for each wager

tables == <<row, balance>>
queues == <<settleJob, notices, contestJobs>>
ledger == <<staked, paid>>
vars == <<row, balance, settleJob, notices, contestJobs, req, lost, faults,
          staked, paid>>

Live == {"PENDING", "ACTIVE", "SETTLED", "DISPUTE"}  \* enum WagerStatus

Row == [status    : Live \cup {"none", "deleted"},
        amount    : Amounts \cup {0},
        playerOne : Users \cup {NoUser},
        playerTwo : Users \cup {NoUser},
        winner    : Users \cup {NoUser},
        terms     : Terms \cup {NoTerms}]

NoRow == [status |-> "none", amount |-> 0, playerOne |-> NoUser,
          playerTwo |-> NoUser, winner |-> NoUser, terms |-> NoTerms]

\* The row prisma.wager.create writes: the columns left out are null, and the
\* status has its default.
NewRow(u, a, t) ==
  [status |-> "PENDING", amount |-> a, playerOne |-> u,
   playerTwo |-> NoUser, winner |-> NoUser, terms |-> t]

Exists(w) == row[w].status \in Live

\* A worker holds the lock of an active job: settle-wager is before its row
\* update, before its credit, or before its look-up of the opponent.
ActiveStates == {"settling", "crediting", "mailing"}

Job == [state    : {"none", "queued", "completed", "failed"} \cup ActiveStates,
        claimant : Users \cup {NoUser},
        opponent : Users \cup {NoUser},
        amount   : Amounts \cup {0},
        stalls   : {0, 1}]

NoJob == [state |-> "none", claimant |-> NoUser, opponent |-> NoUser,
          amount |-> 0, stalls |-> 0]

\* The step a handler takes next.
Steps == {"insert", "debitCreator",
          "checkFunds", "joinRow", "debitJoiner",
          "updateRow", "deleteRow",
          "setWinner", "notify", "schedule",
          "acceptUnschedule", "acceptRow", "creditWinner",
          "contestUnschedule", "contestRow", "queueContest",
          "resolveRow", "creditResolved"}

Request == [pc    : Steps \cup {"idle", "done", "threw"},
            user  : Users \cup {NoUser},
            wager : Wagers \cup {NoWager},
            seen  : Row]

NotSent == [pc |-> "idle", user |-> NoUser, wager |-> NoWager, seen |-> NoRow]
Answered == [NotSent EXCEPT !.pc = "done"]

InFlight(r) == req[r].pc \in Steps /\ r \notin lost

Init ==
  /\ row = [w \in Wagers |-> NoRow]
  /\ balance = [u \in Users |-> InitialBalance]
  /\ settleJob = [w \in Wagers |-> NoJob]
  /\ notices = {}
  /\ contestJobs = [w \in Wagers |-> 0]
  /\ req = [r \in Reqs |-> NotSent]
  /\ lost = {}
  /\ faults = 0
  /\ staked = [w \in Wagers |-> [u \in Users |-> 0]]
  /\ paid = [w \in Wagers |-> [u \in Users |-> 0]]

-----------------------------------------------------------------------------
(* Mutated forms of the helpers below: plausible mistakes, each of which    *)
(* one of the properties catches.                                          *)

\* Credit: the platform fee is not taken off.
Credit_Gross(w, u, a) ==
  /\ balance' = [balance EXCEPT ![u] = @ + a]
  /\ paid' = [paid EXCEPT ![w][u] = @ + a]
  /\ UNCHANGED staked

\* Stall: stalled jobs are requeued without limit.
Stall_Forever(job) ==
  IF job.state \notin ActiveStates THEN job
  ELSE [job EXCEPT !.state = "queued", !.stalls = @ + 1]

\* RemoveJob: the timer of the claim is left in the queue.
RemoveJob_Forgotten(w) == UNCHANGED settleJob

\* AddSettleJob: no timer is started.
AddSettleJob_Forgotten(w, claimant, opponent) == UNCHANGED settleJob

-----------------------------------------------------------------------------
(* How a handler moves on.                                                 *)

\* A request arrives and its handler stops before step p.
Arrive(r, p, u, w, seen) ==
  /\ req[r].pc = "idle"
  /\ req' = [req EXCEPT ![r] =
               [pc |-> p, user |-> u, wager |-> w, seen |-> seen]]
  /\ UNCHANGED <<tables, queues, ledger, lost, faults>>

\* The handler of r resumes at step p.
At(r, p) == req[r].pc = p /\ r \notin lost

Goto(r, p) == req' = [req EXCEPT ![r].pc = p] /\ UNCHANGED <<lost, faults>>

\* The row update of a handler at step p.
Rewrites(r, p, x) ==
  /\ At(r, p)
  /\ Exists(req[r].wager)
  /\ row' = [row EXCEPT ![req[r].wager] = x]
  /\ UNCHANGED <<balance, queues, ledger>>

Return(r) == req' = [req EXCEPT ![r] = Answered] /\ UNCHANGED <<lost, faults>>

\* decrement: stake
Debit(w, u, a) ==
  /\ balance' = [balance EXCEPT ![u] = @ - StakeDebit(a)]
  /\ staked' = [staked EXCEPT ![w][u] = @ + StakeDebit(a)]
  /\ UNCHANGED paid

\* increment: wager.amount - calculatePlatformFee(wager.amount)
Credit(w, u, a) ==
  /\ balance' = [balance EXCEPT ![u] = @ + Prize(a)]
  /\ paid' = [paid EXCEPT ![w][u] = @ + Prize(a)]
  /\ UNCHANGED staked

\* wagersQueue.removeJobs("wager-<id>"): a job in any state goes, unless a
\* worker holds its lock.
RemoveJob(w) ==
  settleJob' = IF settleJob[w].state \in ActiveStates THEN settleJob
               ELSE [settleJob EXCEPT ![w] = NoJob]

\* wagersQueue.add with a jobId: ignored when the queue has a job with that
\* id, and completed and failed jobs are kept.
AddSettleJob(w, claimant, opponent) ==
  settleJob' = IF settleJob[w].state # "none" THEN settleJob
               ELSE [settleJob EXCEPT ![w] =
                       [NoJob EXCEPT !.state = "queued",
                                     !.claimant = claimant,
                                     !.opponent = opponent]]

-----------------------------------------------------------------------------
(* Mutated forms of the actions below.                                     *)

\* InsertWager: the row gets the stake for its amount.
InsertWager_Stake(r, w) ==
  /\ At(r, "insert")
  /\ row[w].status = "none"
  /\ row' = [row EXCEPT ![w] = [req[r].seen EXCEPT !.amount = StakeDebit(@)]]
  /\ req' = [req EXCEPT ![r].pc = "debitCreator", ![r].wager = w]
  /\ UNCHANGED <<balance, queues, ledger, lost, faults>>

\* CheckFunds: the balance is not looked at.
CheckFunds_Skipped(r) ==
  /\ At(r, "checkFunds")
  /\ Goto(r, "joinRow")
  /\ UNCHANGED <<tables, queues, ledger>>

\* ClaimWager: anybody may claim.
ClaimWager_Anyone(r, u, w) ==
  /\ Exists(w)
  /\ row[w].status # "SETTLED"
  /\ Arrive(r, "setWinner", u, w, row[w])

\* JoinRow: the handler returns without the debit.
JoinRow_Unpaid(r) ==
  /\ Rewrites(r, "joinRow", [row[req[r].wager] EXCEPT !.playerTwo = req[r].user,
                                                     !.status = "ACTIVE"])
  /\ Return(r)

\* UpdateRow: the whole row that was read is written back.
UpdateRow_Whole(r) == Rewrites(r, "updateRow", req[r].seen) /\ Return(r)

\* AcceptRow: the handler returns without the credit.
AcceptRow_Unpaid(r) ==
  /\ Rewrites(r, "acceptRow", [row[req[r].wager] EXCEPT !.status = "SETTLED"])
  /\ Return(r)

\* ContestRow: the handler returns without adding the job.
ContestRow_NoJob(r) ==
  /\ Rewrites(r, "contestRow", [row[req[r].wager] EXCEPT !.status = "DISPUTE",
                                                        !.winner = NoUser])
  /\ Return(r)

-----------------------------------------------------------------------------
(* createWager *)

CreateWager(r, u, a, t) ==
  /\ Affordable(a, balance[u])
  /\ Arrive(r, "insert", u, NoWager, NewRow(u, a, t))

InsertWager(r, w) ==
  /\ At(r, "insert")
  /\ row[w].status = "none"   \* a fresh id from the sequence
  /\ row' = [row EXCEPT ![w] = req[r].seen]
  /\ req' = [req EXCEPT ![r].pc = "debitCreator", ![r].wager = w]
  /\ UNCHANGED <<balance, queues, ledger, lost, faults>>

DebitCreator(r) ==
  /\ At(r, "debitCreator")
  /\ Debit(req[r].wager, req[r].user, req[r].seen.amount)
  /\ Return(r)
  /\ UNCHANGED <<row, queues>>

(* joinWager *)

JoinWager(r, u, w) ==
  /\ Exists(w)
  /\ row[w].playerOne # u
  /\ row[w].playerTwo = NoUser
  /\ Arrive(r, "checkFunds", u, w, row[w])

CheckFunds(r) ==
  /\ At(r, "checkFunds")
  /\ IF Affordable(req[r].seen.amount, balance[req[r].user])
     THEN Goto(r, "joinRow")
     ELSE Return(r)
  /\ UNCHANGED <<tables, queues, ledger>>

JoinRow(r) ==
  /\ Rewrites(r, "joinRow", [row[req[r].wager] EXCEPT !.playerTwo = req[r].user,
                                                     !.status = "ACTIVE"])
  /\ Goto(r, "debitJoiner")

DebitJoiner(r) ==
  /\ At(r, "debitJoiner")
  /\ Debit(req[r].wager, req[r].user, req[r].seen.amount)
  /\ Return(r)
  /\ UNCHANGED <<row, queues>>

(* updateWager: a dto with a stake makes prisma throw, so terms only *)

UpdateWager(r, u, w, t) ==
  /\ row[w].playerOne = u
  /\ row[w].status = "PENDING"
  /\ Arrive(r, "updateRow", u, w, [row[w] EXCEPT !.terms = t])

UpdateRow(r) ==
  /\ Rewrites(r, "updateRow", [row[req[r].wager] EXCEPT !.terms = req[r].seen.terms])
  /\ Return(r)

(* deleteWager: nothing is given back to the creator *)

DeleteWager(r, u, w) ==
  /\ row[w].playerOne = u
  /\ row[w].status = "PENDING"
  /\ Arrive(r, "deleteRow", u, w, row[w])

DeleteRow(r) ==
  /\ Rewrites(r, "deleteRow", [row[req[r].wager] EXCEPT !.status = "deleted"])
  /\ Return(r)

-----------------------------------------------------------------------------
(* claimWager *)

ClaimWager(r, u, w) ==
  /\ Exists(w)
  /\ row[w].status # "SETTLED"
  /\ row[w].playerOne = u \/ row[w].playerTwo = u
  /\ Arrive(r, "setWinner", u, w, row[w])

SetWinner(r) ==
  /\ Rewrites(r, "setWinner", [row[req[r].wager] EXCEPT !.winner = req[r].user])
  /\ Goto(r, "notify")

QueueNotice(r) ==
  /\ At(r, "notify")
  /\ notices' = notices \cup {<<req[r].wager, req[r].user>>}
  /\ Goto(r, "schedule")
  /\ UNCHANGED <<tables, settleJob, contestJobs, ledger>>

\* The opponent is read off the row the handler saw: null when there was none.
OpponentSeen(r) ==
  IF req[r].seen.playerOne = req[r].user
  THEN req[r].seen.playerTwo ELSE req[r].seen.playerOne

QueueSettle(r) ==
  /\ At(r, "schedule")
  /\ AddSettleJob(req[r].wager, req[r].user, OpponentSeen(r))
  /\ Return(r)
  /\ UNCHANGED <<tables, notices, contestJobs, ledger>>

(* acceptWagerClaim: the caller's identity is not used *)

AcceptClaim(r, w) ==
  /\ Exists(w)
  /\ row[w].status # "SETTLED"
  /\ Arrive(r, "acceptUnschedule", NoUser, w, row[w])

AcceptUnschedule(r) ==
  /\ At(r, "acceptUnschedule")
  /\ RemoveJob(req[r].wager)
  /\ Goto(r, "acceptRow")
  /\ UNCHANGED <<tables, notices, contestJobs, ledger>>

AcceptRow(r) ==
  /\ Rewrites(r, "acceptRow", [row[req[r].wager] EXCEPT !.status = "SETTLED"])
  /\ Goto(r, "creditWinner")

CreditWinner(r) ==
  /\ At(r, "creditWinner")
  /\ req[r].seen.winner # NoUser
  /\ Credit(req[r].wager, req[r].seen.winner, req[r].seen.amount)
  /\ Return(r)
  /\ UNCHANGED <<row, queues>>

\* Nobody had claimed: the update of the user with id null throws.
CreditNobody(r) ==
  /\ At(r, "creditWinner")
  /\ req[r].seen.winner = NoUser
  /\ Goto(r, "threw")
  /\ UNCHANGED <<tables, queues, ledger>>

(* contestWagerClaim *)

ContestClaim(r, w) ==
  /\ Exists(w)
  /\ row[w].status # "SETTLED"
  /\ Arrive(r, "contestUnschedule", NoUser, w, row[w])

ContestUnschedule(r) ==
  /\ At(r, "contestUnschedule")
  /\ RemoveJob(req[r].wager)
  /\ Goto(r, "contestRow")
  /\ UNCHANGED <<tables, notices, contestJobs, ledger>>

ContestRow(r) ==
  /\ Rewrites(r, "contestRow", [row[req[r].wager] EXCEPT !.status = "DISPUTE",
                                                        !.winner = NoUser])
  /\ Goto(r, "queueContest")

QueueContest(r) ==
  /\ At(r, "queueContest")
  /\ contestJobs' = [contestJobs EXCEPT ![req[r].wager] = @ + 1]
  /\ Return(r)
  /\ UNCHANGED <<tables, settleJob, notices, ledger>>

(* assignWinnerAfterResolution: any user, a wager in any status *)

ResolveDispute(r, u, w) ==
  /\ Exists(w)
  /\ Arrive(r, "resolveRow", u, w, row[w])

ResolveRow(r) ==
  /\ Rewrites(r, "resolveRow", [row[req[r].wager] EXCEPT !.winner = req[r].user,
                                                        !.status = "SETTLED"])
  /\ Goto(r, "creditResolved")

CreditResolved(r) ==
  /\ At(r, "creditResolved")
  /\ Credit(req[r].wager, req[r].user, req[r].seen.amount)
  /\ Return(r)
  /\ UNCHANGED <<row, queues>>

\* An update or delete of a row that is gone throws, and the handler with it.
RowSteps == {"joinRow", "updateRow", "deleteRow", "setWinner", "acceptRow",
             "contestRow", "resolveRow"}

RowMissing(r) ==
  /\ req[r].pc \in RowSteps /\ r \notin lost
  /\ ~Exists(req[r].wager)
  /\ Return(r)
  /\ UNCHANGED <<tables, queues, ledger>>

-----------------------------------------------------------------------------
(* The settle-wager job: it may start once it is in the queue, 24 hours    *)
(* being any time at all; attempts is 1, so a job that throws has failed.  *)

JobAt(w, s) == settleJob[w].state = s

JobGoto(w, s) == settleJob' = [settleJob EXCEPT ![w].state = s]

StartSettle(w) ==
  /\ JobAt(w, "queued")
  /\ JobGoto(w, "settling")
  /\ UNCHANGED <<tables, notices, contestJobs, req, lost, faults, ledger>>

SettleRow(w) ==
  /\ JobAt(w, "settling")
  /\ IF Exists(w)
     THEN /\ row' = [row EXCEPT ![w].status = "SETTLED"]
          /\ settleJob' = [settleJob EXCEPT ![w].state = "crediting",
                                            ![w].amount = row[w].amount]
     ELSE JobGoto(w, "failed") /\ UNCHANGED row
  /\ UNCHANGED <<balance, notices, contestJobs, req, lost, faults, ledger>>

CreditClaimant(w) ==
  /\ JobAt(w, "crediting")
  /\ Credit(w, settleJob[w].claimant, settleJob[w].amount)
  /\ JobGoto(w, "mailing")
  /\ UNCHANGED <<row, notices, contestJobs, req, lost, faults>>

\* findUniqueOrThrow of the opponent, then the two emails.
FinishSettle(w) ==
  /\ JobAt(w, "mailing")
  /\ JobGoto(w, IF settleJob[w].opponent = NoUser THEN "failed" ELSE "completed")
  /\ UNCHANGED <<tables, notices, contestJobs, req, lost, faults, ledger>>

-----------------------------------------------------------------------------
(* Faults *)

\* A database or queue call of a handler rejects: the handler ends there.
CallFails(r) ==
  /\ faults < MaxFaults
  /\ InFlight(r)
  /\ lost' = lost \cup {r}
  /\ faults' = faults + 1
  /\ UNCHANGED <<tables, queues, req, ledger>>

\* Bull returns a stalled job to the queue once and fails it the second time.
Stall(job) ==
  IF job.state \notin ActiveStates THEN job
  ELSE IF job.stalls = 0 THEN [job EXCEPT !.state = "queued", !.stalls = 1]
       ELSE [job EXCEPT !.state = "failed"]

\* A call of a running settle-wager job rejects: attempts is 1, it has failed.
JobFails(w) ==
  /\ faults < MaxFaults
  /\ settleJob[w].state \in ActiveStates
  /\ JobGoto(w, "failed")
  /\ faults' = faults + 1
  /\ UNCHANGED <<tables, notices, contestJobs, req, lost, ledger>>

\* The process dies and is restarted (compose.yml, restart: always): handlers
\* in flight are gone, the jobs it was working on stall.
Crash ==
  /\ faults < MaxFaults
  /\ lost' = lost \cup {r \in Reqs : req[r].pc \in Steps}
  /\ settleJob' = [w \in Wagers |-> Stall(settleJob[w])]
  /\ faults' = faults + 1
  /\ UNCHANGED <<tables, notices, contestJobs, req, ledger>>

-----------------------------------------------------------------------------

PlayerSent(r) ==
  \/ \E u \in Users, a \in Amounts, t \in Terms : CreateWager(r, u, a, t)
  \/ \E u \in Users, w \in Wagers, t \in Terms : UpdateWager(r, u, w, t)
  \/ \E u \in Users, w \in Wagers :
       JoinWager(r, u, w) \/ DeleteWager(r, u, w) \/ ClaimWager(r, u, w)
  \/ \E w \in Wagers : AcceptClaim(r, w) \/ ContestClaim(r, w)

AdminSent(r) == \E u \in Users, w \in Wagers : ResolveDispute(r, u, w)

Resumes(r) ==
  \/ \E w \in Wagers : InsertWager(r, w)
  \/ DebitCreator(r)
  \/ CheckFunds(r) \/ JoinRow(r) \/ DebitJoiner(r)
  \/ UpdateRow(r) \/ DeleteRow(r)
  \/ SetWinner(r) \/ QueueNotice(r) \/ QueueSettle(r)
  \/ AcceptUnschedule(r) \/ AcceptRow(r) \/ CreditWinner(r) \/ CreditNobody(r)
  \/ ContestUnschedule(r) \/ ContestRow(r) \/ QueueContest(r)
  \/ ResolveRow(r) \/ CreditResolved(r)
  \/ RowMissing(r)

Works(w) == SettleRow(w) \/ CreditClaimant(w) \/ FinishSettle(w)

Next ==
  \/ \E r \in Reqs : PlayerSent(r) \/ AdminSent(r) \/ Resumes(r) \/ CallFails(r)
  \/ \E w \in Wagers : StartSettle(w) \/ Works(w) \/ JobFails(w)
  \/ Crash

Spec == Init /\ [][Next]_vars

-----------------------------------------------------------------------------
(* What holds of every behaviour, whatever interleaves and whatever fails.  *)

TypeOK ==
  /\ row \in [Wagers -> Row]
  /\ balance \in [Users -> Int]
  /\ settleJob \in [Wagers -> Job]
  /\ notices \subseteq Wagers \X Users
  /\ contestJobs \in [Wagers -> Nat]
  /\ req \in [Reqs -> Request]
  /\ lost \subseteq Reqs
  /\ faults \in 0 .. MaxFaults
  /\ staked \in [Wagers -> [Users -> Nat]]
  /\ paid \in [Wagers -> [Users -> Nat]]

\* A row that exists has a prize and a creator, who is not its playerTwo.
RowFilled(w) ==
  row[w].status # "none" =>
    /\ row[w].amount \in Amounts
    /\ row[w].playerOne \in Users
    /\ row[w].playerTwo # row[w].playerOne

\* u has been debited the stake of w, or a handler is about to debit it, or
\* died in front of the debit.
Backed(w, u) ==
  \/ staked[w][u] >= StakeDebit(row[w].amount)
  \/ \E r \in Reqs : /\ req[r].pc \in {"debitCreator", "debitJoiner"}
                     /\ req[r].wager = w
                     /\ req[r].user = u

SeatBacked(w) ==
  row[w].status # "none" =>
    /\ Backed(w, row[w].playerOne)
    /\ row[w].playerTwo # NoUser => Backed(w, row[w].playerTwo)

\* A seat of a wager is never free: whoever sits in it, after any race of
\* joiners, has paid the stake, or is charged by a handler that still has to
\* run or that failed between the row and the balance (createWager and
\* joinWager write the row first).
SeatsBacked == \A w \in Wagers : SeatBacked(w)

\* The settle-wager job pays somebody who has staked in that very wager, even
\* though its claimant was fixed by a request long gone, the row's playerTwo
\* and winner may have been overwritten since, and the job may have stalled.
TimeoutPaysStaker ==
  \A w \in Wagers : settleJob[w].state # "none" =>
    settleJob[w].claimant \in Users /\ Backed(w, settleJob[w].claimant)

\* A wager in play has two different players, though joinWager checks the
\* seat on a row it read before and the seat may be written by several joiners.
TwoPlayers ==
  \A w \in Wagers : row[w].status = "ACTIVE" =>
    row[w].playerTwo # NoUser /\ row[w].playerTwo # row[w].playerOne

\* The timer of a claim only ever runs after the opponent's notice of that
\* claim was queued, also when the claim's handler dies half way.
NoticeFirst ==
  \A w \in Wagers : settleJob[w].state # "none" =>
    <<w, settleJob[w].claimant>> \in notices

\* What a handler that has stopped before step q.pc, or threw there, relies on.
Snapshot(r) ==
  LET q == req[r]
      w == q.wager
  IN  /\ q.pc = "insert" =>
           /\ q.user \in Users
           /\ \E a \in Amounts, t \in Terms : q.seen = NewRow(q.user, a, t)
      /\ q.pc \in (Steps \cup {"threw"}) \ {"insert"} =>
           /\ w \in Wagers
           /\ row[w].status # "none"
           /\ q.seen.amount = row[w].amount
           /\ q.seen.playerOne = row[w].playerOne
      /\ q.pc \in {"debitCreator", "updateRow", "deleteRow", "resolveRow",
                   "creditResolved"} => q.user \in Users
      /\ q.pc \in {"checkFunds", "joinRow", "debitJoiner"} =>
           q.user \in Users \ {row[w].playerOne}
      /\ q.pc \in {"setWinner", "notify", "schedule"} =>
           q.user \in Users /\ Backed(w, q.user)
      /\ q.pc = "schedule" => <<w, q.user>> \in notices

\* A snapshot is stale only where it may be: whatever happened since a handler
\* read its wager, the prize and the creator it goes on to charge, pay or check
\* with are those of the row, a joiner is not the creator, a claimant has
\* staked in the wager, and a claimant's notice is queued before the timer.
SnapshotsHold == \A r \in Reqs : Snapshot(r)

\* The same for the job: it was added for a row that existed, and it pays the
\* prize of that row.
JobHolds ==
  \A w \in Wagers : settleJob[w].state # "none" =>
    /\ row[w].status # "none"
    /\ settleJob[w].state = "crediting" => settleJob[w].amount = row[w].amount

\* The contest-wager job of w was added, or whoever adds it is in flight or died.
QueuerOf(w) ==
  \/ contestJobs[w] > 0
  \/ \E r \in Reqs : req[r].pc = "queueContest" /\ req[r].wager = w

\* A wager in dispute has its contest-wager job in the queue, or the handler
\* that owes it is still in flight or died before adding it.
DisputeQueued == \A w \in Wagers : row[w].status = "DISPUTE" => QueuerOf(w)

\* The settle-wager job of w stopped between its two writes or may have: it
\* stalled, or it failed.
Interrupted(w) ==
  \/ settleJob[w].state = "failed"
  \/ settleJob[w].state # "none" /\ settleJob[w].stalls = 1

\* Where a handler is that pays a prize, or removed the job that would have.
Payers == {"creditWinner", "creditResolved", "threw", "acceptRow", "contestRow"}

\* Somebody was paid for w, or whoever has to pay is in flight, died or threw.
PayerOf(w) ==
  \/ \E u \in Users : paid[w][u] > 0
  \/ \E r \in Reqs : req[r].pc \in Payers /\ req[r].wager = w
  \/ settleJob[w].state = "crediting"
  \/ Interrupted(w)

\* A settled wager has paid somebody, or its payer is in flight or died in
\* front of the credit, or its timer was interrupted (and perhaps removed since
\* by a handler now in front of its own row update), or it was the acceptance
\* of a claim that nobody had made.  Nothing else loses a prize.
SettledPaid == \A w \in Wagers : row[w].status = "SETTLED" => PayerOf(w)

\* What a step may not do to a row.
KeepsHistory(w) ==
  row[w].status # "none" =>
    /\ row'[w].amount = row[w].amount
    /\ row'[w].playerOne = row[w].playerOne
    /\ row[w].playerTwo # NoUser => row'[w].playerTwo # NoUser
    /\ row'[w].status = "PENDING" => row[w].status = "PENDING"
    /\ row[w].status = "deleted" => row'[w] = row[w]

\* Whatever handlers do with stale rows, the prize and the creator of a wager
\* never change, a seat once taken is never empty again, no wager goes back to
\* PENDING, and the id of a deleted wager stays dead.
RowHistory == [][\A w \in Wagers : KeepsHistory(w)]_vars
=============================================================================
