# Verification of the wager application

TLA+ models of the wager application in `src/`, TLC configurations that check them on small
instances, and TLAPS proofs of the results that should not depend on the size of the instance.
Every module is translated from the source; `PROJECT.json` names, for every definition that models
code, the lines it stands for.

## The system

NestJS micro-services that talk over NATS, one Postgres database through Prisma, Bull queues and
small key-value stores on Redis.

| part | state it keeps | operations |
|---|---|---|
| wager service (`apps/wager`) | `wagers` rows, players' `balance`, `wager-queue` | create, join, update, delete, claim, accept, contest, resolve; jobs `settle-wager` (24 h after a claim), `claim-wager` (mail), `contest-wager` |
| platform fee (`apps/wager/src/utils`) | none | `calculatePlatformFee`, seven brackets and a minimum |
| wallet service (`apps/wallet`) | `transactions` rows, `balance`, `wallet-queue`, idempotency keys in Redis, timers in memory | deposit, withdrawal, their jobs on Base and Solana, notification over a socket |
| dispute resolution (`apps/admin`, `contest-wager`, wager gateway) | `admins`, `chats`, `messages` rows | sign up, add, remove an admin; assign a dispute, open its chat, send messages |
| auth service (`apps/auth`) | `users` rows, sessions in Redis, **one** `sessionData` object in memory | sign up, log in and out, two factor, password reset in four requests |
| user service (`apps/user`) | `users` rows | profile, deletion, transfer of funds, look-ups |
| api gateway (`apps/api-gateway`) | none | authentication (reads the user, who then travels with the request), guards, forwarding |
| libraries (`libs`), deployment (`compose.yml`, `schema.prisma`) | counters | connections, mail, metrics; `restart: always`, unique columns, cascades |

They interact through the database (every service reads and writes `User.balance`; the contest of
the wager service creates the chat of an admin), through the queues (a handler adds a job, another
handler removes it, a worker runs it up to 24 hours later), and through the snapshot of the user that
the gateway takes when it authenticates a request.

What is hard in it:

* No handler uses a transaction or a conditional update. A handler reads a row, awaits, checks, and
  writes by id; whatever another handler did in between is overwritten or paid again.
* A row and the balance that goes with it are two writes. A crash or a failed call between them is
  never made good.
* Jobs: Bull ignores `add` when a job with that `jobId` exists in any state, `removeJobs` leaves a job
  a worker has locked, a failed job is not retried (`attempts` is 1), a job whose worker died is run
  once more from its beginning.
* The wallet's retries of deposits are `setTimeout`s. What they throw is caught by nobody and ends the
  process, with the payouts that are half way and the timers of everybody else.
* The idempotency key of a withdrawal is read and stored by two calls, and loses its time to live
  between two others.
* The balance a withdrawal or a deletion goes by was read when the gateway authenticated the request,
  and a transfer checks none; five services write `User.balance` and each knows of its own checks only.
* All password resets share one object in memory, read and written by handlers that await in between.

The properties that make each part correct are the comments in front of the properties in its modules;
`hazards` in `PROJECT.json` lists what can go wrong, at its line, with the properties that watch it.

## The modules

Conventions of all of them. An action is what a handler, job or timer does between two `await`s,
named after the operation (`JoinWager`, `CheckFunds`, `JoinRow`, `DebitJoiner` are the four parts of
`joinWager`). The first action of a handler receives the request, reads, and applies the early
returns; `req[r].seen` holds what it read and is all its later steps know. A request that is turned
away changes nothing, so it is an action that is not enabled, except where the handler has awaited
before (then it answers). What a job does at its end is split the same way: the update of a deposit's
retries (`Retry`) and the `setTimeout` that follows it (`ScheduleRetry`) are two steps, with room for a crash between them. A call that rejects (`CallFails`, `JobFails`, `AttemptFails`) ends its handler
or job there; `Crash` ends all of them and stalls the active jobs. Faults are counted and bounded by
`MaxFaults`. Definitions named `X_Something` in a section of mutated forms are wrong versions of `X`
that a property is meant to catch; no specification uses them.

| module | models |
|---|---|
| `FeeSchedule` | the fee, the prize and the stake as functions of a wager's amount |
| `PlatformFee` | the loop of `calculatePlatformFee`, bracket by bracket |
| `Wager` | `wager.service.ts` and the `settle-wager` job: rows, balances, the job with id `wager-<id>`, handlers |
| `WagerContract` | what a wager promises, abstractly: a deal is open, matched, claimed, disputed, settled or void, and money moves with the stage in one step |
| `WagerOrderly` | `Wager` when requests about one wager come one at a time and in the stage they are meant for; refines `WagerContract` |
| `WagerIntent` | what a message and a comment of the service claim, for the runs that refute them |
| `Wallet` | deposits and withdrawals: handlers, jobs, timers, Redis keys, the chain as the code sees it; refines `WalletContract` |
| `WalletContract` | what the wallet promises, abstractly: a withdrawal pays out and takes the funds in one step, a deposit comes in after its confirmation, and work that was broken off is done once more or not at all |
| `WalletIntent` | claims of the wallet service that the runs refute |
| `Dispute` | admins, the request that contests a wager and the `contest-wager` job it adds, chats and their messages |
| `PasswordReset` | the reset of a password: the shared `sessionData`, the sessions in Redis, the handlers, the mails with codes |
| `Accounts` | the users table as all services use it: sign up, two factor, profiles, deletion, transfers, and the stakes, withdrawals and deposits that check or change the same balance |
| `MoneyProofs` | theorems on `FeeSchedule`, and on sums of a function over a finite set |
| other `*Proofs` | theorems of the module they are named after |
| `MC*` | symmetry for TLC; the instances are the `.cfg` files |

How they hang together: `Wager` and `WagerOrderly` take the fee from `FeeSchedule`, whose agreement
with the loop `PlatformFee` checks and proves. `WagerOrderly` restricts `Wager` and instantiates
`WagerContract` with a refinement mapping; `Wallet` instantiates `WalletContract` as it is, faults and all. `Dispute` has of
a wager's row only what its job can tell: whether it is disputed, is not, or is gone, and whether it has a second
player. Any handler of the wager service may change that at any time, from whatever it was (`JoinRow`, `ContestRow`,
`Resolve`, `DeleteRow`), because all of them write by id after an older read. A contest is followed from its row
update over the add of its job, two calls as in `Wager` (`ContestRow`, `QueueContest`) of which the second
may never come (state `lost`), to the end of the job. `Wallet` and `Wager` both move
`User.balance`, each by increments and decrements that are atomic in the database. `Accounts` composes
them with the user service at the one place where they meet: it has of a stake, a withdrawal and a
deposit only the check, the balance it goes by and the update (`ReadBalance`, `CheckFunds`,
`DebitChecked`, `CreditDeposit`), and in full what the auth and user services do to the row.

### Data

* A stake is any multiple of 50 cents: `amount` is `dto.stake * 2` in dollars, so it is a natural number
  of at least 2. The prize that is credited is `amount - fee`, of which the `Int` column `balance`
  keeps the dollars; a stake of half dollars is cut the same way when it is debited (`StakeDebit`,
  `Prize`). The fee is computed in ten-thousandths of a dollar, in which the brackets are exact; it
  agrees with the floating point of the source for every amount up to 3,000,000.
* The wallet's amounts are in half dollars and the row and the balance get whole dollars (`Dollars`).
* In `Accounts` a username is a member of a small set, also the one that a sign up through Google makes
  up; a two factor secret is the request that stored it; the password and the names are left out. A
  deleted row keeps its last contents so that properties can speak of it; its email and username are free again.
* Titles, conditions and categories of a wager are one opaque value (`Terms`). Emails, logs, metrics and
  websocket traffic are left out, except where their failure changes what happens next:
  `sendTransactionStatus` throws when the user has no socket, and that decides whether the idempotency
  key is completed.
* `updateWager` with a stake passes an unknown field to Prisma and throws, so only terms change.

### Assumptions about what the code calls

Bull 4: the four facts listed above. Prisma: one call is atomic, an update or delete of a missing
row throws, a fraction written to an `Int` column is cut off (the end-to-end test of the fee shows it).
Redis: `SET` drops the time to live, `EXPIRE` with a negative time deletes. Node: an unhandled
rejection ends the process. The chain never takes back a confirmation. They are `external` in the map.

## What the runs show

Handlers may come in any order and interleave at every `await`, and deadlock is not checked because
every model stops when its requests are used up.

| run | instance | shows |
|---|---|---|
| `platform_fee` | stakes on both sides of every threshold, and the extremes | the loop computes the schedule; a payout lies between one stake and two (`TypeOK`, a bound on its numbers, is proved instead) |
| `wager_faults` | 1 wager, 3 users, 4 requests, 2 faults | who sits in a wager has paid or is about to (`SeatsBacked`), the timer pays a staker (`TimeoutPaysStaker`), what handlers remember is stale only where it may be (`SnapshotsHold`), a prize or dispute is only lost by a named failure (`SettledPaid`, `DisputeQueued`), rows do not go back (`RowHistory`) |
| `wager_orderly` | 2 wagers, 2 users, 6 requests, no fault | requests that do not overlap implement `WagerContract`; no overdraft, money is conserved, claims end, settled wagers are paid |
| `wager_double_pay` | 1 wager, 2 users, 4 requests | refutes "This wager has already been settled!" as a protection: overlapping acceptances both pay; that the claim is true in orderly use is proved (`PrizeIsPaidOnce`) |
| `wager_two_claims` | orderly use | refutes the comment on the temporary winner: after two claims the timer pays the first claimant, the row names the second |
| `wallet_faults` | 1 deposit, 1 withdrawal, 2 faults | payouts and debits, credits and confirmations, rows and balances agree, up to a job that ran twice or failed; a `PENDING` transaction is pursued or its loss has a cause; what a key says of its withdrawal is true, and a key without time to live is about to get one or was left by a crash; every step is one of `WalletContract` or hidden from it (`KeepsWalletContract`); a deposit is decided whatever the chain says and when, also after a stalled job, unless its work was cut off (`DepositsDecided`) |
| `wallet_keys` | 2 withdrawals with one key, a user who may have no socket, 2 faults | a key is free again in the end; only one that lost its time to live may be taken for ever, and then the job that was to give it back was cut short (`KeysFreed`) |
| `wallet_repeat` | 2 withdrawals, 1 key | refutes the comment on the idempotency key: two requests that overlap both go through |
| `wallet_lost_retry` | 2 deposits, 1 user without a socket | refutes "Retry pending transaction after 30 seconds": an unhandled rejection in one timer ends the process and all timers |
| `dispute_faults` | 2 wagers, 2 jobs, 3 admin ids, 2 messages a chat, 1 fault | an admin's count covers its chats, chats have an admin of the right category, keep their admin and messages while both are there (`DiscussionsKept`); a dispute without a chat is on its way to one, or was lost between its two calls by a fault, or its job failed, or its admin was removed (`DisputesPursued`) |
| `reset_faults` | 2 users, 5 requests, 1 fault | sessions, mails and passwords are those of the right user although all share one object; a reset that is over is not revived |
| `accounts_faults` | 2 members, 1 newcomer, 3 requests of any kind, 1 fault | no failure or overlap makes money (`MoneyTraced`); a balance is negative only after a transfer or a debit that overtook a check (`OverdraftsOvertaken`); deletion goes by a poor balance or one that was overtaken (`DeletedPoor`); two factor is on exactly with a secret of its owner, but for profile updates (`TwoFactorBacked`); emails and usernames are unique |

Why the bounds are enough for what they are meant to show. The handlers of a wager never look at
another wager, so one wager is the whole problem except for balances, for which `wager_orderly` has
two. Three users are a creator and two joiners who race. Four requests reach create, join, and two
handlers that settle at once, or a claim; the longest violation found while developing needed four. Two
faults are a crash and a second crash of the job that stalled, or a failed call after it, which
exhausts Bull's limit of one stall. The wallet's amounts are one below and one above the minimum of
a withdrawal (both with a fraction), and a balance that lasts for one withdrawal. Two withdrawals with
one key are enough for every order of two settings of the key's value and time to live, and two faults for a crash
that leaves the key endless and one more in the run that follows it. In `Dispute`, three ids
are the super admin and two others, of the same category or not; the first message comes with the
chat and the second is one that can be lost; two contests are two requests for one wager, or one for
each; one fault is a crash or a failed call at any step of either, and the second run of a job that stalled needs no other. In `Accounts`, members open with $6, so that one transfer or
payout of $5 leaves a balance that may be deleted and that no second one may be checked against, and $1
more makes it negative or the $5 at which deletion is allowed too; three requests are a check, what
overtakes it and a third party. The amounts are below and at the minimum of a withdrawal. `Amounts`, `Reqs`, `Jobs` and
`MaxFaults` bound the behaviours; `MaxId` bounds the admins; the retries of a deposit are bounded by the
code. Symmetry is used in runs without liveness properties only.

A `mutants` entry of `PROJECT.json` gives, for each property, a wrong version of one operator that the
property catches.

### Fairness

`wager_orderly`: a handler that has begun goes on (`Resumes`), a due job is picked up and worked off
(`OrderlyTimer`, `Works`). The calls a handler awaits return and Node goes on with it, Bull picks up
delayed jobs. No request has to arrive. The runs of the wallet that check liveness (`wallet_faults`, `wallet_keys`, `wallet_lost_retry`): the same for handlers,
jobs and attempts, and timers fire and keys expire. The chain need not confirm anything and no
request has to come. All of it is weak fairness: once a handler can take its next step it can until
it does. No fault is fair, and there are at most `MaxFaults`.

`wager_orderly` has no faults: the code has no answer to most of them (a lost prize stays lost), which is what
`SettledPaid` spells out. `wallet_faults` and `wallet_keys` have crashes, failed calls and a user who may have no socket,
and their liveness properties name what the code cannot make good. A deposit stays `PENDING` when its request
ends before the job is added, its job fails, or its timer dies with the process; a job that stalls is run again and decides it.
A key that lost its time to live between `set` and `expire` (`wallet.service.ts:546`) stays when the job is not run to its end
afterwards; every other key is free again, as Redis expires it whatever becomes of the process.

## What is proved

TLAPS checks these for every value of the constants under the assumptions named in the modules.

| theorem | says |
|---|---|
| `MoneyProofs!PrizeBounds` | the prize is at least one stake and at most two |
| `PlatformFeeProofs!TypeCorrect` | `[]TypeOK`: the loop stays within its tiers |
| `PlatformFeeProofs!FeeIsSchedule`, `PayoutIsBacked` | the loop returns the schedule's fee, its payout lies between one stake and two |
| `WagerProofs!TypeCorrect` | `[]TypeOK` |
| `WagerProofs!SeatsAreBacked`, `TimeoutIsSafe`, `SnapshotsAreSafe` | the safety invariants of `wager_faults` that speak of one wager's players |
| `WagerProofs!ActiveHasTwoPlayers` | `[]TwoPlayers`: an `ACTIVE` wager has two different players |
| `WagerProofs!DisputesAreQueued`, `NothingForgotten` | `[]DisputeQueued` and `[]SettledPaid`: a dispute or a prize is only lost by a named failure |
| `WagerProofs!HistoryIsKept` | `RowHistory` |
| `WagerOrderlyProofs!OrderlyImplementsContract` | `OrderlySpec => KeepsContract`: the refinement of `wager_orderly` |
| `WagerOrderlyProofs!NoOverdraftInOrder` | `OrderlySpec => []NoOverdraft` |
| `WagerOrderlyProofs!MoneyIsConserved` | `OrderlySpec => []MoneyConserved` |
| `WagerOrderlyProofs!PrizeIsPaidOnce` | `OrderlySpec => []PrizePaidOnce` |
| `WalletProofs!TypeCorrect` | `[]TypeOK` |
| `WalletProofs!PayoutsAreDebited`, `CreditsAreConfirmed`, `StatusIsTrue` | the safety invariants of `wallet_faults` that speak of one transaction |
| `WalletProofs!TransactionsArePursued`, `KeysAreTrue` | `Pursued` and `KeysTrue`: no row is forgotten, no key lies |
| `WalletProofs!StatusIsFinal` | `StatusFinal` |
| `WalletProofs!WalletImplementsContract` | `Spec => KeepsWalletContract`: the refinement of `wallet_faults`, whatever interleaves and fails |
| `DisputeProofs!TypeCorrect`, `LoadIsCovered`, `ChatsAttended`, `DisputesArePursued`, `DiscussionsAreKept` | all properties of `dispute_faults` |
| `PasswordResetProofs!TypeCorrect`, `SessionsAreOwn`, `CurrentIsStored`, `ChangesAreAsked`, `MailsAreOwn`, `FinishedResetsStay` | all properties of `reset_faults` |
| `AccountsProofs!TypeCorrect`, `MoneyIsTraced`, `OverdraftsAreOvertaken`, `TwoFactorIsBacked`, `DeletedWerePoor` | all properties of `accounts_faults`; `TypeOK` includes the unique columns |

Assumptions. `AmountsAssumption`, `ConstantsAssumption` and `WalletAssumption`: the nulls are no members of the
sets they complete, amounts of wagers are naturals of at least 2 (twice the minimum stake of one dollar) and
those of transactions positive, no request is both a deposit and a withdrawal, bounds are naturals.
`DisputeAssumption`: besides, the wagers and the jobs are finite, as the counts of disputes are
cardinalities; `ResetAssumption` and `AccountsAssumption`: nulls, amounts and bounds again. `FiniteTables` (`WagerOrderly`): the sums of `MoneyConserved` and `PrizePaidOnce` range over the tables, which are finite.
`Accounts` needs no such assumption: that the requests a balance sums up are finitely many is part of the invariant.
Nothing else is assumed of finiteness or size; `Stall` is what Bull does, see above.

The argument for wagers. `SeatsBacked` alone is not inductive: `JoinRow` puts a user in a seat because of a check
its handler made on an older row, so the handler's snapshot must still agree with the row on the
prize and the creator; `TimeoutPaysStaker` needs the same of the handler that adds the job; and the
snapshots stay in order only because no step changes the prize or the creator of a row. So the
inductive invariant is `IInv == TypeOK /\ Core`, `Core` being `RowFilled` of every wager, `SeatsBacked`,
`SnapshotsHold`, `JobHolds`, `TimeoutPaysStaker`, `NoticeFirst` and `TwoPlayers` together. Its proof
goes by effect, not by conjunct: a lemma per conjunct says what a step may do to rows, requests,
stakes and jobs without disturbing it (`SeatsKept`, `PlayersKept`, `SnapshotsKept`, `JobsKept`, joined in
`CoreKept`), a lemma per action shows that it does no more (`JoinRowPreserves`, ...), `StepIsFine`
collects them, and `Inductive` is `Spec => []IInv`, from which the theorems follow. The second half of the module
takes `IInv` for granted and shows that `Owed`, the conjunction of `DisputeQueued` and `SettledPaid`, is inductive
relative to it: a payer, once there, goes away only by paying, dying or throwing.

The argument for orderly use. A handler keeps the contract only if it finds its wager as it was when the request came,
so `OInv` adds to `IInv` what the order of requests is good for. `InLine(w)` says that at most one handler is at `w` and none
while the job runs (`Alone`), that the handler is in the stage it was meant for (`Meant`), and that notices, timer
and winner are those of that stage (`InStage`); `OneStake` and `Funded` say that a user stakes with one handler at a time, which finds the funds
it has checked. A step moves one handler or job at one wager, so every other wager stays in line and keeps its deal (`OthersInLine`, `OthersKeepDeals`, joined in `StepAt`), and
a lemma per action shows that it is a step of the contract or leaves the deal alone too. The steps that count are the debits, the credits, and the
row updates of a claim, a contest and a deletion; the row updates in front of a debit or a credit are invisible to the contract.
`ResolveDispute` is a step of `Wager` because a wager in dispute has a second player, which is why `InStage` says so.

The money is a matter of the contract from there on: each of its steps leaves `Total` alone (`ContractConserves`), since the pot it
changes takes what the balance gives (`MoneyMoves`), and a settled pot is not overdrawn because of `PrizeBounds`. That a prize is paid
once is not in the contract, which does not know `paid`: `Rewarded` says that nobody is paid for a wager before it is settled and one
user afterwards; only the credits pay, each of them ends its wager (`PaidByAward`), and no step of the contract leaves that stage (`SettledStays`).

Sums are folds, and an induction over their definition is out of the provers' reach. `MoneyProofs` goes another way: the partial
sums are a function from subsets to numbers (`SumExists`, `SumUnique`), and if a claim failed for some subset it would fail for a
smallest one (`SmallestSet`), which has an element to take away. From this come the facts the other modules cite:
a sum is a number (`SumType`), any element may be taken first (`SumTake`), equal functions have equal sums (`SumSame`), and a change or an
addition at one place changes the sum by as much (`SumChange`, `SumAdd`).

The argument for the wallet. What has been paid out and booked for a transaction says little without
where its attempt is: a payout that is not debited is fine while `debit` is next, a `FAILED` row is fine
only because no timer and no second attempt is left that could still credit. So `InOrder(r)` ties the row,
the job, the step and the history of one request together: `Handled` (no job before the handler is
done), `OneAttempt` (the job's attempt, or one timer, or the attempt of one timer, never two at once),
`PaidOut` and `Credited` (what each step has behind it, with `job.stalls` counting the runs a crash has
cut short), `RowTrue`, and `Onward`, which is `Pursued` with the fact it needs, that an attempt has decided the row before it
notifies. Keys belong to no request, as several withdrawals may share one, so `IInv` is `TypeOK`, `KeysTrue` and
`InOrder` of every request. A step changes one request, and `Untouched` carries the others over, and the keys too, if
what a key may say of a withdrawal stays true of it (`Keeps`, `KeysKept`); only `Restart` changes all requests, each in the same way.
`StatusIsFinal` adds `StatusWriters`, the four steps that write a status, none of which `InOrder` allows on a decided row.

That the wallet keeps its contract is proved relative to this `IInv`, with `Firms` for what the contract knows of a request and `IInv` does not:
its terms do not change, and what died or was dropped is over. A payout and its debit are one step of the contract although the code takes two, so
a payout whose `debit` is next does not count yet (`PaidOf`); everything but the openings, the updates that book, the failures and the
confirmations is hidden (`Hidden`). `Restart`, and a call that fails, may end many works at once: `Cut` says of each of them
that it was whole and may be done again, or is over, and that a payout whose debit was next counts from now on; together they are one `Interrupt`.
`PaidAtCut` is the bound that makes this a promise: with `stalls` runs cut short before, no more than that many payouts are there already.

The argument for disputes. `ChatsAreAttended` depends on what a job picked two calls ago: `Picked` says that
the admin of a job that goes on has existed, is not the super admin and has the wager's category, and
that a job past the chat leaves it there unless the wager or the admin is gone. An admin who was removed stays removed because
ids are given out in turn (`IdsInTurn`), so the foreign key of the chat does the rest. That a dispute is
dropped for a named cause only takes two more parts: `Contested`, that some request made the wager a dispute and is still known,
whatever became of it and of its job, and `LostByFault`, that no request ends between its two calls without a fault. Where that
request is then decides: before its job, at it, failed, or completed, and of a completed job `Picked` says what became of its chat. `LoadCoversChats` is proved relative to this
`IInv`: a step moves one wager into `Chats(a)` only as it takes a job out of `Opening(a)`, whose sum the count dominates.

The argument for resets. What is in the shared object must have been made by the request whose code it is,
for the user it names (`DataOwn`), before it says anything about sessions; the same is said of every session (`Filled`), changed
password (`Changed`) and mail (`Mailed`) by pointing to a request that is past making its code (`Made`), whose
email no later step changes (`Onward`). `HalfReset` is what `FinishedStays` needs: a session found cleared
while its user is in memory is that of a reset that died before it stored anything, so the resend that revives it is allowed to.

The argument for accounts. A check is worth something only as long as nothing has overtaken it, so
`InOrder` keeps, for every request that goes by a balance, the relation between that balance and the row
in terms of what has overtaken it: nothing, and they are equal; no debit, and the row has at least as
much. `Sound` says that a negative balance has a request that explains it, and `Backed` that a secret has
one that stored it. Both stay true because a request's explanations only grow (`Follows`). Every action is then one of
three kinds, each a lemma: it changes a request only (`QuietStep`), one row besides (`RowStep`), or a balance (`BookStep`). `MoneyTraced` is proved relative to
that: `Traced` says of every row that its balance is what it opened with plus the credits and minus the debits of finitely many requests, and of
every request that it is done once it has credited. A step books nothing (`TracedQuiet`), or one amount for one user and
one request (`TracedBook`), and `SumAdd` does the rest.

Only model-checked: liveness (`ClaimsEnd`, `SettledEndsPaid`, `DepositsDecided`, `KeysFreed`), which needs fairness and
`ENABLED`, and the prover handles neither. Every invariant and action property of the passing runs has a theorem.

## What is not modelled

* Log in, the checks of two factor tokens and reset codes, and all look-ups: they only read. So does
  the admins' log in.
* The gauge of users with two factor, which is not stored and drifts by design of the code: a second
  enabling counts again (`auth.service.ts:177`), a profile update or a deletion does not count.
* The rooms of the dispute chat's sockets: they decide who sees a message at once; every message is stored first.
* The upload of pictures, before the row is touched, and the pages and the cookie of the Google log in.
* `Accounts` has users that come and go; in `Wager` and `Wallet` users are constants. What a deletion does to
  their updates is in `Accounts`: they throw, and the stake or payout stays unpaid for.
* Transfers of amounts that are not positive: no guard of the code excludes them, and the model is about
  the amounts transfers are meant for.
* Resolution of domain names and wallet addresses, gas prices and balances of the platform's own wallets:
  they decide whether a payout is rejected, which is a free choice in `Wallet`.
* A second deposit that names a transaction already credited: each deposit of the model has its own.
* Formatting, mails, logs, metrics, validation of DTOs, CORS, ports.

Disagreements met while modelling that have no run, because another run shows the same cause or the
code shows it at a glance: two concurrent stakes of one user overdraw the balance
(`wager.service.ts:37`); an update, deletion or second joiner overtakes a join (`:113`, `:347`, `:178`); a creator claims
before anybody joined, and the timer pays a prize only half of which was staked (`:214`); a claim
after a failed job with the same id starts no timer (`:251`); two withdrawals overdraw the balance
(`wallet.controller.ts:177`; what does hold is `OverdraftsOvertaken`); a key stays at `PROCESSING` when its withdrawal failed (`wallet.service.ts:545`); two
signups create two super admins (`admin.service.ts:23`); the count of disputes, which the comment
calls active ones, is never lowered (`wager.processor.ts:112`); a category without an admin fails its contest for good (`:115`);
a transfer to an unknown username debits the sender and credits nobody (`user.service.ts:96`, under a comment that says both are
updated); an account with exactly $5, or a negative balance, is deleted while the message at `:51` wants it withdrawn first (`:43`);
a payout to a user who was deleted is never debited (`wallet.service.ts:187`); completing a reset clears the shared object
when it may hold another user's reset, who then cannot finish (`auth.service.ts:335`); the first mail of a
reset may carry another user's code (`:239`, which `MailsOwn` delimits); an admin never enters a chat's room, since only
users are let in when a socket connects (`wager.gateway.ts:40` against the comment at `:99`).

## Plan

In order of importance. Up to 15 it is done.

1. `FeeSchedule`, `PlatformFee` and their proofs; `Wager`, `WagerContract`, `WagerOrderly`.
2. `WagerProofs`.
3. `Wallet`, with the runs for faults and for liveness.
4. `Dispute`, `PasswordReset`.
5. `WalletProofs`.
6. `DisputeProofs`, with the messages of the chats.
7. `PasswordResetProofs`, with the mails.
8. `Accounts`, which composes the checks of all services on one balance, and `AccountsProofs`.
9. In `WalletProofs`, `Pursued` and `KeysTrue` as parts of `IInv`: what a key stands for is never undone.
10. `WagerOrderlyProofs`: the refinement of `WagerContract` for every instance, which needs no sums.
11. `MoneyProofs`: sums without induction; with it `MoneyIsConserved` and `MoneyIsTraced`.
12. `WalletContract`, which `Wallet` refines with all its faults, as a run and as a theorem.
13. `DisputesAreQueued` and `NothingForgotten` one by one; `PlatformFee`'s type invariant.
14. `PrizeIsPaidOnce`: that overlaps are all it takes to pay twice.
15. In `Dispute`, a contest in two calls, and wagers that are joined, settled or deleted in any status; `KeysFreed` with faults.
16. To do: an abstract account of `Accounts` (one ledger entry per request) as a refinement, and one of `Dispute` (a dispute is
    queued, attended, discussed), each first as a run in place of a property it implies.
