------------------------------- MODULE Wallet -------------------------------
(***************************************************************************)
(* The wallet service (apps/wallet): deposits and withdrawals of USDC.     *)
(* A request becomes a PENDING row of the transaction table and a job of   *)
(* wallet-queue.  A withdrawal's job pays out on a chain, debits the       *)
(* balance and marks its idempotency key in Redis; a deposit's job looks   *)
(* for the user's transaction on the chain and looks again after a         *)
(* setTimeout of 30 seconds while it is not confirmed.                     *)
(*                                                                         *)
(* Handlers, jobs and timers run in one process and interleave at every    *)
(* await: an action is what one of them does between two awaits.           *)
(***************************************************************************)
EXTENDS Integers, FiniteSets

CONSTANTS
  Users, NoUser,   \* ids of users
  Offline,         \* the users who may have no socket when they are notified
  Deposits,        \* deposit requests, each sent at most once
  Withdrawals,     \* withdrawal requests, each sent at most once
  Keys, NoKey,     \* idempotency keys that clients choose
  Amounts,         \* dto.amount, in half dollars
  InitialBalance,  \* the balance of every user at the start, in dollars
  MaxFaults        \* bound on the crashes and failed calls of a behaviour

ASSUME WalletAssumption ==
  /\ NoUser \notin Users /\ NoKey \notin Keys /\ Offline \subseteq Users
  /\ Deposits \cap Withdrawals = {}
  /\ Amounts \subseteq Nat \ {0}
  /\ InitialBalance \in Nat /\ MaxFaults \in Nat

VARIABLES
  tx,        \* the transaction table: the row of each request
  balance,   \* User.balance
  keys,      \* the idempotency keys in Redis
  endless,   \* the keys of Redis that have no time to live
  job,       \* the job of each request in wallet-queue
  att,       \* where the attempt at each job is, and its locals
  timer,     \* the deposits with a setTimeout pending
  req,       \* the requests: where each handler is, and its locals
  faults,    \* crashes and failed calls so far
  onChain,   \* what the chain says of the transaction of each deposit
  sent,      \* history: payouts of each withdrawal
  booked,    \* history: debits of each withdrawal, credits of each deposit
  dropped    \* history: deposits whose timer or retry died with the process

rows == <<tx, balance>>
redis == <<keys, endless>>
work == <<job, att, timer>>
history == <<sent, booked, dropped>>
vars == <<tx, balance, keys, endless, job, att, timer, req, faults, onChain,
          sent, booked, dropped>>

Reqs == Deposits \cup Withdrawals

Tx == [status : {"none", "PENDING", "SUCCESS", "FAILED"}, retries : 0 .. 2]
Chain == {"BASE", "SOLANA"}

Job == [state : {"none", "waiting", "active", "completed", "failed"}, stalls : {0, 1}]

WithdrawalSteps == {"send", "debit", "mark", "notify", "ttl", "complete", "expire",
                    "markFailed", "notifyFailed", "mail", "checkPlatform"}
DepositSteps == {"read", "look", "retry", "schedule", "credit", "mark", "giveUp",
                 "notify", "mail"}
Attempt == [step : WithdrawalSteps \cup DepositSteps \cup {"none"},
            retries : 0 .. 2, ttl : {"none", "left", "gone"}]
NoAttempt == [step |-> "none", retries |-> 0, ttl |-> "none"]

HandlerSteps == {"check", "create", "store", "add"}
Request == [pc : HandlerSteps \cup {"idle", "done", "died"},
            user : Users \cup {NoUser}, amount : Amounts \cup {0},
            chain : Chain, key : Keys \cup {NoKey}, seen : Int]
NotSent == [pc |-> "idle", user |-> NoUser, amount |-> 0, chain |-> "BASE",
            key |-> NoKey, seen |-> 0]

\* The columns amount and balance are Int: the fraction is cut off.
Dollars(a) == a \div 2
MinWithdrawal == 10   \* amount < 5

Init ==
  /\ tx = [r \in Reqs |-> [status |-> "none", retries |-> 0]]
  /\ balance = [u \in Users |-> InitialBalance]
  /\ keys = [k \in Keys |-> "absent"] /\ endless = {}
  /\ job = [r \in Reqs |-> [state |-> "none", stalls |-> 0]]
  /\ att = [r \in Reqs |-> NoAttempt]
  /\ timer = {}
  /\ req = [r \in Reqs |-> NotSent]
  /\ faults = 0
  /\ onChain = [d \in Deposits |-> "unconfirmed"]
  /\ sent = [w \in Withdrawals |-> 0]
  /\ booked = [r \in Reqs |-> 0]
  /\ dropped = {}

-----------------------------------------------------------------------------
(* How handlers and attempts move on.                                      *)

At(r, p) == req[r].pc = p
Goto(r, p) == req' = [req EXCEPT ![r].pc = p]

Doing(r, s) == att[r].step = s
Then(r, s) == att' = [att EXCEPT ![r].step = s]

\* An update of the transaction's row and nothing else.
Status(r, s) == tx' = [tx EXCEPT ![r].status = s]

\* increment or decrement of the balance by the amount in the row
Book(r, sign) ==
  /\ balance' = [balance EXCEPT ![req[r].user] = @ + sign * Dollars(req[r].amount)]
  /\ booked' = [booked EXCEPT ![r] = @ + 1]

\* The attempt at r is over and its job, if it is still a job, is in state s.
EndAttempt(r, s) ==
  /\ att' = [att EXCEPT ![r] = NoAttempt]
  /\ job' = IF job[r].state = "active" THEN [job EXCEPT ![r].state = s] ELSE job

-----------------------------------------------------------------------------
(* Mutated forms of the operators below: plausible mistakes, each of which  *)
(* one of the properties catches.                                          *)

\* CheckWithdrawal: the key is stored before there is a transaction.
CheckWithdrawal_StoreFirst(w) ==
  /\ At(w, "check")
  /\ keys[req[w].key] = "absent"
  /\ keys' = [keys EXCEPT ![req[w].key] = "PROCESSING"]
  /\ Goto(w, "create")
  /\ UNCHANGED <<rows, endless, work, faults, onChain, history>>

\* StartJob: the balance is debited before the payout.
StartJob_DebitFirst(r) ==
  /\ job[r].state = "waiting"
  /\ job' = [job EXCEPT ![r].state = "active"]
  /\ Then(r, IF r \in Withdrawals THEN "debit" ELSE "read")
  /\ UNCHANGED <<rows, redis, timer, req, faults, onChain, history>>

\* PayoutUnconfirmed: a timeout of the confirmation counts as a failure.
PayoutUnconfirmed_Failed(w) ==
  /\ faults < MaxFaults
  /\ Doing(w, "send")
  /\ sent' = [sent EXCEPT ![w] = @ + 1]
  /\ faults' = faults + 1
  /\ Then(w, "markFailed")
  /\ UNCHANGED <<rows, redis, job, timer, req, onChain, booked, dropped>>

\* Notify: a withdrawal that was notified is handled as one that failed.
Notify_Failed(r) ==
  /\ att[r].step \in {"notify", "notifyFailed"}
  /\ Then(r, IF r \in Withdrawals /\ Doing(r, "notify") THEN "markFailed" ELSE "mail")
  /\ UNCHANGED <<rows, redis, job, timer, req, faults, onChain, history>>

\* ExpireKey: the time to live is not set again.
ExpireKey_Forgotten(w) ==
  /\ Doing(w, "expire")
  /\ Then(w, "mail")
  /\ UNCHANGED <<rows, redis, job, timer, req, faults, onChain, history>>

\* LookUp: any transaction that is confirmed will do.
LookUp_Unchecked(d) ==
  /\ Doing(d, "look")
  /\ Then(d, IF onChain[d] # "unconfirmed" THEN "credit"
             ELSE IF att[d].retries < 2 THEN "retry" ELSE "giveUp")
  /\ UNCHANGED <<rows, redis, job, timer, req, faults, onChain, history>>

\* ScheduleRetry: nothing is scheduled.
ScheduleRetry_NoTimer(d) ==
  /\ Doing(d, "schedule")
  /\ EndAttempt(d, "completed")
  /\ UNCHANGED <<rows, redis, timer, req, faults, onChain, history>>

\* ScheduleRetry: the attempt does not return, and goes on to the refusal.
ScheduleRetry_GoesOn(d) ==
  /\ Doing(d, "schedule")
  /\ timer' = timer \cup {d}
  /\ Then(d, "giveUp")
  /\ UNCHANGED <<rows, redis, job, req, faults, onChain, history>>

\* Stall: stalled jobs are requeued without limit.
Stall_Always(j) ==
  IF j.state # "active" THEN j
  ELSE [state |-> "waiting", stalls |-> j.stalls + 1]

-----------------------------------------------------------------------------
(* Requests.  The user and its balance are read by the strategy of the     *)
(* gateway that authenticates the request, and travel with it.  Nobody has *)
(* a use for that balance after the check of a withdrawal.                 *)

RequestWithdrawal(w, u, a, c, k) ==
  /\ At(w, "idle")
  /\ req' = [req EXCEPT ![w] = [pc |-> "check", user |-> u, amount |-> a,
                                chain |-> c, key |-> k, seen |-> balance[u]]]
  /\ UNCHANGED <<rows, redis, work, faults, onChain, history>>

\* A deposit is looked up the same way on both chains.
RequestDeposit(d, u, a) ==
  /\ At(d, "idle")
  /\ req' = [req EXCEPT ![d] = [pc |-> "create", user |-> u, amount |-> a,
                                chain |-> "BASE", key |-> NoKey, seen |-> 0]]
  /\ UNCHANGED <<rows, redis, work, faults, onChain, history>>

\* redis.get and the checks after it; a key that is there, an amount above the
\* balance or below the minimum is answered at once.
CheckWithdrawal(w) ==
  /\ At(w, "check")
  /\ LET passes == /\ keys[req[w].key] = "absent"
                   /\ req[w].amount <= 2 * req[w].seen
                   /\ req[w].amount >= MinWithdrawal
     IN  req' = [req EXCEPT ![w].pc = IF passes THEN "create" ELSE "done", ![w].seen = 0]
  /\ UNCHANGED <<rows, redis, work, faults, onChain, history>>

InitiateTransaction(r) ==
  /\ At(r, "create")
  /\ Status(r, "PENDING")
  /\ Goto(r, IF r \in Withdrawals THEN "store" ELSE "add")
  /\ UNCHANGED <<balance, redis, work, faults, onChain, history>>

\* setEx(key, 900, PROCESSING): also over a key that is there
StoreKey(w) ==
  /\ At(w, "store")
  /\ keys' = [keys EXCEPT ![req[w].key] = "PROCESSING"]
  /\ endless' = endless \ {req[w].key}
  /\ Goto(w, "add")
  /\ UNCHANGED <<rows, work, faults, onChain, history>>

AddJob(r) ==
  /\ At(r, "add")
  /\ job' = [job EXCEPT ![r].state = "waiting"]
  /\ Goto(r, "done")
  /\ UNCHANGED <<rows, redis, att, timer, faults, onChain, history>>

\* A job is picked up.
StartJob(r) ==
  /\ job[r].state = "waiting"
  /\ job' = [job EXCEPT ![r].state = "active"]
  /\ Then(r, IF r \in Withdrawals THEN "send" ELSE "read")
  /\ UNCHANGED <<rows, redis, timer, req, faults, onChain, history>>

-----------------------------------------------------------------------------
(* processWithdrawalOnBase and processWithdrawalOnSolana *)

SendPayout(w) ==
  /\ Doing(w, "send")
  /\ sent' = [sent EXCEPT ![w] = @ + 1]
  /\ Then(w, "debit")
  /\ UNCHANGED <<rows, redis, job, timer, req, faults, onChain, booked, dropped>>

\* The chain turns the payout down: a SolanaTransactionError is handled, what
\* the Base client throws is not.
PayoutRejected(w) ==
  /\ Doing(w, "send")
  /\ IF req[w].chain = "SOLANA"
     THEN Then(w, "markFailed") /\ UNCHANGED job
     ELSE EndAttempt(w, "failed")
  /\ UNCHANGED <<rows, redis, timer, req, faults, onChain, history>>

\* The payout is sent, and waiting for its confirmation throws.
PayoutUnconfirmed(w) ==
  /\ faults < MaxFaults
  /\ Doing(w, "send")
  /\ sent' = [sent EXCEPT ![w] = @ + 1]
  /\ faults' = faults + 1
  /\ EndAttempt(w, "failed")
  /\ UNCHANGED <<rows, redis, timer, req, onChain, booked, dropped>>

DebitUser(w) ==
  /\ Doing(w, "debit")
  /\ Book(w, -1)
  /\ Then(w, "mark")
  /\ UNCHANGED <<tx, redis, job, timer, req, faults, onChain, sent, dropped>>

MarkSuccess(r) ==
  /\ Doing(r, "mark")
  /\ Status(r, "SUCCESS")
  /\ Then(r, "notify")
  /\ UNCHANGED <<balance, redis, job, timer, req, faults, onChain, history>>

MarkFailed(w) ==
  /\ Doing(w, "markFailed")
  /\ Status(w, "FAILED")
  /\ Then(w, "notifyFailed")
  /\ UNCHANGED <<balance, redis, job, timer, req, faults, onChain, history>>

\* sendTransactionStatus finds a socket of the user.
Notify(r) ==
  /\ att[r].step \in {"notify", "notifyFailed"}
  /\ Then(r, IF r \in Withdrawals /\ Doing(r, "notify") THEN "ttl" ELSE "mail")
  /\ UNCHANGED <<rows, redis, job, timer, req, faults, onChain, history>>

\* redis.ttl: -2 for a key that is gone, -1 for one that is endless
ReadTtl(w) ==
  /\ Doing(w, "ttl")
  /\ LET k == req[w].key
         left == keys[k] # "absent" /\ k \notin endless
     IN  att' = [att EXCEPT ![w].step = "complete",
                            ![w].ttl = IF left THEN "left" ELSE "gone"]
  /\ UNCHANGED <<rows, redis, job, timer, req, faults, onChain, history>>

\* redis.set drops the time to live.
CompleteKey(w) ==
  /\ Doing(w, "complete")
  /\ keys' = [keys EXCEPT ![req[w].key] = "COMPLETE"]
  /\ endless' = endless \cup {req[w].key}
  /\ Then(w, "expire")
  /\ UNCHANGED <<rows, job, timer, req, faults, onChain, history>>

\* redis.expire: a time to live below zero deletes the key.
ExpireKey(w) ==
  /\ Doing(w, "expire")
  /\ keys' = IF att[w].ttl = "left" THEN keys
             ELSE [keys EXCEPT ![req[w].key] = "absent"]
  /\ endless' = endless \ {req[w].key}
  /\ Then(w, "mail")
  /\ UNCHANGED <<rows, job, timer, req, faults, onChain, history>>

-----------------------------------------------------------------------------
(* processDepositOnBase and processDepositOnSolana, in the job and in the  *)
(* timers it leaves behind.                                                *)

ReadTx(d) ==
  /\ Doing(d, "read")
  /\ att' = [att EXCEPT ![d].step = "look", ![d].retries = tx[d].retries]
  /\ UNCHANGED <<rows, redis, job, timer, req, faults, onChain, history>>

LookUp(d) ==
  /\ Doing(d, "look")
  /\ Then(d, CASE onChain[d] = "valid" -> "credit"
               [] onChain[d] = "invalid" -> "giveUp"
               [] OTHER -> IF att[d].retries < 2 THEN "retry" ELSE "giveUp")
  /\ UNCHANGED <<rows, redis, job, timer, req, faults, onChain, history>>

\* The row counts the retry.
Retry(d) ==
  /\ Doing(d, "retry")
  /\ tx' = [tx EXCEPT ![d].retries = @ + 1]
  /\ Then(d, "schedule")
  /\ UNCHANGED <<balance, redis, job, timer, req, faults, onChain, history>>

\* setTimeout schedules it, and the attempt ends.
ScheduleRetry(d) ==
  /\ Doing(d, "schedule")
  /\ timer' = timer \cup {d}
  /\ EndAttempt(d, "completed")
  /\ UNCHANGED <<rows, redis, req, faults, onChain, history>>

FireTimer(d) ==
  /\ d \in timer
  /\ timer' = timer \ {d}
  /\ Then(d, "read")
  /\ UNCHANGED <<rows, redis, job, req, faults, onChain, history>>

CreditUser(d) ==
  /\ Doing(d, "credit")
  /\ Book(d, 1)
  /\ Then(d, "mark")
  /\ UNCHANGED <<tx, redis, job, timer, req, faults, onChain, sent, dropped>>

GiveUp(d) ==
  /\ Doing(d, "giveUp")
  /\ Status(d, "FAILED")
  /\ Then(d, "notify")
  /\ UNCHANGED <<balance, redis, job, timer, req, faults, onChain, history>>

\* The email ends the attempt at a deposit; the job of a withdrawal goes on.
Mail(r) ==
  /\ Doing(r, "mail")
  /\ IF r \in Withdrawals THEN Then(r, "checkPlatform") /\ UNCHANGED job
     ELSE EndAttempt(r, "completed")
  /\ UNCHANGED <<rows, redis, timer, req, faults, onChain, history>>

\* checkStablecoinBalance and checkNativeAssetBalance look at the platform's
\* wallet and may mail the super admin.
CheckPlatform(w) ==
  /\ Doing(w, "checkPlatform")
  /\ EndAttempt(w, "completed")
  /\ UNCHANGED <<rows, redis, timer, req, faults, onChain, history>>

-----------------------------------------------------------------------------
(* Failures *)

\* Bull returns a stalled job to the queue once and fails it the second time.
Stall(j) ==
  IF j.state # "active" THEN j
  ELSE IF j.stalls = 0 THEN [state |-> "waiting", stalls |-> 1]
       ELSE [j EXCEPT !.state = "failed"]

\* The process dies and is restarted: handlers, attempts and timers are gone,
\* the jobs it was working on stall.
Restart ==
  /\ req' = [r \in Reqs |-> IF req[r].pc \in HandlerSteps
                            THEN [req[r] EXCEPT !.pc = "died"] ELSE req[r]]
  /\ job' = [r \in Reqs |-> Stall(job[r])]
  /\ att' = [r \in Reqs |-> NoAttempt]
  /\ timer' = {}
  /\ dropped' = dropped \cup timer \cup
       {d \in Deposits : att[d].step # "none" /\ job[d].state # "active"}

\* What an attempt throws fails its job.  Nobody catches what an attempt of a
\* timer throws: an unhandled rejection ends the process.
Throws(r) ==
  IF job[r].state = "active"
  THEN EndAttempt(r, "failed") /\ UNCHANGED <<timer, req, dropped>>
  ELSE Restart

\* sendTransactionStatus finds no socket and throws.
NotifyOffline(r) ==
  /\ att[r].step \in {"notify", "notifyFailed"}
  /\ req[r].user \in Offline
  /\ Throws(r)
  /\ UNCHANGED <<rows, redis, faults, onChain, sent, booked>>

\* A call of an attempt to the database, Redis, the chain or the mailer rejects.
AttemptFails(r) ==
  /\ faults < MaxFaults
  /\ att[r].step # "none"
  /\ faults' = faults + 1
  /\ Throws(r)
  /\ UNCHANGED <<rows, redis, onChain, sent, booked>>

CallFails(r) ==
  /\ faults < MaxFaults
  /\ req[r].pc \in HandlerSteps
  /\ faults' = faults + 1
  /\ Goto(r, "died")
  /\ UNCHANGED <<rows, redis, work, onChain, history>>

Crash ==
  /\ faults < MaxFaults
  /\ faults' = faults + 1
  /\ Restart
  /\ UNCHANGED <<rows, redis, onChain, sent, booked>>

\* The 15 minutes of a key are over.
KeyExpires(k) ==
  /\ keys[k] # "absent" /\ k \notin endless
  /\ keys' = [keys EXCEPT ![k] = "absent"]
  /\ UNCHANGED <<rows, endless, work, req, faults, onChain, history>>

\* The chain confirms the transaction of a deposit, of that amount between
\* those addresses or not.
Confirm(d) ==
  /\ ~At(d, "idle")
  /\ onChain[d] = "unconfirmed"
  /\ \E c \in {"valid", "invalid"} : onChain' = [onChain EXCEPT ![d] = c]
  /\ UNCHANGED <<rows, redis, work, req, faults, history>>

-----------------------------------------------------------------------------

Arrives(r) ==
  \E u \in Users, a \in Amounts :
    \/ r \in Deposits /\ RequestDeposit(r, u, a)
    \/ /\ r \in Withdrawals
       /\ \E c \in Chain, k \in Keys : RequestWithdrawal(r, u, a, c, k)

Handles(r) ==
  \/ InitiateTransaction(r) \/ AddJob(r)
  \/ r \in Withdrawals /\ (CheckWithdrawal(r) \/ StoreKey(r))

Pays(w) ==
  \/ SendPayout(w) \/ PayoutRejected(w) \/ DebitUser(w)
  \/ MarkFailed(w) \/ ReadTtl(w) \/ CompleteKey(w) \/ ExpireKey(w)
  \/ CheckPlatform(w)

Confirms(d) ==
  \/ ReadTx(d) \/ LookUp(d) \/ Retry(d) \/ ScheduleRetry(d)
  \/ CreditUser(d) \/ GiveUp(d)

\* An attempt goes on.
Attempts(r) ==
  \/ r \in Withdrawals /\ Pays(r)
  \/ r \in Deposits /\ Confirms(r)
  \/ MarkSuccess(r) \/ Notify(r) \/ NotifyOffline(r) \/ Mail(r)

Next ==
  \/ \E r \in Reqs : \/ Arrives(r) \/ Handles(r) \/ StartJob(r) \/ Attempts(r)
                     \/ AttemptFails(r) \/ CallFails(r)
  \/ \E w \in Withdrawals : PayoutUnconfirmed(w)
  \/ \E d \in Deposits : FireTimer(d) \/ Confirm(d)
  \/ \E k \in Keys : KeyExpires(k)
  \/ Crash

Spec == Init /\ [][Next]_vars

\* Every call that is awaited returns, waiting jobs are picked up, timers fire
\* and keys expire; nobody has to send a request, or to confirm on a chain.
Fairness ==
  /\ \A r \in Reqs : WF_vars(Handles(r)) /\ WF_vars(StartJob(r)) /\ WF_vars(Attempts(r))
  /\ \A d \in Deposits : WF_vars(FireTimer(d))
  /\ \A k \in Keys : WF_vars(KeyExpires(k))

FairSpec == Spec /\ Fairness

-----------------------------------------------------------------------------
(* What holds of every behaviour, whatever interleaves and whatever fails.  *)

TypeOK ==
  /\ tx \in [Reqs -> Tx]
  /\ balance \in [Users -> Int]
  /\ keys \in [Keys -> {"absent", "PROCESSING", "COMPLETE"}]
  /\ endless \subseteq Keys
  /\ job \in [Reqs -> Job]
  /\ att \in [Reqs -> Attempt]
  /\ timer \subseteq Deposits
  /\ req \in [Reqs -> Request]
  /\ faults \in 0 .. MaxFaults
  /\ onChain \in [Deposits -> {"unconfirmed", "valid", "invalid"}]
  /\ sent \in [Withdrawals -> Nat]
  /\ booked \in [Reqs -> Nat]
  /\ dropped \subseteq Deposits

\* The worker died on the job of r, which was done or will be done once more.
Stalled(r) == job[r].stalls = 1

\* A withdrawal is never debited before it is paid out, is paid out at most
\* once per run of its job, and a payout without its debit is one whose debit
\* is next, or that a crash or an error between the two explains.
PayoutsDebited ==
  \A w \in Withdrawals :
    /\ booked[w] <= sent[w]
    /\ sent[w] <= 1 + job[w].stalls
    /\ booked[w] < sent[w] =>
         Doing(w, "debit") \/ Stalled(w) \/ job[w].state = "failed"

\* A deposit is only credited when the chain has confirmed it, and at most once
\* per run of its job, in however many timers it was looked up.
CreditsConfirmed ==
  \A d \in Deposits :
    /\ booked[d] > 0 => onChain[d] = "valid"
    /\ booked[d] <= 1 + job[d].stalls

\* The row agrees with the balance and the chain: a transaction is SUCCESS only
\* after its debit or credit; unless its job was done twice a FAILED one has moved
\* nothing, on either side; and a deposit fails only because what the chain
\* confirmed is not what was declared, or after both of its retries, also when a
\* crash made it start over.
StatusTrue ==
  \A r \in Reqs :
    /\ tx[r].status = "SUCCESS" => booked[r] > 0
    /\ tx[r].status = "FAILED" /\ ~Stalled(r) =>
         booked[r] = 0 /\ (r \in Withdrawals => sent[r] = 0)
    /\ tx[r].status = "FAILED" /\ r \in Deposits =>
         onChain[r] = "invalid" \/ tx[r].retries = 2

\* SUCCESS and FAILED are final, unless the job was done twice.
StatusFinal ==
  [][\A r \in Reqs : tx[r].status \in {"SUCCESS", "FAILED"} =>
       tx'[r].status = tx[r].status \/ Stalled(r)]_vars

\* An idempotency key tells the truth: PROCESSING is there for a transaction
\* that exists, COMPLETE for one that was paid out and debited, and a key without
\* a time to live gets it back in the next step of a job, or that job was cut
\* short between the two calls.
KeysTrue ==
  \A k \in Keys :
    /\ keys[k] = "PROCESSING" =>
         \E w \in Withdrawals : req[w].key = k /\ tx[w].status # "none"
    /\ keys[k] = "COMPLETE" =>
         \E w \in Withdrawals : req[w].key = k /\ sent[w] > 0 /\ booked[w] > 0
    /\ k \in endless =>
         \E w \in Withdrawals :
           /\ req[w].key = k
           /\ Doing(w, "expire") \/ Stalled(w) \/ job[w].state = "failed"

\* A transaction that is still PENDING is on its way in some handler, job or
\* timer, or a handler died, a job failed or a timer was lost.
Pursued ==
  \A r \in Reqs : tx[r].status = "PENDING" =>
    \/ req[r].pc \in HandlerSteps \cup {"died"}
    \/ job[r].state \in {"waiting", "active", "failed"}
    \/ r \in timer \cup dropped \/ att[r].step # "none"

-----------------------------------------------------------------------------
(* The contract that the service keeps: the deal of a transaction is read  *)
(* off its row, its job and what has been booked.  A payout shows when its *)
(* debit does, or when the two are parted.                                 *)

Over(r) == At(r, "died") \/ job[r].state = "failed" \/ r \in dropped

WorkOf(r) == IF Over(r) THEN "over" ELSE IF Stalled(r) THEN "broken" ELSE "whole"

StageOf(r) == IF booked[r] > 0 THEN "done"
              ELSE IF tx[r].status = "FAILED" THEN "failed" ELSE "pending"

DealOf(r) ==
  IF tx[r].status = "none"
  THEN [stage |-> "none", user |-> NoUser, amount |-> 0, work |-> WorkOf(r)]
  ELSE [stage |-> StageOf(r), user |-> req[r].user, amount |-> Dollars(req[r].amount),
        work |-> WorkOf(r)]

PaidOf(w) == IF Doing(w, "debit") THEN sent[w] - 1 ELSE sent[w]

Contract == INSTANCE WalletContract
            WITH Values <- {Dollars(a) : a \in Amounts},
                 deal <- [r \in Reqs |-> DealOf(r)], funds <- balance,
                 paid <- [w \in Withdrawals |-> PaidOf(w)],
                 moved <- booked, chain <- onChain

\* Whatever interleaves and fails, every step of a handler, job or timer is one
\* step of the contract or leaves it unchanged: a payout and its debit are one
\* step, unless they are parted by the failure that ends their run.
KeepsWalletContract == Contract!ContractSpec

\* A deposit that was accepted is decided in the end, also when the chain never
\* confirms it and when its job stalled, unless its work is over before: the
\* request ended before it added the job, the job failed, or the process took a
\* retry along.
DepositsDecided ==
  \A d \in Deposits :
    (tx[d].status = "PENDING") ~> (tx[d].status # "PENDING" \/ Over(d))

\* An idempotency key is free again in the end, also when withdrawals share it,
\* fail, or cannot be notified of a payout.  Only a key that has lost its time to
\* live may be taken for ever, and then a job that was to give it back was cut short.
KeysFreed ==
  \A k \in Keys :
    \/ []<>(keys[k] = "absent")
    \/ <>[](/\ k \in endless
            /\ \E w \in Withdrawals :
                 req[w].key = k /\ (Stalled(w) \/ job[w].state = "failed"))
=============================================================================
