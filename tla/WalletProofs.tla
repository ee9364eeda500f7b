---------------------------- MODULE WalletProofs ----------------------------
(***************************************************************************)
(* Proofs about the wallet service, for any number of requests, users and  *)
(* keys, any interleaving of handlers, jobs and timers, and any faults.    *)
(*                                                                         *)
(* The invariant speaks of one request at a time, and a step changes one   *)
(* request, or restarts the process.  It ties the step of the attempt at a *)
(* request to what it has paid out, booked and written to its row.  Keys   *)
(* are shared: what they say of a withdrawal stays true of it.             *)
(*                                                                         *)
(* With that invariant the last part shows that every step is a step of    *)
(* WalletContract.tla, or is hidden from it.                               *)
(***************************************************************************)
EXTENDS Wallet, TLAPS

PCs == HandlerSteps \cup {"idle", "done", "died"}
Steps == WithdrawalSteps \cup DepositSteps
JobStates == {"none", "waiting", "active", "completed", "failed"}

Decided(r) == tx[r].status \in {"SUCCESS", "FAILED"}

\* A request has a row when its handler has created one, and a job when its
\* handler is done; before that nothing has happened.
Handled(r) ==
  /\ r \in Withdrawals /\ req[r].pc # "idle" => req[r].key \in Keys
  /\ req[r].pc \in {"idle", "check", "create"} => tx[r].status = "none"
  /\ req[r].pc \in {"store", "add"} => tx[r].status = "PENDING"
  /\ req[r].pc \in HandlerSteps \cup {"idle"} => job[r].state = "none"
  /\ tx[r].status = "none" => job[r].state = "none"
  /\ job[r].state = "none" =>
       /\ tx[r].status \in {"none", "PENDING"}
       /\ job[r].stalls = 0
       /\ att[r].step = "none"
       /\ booked[r] = 0
       /\ r \in Withdrawals => sent[r] = 0

\* There is one attempt at a request at most: the one of its job, or, when the
\* job of a deposit is completed, the one of a timer, or a timer.
OneAttempt(r) ==
  /\ job[r].state = "active" => att[r].step # "none"
  /\ att[r].step # "none" =>
       /\ r \notin timer
       /\ \/ job[r].state = "active"
          \/ r \in Deposits /\ job[r].state = "completed"
  /\ r \in timer => r \in Deposits /\ job[r].state = "completed"
  /\ r \in Withdrawals => att[r].step \in WithdrawalSteps \cup {"none"}
  /\ r \in Deposits => att[r].step \in DepositSteps \cup {"none"}

\* What the attempt at a withdrawal has paid out and debited.
PaidOut(w) ==
  /\ booked[w] <= sent[w]
  /\ sent[w] <= 1 + job[w].stalls
  /\ job[w].state = "waiting" \/ Doing(w, "send") => sent[w] <= job[w].stalls
  /\ Doing(w, "debit") => booked[w] < sent[w]
  /\ booked[w] < sent[w] =>
       Doing(w, "debit") \/ Stalled(w) \/ job[w].state = "failed"
  /\ att[w].step \in {"mark", "notify", "ttl", "complete", "expire"} => booked[w] > 0
  /\ att[w].step \in {"markFailed", "notifyFailed"} /\ ~Stalled(w) => sent[w] = 0

\* What the attempt at a deposit has seen and credited.
Credited(d) ==
  /\ booked[d] <= 1 + job[d].stalls
  /\ \/ job[d].state = "waiting"
     \/ d \in timer
     \/ att[d].step \in {"read", "look", "retry", "schedule", "credit", "giveUp"}
     => booked[d] <= job[d].stalls
  /\ booked[d] > 0 \/ Doing(d, "credit") => onChain[d] = "valid"
  /\ Doing(d, "mark") => booked[d] > 0
  /\ att[d].step \in {"look", "retry", "credit", "giveUp"} => att[d].retries = tx[d].retries
  /\ Doing(d, "retry") => att[d].retries < 2
  /\ Doing(d, "giveUp") => onChain[d] = "invalid" \/ att[d].retries = 2
  /\ tx[d].status = "FAILED" => onChain[d] = "invalid" \/ tx[d].retries = 2

\* A row that is decided tells the truth, and unless the job was done twice
\* nothing is left that could change it.
RowTrue(r) ==
  /\ tx[r].status = "SUCCESS" => booked[r] > 0
  /\ tx[r].status = "FAILED" /\ ~Stalled(r) =>
       booked[r] = 0 /\ (r \in Withdrawals => sent[r] = 0)
  /\ Decided(r) /\ ~Stalled(r) =>
       /\ job[r].state # "waiting" /\ r \notin timer
       /\ att[r].step \notin {"send", "debit", "mark", "markFailed",
                              "read", "look", "retry", "schedule", "credit", "giveUp"}

\* A row that is PENDING is on its way, and the attempt has decided the row by the
\* time it notifies.
Onward(r) ==
  /\ tx[r].status = "PENDING" =>
       \/ req[r].pc \in HandlerSteps \cup {"died"}
       \/ job[r].state \in {"waiting", "active", "failed"}
       \/ r \in timer \cup dropped \/ att[r].step # "none"
  /\ att[r].step \in {"notify", "notifyFailed", "ttl", "complete", "expire", "mail",
                      "checkPlatform"} => tx[r].status # "PENDING"

InOrder(r) ==
  /\ Handled(r)
  /\ OneAttempt(r)
  /\ r \in Withdrawals => PaidOut(r)
  /\ r \in Deposits => Credited(r)
  /\ RowTrue(r)
  /\ Onward(r)

IInv == TypeOK /\ KeysTrue /\ \A r \in Reqs : InOrder(r)

-----------------------------------------------------------------------------
(* A step that changes one request leaves the others in order.             *)

Same(s) ==
  /\ tx'[s] = tx[s] /\ job'[s] = job[s] /\ att'[s] = att[s] /\ req'[s] = req[s]
  /\ booked'[s] = booked[s]
  /\ s \in timer' <=> s \in timer
  /\ s \in dropped => s \in dropped'
  /\ s \in Withdrawals => sent'[s] = sent[s]
  /\ s \in Deposits => onChain'[s] = onChain[s]

\* The key of w may be without a time to live.
Unexpired(w) == Doing(w, "expire") \/ Stalled(w) \/ job[w].state = "failed"

\* What a key may say of a withdrawal stays true of it.
Keeps(w) ==
  /\ tx[w].status # "none" => tx'[w].status # "none" /\ req'[w].key = req[w].key
  /\ sent[w] > 0 => sent'[w] > 0
  /\ booked[w] > 0 => booked'[w] > 0
  /\ Unexpired(w) => Unexpired(w)'

LEMMA KeysKept ==
  ASSUME IInv, UNCHANGED <<keys, endless>>, \A w \in Withdrawals : Keeps(w)
  PROVE  KeysTrue'
<1> SUFFICES ASSUME NEW k \in Keys
             PROVE  /\ keys[k] = "PROCESSING" =>
                         \E w \in Withdrawals : req'[w].key = k /\ tx'[w].status # "none"
                    /\ keys[k] = "COMPLETE" =>
                         \E w \in Withdrawals :
                           req'[w].key = k /\ sent'[w] > 0 /\ booked'[w] > 0
                    /\ k \in endless =>
                         \E w \in Withdrawals : req'[w].key = k /\ Unexpired(w)'
  BY DEF KeysTrue, Unexpired
<1>1. \A w \in Withdrawals : booked[w] > 0 \/ Unexpired(w) => tx[w].status # "none"
  <2> SUFFICES ASSUME NEW w \in Withdrawals, tx[w].status = "none"
               PROVE  ~(booked[w] > 0) /\ ~Unexpired(w)
    OBVIOUS
  <2>1. Handled(w)
    BY DEF IInv, InOrder, Reqs
  <2>2. job[w].state = "none" /\ job[w].stalls = 0 /\ att[w].step = "none" /\ booked[w] = 0
    BY <2>1 DEF Handled
  <2> QED BY <2>2 DEF Unexpired, Doing, Stalled
<1>2. ASSUME keys[k] = "PROCESSING"
      PROVE  \E w \in Withdrawals : req'[w].key = k /\ tx'[w].status # "none"
  BY <1>2 DEF IInv, KeysTrue, Keeps
<1>3. ASSUME keys[k] = "COMPLETE"
      PROVE  \E w \in Withdrawals : req'[w].key = k /\ sent'[w] > 0 /\ booked'[w] > 0
  BY <1>1, <1>3 DEF IInv, KeysTrue, Keeps
<1>4. ASSUME k \in endless
      PROVE  \E w \in Withdrawals : req'[w].key = k /\ Unexpired(w)'
  <2>1. PICK w \in Withdrawals : req[w].key = k /\ Unexpired(w)
    BY <1>4 DEF IInv, KeysTrue, Unexpired
  <2> QED BY <1>1, <2>1 DEF Keeps
<1> QED BY <1>2, <1>3, <1>4

LEMMA Untouched ==
  ASSUME IInv, TypeOK', NEW r \in Reqs, \A s \in Reqs \ {r} : Same(s), InOrder(r)',
         KeysTrue' \/ (UNCHANGED <<keys, endless>> /\ (r \in Withdrawals => Keeps(r)))
  PROVE  IInv'
<1>1. ASSUME NEW s \in Reqs \ {r} PROVE InOrder(s)'
  <2>1. InOrder(s) /\ Same(s)
    BY <1>1 DEF IInv
  <2>2. Handled(s)' /\ OneAttempt(s)'
    BY <2>1 DEF InOrder, Same, Handled, OneAttempt
  <2>3. s \in Withdrawals => PaidOut(s)'
    BY <2>1 DEF InOrder, Same, PaidOut, Doing, Stalled
  <2>4. s \in Deposits => Credited(s)'
    BY <2>1 DEF InOrder, Same, Credited, Doing
  <2>5. RowTrue(s)'
    BY <2>1 DEF InOrder, Same, RowTrue, Decided, Stalled
  <2>6. Onward(s)'
    BY <2>1 DEF InOrder, Same, Onward
  <2> QED BY <2>2, <2>3, <2>4, <2>5, <2>6 DEF InOrder
<1>2. \A s \in Withdrawals \ {r} : Keeps(s)
  BY DEF Same, Keeps, Unexpired, Doing, Stalled, Reqs
<1>3. KeysTrue'
  BY <1>2, KeysKept
<1> QED BY <1>1, <1>3 DEF IInv

LEMMA ThenEffect ==
  ASSUME TypeOK, NEW r \in Reqs, NEW p \in Steps \cup {"none"}, Then(r, p)
  PROVE  /\ att' \in [Reqs -> Attempt]
         /\ att'[r].step = p
         /\ att'[r].retries = att[r].retries
         /\ \A s \in Reqs \ {r} : att'[s] = att[s]
BY DEF TypeOK, Then, Attempt, Steps

LEMMA EndEffect ==
  ASSUME TypeOK, NEW r \in Reqs, NEW p \in JobStates, EndAttempt(r, p)
  PROVE  /\ att' \in [Reqs -> Attempt] /\ job' \in [Reqs -> Job]
         /\ att'[r].step = "none"
         /\ job'[r].stalls = job[r].stalls
         /\ job[r].state = "active" => job'[r].state = p
         /\ job[r].state # "active" => job' = job
         /\ \A s \in Reqs \ {r} : att'[s] = att[s] /\ job'[s] = job[s]
<1>1. /\ att' \in [Reqs -> Attempt]
      /\ att'[r].step = "none"
      /\ \A s \in Reqs \ {r} : att'[s] = att[s]
  BY DEF TypeOK, EndAttempt, Attempt, NoAttempt
<1>2. CASE job[r].state = "active"
  BY <1>1, <1>2 DEF TypeOK, EndAttempt, Job, JobStates
<1>3. CASE job[r].state # "active"
  BY <1>1, <1>3 DEF TypeOK, EndAttempt
<1> QED BY <1>2, <1>3

LEMMA GotoEffect ==
  ASSUME TypeOK, NEW r \in Reqs, NEW p \in PCs, Goto(r, p)
  PROVE  /\ req' \in [Reqs -> Request]
         /\ req'[r].pc = p /\ req'[r].key = req[r].key
         /\ \A s \in Reqs \ {r} : req'[s] = req[s]
BY DEF TypeOK, Goto, Request, PCs

LEMMA StatusEffect ==
  ASSUME TypeOK, NEW r \in Reqs, NEW p \in {"PENDING", "SUCCESS", "FAILED"}, Status(r, p)
  PROVE  /\ tx' \in [Reqs -> Tx]
         /\ tx'[r].status = p
         /\ tx'[r].retries = tx[r].retries
         /\ \A s \in Reqs \ {r} : tx'[s] = tx[s]
BY DEF TypeOK, Status, Tx

LEMMA BookEffect ==
  ASSUME TypeOK, NEW r \in Reqs, NEW sign \in {-1, 1}, Book(r, sign)
  PROVE  /\ balance' \in [Users -> Int]
         /\ booked' \in [Reqs -> Nat]
         /\ booked'[r] = booked[r] + 1
         /\ \A s \in Reqs \ {r} : booked'[s] = booked[s]
<1>1. /\ booked' \in [Reqs -> Nat]
      /\ booked'[r] = booked[r] + 1
      /\ \A s \in Reqs \ {r} : booked'[s] = booked[s]
  BY DEF TypeOK, Book
<1>2. req[r].amount \in Nat
  <2>1. req[r] \in Request
    BY DEF TypeOK
  <2>2. req[r].amount \in Amounts \cup {0}
    BY <2>1 DEF Request
  <2>3. \A a \in Amounts \cup {0} : a \in Nat
    BY WalletAssumption
  <2> QED BY <2>2, <2>3
<1>3. Dollars(req[r].amount) \in Int
  BY <1>2 DEF Dollars
<1>4. PICK x \in Int : x = sign * Dollars(req[r].amount)
  BY <1>3
<1>5. balance' = [balance EXCEPT ![req[r].user] = @ + x]
  BY <1>4 DEF Book
<1>6. balance \in [Users -> Int]
  BY DEF TypeOK
<1>7. balance' \in [Users -> Int]
  <2>1. CASE req[r].user \in Users
    BY <1>4, <1>5, <1>6, <2>1
  <2>2. CASE req[r].user \notin Users
    BY <1>5, <1>6, <2>2
  <2> QED BY <2>1, <2>2
<1> QED BY <1>1, <1>7

-----------------------------------------------------------------------------
(* The requests *)

NewRequest(r) ==
  /\ req' \in [Reqs -> Request]
  /\ req[r].pc = "idle" /\ req'[r].pc \in {"check", "create"}
  /\ r \in Withdrawals => req'[r].key \in Keys
  /\ \A s \in Reqs \ {r} : req'[s] = req[s]

LEMMA ArrivesPreserves ==
  ASSUME IInv, NEW r \in Reqs, Arrives(r)
  PROVE  IInv'
<1>1. TypeOK /\ InOrder(r)
  BY DEF IInv
<1>2. UNCHANGED <<tx, balance, keys, endless, job, att, timer, faults, onChain,
                  sent, booked, dropped>>
  BY DEF Arrives, RequestDeposit, RequestWithdrawal, rows, redis, work, history
<1>3. NewRequest(r)
  <2>1. ASSUME NEW u \in Users, NEW a \in Amounts, RequestDeposit(r, u, a)
        PROVE  r \in Deposits => NewRequest(r)
    BY <1>1, <2>1, WalletAssumption
       DEF TypeOK, NewRequest, RequestDeposit, At, Request, HandlerSteps, Chain
  <2>2. ASSUME NEW u \in Users, NEW a \in Amounts, NEW c \in Chain, NEW k \in Keys,
               RequestWithdrawal(r, u, a, c, k)
        PROVE  NewRequest(r)
    BY <1>1, <2>2 DEF TypeOK, NewRequest, RequestWithdrawal, At, Request, HandlerSteps
  <2> QED BY <2>1, <2>2 DEF Arrives
<1>4. TypeOK'
  BY <1>1, <1>2, <1>3 DEF TypeOK, NewRequest
<1>5. \A s \in Reqs \ {r} : Same(s)
  BY <1>2, <1>3 DEF Same, NewRequest
<1>6. InOrder(r)'
  BY <1>1, <1>2, <1>3
     DEF InOrder, Onward, Handled, OneAttempt, PaidOut, Credited, RowTrue, Decided, Doing,
         Stalled, HandlerSteps, NewRequest
<1>7. r \in Withdrawals => Keeps(r)
  BY <1>1, <1>2, <1>3
     DEF Keeps, Unexpired, Doing, Stalled, InOrder, Handled, NewRequest
<1> QED BY <1>2, <1>4, <1>5, <1>6, <1>7, Untouched

LEMMA CheckPreserves ==
  ASSUME IInv, NEW w \in Withdrawals, CheckWithdrawal(w)
  PROVE  IInv'
<1>1. w \in Reqs /\ TypeOK /\ InOrder(w)
  BY DEF IInv, Reqs
<1>2. PICK p \in {"create", "done"} : req' = [req EXCEPT ![w].pc = p, ![w].seen = 0]
  BY DEF CheckWithdrawal
<1>3. /\ req' \in [Reqs -> Request] /\ req'[w].pc = p /\ req'[w].key = req[w].key
      /\ \A s \in Reqs \ {w} : req'[s] = req[s]
  <2>1. req[w] \in Request
    BY <1>1 DEF TypeOK
  <2>2. [req[w] EXCEPT !.pc = p] \in Request
    BY <2>1 DEF Request, HandlerSteps
  <2>3. PICK q \in Request : q = [req[w] EXCEPT !.pc = p]
    BY <2>2
  <2>4. /\ [q EXCEPT !.seen = 0] \in Request
      /\ [q EXCEPT !.seen = 0].pc = q.pc /\ [q EXCEPT !.seen = 0].key = q.key
    BY DEF Request
  <2>5. /\ q.pc = p /\ q.key = req[w].key
      /\ [q EXCEPT !.seen = 0] = [req[w] EXCEPT !.pc = p, !.seen = 0]
    BY <2>1, <2>3 DEF Request
  <2> QED BY <1>1, <1>2, <2>4, <2>5 DEF TypeOK
<1>4. UNCHANGED <<tx, balance, keys, endless, job, att, timer, faults, onChain,
                  sent, booked, dropped>>
  BY DEF CheckWithdrawal, rows, redis, work, history
<1>5. TypeOK'
  BY <1>1, <1>3, <1>4 DEF TypeOK
<1>6. \A s \in Reqs \ {w} : Same(s)
  BY <1>3, <1>4 DEF Same
<1>7. InOrder(w)'
  BY <1>1, <1>3, <1>4
     DEF InOrder, Onward, Handled, OneAttempt, PaidOut, Credited, RowTrue, Decided, Doing,
         Stalled, HandlerSteps, CheckWithdrawal, At
<1>8. Keeps(w)
  BY <1>3, <1>4
     DEF Keeps, Unexpired, Doing, Stalled
<1> QED BY <1>1, <1>4, <1>5, <1>6, <1>7, <1>8, Untouched

LEMMA InitiatePreserves ==
  ASSUME IInv, NEW r \in Reqs, InitiateTransaction(r)
  PROVE  IInv'
<1>1. TypeOK /\ InOrder(r)
  BY DEF IInv
<1>2. PICK p \in {"store", "add"} : Goto(r, p)
  BY DEF InitiateTransaction
<1>3. /\ req' \in [Reqs -> Request] /\ req'[r].pc = p /\ req'[r].key = req[r].key
      /\ \A s \in Reqs \ {r} : req'[s] = req[s]
  BY <1>1, <1>2, GotoEffect DEF PCs, HandlerSteps
<1>4. /\ tx' \in [Reqs -> Tx] /\ tx'[r].status = "PENDING"
      /\ tx'[r].retries = tx[r].retries
      /\ \A s \in Reqs \ {r} : tx'[s] = tx[s]
  BY <1>1, StatusEffect DEF InitiateTransaction
<1>5. UNCHANGED <<balance, keys, endless, job, att, timer, faults, onChain,
                  sent, booked, dropped>>
  BY DEF InitiateTransaction, redis, work, history
<1>6. TypeOK'
  BY <1>1, <1>3, <1>4, <1>5 DEF TypeOK
<1>7. \A s \in Reqs \ {r} : Same(s)
  BY <1>3, <1>4, <1>5 DEF Same
<1>8. InOrder(r)'
  BY <1>1, <1>3, <1>4, <1>5
     DEF InOrder, Onward, Handled, OneAttempt, PaidOut, Credited, RowTrue, Decided, Doing,
         Stalled, HandlerSteps, InitiateTransaction, At
<1>9. r \in Withdrawals => Keeps(r)
  BY <1>3, <1>4, <1>5
     DEF Keeps, Unexpired, Doing, Stalled
<1> QED BY <1>5, <1>6, <1>7, <1>8, <1>9, Untouched

LEMMA StoreKeyPreserves ==
  ASSUME IInv, NEW w \in Withdrawals, StoreKey(w)
  PROVE  IInv'
<1>1. w \in Reqs /\ TypeOK /\ InOrder(w)
  BY DEF IInv, Reqs
<1>2. /\ req' \in [Reqs -> Request] /\ req'[w].pc = "add" /\ req'[w].key = req[w].key
      /\ \A s \in Reqs \ {w} : req'[s] = req[s]
  BY <1>1, GotoEffect DEF StoreKey, PCs, HandlerSteps
<1>3. UNCHANGED <<tx, balance, job, att, timer, faults, onChain, sent, booked, dropped>>
  BY DEF StoreKey, rows, work, history
<1>4. TypeOK'
  BY <1>1, <1>2, <1>3 DEF TypeOK, StoreKey
<1>5. req[w].pc = "store"
  BY DEF StoreKey, At
<1>6. \A s \in Reqs \ {w} : Same(s)
  BY <1>2, <1>3 DEF Same
<1>7. InOrder(w)'
  BY <1>1, <1>2, <1>3, <1>5
     DEF InOrder, Onward, Handled, OneAttempt, PaidOut, Credited, RowTrue, Decided,
         Doing, Stalled, HandlerSteps
<1>8. KeysTrue'
  <2>1. keys' = [keys EXCEPT ![req[w].key] = "PROCESSING"] /\ endless' = endless \ {req[w].key}
    BY DEF StoreKey
  <2>2. tx[w].status # "none" /\ req'[w].key = req[w].key
    BY <1>1, <1>2, <1>5 DEF InOrder, Handled
  <2>3. \A v \in Withdrawals \ {w} : Same(v)
    BY <1>6 DEF Reqs
  <2> QED BY <1>1, <1>2, <1>3, <2>1, <2>2, <2>3 DEF IInv, KeysTrue, TypeOK, Same, Doing, Stalled
<1> QED BY <1>1, <1>4, <1>6, <1>7, <1>8, Untouched

LEMMA AddJobPreserves ==
  ASSUME IInv, NEW r \in Reqs, AddJob(r)
  PROVE  IInv'
<1>1. TypeOK /\ InOrder(r)
  BY DEF IInv
<1>2. /\ req' \in [Reqs -> Request] /\ req'[r].pc = "done" /\ req'[r].key = req[r].key
      /\ \A s \in Reqs \ {r} : req'[s] = req[s]
  BY <1>1, GotoEffect DEF AddJob, PCs
<1>3. /\ job' \in [Reqs -> Job] /\ job'[r].state = "waiting"
      /\ job'[r].stalls = job[r].stalls
      /\ \A s \in Reqs \ {r} : job'[s] = job[s]
  BY <1>1 DEF AddJob, TypeOK, Job
<1>4. UNCHANGED <<tx, balance, keys, endless, att, timer, faults, onChain,
                  sent, booked, dropped>>
  BY DEF AddJob, rows, redis, history
<1>5. TypeOK'
  BY <1>1, <1>2, <1>3, <1>4 DEF TypeOK
<1>6. \A s \in Reqs \ {r} : Same(s)
  BY <1>2, <1>3, <1>4 DEF Same
<1>7. /\ tx[r].status = "PENDING" /\ job[r].stalls = 0 /\ att[r].step = "none"
      /\ booked[r] = 0 /\ (r \in Withdrawals => sent[r] = 0)
      /\ r \notin timer /\ (r \in Withdrawals => req[r].key \in Keys)
  BY <1>1 DEF InOrder, Handled, OneAttempt, HandlerSteps, AddJob, At
<1>8. Handled(r)' /\ OneAttempt(r)' /\ Onward(r)'
  BY <1>2, <1>3, <1>4, <1>7 DEF Handled, OneAttempt, Onward, HandlerSteps
<1>9. (r \in Withdrawals => PaidOut(r)') /\ (r \in Deposits => Credited(r)') /\ RowTrue(r)'
  BY <1>3, <1>4, <1>7 DEF PaidOut, Credited, RowTrue, Decided, Doing, Stalled
<1>10. r \in Withdrawals => Keeps(r)
  BY <1>1, <1>2, <1>3, <1>4 DEF AddJob, At, InOrder, Handled, HandlerSteps, Keeps,
     Unexpired, Doing, Stalled
<1> QED BY <1>4, <1>5, <1>6, <1>8, <1>9, <1>10, Untouched DEF InOrder

LEMMA CallFailsPreserves ==
  ASSUME IInv, NEW r \in Reqs, CallFails(r)
  PROVE  IInv'
<1>1. TypeOK /\ InOrder(r)
  BY DEF IInv
<1>2. /\ req' \in [Reqs -> Request] /\ req'[r].pc = "died" /\ req'[r].key = req[r].key
      /\ \A s \in Reqs \ {r} : req'[s] = req[s]
  BY <1>1, GotoEffect DEF CallFails, PCs
<1>3. UNCHANGED <<tx, balance, keys, endless, job, att, timer, onChain, sent, booked, dropped>>
  BY DEF CallFails, rows, redis, work, history
<1>4. faults' \in 0 .. MaxFaults
  BY <1>1, WalletAssumption DEF CallFails, TypeOK
<1>5. TypeOK'
  BY <1>1, <1>2, <1>3, <1>4 DEF TypeOK
<1>6. \A s \in Reqs \ {r} : Same(s)
  BY <1>2, <1>3 DEF Same
<1>7. InOrder(r)'
  BY <1>1, <1>2, <1>3
     DEF InOrder, Onward, Handled, OneAttempt, PaidOut, Credited, RowTrue, Decided, Doing,
         Stalled, HandlerSteps, CallFails
<1>8. r \in Withdrawals => Keeps(r)
  BY <1>2, <1>3
     DEF Keeps, Unexpired, Doing, Stalled
<1> QED BY <1>3, <1>5, <1>6, <1>7, <1>8, Untouched

-----------------------------------------------------------------------------
(* The attempts.  Each lemma is about the steps that write the same things. *)

LEMMA StartJobPreserves ==
  ASSUME IInv, NEW r \in Reqs, StartJob(r)
  PROVE  IInv'
<1>1. TypeOK /\ InOrder(r)
  BY DEF IInv
<1>2. PICK p \in {"send", "read"} :
        Then(r, p) /\ (r \in Withdrawals <=> p = "send")
  BY DEF StartJob
<1>3. /\ att' \in [Reqs -> Attempt] /\ att'[r].step = p
      /\ \A s \in Reqs \ {r} : att'[s] = att[s]
  BY <1>1, <1>2, ThenEffect DEF Steps, WithdrawalSteps, DepositSteps
<1>4. /\ job' \in [Reqs -> Job] /\ job'[r].state = "active"
      /\ job'[r].stalls = job[r].stalls
      /\ \A s \in Reqs \ {r} : job'[s] = job[s]
  BY <1>1 DEF StartJob, TypeOK, Job
<1>5. UNCHANGED <<tx, balance, keys, endless, timer, req, faults, onChain,
                  sent, booked, dropped>>
  BY DEF StartJob, rows, redis, history
<1>6. TypeOK'
  BY <1>1, <1>3, <1>4, <1>5 DEF TypeOK
<1>7. \A s \in Reqs \ {r} : Same(s)
  BY <1>3, <1>4, <1>5 DEF Same
<1>8. InOrder(r)'
  BY <1>1, <1>2, <1>3, <1>4, <1>5, WalletAssumption
     DEF InOrder, Onward, Handled, OneAttempt, PaidOut, Credited, RowTrue, Decided, Doing,
         Stalled, HandlerSteps, StartJob, Reqs, WithdrawalSteps, DepositSteps
<1>9. r \in Withdrawals => Keeps(r)
  BY <1>1, <1>3, <1>4, <1>5
     DEF Keeps, Unexpired, Doing, Stalled, InOrder, OneAttempt, StartJob
<1> QED BY <1>5, <1>6, <1>7, <1>8, <1>9, Untouched

\* The steps that only read, or only write what the invariant leaves alone, and
\* those that come after them.
Follows(r, p) ==
  \/ r \in Withdrawals /\ <<att[r].step, p>> \in
       {<<"ttl", "complete">>, <<"complete", "expire">>, <<"expire", "mail">>,
        <<"notify", "ttl">>, <<"notifyFailed", "mail">>, <<"mail", "checkPlatform">>}
  \/ r \in Deposits /\ <<att[r].step, p>> \in {<<"read", "look">>, <<"notify", "mail">>}
  \/ r \in Deposits /\ Doing(r, "look") /\ p = "credit" /\ onChain[r] = "valid"
  \/ r \in Deposits /\ Doing(r, "look") /\ p = "giveUp"
       /\ (onChain[r] = "invalid" \/ att[r].retries = 2)
  \/ r \in Deposits /\ Doing(r, "look") /\ p = "retry" /\ att[r].retries < 2

LEMMA FollowsPreserves ==
  ASSUME IInv, TypeOK', NEW r \in Reqs, NEW p \in Steps, Follows(r, p),
         att'[r].step = p,
         att'[r].retries = IF p = "look" THEN tx[r].retries ELSE att[r].retries,
         \A s \in Reqs \ {r} : att'[s] = att[s],
         UNCHANGED <<tx, job, timer, req, onChain, sent, booked, dropped>>,
         KeysTrue' \/ (UNCHANGED <<keys, endless>> /\ ~Doing(r, "expire"))
  PROVE  IInv'
<1>1. TypeOK /\ InOrder(r)
  BY DEF IInv
<1>2. \A s \in Reqs \ {r} : Same(s)
  BY DEF Same
<1>3. Handled(r)' /\ OneAttempt(r)'
  BY <1>1, WalletAssumption
     DEF InOrder, Handled, OneAttempt, Follows, Doing, WithdrawalSteps, DepositSteps
<1>4. r \in Withdrawals => PaidOut(r)'
  BY <1>1, WalletAssumption DEF InOrder, OneAttempt, PaidOut, Follows, Doing, Stalled
<1>5. r \in Deposits => Credited(r)'
  BY <1>1, WalletAssumption DEF InOrder, OneAttempt, Credited, Follows, Doing, Stalled
<1>6. RowTrue(r)'
  BY <1>1 DEF InOrder, RowTrue, Decided, Follows, Doing, Stalled
<1>7. Onward(r)'
  BY <1>1 DEF InOrder, Onward, Follows, Doing
<1>8. KeysTrue' \/ (UNCHANGED <<keys, endless>> /\ Keeps(r))
  BY DEF Keeps, Unexpired, Doing, Stalled
<1> QED BY <1>2, <1>3, <1>4, <1>5, <1>6, <1>7, <1>8, Untouched DEF InOrder

\* These only look at a key, or set it.
LEMMA KeyStepsPreserve ==
  ASSUME IInv, NEW w \in Withdrawals, ReadTtl(w) \/ CompleteKey(w) \/ ExpireKey(w)
  PROVE  IInv'
<1>1. w \in Reqs /\ TypeOK /\ InOrder(w)
  BY DEF IInv, Reqs
<1>2. UNCHANGED <<tx, balance, job, timer, req, faults, onChain, sent, booked, dropped>>
  BY DEF ReadTtl, CompleteKey, ExpireKey, rows, redis, history
<1>3. req[w].key \in Keys
  BY <1>1, WalletAssumption
     DEF InOrder, Handled, OneAttempt, ReadTtl, CompleteKey, ExpireKey, Doing
<1>4. keys' \in [Keys -> {"absent", "PROCESSING", "COMPLETE"}] /\ endless' \subseteq Keys
  BY <1>1, <1>3 DEF TypeOK, ReadTtl, CompleteKey, ExpireKey, redis
<1>5. PICK p \in {"complete", "expire", "mail"} :
        /\ att' \in [Reqs -> Attempt] /\ att'[w].step = p
        /\ att'[w].retries = att[w].retries
        /\ \A s \in Reqs \ {w} : att'[s] = att[s]
        /\ Follows(w, p)
  <2>1. CASE ReadTtl(w)
    <3>1. PICK t \in {"left", "gone"} :
            att' = [att EXCEPT ![w].step = "complete", ![w].ttl = t]
      BY <2>1 DEF ReadTtl
    <3>2. att[w] \in Attempt
      BY <1>1 DEF TypeOK
    <3>3. PICK x \in Attempt : x = [att[w] EXCEPT !.step = "complete"]
      BY <3>2 DEF Attempt, WithdrawalSteps
    <3>4. [x EXCEPT !.ttl = t] \in Attempt /\ att' = [att EXCEPT ![w] = [x EXCEPT !.ttl = t]]
      BY <1>1, <3>1, <3>3 DEF Attempt, TypeOK
    <3>5. [x EXCEPT !.ttl = t].step = "complete" /\ [x EXCEPT !.ttl = t].retries = att[w].retries
      BY <3>2, <3>3 DEF Attempt
    <3>6. /\ att' \in [Reqs -> Attempt] /\ att'[w].step = "complete"
          /\ att'[w].retries = att[w].retries
          /\ \A s \in Reqs \ {w} : att'[s] = att[s]
      BY <1>1, <3>4, <3>5 DEF TypeOK
    <3>7. Follows(w, "complete")
      BY <2>1 DEF Follows, ReadTtl, Doing
    <3> QED BY <3>6, <3>7
  <2>2. CASE CompleteKey(w)
    BY <1>1, <2>2, ThenEffect DEF CompleteKey, Follows, Doing, Steps, WithdrawalSteps
  <2>3. CASE ExpireKey(w)
    BY <1>1, <2>3, ThenEffect DEF ExpireKey, Follows, Doing, Steps, WithdrawalSteps
  <2> QED BY <2>1, <2>2, <2>3
<1>6. TypeOK'
  BY <1>1, <1>2, <1>4, <1>5 DEF TypeOK
<1>7. KeysTrue' \/ (UNCHANGED <<keys, endless>> /\ ~Doing(w, "expire"))
  <2>1. CASE ReadTtl(w)
    BY <2>1 DEF ReadTtl, redis, Doing
  <2>2. CASE CompleteKey(w)
    <3>1. /\ keys' = [keys EXCEPT ![req[w].key] = "COMPLETE"]
          /\ endless' = endless \cup {req[w].key}
          /\ att'[w].step = "expire"
      BY <1>1, <2>2, ThenEffect DEF CompleteKey, Steps, WithdrawalSteps
    <3>2. sent[w] > 0 /\ booked[w] > 0
      <4>1. booked[w] > 0 /\ booked[w] <= sent[w]
        BY <1>1, <2>2 DEF InOrder, PaidOut, CompleteKey, Doing
      <4>2. booked[w] \in Nat /\ sent[w] \in Nat
        BY <1>1 DEF TypeOK
      <4> QED BY <4>1, <4>2
    <3>3. \A v \in Withdrawals \ {w} : att'[v] = att[v]
      BY <1>5 DEF Reqs
    <3> QED BY <1>1, <1>2, <1>3, <3>1, <3>2, <3>3 DEF IInv, KeysTrue, TypeOK, Doing, Stalled
  <2>3. CASE ExpireKey(w)
    <3>1. /\ endless' = endless \ {req[w].key}
          /\ \A k \in Keys : k # req[w].key => keys'[k] = keys[k]
          /\ keys' = keys \/ keys'[req[w].key] = "absent"
      BY <1>1, <1>3, <2>3 DEF ExpireKey, TypeOK
    <3>2. \A v \in Withdrawals \ {w} : att'[v] = att[v]
      BY <1>5 DEF Reqs
    <3> QED BY <1>2, <3>1, <3>2 DEF IInv, KeysTrue, Doing, Stalled
  <2> QED BY <2>1, <2>2, <2>3
<1> QED BY <1>1, <1>2, <1>5, <1>6, <1>7, FollowsPreserves DEF Steps, WithdrawalSteps

LEMMA ReadTxPreserves ==
  ASSUME IInv, NEW d \in Deposits, ReadTx(d)
  PROVE  IInv'
<1>1. d \in Reqs /\ TypeOK
  BY DEF IInv, Reqs
<1>2. UNCHANGED <<tx, balance, keys, endless, job, timer, req, faults, onChain,
                  sent, booked, dropped>>
  BY DEF ReadTx, rows, redis, history
<1>3. /\ att' \in [Reqs -> Attempt] /\ att'[d].step = "look"
      /\ att'[d].retries = tx[d].retries
      /\ \A s \in Reqs \ {d} : att'[s] = att[s]
  <2>1. att[d] \in Attempt /\ tx[d].retries \in 0 .. 2
    BY <1>1 DEF TypeOK, Tx
  <2>2. PICK x \in Attempt : x = [att[d] EXCEPT !.step = "look"]
    BY <2>1 DEF Attempt, DepositSteps
  <2>3. PICK n \in 0 .. 2 : n = tx[d].retries
    BY <2>1
  <2>4. [x EXCEPT !.retries = n] \in Attempt /\ att' = [att EXCEPT ![d] = [x EXCEPT !.retries = n]]
    BY <1>1, <2>2, <2>3 DEF Attempt, TypeOK, ReadTx
  <2>5. [x EXCEPT !.retries = n].step = "look" /\ [x EXCEPT !.retries = n].retries = n
    BY <2>1, <2>2 DEF Attempt
  <2> QED BY <1>1, <2>3, <2>4, <2>5 DEF TypeOK
<1>4. TypeOK'
  BY <1>1, <1>2, <1>3 DEF TypeOK
<1> QED BY <1>1, <1>2, <1>3, <1>4, FollowsPreserves
        DEF Follows, ReadTx, Doing, Steps, DepositSteps

LEMMA LookUpPreserves ==
  ASSUME IInv, NEW d \in Deposits, LookUp(d)
  PROVE  IInv'
<1>1. d \in Reqs /\ TypeOK
  BY DEF IInv, Reqs
<1>2. UNCHANGED <<tx, balance, keys, endless, job, timer, req, faults, onChain,
                  sent, booked, dropped>>
  BY DEF LookUp, rows, redis, history
<1>3. onChain[d] \in {"unconfirmed", "valid", "invalid"} /\ att[d].retries \in 0 .. 2
  BY <1>1 DEF TypeOK, Attempt
<1>4. PICK p \in {"credit", "giveUp", "retry"} : Then(d, p) /\ Follows(d, p)
  BY <1>3 DEF LookUp, Follows, Doing
<1>5. /\ att' \in [Reqs -> Attempt] /\ att'[d].step = p
      /\ att'[d].retries = att[d].retries
      /\ \A s \in Reqs \ {d} : att'[s] = att[s]
  BY <1>1, <1>4, ThenEffect DEF Steps, DepositSteps
<1>6. TypeOK'
  BY <1>1, <1>2, <1>5 DEF TypeOK
<1>7. ~Doing(d, "expire")
  BY DEF LookUp, Doing
<1> QED BY <1>1, <1>2, <1>4, <1>5, <1>6, <1>7, FollowsPreserves DEF Steps, DepositSteps

LEMMA NotifyPreserves ==
  ASSUME IInv, NEW r \in Reqs, Notify(r)
  PROVE  IInv'
<1>1. TypeOK /\ InOrder(r)
  BY DEF IInv
<1>2. UNCHANGED <<tx, balance, keys, endless, job, timer, req, faults, onChain,
                  sent, booked, dropped>>
  BY DEF Notify, rows, redis, history
<1>3. PICK p \in {"ttl", "mail"} : Then(r, p) /\ Follows(r, p)
  BY <1>1, WalletAssumption
     DEF Notify, Follows, Doing, Reqs, InOrder, OneAttempt, DepositSteps,
         WithdrawalSteps
<1>4. /\ att' \in [Reqs -> Attempt] /\ att'[r].step = p
      /\ att'[r].retries = att[r].retries
      /\ \A s \in Reqs \ {r} : att'[s] = att[s]
  BY <1>1, <1>3, ThenEffect DEF Steps, WithdrawalSteps
<1>5. TypeOK'
  BY <1>1, <1>2, <1>4 DEF TypeOK
<1>6. ~Doing(r, "expire")
  BY DEF Notify, Doing
<1> QED BY <1>2, <1>3, <1>4, <1>5, <1>6, FollowsPreserves DEF Steps, WithdrawalSteps

\* Paying out and rejecting.
LEMMA SendPreserves ==
  ASSUME IInv, NEW w \in Withdrawals, SendPayout(w)
  PROVE  IInv'
<1>1. w \in Reqs /\ TypeOK /\ InOrder(w)
  BY DEF Reqs, IInv
<1>2. /\ att' \in [Reqs -> Attempt]
      /\ att'[w].step = "debit"
      /\ \A s \in Reqs \ {w} : att'[s] = att[s]
  BY <1>1, ThenEffect DEF SendPayout, Steps, WithdrawalSteps
<1>3. /\ sent' \in [Withdrawals -> Nat] /\ sent'[w] = sent[w] + 1
      /\ \A s \in Withdrawals \ {w} : sent'[s] = sent[s]
  BY <1>1 DEF SendPayout, TypeOK
<1>4. TypeOK'
  BY <1>1, <1>2, <1>3 DEF TypeOK, SendPayout, rows, redis
<1>5. \A s \in Reqs \ {w} : Same(s)
  BY <1>2, <1>3 DEF Same, SendPayout, rows, redis
<1>6. InOrder(w)'
  BY <1>1, <1>2, <1>3, WalletAssumption
     DEF InOrder, Onward, Handled, OneAttempt, PaidOut, Credited, RowTrue, Decided, Doing,
         Stalled, SendPayout, rows, redis, TypeOK, WithdrawalSteps, Job, Reqs
<1>7. Keeps(w)
  BY <1>1, <1>2, <1>3
     DEF Keeps, Unexpired, Doing, Stalled, SendPayout, rows, redis, TypeOK
<1>8. UNCHANGED <<keys, endless>>
  BY DEF SendPayout, redis
<1> QED BY <1>1, <1>4, <1>5, <1>6, <1>7, <1>8, Untouched

\* An attempt of a job comes to its end: the job has failed, or completed with
\* a row that is decided or a timer that goes on.
LEMMA EndsPreserve ==
  ASSUME IInv, TypeOK', NEW r \in Reqs, NEW p \in {"completed", "failed"},
         att[r].step # "none", EndAttempt(r, p),
         UNCHANGED <<tx, keys, endless, timer, req, onChain, booked, dropped>>,
         \/ p = "failed" /\ job[r].state = "active"
         \/ p = "completed" /\ att[r].step \in {"checkPlatform", "mail"},
         \A w \in Withdrawals : w # r => sent'[w] = sent[w],
         r \in Withdrawals =>
           \/ sent'[r] = sent[r] /\ p = "failed"
           \/ sent'[r] = sent[r] /\ att[r].step \in {"checkPlatform", "mail"}
           \/ sent'[r] = sent[r] + 1 /\ p = "failed" /\ att[r].step = "send"
  PROVE  IInv'
<1>1. TypeOK /\ InOrder(r)
  BY DEF IInv
<1>2. /\ att'[r].step = "none"
      /\ job'[r].stalls = job[r].stalls
      /\ job[r].state = "active" => job'[r].state = p
      /\ job[r].state # "active" => job'[r].state = "completed" /\ r \in Deposits
      /\ \A s \in Reqs \ {r} : att'[s] = att[s] /\ job'[s] = job[s]
  BY <1>1, EndEffect DEF InOrder, OneAttempt, JobStates
<1>3. \A s \in Reqs \ {r} : Same(s)
  BY <1>2 DEF Same
<1>4. Handled(r)' /\ OneAttempt(r)'
  BY <1>1, <1>2 DEF InOrder, Handled, OneAttempt
<1>5. r \in Withdrawals => PaidOut(r)'
  <2>1. r \in Withdrawals => sent[r] \in Nat /\ booked[r] \in Nat /\ job[r].stalls \in {0, 1}
    BY <1>1 DEF TypeOK, Job
  <2>2. r \in Withdrawals => job[r].state = "active" /\ job'[r].state = p
    BY <1>1, <1>2, WalletAssumption DEF InOrder, OneAttempt
  <2> QED BY <1>1, <1>2, <2>1, <2>2 DEF InOrder, PaidOut, Doing, Stalled
<1>6. r \in Deposits => Credited(r)'
  BY <1>1, <1>2 DEF InOrder, OneAttempt, Credited, Doing
<1>7. RowTrue(r)'
  BY <1>1, <1>2 DEF InOrder, OneAttempt, RowTrue, Decided, Stalled
<1>8. Onward(r)'
  BY <1>1, <1>2 DEF InOrder, Onward
<1>9. r \in Withdrawals => Keeps(r)
  <2>1. job[r].state # "failed" /\ (Doing(r, "expire") => job'[r].state = "failed")
    BY <1>1, <1>2 DEF InOrder, OneAttempt, Doing
  <2>2. r \in Withdrawals => sent[r] \in Nat
    BY <1>1 DEF TypeOK
  <2> QED BY <1>2, <2>1, <2>2 DEF Keeps, Unexpired, Stalled
<1> QED BY <1>3, <1>4, <1>5, <1>6, <1>7, <1>8, <1>9, Untouched DEF InOrder

LEMMA PayoutRejectedPreserves ==
  ASSUME IInv, NEW w \in Withdrawals, PayoutRejected(w)
  PROVE  IInv'
<1>1. w \in Reqs /\ TypeOK /\ InOrder(w)
  BY DEF Reqs, IInv
<1>2. UNCHANGED <<tx, balance, keys, endless, timer, req, faults, onChain,
                  sent, booked, dropped>>
  BY DEF PayoutRejected, rows, redis, history
<1>3. CASE EndAttempt(w, "failed")
  <2>1. att' \in [Reqs -> Attempt] /\ job' \in [Reqs -> Job]
    BY <1>1, <1>3, EndEffect DEF JobStates
  <2>2. TypeOK'
    BY <1>1, <1>2, <2>1 DEF TypeOK
  <2>3. job[w].state = "active"
    BY <1>1, WalletAssumption DEF InOrder, OneAttempt, PayoutRejected, Doing
  <2> QED BY <1>1, <1>2, <1>3, <2>2, <2>3, EndsPreserve DEF PayoutRejected, Doing
<1>4. CASE Then(w, "markFailed") /\ UNCHANGED job
  <2>1. /\ att' \in [Reqs -> Attempt] /\ att'[w].step = "markFailed"
        /\ \A s \in Reqs \ {w} : att'[s] = att[s]
    BY <1>1, <1>4, ThenEffect DEF Steps, WithdrawalSteps
  <2>2. TypeOK'
    BY <1>1, <1>2, <1>4, <2>1 DEF TypeOK
  <2>3. \A s \in Reqs \ {w} : Same(s)
    BY <1>2, <1>4, <2>1 DEF Same
  <2>4. sent[w] \in Nat /\ job[w].stalls \in {0, 1}
    BY <1>1 DEF TypeOK, Job
  <2>5. InOrder(w)'
    BY <1>1, <1>2, <1>4, <2>1, <2>4, WalletAssumption
       DEF InOrder, Onward, Handled, OneAttempt, PaidOut, Credited, RowTrue, Decided, Doing,
           Stalled, PayoutRejected, WithdrawalSteps
  <2>6. Keeps(w)
    BY <1>2, <1>4, <2>1 DEF Keeps, Unexpired, Doing, Stalled, PayoutRejected
  <2> QED BY <1>1, <1>2, <2>2, <2>3, <2>5, <2>6, Untouched
<1> QED BY <1>3, <1>4 DEF PayoutRejected

LEMMA PayoutUnconfirmedPreserves ==
  ASSUME IInv, NEW w \in Withdrawals, PayoutUnconfirmed(w)
  PROVE  IInv'
<1>1. w \in Reqs /\ TypeOK
  BY DEF Reqs, IInv
<1>2. UNCHANGED <<tx, balance, keys, endless, timer, req, onChain, booked, dropped>>
  BY DEF PayoutUnconfirmed, rows, redis
<1>3. /\ sent' \in [Withdrawals -> Nat] /\ sent'[w] = sent[w] + 1
      /\ \A s \in Withdrawals \ {w} : sent'[s] = sent[s]
  BY <1>1 DEF PayoutUnconfirmed, TypeOK
<1>4. att' \in [Reqs -> Attempt] /\ job' \in [Reqs -> Job]
  BY <1>1, EndEffect DEF PayoutUnconfirmed, JobStates
<1>5. faults' \in 0 .. MaxFaults
  BY <1>1, WalletAssumption DEF PayoutUnconfirmed, TypeOK
<1>6. TypeOK'
  BY <1>1, <1>2, <1>3, <1>4, <1>5 DEF TypeOK
<1>7. EndAttempt(w, "failed") /\ att[w].step = "send"
  BY DEF PayoutUnconfirmed, Doing
<1>8. job[w].state = "active"
  BY <1>1, <1>7, WalletAssumption DEF IInv, InOrder, OneAttempt
<1> QED BY <1>1, <1>2, <1>3, <1>6, <1>7, <1>8, EndsPreserve

LEMMA BookingsPreserve ==
  ASSUME IInv, NEW r \in Reqs,
         \/ r \in Withdrawals /\ DebitUser(r)
         \/ r \in Deposits /\ CreditUser(r)
  PROVE  IInv'
<1>1. TypeOK /\ InOrder(r)
  BY DEF IInv
<1>2. UNCHANGED <<tx, keys, endless, job, timer, req, faults, onChain, sent, dropped>>
  BY DEF DebitUser, CreditUser, redis
<1>3. /\ balance' \in [Users -> Int] /\ booked' \in [Reqs -> Nat]
      /\ booked'[r] = booked[r] + 1
      /\ \A s \in Reqs \ {r} : booked'[s] = booked[s]
  BY <1>1, BookEffect DEF DebitUser, CreditUser
<1>4. /\ att' \in [Reqs -> Attempt] /\ att'[r].step = "mark"
      /\ \A s \in Reqs \ {r} : att'[s] = att[s]
  BY <1>1, ThenEffect DEF DebitUser, CreditUser, Steps, WithdrawalSteps
<1>5. TypeOK'
  BY <1>1, <1>2, <1>3, <1>4 DEF TypeOK
<1>6. \A s \in Reqs \ {r} : Same(s)
  BY <1>2, <1>3, <1>4 DEF Same
<1>7. booked[r] \in Nat /\ job[r].stalls \in {0, 1} /\ (r \in Withdrawals => sent[r] \in Nat)
  BY <1>1 DEF TypeOK, Job
<1>8. att[r].step = IF r \in Withdrawals THEN "debit" ELSE "credit"
  BY WalletAssumption DEF DebitUser, CreditUser, Doing
<1>9. Handled(r)' /\ OneAttempt(r)'
  BY <1>1, <1>2, <1>3, <1>4, <1>8
     DEF InOrder, Handled, OneAttempt, WithdrawalSteps, DepositSteps
<1>10. r \in Withdrawals => PaidOut(r)'
  BY <1>1, <1>2, <1>3, <1>4, <1>7, <1>8 DEF InOrder, OneAttempt, PaidOut, Doing, Stalled
<1>11. r \in Deposits => Credited(r)'
  BY <1>1, <1>2, <1>3, <1>4, <1>7, <1>8, WalletAssumption
     DEF InOrder, OneAttempt, Credited, Doing
<1>12. RowTrue(r)'
  BY <1>1, <1>2, <1>3, <1>4, <1>7, <1>8 DEF InOrder, RowTrue, Decided, Stalled
<1>13. Onward(r)'
  BY <1>1, <1>2, <1>4 DEF InOrder, Onward
<1>14. r \in Withdrawals => Keeps(r)
  BY <1>2, <1>3, <1>4, <1>7, <1>8 DEF Keeps, Unexpired, Doing, Stalled
<1> QED BY <1>2, <1>5, <1>6, <1>9, <1>10, <1>11, <1>12, <1>13, <1>14, Untouched DEF InOrder

LEMMA MarksPreserve ==
  ASSUME IInv, NEW r \in Reqs,
         \/ MarkSuccess(r)
         \/ r \in Withdrawals /\ MarkFailed(r)
         \/ r \in Deposits /\ GiveUp(r)
  PROVE  IInv'
<1>1. TypeOK /\ InOrder(r)
  BY DEF IInv
<1>2. UNCHANGED <<balance, keys, endless, job, timer, req, faults, onChain,
                  sent, booked, dropped>>
  BY DEF MarkSuccess, MarkFailed, GiveUp, redis, history
<1>3. PICK p \in {"SUCCESS", "FAILED"}, q \in {"notify", "notifyFailed"} :
        /\ Status(r, p) /\ Then(r, q)
        /\ \/ att[r].step = "mark" /\ p = "SUCCESS" /\ q = "notify"
           \/ r \in Withdrawals /\ att[r].step = "markFailed" /\ p = "FAILED" /\ q = "notifyFailed"
           \/ r \in Deposits /\ att[r].step = "giveUp" /\ p = "FAILED" /\ q = "notify"
  BY DEF MarkSuccess, MarkFailed, GiveUp, Doing
<1>4. /\ tx' \in [Reqs -> Tx] /\ tx'[r].status = p /\ tx'[r].retries = tx[r].retries
      /\ \A s \in Reqs \ {r} : tx'[s] = tx[s]
  BY <1>1, <1>3, StatusEffect
<1>5. /\ att' \in [Reqs -> Attempt] /\ att'[r].step = q
      /\ \A s \in Reqs \ {r} : att'[s] = att[s]
  BY <1>1, <1>3, ThenEffect DEF Steps, WithdrawalSteps
<1>6. TypeOK'
  BY <1>1, <1>2, <1>4, <1>5 DEF TypeOK
<1>7. \A s \in Reqs \ {r} : Same(s)
  BY <1>2, <1>4, <1>5 DEF Same
<1>8. booked[r] \in Nat /\ job[r].stalls \in {0, 1} /\ (r \in Withdrawals => sent[r] \in Nat)
  BY <1>1 DEF TypeOK, Job
<1>9. Handled(r)' /\ OneAttempt(r)'
  BY <1>1, <1>2, <1>3, <1>4, <1>5, WalletAssumption
     DEF InOrder, Handled, OneAttempt, WithdrawalSteps, DepositSteps, HandlerSteps
<1>10. r \in Withdrawals => PaidOut(r)'
  BY <1>1, <1>2, <1>3, <1>5, <1>8, WalletAssumption
     DEF InOrder, OneAttempt, PaidOut, Doing, Stalled
<1>11. r \in Deposits => Credited(r)'
  BY <1>1, <1>2, <1>3, <1>4, <1>5, WalletAssumption
     DEF InOrder, OneAttempt, Credited, Doing
<1>12. RowTrue(r)'
  <2>1. p = "SUCCESS" => booked[r] > 0
    BY <1>1, <1>3, WalletAssumption DEF InOrder, PaidOut, Credited, Doing, Reqs
  <2>2. p = "FAILED" /\ ~Stalled(r) => booked[r] = 0 /\ (r \in Withdrawals => sent[r] = 0)
    <3>1. CASE r \in Withdrawals
      BY <1>1, <1>3, <1>8, <3>1, WalletAssumption DEF InOrder, PaidOut, Stalled
    <3>2. CASE r \in Deposits
      BY <1>1, <1>3, <1>8, <3>2, WalletAssumption DEF InOrder, Credited, Stalled
    <3> QED BY <3>1, <3>2 DEF Reqs
  <2>3. att[r].step # "none" => job[r].state # "waiting" /\ r \notin timer
    BY <1>1 DEF InOrder, OneAttempt
  <2> QED BY <1>2, <1>3, <1>4, <1>5, <2>1, <2>2, <2>3 DEF RowTrue, Decided, Stalled
<1>13. Onward(r)'
  BY <1>4, <1>5 DEF Onward
<1>14. r \in Withdrawals => Keeps(r)
  BY <1>2, <1>3, <1>4, <1>5 DEF Keeps, Unexpired, Doing, Stalled
<1> QED BY <1>2, <1>6, <1>7, <1>9, <1>10, <1>11, <1>12, <1>13, <1>14, Untouched DEF InOrder

LEMMA MailPreserves ==
  ASSUME IInv, NEW r \in Reqs, Mail(r) \/ (r \in Withdrawals /\ CheckPlatform(r))
  PROVE  IInv'
<1>1. TypeOK /\ InOrder(r)
  BY DEF IInv
<1>2. UNCHANGED <<tx, balance, keys, endless, timer, req, faults, onChain,
                  sent, booked, dropped>>
  BY DEF Mail, CheckPlatform, rows, redis, history
<1>3. CASE Mail(r) /\ r \in Withdrawals
  <2>1. /\ att' \in [Reqs -> Attempt] /\ att'[r].step = "checkPlatform"
        /\ att'[r].retries = att[r].retries
        /\ \A s \in Reqs \ {r} : att'[s] = att[s]
    BY <1>1, <1>3, ThenEffect DEF Mail, Steps, WithdrawalSteps
  <2>2. TypeOK' /\ UNCHANGED job
    BY <1>1, <1>2, <1>3, <2>1 DEF TypeOK, Mail
  <2> QED BY <1>2, <1>3, <2>1, <2>2, FollowsPreserves
          DEF Mail, Doing, Follows, Steps, WithdrawalSteps
<1>4. CASE EndAttempt(r, "completed")
  <2>1. att' \in [Reqs -> Attempt] /\ job' \in [Reqs -> Job]
    BY <1>1, <1>4, EndEffect DEF JobStates
  <2>2. TypeOK'
    BY <1>1, <1>2, <2>1 DEF TypeOK
  <2> QED BY <1>2, <1>4, <2>2, EndsPreserve DEF Mail, CheckPlatform, Doing
<1> QED BY <1>3, <1>4 DEF Mail, CheckPlatform

LEMMA RetryPreserves ==
  ASSUME IInv, NEW d \in Deposits, Retry(d)
  PROVE  IInv'
<1>1. d \in Reqs /\ TypeOK /\ InOrder(d)
  BY DEF IInv, Reqs
<1>2. UNCHANGED <<balance, keys, endless, job, timer, req, faults, onChain, sent, booked, dropped>>
  BY DEF Retry, redis, history
<1>3. /\ att[d].step = "retry" /\ att[d].retries < 2 /\ tx[d].retries = att[d].retries
      /\ tx[d].retries \in 0 .. 2 /\ job[d].stalls \in {0, 1} /\ booked[d] \in Nat
  BY <1>1 DEF InOrder, Credited, Retry, Doing, TypeOK, Tx, Job
<1>4. /\ tx' \in [Reqs -> Tx] /\ tx'[d].status = tx[d].status
      /\ \A s \in Reqs \ {d} : tx'[s] = tx[s]
  BY <1>1, <1>3 DEF Retry, TypeOK, Tx
<1>5. /\ att' \in [Reqs -> Attempt] /\ att'[d].step = "schedule"
      /\ \A s \in Reqs \ {d} : att'[s] = att[s]
  BY <1>1, ThenEffect DEF Retry, Steps, DepositSteps
<1>6. TypeOK'
  BY <1>1, <1>2, <1>4, <1>5 DEF TypeOK
<1>7. \A s \in Reqs \ {d} : Same(s)
  BY <1>2, <1>4, <1>5 DEF Same
<1>8. Handled(d)' /\ OneAttempt(d)'
  BY <1>1, <1>2, <1>3, <1>4, <1>5, WalletAssumption
     DEF InOrder, Handled, OneAttempt, DepositSteps
<1>9. Credited(d)'
  BY <1>1, <1>2, <1>3, <1>4, <1>5, WalletAssumption DEF InOrder, Credited, Doing
<1>10. RowTrue(d)'
  BY <1>1, <1>2, <1>3, <1>4, <1>5, WalletAssumption DEF InOrder, RowTrue, Decided, Stalled
<1>11. Onward(d)'
  BY <1>5 DEF Onward
<1> QED BY <1>1, <1>2, <1>6, <1>7, <1>8, <1>9, <1>10, <1>11, WalletAssumption, Untouched
        DEF InOrder

LEMMA ScheduleRetryPreserves ==
  ASSUME IInv, NEW d \in Deposits, ScheduleRetry(d)
  PROVE  IInv'
<1>1. d \in Reqs /\ TypeOK /\ InOrder(d)
  BY DEF IInv, Reqs
<1>2. UNCHANGED <<tx, balance, keys, endless, req, faults, onChain, sent, booked, dropped>>
  BY DEF ScheduleRetry, rows, redis, history
<1>3. att[d].step = "schedule"
  BY DEF ScheduleRetry, Doing
<1>4. /\ att' \in [Reqs -> Attempt] /\ job' \in [Reqs -> Job]
      /\ att'[d].step = "none" /\ job'[d].stalls = job[d].stalls
      /\ job'[d].state = "completed"
      /\ \A s \in Reqs \ {d} : att'[s] = att[s] /\ job'[s] = job[s]
  BY <1>1, <1>3, EndEffect, WalletAssumption DEF InOrder, OneAttempt, ScheduleRetry, JobStates
<1>5. timer' = timer \cup {d}
  BY DEF ScheduleRetry
<1>6. TypeOK'
  BY <1>1, <1>2, <1>4, <1>5 DEF TypeOK
<1>7. \A s \in Reqs \ {d} : Same(s)
  BY <1>2, <1>4, <1>5 DEF Same
<1>8. Handled(d)' /\ OneAttempt(d)'
  BY <1>1, <1>2, <1>3, <1>4, <1>5, WalletAssumption DEF InOrder, Handled, OneAttempt
<1>9. Credited(d)'
  BY <1>1, <1>2, <1>3, <1>4, <1>5 DEF InOrder, Credited, Doing
<1>10. RowTrue(d)'
  BY <1>1, <1>2, <1>3, <1>4, <1>5, WalletAssumption DEF InOrder, RowTrue, Decided, Stalled
<1>11. Onward(d)'
  BY <1>4, <1>5 DEF Onward
<1> QED BY <1>1, <1>2, <1>6, <1>7, <1>8, <1>9, <1>10, <1>11, WalletAssumption, Untouched
        DEF InOrder

LEMMA FireTimerPreserves ==
  ASSUME IInv, NEW d \in Deposits, FireTimer(d)
  PROVE  IInv'
<1>1. d \in Reqs /\ TypeOK /\ InOrder(d)
  BY DEF IInv, Reqs
<1>2. UNCHANGED <<tx, balance, keys, endless, job, req, faults, onChain, sent, booked,
                  dropped>>
  BY DEF FireTimer, rows, redis, history
<1>3. /\ att' \in [Reqs -> Attempt] /\ att'[d].step = "read"
      /\ \A s \in Reqs \ {d} : att'[s] = att[s]
  BY <1>1, ThenEffect DEF FireTimer, Steps, DepositSteps
<1>4. d \in timer /\ timer' = timer \ {d}
  BY DEF FireTimer
<1>5. TypeOK'
  BY <1>1, <1>2, <1>3, <1>4 DEF TypeOK
<1>6. \A s \in Reqs \ {d} : Same(s)
  BY <1>2, <1>3, <1>4 DEF Same
<1>7. InOrder(d)'
  BY <1>1, <1>2, <1>3, <1>4, WalletAssumption
     DEF InOrder, Onward, Handled, OneAttempt, PaidOut, Credited, RowTrue, Decided, Doing,
         Stalled, DepositSteps
<1> QED BY <1>1, <1>2, <1>5, <1>6, <1>7, WalletAssumption, Untouched

LEMMA ConfirmPreserves ==
  ASSUME IInv, NEW d \in Deposits, Confirm(d)
  PROVE  IInv'
<1>1. d \in Reqs /\ TypeOK /\ InOrder(d)
  BY DEF IInv, Reqs
<1>2. UNCHANGED <<tx, balance, keys, endless, job, att, timer, req, faults,
                  sent, booked, dropped>>
  BY DEF Confirm, rows, redis, work, history
<1>3. /\ onChain' \in [Deposits -> {"unconfirmed", "valid", "invalid"}]
      /\ onChain[d] = "unconfirmed"
      /\ \A s \in Deposits \ {d} : onChain'[s] = onChain[s]
  BY <1>1 DEF Confirm, TypeOK
<1>4. TypeOK'
  BY <1>1, <1>2, <1>3 DEF TypeOK
<1>5. \A s \in Reqs \ {d} : Same(s)
  BY <1>2, <1>3 DEF Same
<1>6. InOrder(d)'
  BY <1>1, <1>2, <1>3, WalletAssumption
     DEF InOrder, Onward, Handled, OneAttempt, PaidOut, Credited, RowTrue, Decided, Doing,
         Stalled
<1> QED BY <1>1, <1>2, <1>4, <1>5, <1>6, WalletAssumption, Untouched

LEMMA KeyExpiresPreserves ==
  ASSUME IInv, NEW k \in Keys, KeyExpires(k)
  PROVE  IInv'
<1>1. UNCHANGED <<tx, balance, endless, job, att, timer, req, faults, onChain,
                  sent, booked, dropped>>
  BY DEF KeyExpires, rows, work, history
<1>2. keys' \in [Keys -> {"absent", "PROCESSING", "COMPLETE"}]
  BY DEF KeyExpires, IInv, TypeOK
<1>3. TypeOK'
  BY <1>1, <1>2 DEF IInv, TypeOK
<1>4. ASSUME NEW r \in Reqs PROVE InOrder(r)'
  BY <1>1
     DEF IInv, InOrder, Onward, Handled, OneAttempt, PaidOut, Credited, RowTrue, Decided,
         Doing, Stalled
<1>5. KeysTrue'
  BY <1>1, <1>2 DEF KeyExpires, IInv, TypeOK, KeysTrue, Doing, Stalled
<1> QED BY <1>3, <1>4, <1>5 DEF IInv

-----------------------------------------------------------------------------
(* The failures *)

LEMMA RestartPreserves ==
  ASSUME IInv, Restart, faults' \in 0 .. MaxFaults,
         UNCHANGED <<tx, balance, keys, endless, onChain, sent, booked>>
  PROVE  IInv'
<1>1. TypeOK
  BY DEF IInv
<1>2. ASSUME NEW r \in Reqs
      PROVE  /\ job'[r] \in Job /\ att'[r] = NoAttempt
             /\ job[r].state # "active" => job'[r] = job[r]
             /\ job[r].state = "active" /\ job[r].stalls = 0 =>
                  job'[r].state = "waiting" /\ job'[r].stalls = 1
             /\ job[r].state = "active" /\ job[r].stalls = 1 =>
                  job'[r].state = "failed" /\ job'[r].stalls = 1
  BY <1>1 DEF Restart, Stall, TypeOK, Job
<1>3. ASSUME NEW r \in Reqs
      PROVE  /\ req'[r] \in Request /\ req'[r].key = req[r].key
             /\ \/ req'[r] = req[r]
                \/ req[r].pc \in HandlerSteps /\ req'[r].pc = "died"
  <2>1. req[r] \in Request
    BY <1>1 DEF TypeOK
  <2>2. CASE req[r].pc \in HandlerSteps
    <3>1. req'[r] = [req[r] EXCEPT !.pc = "died"]
      BY <2>2 DEF Restart
    <3> QED BY <2>1, <2>2, <3>1 DEF Request
  <2>3. CASE req[r].pc \notin HandlerSteps
    <3>1. req'[r] = req[r]
      BY <2>3 DEF Restart
    <3> QED BY <2>1, <3>1
  <2> QED BY <2>2, <2>3
<1>4. NoAttempt \in Attempt
  BY DEF NoAttempt, Attempt
<1>5. TypeOK'
  <2>1. att' \in [Reqs -> Attempt] /\ job' \in [Reqs -> Job] /\ req' \in [Reqs -> Request]
    BY <1>2, <1>3, <1>4 DEF Restart
  <2>2. timer' \subseteq Deposits /\ dropped' \subseteq Deposits
    BY <1>1 DEF Restart, TypeOK
  <2> QED BY <1>1, <2>1, <2>2 DEF TypeOK
<1>6. ASSUME NEW r \in Reqs PROVE InOrder(r)'
  <2>1. /\ InOrder(r) /\ att'[r].step = "none" /\ r \notin timer'
        /\ job[r].stalls \in {0, 1} /\ booked[r] \in Nat
        /\ r \in Withdrawals => sent[r] \in Nat
    BY <1>1, <1>2 DEF IInv, Restart, NoAttempt, TypeOK, Job
  <2>2. Handled(r)' /\ OneAttempt(r)'
    BY <1>2, <1>3, <2>1 DEF InOrder, Handled, OneAttempt, HandlerSteps
  <2>3. ASSUME r \in Withdrawals PROVE PaidOut(r)'
    <3>1. /\ sent' = sent /\ booked' = booked /\ sent[r] \in Nat
          /\ r \notin Deposits
      BY <2>1, <2>3, WalletAssumption
    <3>2. PaidOut(r) /\ OneAttempt(r)
      BY <2>1, <2>3 DEF InOrder
    <3>3. CASE job[r].state = "active" /\ job[r].stalls = 0
      BY <1>2, <2>1, <3>1, <3>2, <3>3 DEF PaidOut, Doing, Stalled
    <3>4. CASE job[r].state = "active" /\ job[r].stalls = 1
      BY <1>2, <2>1, <3>1, <3>2, <3>4 DEF PaidOut, Doing, Stalled
    <3>5. CASE job[r].state # "active"
      BY <1>2, <2>1, <3>1, <3>2, <3>5 DEF PaidOut, OneAttempt, Doing, Stalled
    <3> QED BY <2>1, <3>3, <3>4, <3>5
  <2>4. r \in Deposits => Credited(r)'
    BY <1>2, <2>1 DEF InOrder, OneAttempt, Credited, Doing
  <2>5. RowTrue(r)'
    BY <1>2, <2>1 DEF InOrder, RowTrue, Decided, Stalled
  <2>6. Onward(r)'
    <3>1. OneAttempt(r) /\ Onward(r) /\ job[r] \in Job
      BY <1>1, <2>1 DEF InOrder, TypeOK
    <3>2. /\ r \in timer \cup dropped => r \in dropped'
          /\ att[r].step # "none" /\ job[r].state # "active" => r \in dropped'
      BY <3>1 DEF Restart, OneAttempt
    <3>3. job[r].stalls \in {0, 1}
      BY <3>1 DEF Job
    <3> QED BY <1>2, <1>3, <2>1, <3>1, <3>2, <3>3 DEF Onward
  <2> QED BY <2>2, <2>3, <2>4, <2>5, <2>6 DEF InOrder
<1>7. ASSUME NEW w \in Withdrawals PROVE Keeps(w)
  <2>1. w \in Reqs /\ OneAttempt(w) /\ w \notin Deposits /\ job[w].stalls \in {0, 1}
    BY <1>1, WalletAssumption DEF IInv, InOrder, Reqs, TypeOK, Job
  <2>2. Doing(w, "expire") => job[w].state = "active"
    BY <2>1 DEF OneAttempt, Doing
  <2> QED BY <1>2, <1>3, <2>1, <2>2 DEF Keeps, Unexpired, Stalled
<1> QED BY <1>5, <1>6, <1>7, KeysKept DEF IInv

LEMMA ThrowsPreserves ==
  ASSUME IInv, NEW r \in Reqs, att[r].step # "none", Throws(r), faults' \in 0 .. MaxFaults,
         UNCHANGED <<tx, balance, keys, endless, onChain, sent, booked>>
  PROVE  IInv'
<1>1. CASE Restart
  BY <1>1, RestartPreserves
<1>2. CASE /\ job[r].state = "active"
           /\ EndAttempt(r, "failed") /\ UNCHANGED <<timer, req, dropped>>
  <2>1. att' \in [Reqs -> Attempt] /\ job' \in [Reqs -> Job]
    BY <1>2, EndEffect DEF IInv, JobStates
  <2>2. TypeOK'
    BY <1>2, <2>1 DEF IInv, TypeOK
  <2> QED BY <1>2, <2>2, EndsPreserve
<1> QED BY <1>1, <1>2 DEF Throws

LEMMA NotifyOfflinePreserves ==
  ASSUME IInv, NEW r \in Reqs, NotifyOffline(r)
  PROVE  IInv'
BY ThrowsPreserves DEF NotifyOffline, rows, redis, IInv, TypeOK

LEMMA AttemptFailsPreserves ==
  ASSUME IInv, NEW r \in Reqs, AttemptFails(r)
  PROVE  IInv'
<1>1. faults' \in 0 .. MaxFaults
  BY WalletAssumption DEF AttemptFails, IInv, TypeOK
<1> QED BY <1>1, ThrowsPreserves DEF AttemptFails, rows, redis

LEMMA CrashPreserves ==
  ASSUME IInv, Crash
  PROVE  IInv'
<1>1. faults' \in 0 .. MaxFaults
  BY WalletAssumption DEF Crash, IInv, TypeOK
<1> QED BY <1>1, RestartPreserves DEF Crash, rows, redis

-----------------------------------------------------------------------------
(* The invariant *)

LEMMA InitIsFine == Init => IInv
<1> SUFFICES ASSUME Init PROVE IInv
  OBVIOUS
<1>1. NotSent \in Request /\ NotSent.pc = "idle" /\ NoAttempt \in Attempt
      /\ NoAttempt.step = "none"
  BY DEF NotSent, Request, Chain, NoAttempt, Attempt
<1>2. \A r \in Reqs : req[r] = NotSent /\ att[r] = NoAttempt
  BY DEF Init
<1>3. TypeOK
  <2>1. req \in [Reqs -> Request] /\ att \in [Reqs -> Attempt]
    BY <1>1 DEF Init
  <2>2. balance \in [Users -> Int]
    BY WalletAssumption DEF Init
  <2> QED BY <2>1, <2>2, WalletAssumption DEF Init, TypeOK, Tx, Job
<1>4. ASSUME NEW r \in Reqs PROVE InOrder(r)
  <2>1. /\ req[r].pc = "idle" /\ att[r].step = "none" /\ job[r].state = "none"
        /\ job[r].stalls = 0 /\ tx[r].status = "none" /\ booked[r] = 0 /\ r \notin timer
        /\ r \in Withdrawals => sent[r] = 0
    BY <1>1, <1>2 DEF Init
  <2>2. Handled(r) /\ OneAttempt(r)
    BY <2>1 DEF Handled, OneAttempt
  <2>3. r \in Withdrawals => PaidOut(r)
    BY <2>1 DEF PaidOut, Doing
  <2>4. r \in Deposits => Credited(r)
    BY <2>1 DEF Credited, Doing
  <2>5. RowTrue(r)
    BY <2>1 DEF RowTrue, Decided
  <2>6. Onward(r)
    BY <2>1 DEF Onward
  <2> QED BY <2>2, <2>3, <2>4, <2>5, <2>6 DEF InOrder
<1>5. KeysTrue
  BY DEF Init, KeysTrue
<1> QED BY <1>3, <1>4, <1>5 DEF IInv

LEMMA StutterIsFine ==
  ASSUME IInv, UNCHANGED vars
  PROVE  IInv'
<1>1. TypeOK'
  BY DEF IInv, vars, TypeOK
<1>2. ASSUME NEW r \in Reqs PROVE InOrder(r)'
  BY
     DEF IInv, vars, InOrder, Onward, Handled, OneAttempt, PaidOut, Credited, RowTrue,
         Decided, Doing, Stalled
<1>3. KeysTrue'
  BY DEF IInv, vars, KeysTrue, Doing, Stalled
<1> QED BY <1>1, <1>2, <1>3 DEF IInv

LEMMA AttemptsPreserve ==
  ASSUME IInv, NEW r \in Reqs, Attempts(r)
  PROVE  IInv'
<1>1. CASE r \in Withdrawals /\ Pays(r)
  <2>1. CASE SendPayout(r) \/ PayoutRejected(r)
    BY <1>1, <2>1, SendPreserves, PayoutRejectedPreserves
  <2>2. CASE DebitUser(r)
    BY <1>1, <2>2, BookingsPreserve
  <2>3. CASE MarkFailed(r)
    BY <1>1, <2>3, MarksPreserve
  <2>4. CASE ReadTtl(r) \/ CompleteKey(r) \/ ExpireKey(r)
    BY <1>1, <2>4, KeyStepsPreserve
  <2>5. CASE CheckPlatform(r)
    BY <1>1, <2>5, MailPreserves
  <2> QED BY <1>1, <2>1, <2>2, <2>3, <2>4, <2>5 DEF Pays
<1>2. CASE r \in Deposits /\ Confirms(r)
  BY <1>2, ReadTxPreserves, LookUpPreserves, RetryPreserves, ScheduleRetryPreserves,
     BookingsPreserve, MarksPreserve DEF Confirms
<1>3. CASE MarkSuccess(r)
  BY <1>3, MarksPreserve
<1>4. CASE Notify(r)
  BY <1>4, NotifyPreserves
<1>5. CASE NotifyOffline(r)
  BY <1>5, NotifyOfflinePreserves
<1>6. CASE Mail(r)
  BY <1>6, MailPreserves
<1> QED BY <1>1, <1>2, <1>3, <1>4, <1>5, <1>6 DEF Attempts

LEMMA StepIsFine ==
  ASSUME IInv, Next
  PROVE  IInv'
<1>1. ASSUME NEW r \in Reqs, Arrives(r) PROVE IInv'
  BY <1>1, ArrivesPreserves
<1>2. ASSUME NEW r \in Reqs, Handles(r) PROVE IInv'
  BY <1>2, InitiatePreserves, AddJobPreserves, CheckPreserves, StoreKeyPreserves
     DEF Handles
<1>3. ASSUME NEW r \in Reqs, StartJob(r) PROVE IInv'
  BY <1>3, StartJobPreserves
<1>4. ASSUME NEW r \in Reqs, Attempts(r) PROVE IInv'
  BY <1>4, AttemptsPreserve
<1>5. ASSUME NEW r \in Reqs, AttemptFails(r) PROVE IInv'
  BY <1>5, AttemptFailsPreserves
<1>6. ASSUME NEW r \in Reqs, CallFails(r) PROVE IInv'
  BY <1>6, CallFailsPreserves
<1>7. ASSUME NEW w \in Withdrawals, PayoutUnconfirmed(w) PROVE IInv'
  BY <1>7, PayoutUnconfirmedPreserves
<1>8. ASSUME NEW d \in Deposits, FireTimer(d) PROVE IInv'
  BY <1>8, FireTimerPreserves
<1>9. ASSUME NEW d \in Deposits, Confirm(d) PROVE IInv'
  BY <1>9, ConfirmPreserves
<1>10. ASSUME NEW k \in Keys, KeyExpires(k) PROVE IInv'
  BY <1>10, KeyExpiresPreserves
<1>11. ASSUME Crash PROVE IInv'
  BY <1>11, CrashPreserves
<1> QED BY <1>1, <1>2, <1>3, <1>4, <1>5, <1>6, <1>7, <1>8, <1>9, <1>10, <1>11 DEF Next

LEMMA Inductive == Spec => []IInv
<1>1. IInv /\ [Next]_vars => IInv'
  BY StepIsFine, StutterIsFine
<1> QED BY InitIsFine, <1>1, PTL DEF Spec

-----------------------------------------------------------------------------
(* What follows *)

\* Every variable keeps its type, whatever interleaves and fails: the retries of
\* a deposit never exceed 2 and a job stalls at most once.
THEOREM TypeCorrect == Spec => []TypeOK
<1>1. IInv => TypeOK
  BY DEF IInv
<1> QED BY Inductive, <1>1, PTL

\* A withdrawal is never debited before it is paid out, is paid out at most once
\* per run of its job, and a payout without its debit is explained by the step
\* the job is at, a crash or an error (processWithdrawalOnBase, OnSolana).
THEOREM PayoutsAreDebited == Spec => []PayoutsDebited
<1>1. IInv => PayoutsDebited
  BY DEF IInv, InOrder, PaidOut, PayoutsDebited, Reqs
<1> QED BY Inductive, <1>1, PTL

\* A deposit is credited only when the chain has confirmed it, and at most once
\* per run of its job, in however many timers it was looked up
\* (processDepositOnBase, OnSolana).
THEOREM CreditsAreConfirmed == Spec => []CreditsConfirmed
<1>1. IInv => CreditsConfirmed
  BY DEF IInv, InOrder, Credited, CreditsConfirmed, Reqs
<1> QED BY Inductive, <1>1, PTL

\* The row of a transaction agrees with what was moved: SUCCESS after a debit or
\* a credit only, FAILED, unless the job was done twice, with nothing moved, and
\* for a deposit only after a wrong confirmation or both retries.
THEOREM StatusIsTrue == Spec => []StatusTrue
<1>1. IInv => StatusTrue
  BY DEF IInv, InOrder, RowTrue, Credited, StatusTrue, Reqs
<1> QED BY Inductive, <1>1, PTL

\* A transaction that is still PENDING is on its way in some handler, job or timer,
\* or a handler died, a job failed or a timer was lost with the process.
THEOREM TransactionsArePursued == Spec => []Pursued
<1>1. IInv => Pursued
  BY DEF IInv, InOrder, Onward, Pursued
<1> QED BY Inductive, <1>1, PTL

\* An idempotency key in Redis tells the truth about some withdrawal that was sent
\* with it, and one that stays without a time to live is explained by a job that
\* was cut short between redis.set and redis.expire.
THEOREM KeysAreTrue == Spec => []KeysTrue
<1>1. IInv => KeysTrue
  BY DEF IInv
<1> QED BY Inductive, <1>1, PTL

\* Only four steps write a status: the create of the handler, and the three ends
\* of an attempt.
LEMMA StatusWriters ==
  ASSUME TypeOK, Next, NEW s \in Reqs, tx'[s].status # tx[s].status
  PROVE  At(s, "create") \/ att[s].step \in {"mark", "markFailed", "giveUp"}
<1>1. PICK r \in Reqs :
        \/ InitiateTransaction(r) \/ MarkSuccess(r)
        \/ r \in Withdrawals /\ MarkFailed(r)
        \/ r \in Deposits /\ (GiveUp(r) \/ Retry(r))
  <2>1. ASSUME NEW r \in Reqs, Arrives(r) \/ StartJob(r) \/ AttemptFails(r) \/ CallFails(r)
        PROVE  tx' = tx
    BY <2>1 DEF Arrives, RequestDeposit, RequestWithdrawal, StartJob, AttemptFails,
                CallFails, rows
  <2>2. ASSUME NEW r \in Reqs, Handles(r)
        PROVE  tx' = tx \/ InitiateTransaction(r)
    BY <2>2 DEF Handles, AddJob, CheckWithdrawal, StoreKey, rows
  <2>3. ASSUME NEW r \in Reqs, Notify(r) \/ NotifyOffline(r) \/ Mail(r)
        PROVE  tx' = tx
    BY <2>3 DEF Notify, NotifyOffline, Mail, rows
  <2>4. ASSUME NEW r \in Withdrawals, Pays(r)
        PROVE  tx' = tx \/ MarkFailed(r)
    BY <2>4 DEF Pays, SendPayout, PayoutRejected, DebitUser, ReadTtl, CompleteKey,
                ExpireKey, CheckPlatform, rows
  <2>5. ASSUME NEW r \in Deposits, Confirms(r)
        PROVE  tx' = tx \/ GiveUp(r) \/ Retry(r)
    BY <2>5 DEF Confirms, ReadTx, LookUp, ScheduleRetry, CreditUser, rows
  <2>6. ASSUME NEW r \in Reqs, Attempts(r)
        PROVE  \/ tx' = tx \/ MarkSuccess(r)
               \/ r \in Withdrawals /\ MarkFailed(r)
               \/ r \in Deposits /\ (GiveUp(r) \/ Retry(r))
    BY <2>3, <2>4, <2>5, <2>6 DEF Attempts
  <2>7. ASSUME \/ \E w \in Withdrawals : PayoutUnconfirmed(w)
               \/ \E d \in Deposits : FireTimer(d) \/ Confirm(d)
               \/ \E k \in Keys : KeyExpires(k)
               \/ Crash
        PROVE  tx' = tx
    BY <2>7 DEF PayoutUnconfirmed, FireTimer, Confirm, KeyExpires, Crash, rows
  <2> QED BY <2>1, <2>2, <2>6, <2>7 DEF Next
<1>2. CASE \/ InitiateTransaction(r) \/ MarkSuccess(r)
           \/ r \in Withdrawals /\ MarkFailed(r)
           \/ r \in Deposits /\ GiveUp(r)
  <2>1. \E p \in {"PENDING", "SUCCESS", "FAILED"} : Status(r, p)
    BY <1>2 DEF InitiateTransaction, MarkSuccess, MarkFailed, GiveUp
  <2>2. r = s
    BY <2>1, StatusEffect
  <2> QED BY <1>2, <2>2 DEF InitiateTransaction, MarkSuccess, MarkFailed, GiveUp, Doing
<1>3. CASE Retry(r)
  <2>1. tx' = [tx EXCEPT ![r].retries = @ + 1]
    BY <1>3 DEF Retry
  <2>2. tx'[s].status = tx[s].status
    BY <2>1 DEF TypeOK, Tx
  <2> QED BY <2>2
<1> QED BY <1>1, <1>2, <1>3

\* SUCCESS and FAILED are final, unless the worker died on the job and did it
\* twice: no handler, job or timer writes over the status of a decided row.
THEOREM StatusIsFinal == Spec => StatusFinal
<1>1. IInv /\ [Next]_vars =>
        [\A r \in Reqs : tx[r].status \in {"SUCCESS", "FAILED"} =>
           tx'[r].status = tx[r].status \/ Stalled(r)]_vars
  <2>1. SUFFICES ASSUME IInv, Next,
                        NEW r \in Reqs, tx[r].status \in {"SUCCESS", "FAILED"},
                        tx'[r].status # tx[r].status
                 PROVE  Stalled(r)
    OBVIOUS
  <2>2. At(r, "create") \/ att[r].step \in {"mark", "markFailed", "giveUp"}
    BY <2>1, StatusWriters DEF IInv
  <2>3. ~At(r, "create")
    BY <2>1 DEF IInv, InOrder, Handled, At
  <2> QED BY <2>1, <2>2, <2>3 DEF IInv, InOrder, RowTrue, Decided
<1> QED BY Inductive, <1>1, PTL DEF Spec, StatusFinal

-----------------------------------------------------------------------------
(* The contract.  A step that moves one request leaves the deals of the    *)
(* others alone, and what a handler or an attempt does between its         *)
(* bookings is hidden from the contract.                                   *)

\* The terms of a request do not change, and what has died or was dropped is over.
Firm(r) ==
  /\ req[r].pc # "idle" => req[r].user \in Users /\ req[r].amount \in Amounts
  /\ r \in Withdrawals /\ At(r, "create") => req[r].amount >= MinWithdrawal
  /\ At(r, "died") => job[r].state = "none"
  /\ r \in dropped =>
       r \in Deposits /\ job[r].state = "completed" /\ att[r].step = "none" /\ r \notin timer

Firms == \A r \in Reqs : Firm(r)

Deals == [r \in Reqs |-> DealOf(r)]
Paids == [w \in Withdrawals |-> PaidOf(w)]

Kept == Firms' /\ [Contract!ContractNext]_(Contract!contractVars)

Alike(s) == Same(s) /\ (s \in dropped' <=> s \in dropped)

Hidden(s) ==
  /\ DealOf(s)' = DealOf(s)
  /\ booked'[s] = booked[s]
  /\ s \in Withdrawals => PaidOf(s)' = PaidOf(s)

LEMMA AlikeIsHidden ==
  ASSUME NEW s \in Reqs, Alike(s), Firm(s)
  PROVE  Firm(s)' /\ Hidden(s)
<1>1. Firm(s)'
  BY DEF Alike, Same, Firm, At
<1>2. WorkOf(s)' = WorkOf(s)
  BY DEF Alike, Same, WorkOf, Over, Stalled, At
<1>3. StageOf(s)' = StageOf(s)
  BY DEF Alike, Same, StageOf
<1>4. DealOf(s)' = DealOf(s)
  BY <1>2, <1>3 DEF Alike, Same, DealOf
<1>5. s \in Withdrawals => PaidOf(s)' = PaidOf(s)
  BY DEF Alike, Same, PaidOf, Doing
<1> QED BY <1>1, <1>4, <1>5 DEF Hidden, Alike, Same

LEMMA HiddenStep ==
  ASSUME IInv, IInv', Firms, NEW r \in Reqs, \A s \in Reqs \ {r} : Alike(s),
         Firm(r)', Hidden(r), UNCHANGED <<balance, onChain>>
  PROVE  Kept
<1>1. \A s \in Reqs : Firm(s)' /\ Hidden(s)
  BY AlikeIsHidden DEF Firms
<1>2. Deals' = Deals
  BY <1>1 DEF Deals, Hidden
<1>3. Paids' = Paids
  BY <1>1 DEF Paids, Hidden, Reqs
<1>4. booked' = booked
  BY <1>1 DEF IInv, TypeOK, Hidden
<1>5. UNCHANGED Contract!contractVars
  BY <1>2, <1>3, <1>4 DEF Contract!contractVars, Deals, Paids
<1> QED BY <1>1, <1>5 DEF Kept, Firms

\* An attempt works at a transaction that is not over.
LEMMA Working ==
  ASSUME IInv, Firms, NEW r \in Reqs, att[r].step # "none"
  PROVE  /\ ~Over(r) /\ tx[r].status # "none"
         /\ req[r].user \in Users /\ req[r].amount \in Amounts
         /\ job[r].state \in {"active", "completed"}
         /\ r \in Withdrawals => job[r].state = "active"
<1>1. Handled(r) /\ OneAttempt(r) /\ Firm(r)
  BY DEF IInv, InOrder, Firms
<1> QED BY <1>1, WalletAssumption DEF Handled, OneAttempt, Firm, Over, At

\* An attempt takes a step that pays out nothing it does not hide, and books nothing.
LEMMA MovesOn ==
  ASSUME IInv, IInv', Firms, NEW r \in Reqs, att[r].step # "none",
         \A s \in Reqs \ {r} : att'[s] = att[s],
         UNCHANGED <<tx, balance, job, timer, req, onChain, booked, dropped>>,
         \A w \in Withdrawals : w # r => sent'[w] = sent[w],
         r \in Withdrawals => PaidOf(r)' = PaidOf(r)
  PROVE  Kept
<1>1. \A s \in Reqs \ {r} : Alike(s)
  BY DEF Alike, Same
<1>2. Firm(r) /\ r \notin dropped
  BY DEF Firms, Firm
<1>3. Firm(r)'
  BY <1>2 DEF Firm, At
<1>4. Hidden(r)
  BY DEF Hidden, DealOf, StageOf, WorkOf, Over, Stalled, At
<1> QED BY <1>1, <1>3, <1>4, HiddenStep

LEMMA StepKeeps ==
  ASSUME IInv, IInv', Firms, NEW r \in Reqs,
         \/ Notify(r) \/ (r \in Withdrawals /\ Mail(r))
         \/ r \in Withdrawals /\ (SendPayout(r) \/ ReadTtl(r) \/ CompleteKey(r) \/ ExpireKey(r))
         \/ r \in Deposits /\ (ReadTx(r) \/ LookUp(r) \/ Retry(r))
  PROVE  Kept
<1>t. TypeOK /\ \A w \in Withdrawals : sent[w] \in Nat
  BY DEF IInv, TypeOK
<1>1. CASE Notify(r) \/ (r \in Withdrawals /\ Mail(r))
  <2>1. PICK p \in Steps : Then(r, p) /\ p # "debit"
    BY <1>1 DEF Notify, Mail, Steps, WithdrawalSteps
  <2>2. att'[r].step = p /\ \A s \in Reqs \ {r} : att'[s] = att[s]
    BY <1>t, <2>1, ThenEffect
  <2>3. att[r].step \notin {"none", "debit"}
    BY <1>1 DEF Notify, Mail, Doing
  <2>4. UNCHANGED <<tx, balance, job, timer, req, onChain, booked, dropped, sent>>
    BY <1>1, WalletAssumption DEF Notify, Mail, rows, history
  <2> QED BY <2>1, <2>2, <2>3, <2>4, MovesOn DEF PaidOf, Doing
<1>2. CASE r \in Withdrawals /\ SendPayout(r)
  <2>1. att'[r].step = "debit" /\ \A s \in Reqs \ {r} : att'[s] = att[s]
    BY <1>t, <1>2, ThenEffect DEF SendPayout, Steps, WithdrawalSteps
  <2>2. sent'[r] = sent[r] + 1 /\ \A w \in Withdrawals : w # r => sent'[w] = sent[w]
    BY <1>t, <1>2 DEF SendPayout, TypeOK
  <2>3. att[r].step = "send"
    BY <1>2 DEF SendPayout, Doing
  <2>4. UNCHANGED <<tx, balance, job, timer, req, onChain, booked, dropped>>
    BY <1>2 DEF SendPayout, rows
  <2>5. PaidOf(r)' = PaidOf(r)
    BY <1>t, <1>2, <2>1, <2>2, <2>3 DEF PaidOf, Doing
  <2> QED BY <2>1, <2>2, <2>3, <2>4, <2>5, MovesOn
<1>3. CASE r \in Withdrawals /\ (CompleteKey(r) \/ ExpireKey(r))
  <2>1. PICK p \in Steps : Then(r, p) /\ p # "debit"
    BY <1>3 DEF CompleteKey, ExpireKey, Steps, WithdrawalSteps
  <2>2. att'[r].step = p /\ \A s \in Reqs \ {r} : att'[s] = att[s]
    BY <1>t, <2>1, ThenEffect
  <2>3. att[r].step \notin {"none", "debit"}
    BY <1>3 DEF CompleteKey, ExpireKey, Doing
  <2>4. UNCHANGED <<tx, balance, job, timer, req, onChain, booked, dropped, sent>>
    BY <1>3 DEF CompleteKey, ExpireKey, rows, history
  <2> QED BY <2>1, <2>2, <2>3, <2>4, MovesOn DEF PaidOf, Doing
<1>4. CASE r \in Withdrawals /\ ReadTtl(r)
  <2>1. att'[r].step = "complete" /\ \A s \in Reqs \ {r} : att'[s] = att[s]
    BY <1>t, <1>4 DEF ReadTtl, TypeOK, Attempt
  <2>2. att[r].step = "ttl"
    BY <1>4 DEF ReadTtl, Doing
  <2>3. UNCHANGED <<tx, balance, job, timer, req, onChain, booked, dropped, sent>>
    BY <1>4 DEF ReadTtl, rows, history
  <2> QED BY <2>1, <2>2, <2>3, MovesOn DEF PaidOf, Doing
<1>5. CASE r \in Deposits /\ (ReadTx(r) \/ LookUp(r))
  <2>1. \A s \in Reqs \ {r} : att'[s] = att[s]
    BY <1>t, <1>5 DEF ReadTx, LookUp, Then, TypeOK
  <2>2. att[r].step # "none"
    BY <1>5 DEF ReadTx, LookUp, Doing
  <2>3. UNCHANGED <<tx, balance, job, timer, req, onChain, booked, dropped, sent>>
    BY <1>5 DEF ReadTx, LookUp, rows, history
  <2> QED BY <1>5, <2>1, <2>2, <2>3, MovesOn, WalletAssumption
<1>6. CASE r \in Deposits /\ Retry(r)
  <2>1. /\ \A s \in Reqs \ {r} : att'[s] = att[s] /\ tx'[s] = tx[s]
        /\ tx'[r].status = tx[r].status
    BY <1>t, <1>6 DEF Retry, Then, TypeOK, Tx
  <2>2. UNCHANGED <<balance, job, timer, req, onChain, booked, dropped, sent>>
    BY <1>6 DEF Retry, history
  <2>3. \A s \in Reqs \ {r} : Alike(s)
    BY <2>1, <2>2 DEF Alike, Same
  <2>4. Firm(r) /\ r \notin dropped
    BY <1>6 DEF Firms, Firm, Retry, Doing
  <2>5. Firm(r)'
    BY <2>2, <2>4 DEF Firm, At
  <2>6. Hidden(r)
    BY <1>6, <2>1, <2>2, WalletAssumption
       DEF Hidden, DealOf, StageOf, WorkOf, Over, Stalled, At
  <2> QED BY <2>2, <2>3, <2>5, <2>6, HiddenStep
<1> QED BY <1>1, <1>2, <1>3, <1>4, <1>5, <1>6

\* A handler goes on without touching its row.
LEMMA HandlerKeeps ==
  ASSUME IInv, IInv', Firms, NEW r \in Reqs,
         \/ Arrives(r) \/ AddJob(r)
         \/ r \in Withdrawals /\ (CheckWithdrawal(r) \/ StoreKey(r))
  PROVE  Kept
<1>t. TypeOK /\ Handled(r) /\ Firm(r) /\ req[r] \in Request /\ job[r] \in Job
  BY DEF IInv, InOrder, TypeOK, Firms
<1>1. CASE Arrives(r)
  <2>1. UNCHANGED <<tx, balance, job, att, timer, onChain, booked, dropped, sent>>
    BY <1>1 DEF Arrives, RequestDeposit, RequestWithdrawal, rows, work, history
  <2>2. /\ req[r].pc = "idle"
        /\ req'[r].pc = IF r \in Withdrawals THEN "check" ELSE "create"
        /\ req'[r].user \in Users /\ req'[r].amount \in Amounts
        /\ \A s \in Reqs \ {r} : req'[s] = req[s]
    BY <1>t, <1>1, WalletAssumption
       DEF Arrives, RequestDeposit, RequestWithdrawal, At, TypeOK
  <2>3. tx[r].status = "none" /\ job[r].state = "none" /\ r \notin dropped
    BY <1>t, <2>2 DEF Handled, Firm
  <2>4. \A s \in Reqs \ {r} : Alike(s)
    BY <2>1, <2>2 DEF Alike, Same
  <2>5. Firm(r)'
    BY <2>1, <2>2, <2>3 DEF Firm, At
  <2>6. Hidden(r)
    BY <2>1, <2>2, <2>3 DEF Hidden, DealOf, WorkOf, Over, Stalled, At, PaidOf, Doing
  <2> QED BY <2>1, <2>4, <2>5, <2>6, HiddenStep
<1>2. CASE r \in Withdrawals /\ CheckWithdrawal(r)
  <2>1. UNCHANGED <<tx, balance, job, att, timer, onChain, booked, dropped, sent>>
    BY <1>2 DEF CheckWithdrawal, rows, work, history
  <2>2. /\ req[r].pc = "check"
        /\ req'[r].pc \in {"create", "done"}
        /\ req'[r].pc = "create" => req[r].amount >= MinWithdrawal
        /\ req'[r].user = req[r].user /\ req'[r].amount = req[r].amount
        /\ \A s \in Reqs \ {r} : req'[s] = req[s]
    <3>1. PICK p \in {"create", "done"} :
            /\ req' = [req EXCEPT ![r].pc = p, ![r].seen = 0]
            /\ p = "create" => req[r].amount >= MinWithdrawal
      BY <1>2 DEF CheckWithdrawal
    <3>2. req[r].pc = "check"
      BY <1>2 DEF CheckWithdrawal, At
    <3> QED BY <1>t, <3>1, <3>2 DEF TypeOK, Request
  <2>3. tx[r].status = "none" /\ job[r].state = "none" /\ r \notin dropped
    BY <1>t, <2>2 DEF Handled, Firm, HandlerSteps
  <2>4. \A s \in Reqs \ {r} : Alike(s)
    BY <2>1, <2>2 DEF Alike, Same
  <2>5. Firm(r)'
    BY <1>t, <2>1, <2>2, <2>3 DEF Firm, At, MinWithdrawal
  <2>6. Hidden(r)
    BY <2>1, <2>2, <2>3 DEF Hidden, DealOf, WorkOf, Over, Stalled, At, PaidOf, Doing
  <2> QED BY <2>1, <2>4, <2>5, <2>6, HiddenStep
<1>3. CASE AddJob(r) \/ (r \in Withdrawals /\ StoreKey(r))
  <2>1. UNCHANGED <<tx, balance, att, timer, onChain, booked, dropped, sent>>
    BY <1>3 DEF AddJob, StoreKey, rows, work, history
  <2>2. /\ req[r].pc \in {"store", "add"} /\ req'[r].pc \in {"add", "done"}
        /\ req'[r].user = req[r].user /\ req'[r].amount = req[r].amount
        /\ \A s \in Reqs \ {r} : req'[s] = req[s]
    <3>1. PICK p \in {"add", "done"} : req' = [req EXCEPT ![r].pc = p]
      BY <1>3 DEF AddJob, StoreKey, Goto
    <3>2. req[r].pc \in {"store", "add"}
      BY <1>3 DEF AddJob, StoreKey, At
    <3> QED BY <1>t, <3>1, <3>2 DEF TypeOK, Request
  <2>3. /\ tx[r].status = "PENDING" /\ job[r].state = "none" /\ r \notin dropped
        /\ job[r].stalls = 0
    BY <1>t, <2>2 DEF Handled, Firm, HandlerSteps
  <2>4. /\ job'[r].state # "failed" /\ job'[r].stalls = 0
        /\ \A s \in Reqs \ {r} : job'[s] = job[s]
    BY <1>t, <1>3, <2>3 DEF AddJob, StoreKey, work, TypeOK, Job
  <2>5. \A s \in Reqs \ {r} : Alike(s)
    BY <2>1, <2>2, <2>4 DEF Alike, Same
  <2>6. Firm(r)'
    BY <1>t, <2>1, <2>2, <2>3 DEF Firm, At
  <2>7. WorkOf(r)' = WorkOf(r) /\ StageOf(r)' = StageOf(r)
    BY <2>1, <2>2, <2>3, <2>4 DEF WorkOf, Over, Stalled, At, StageOf
  <2>8. Hidden(r)
    BY <2>1, <2>2, <2>3, <2>7 DEF Hidden, DealOf, PaidOf, Doing
  <2> QED BY <2>1, <2>5, <2>6, <2>8, HiddenStep
<1> QED BY <1>1, <1>2, <1>3

\* A job is picked up, or a timer fires.
LEMMA StartKeeps ==
  ASSUME IInv, IInv', Firms, NEW r \in Reqs, StartJob(r) \/ (r \in Deposits /\ FireTimer(r))
  PROVE  Kept
<1>t. TypeOK /\ Handled(r) /\ OneAttempt(r) /\ Firm(r) /\ job[r] \in Job
  BY DEF IInv, InOrder, TypeOK, Firms
<1>1. UNCHANGED <<tx, balance, req, onChain, booked, dropped, sent>>
  BY DEF StartJob, FireTimer, rows, history
<1>2. PICK p \in {"send", "read"} : Then(r, p)
  BY DEF StartJob, FireTimer
<1>3. att'[r].step = p /\ \A s \in Reqs \ {r} : att'[s] = att[s]
  BY <1>t, <1>2, ThenEffect DEF Steps, WithdrawalSteps, DepositSteps
<1>4. /\ job[r].state \in {"waiting", "completed"} /\ job'[r].state \in {"active", "completed"}
      /\ job'[r].stalls = job[r].stalls /\ r \notin dropped
      /\ \A s \in Reqs \ {r} : job'[s] = job[s]
  <2>1. CASE StartJob(r)
    BY <1>t, <2>1 DEF StartJob, TypeOK, Job, Firm
  <2>2. CASE r \in Deposits /\ FireTimer(r)
    BY <1>t, <2>2 DEF FireTimer, OneAttempt, Firm
  <2> QED BY <2>1, <2>2
<1>5. att[r].step # "debit"
  BY <1>t, <1>4 DEF OneAttempt, DepositSteps, StartJob, FireTimer
<1>6. \A s \in Reqs \ {r} : s \in timer' <=> s \in timer
  BY DEF StartJob, FireTimer
<1>7. \A s \in Reqs \ {r} : Alike(s)
  BY <1>1, <1>3, <1>4, <1>6 DEF Alike, Same
<1>8. Firm(r)'
  BY <1>t, <1>1, <1>4 DEF Firm, At
<1>9. Hidden(r)
  BY <1>1, <1>3, <1>4, <1>5 DEF Hidden, DealOf, StageOf, WorkOf, Over, Stalled, At, PaidOf, Doing
<1> QED BY <1>1, <1>7, <1>8, <1>9, HiddenStep

\* An attempt ends well, or leaves a timer behind.
LEMMA EndKeeps ==
  ASSUME IInv, IInv', Firms, NEW r \in Reqs,
         \/ r \in Withdrawals /\ CheckPlatform(r)
         \/ r \in Deposits /\ (Mail(r) \/ ScheduleRetry(r))
  PROVE  Kept
<1>t. TypeOK /\ Handled(r) /\ OneAttempt(r) /\ Firm(r) /\ job[r] \in Job
  BY DEF IInv, InOrder, TypeOK, Firms
<1>1. UNCHANGED <<balance, req, onChain, booked, dropped, sent>>
  BY DEF CheckPlatform, Mail, ScheduleRetry, rows, history
<1>2. EndAttempt(r, "completed")
  BY WalletAssumption DEF CheckPlatform, Mail, ScheduleRetry
<1>3. att[r].step \notin {"none", "debit"}
  BY DEF CheckPlatform, Mail, ScheduleRetry, Doing
<1>4. /\ att'[r].step = "none" /\ job'[r].stalls = job[r].stalls
      /\ job'[r].state # "failed"
      /\ \A s \in Reqs \ {r} : att'[s] = att[s] /\ job'[s] = job[s]
  BY <1>t, <1>2, <1>3, EndEffect DEF JobStates, OneAttempt
<1>5. /\ tx'[r].status = tx[r].status
      /\ \A s \in Reqs \ {r} : tx'[s] = tx[s] /\ (s \in timer' <=> s \in timer)
  BY <1>t DEF CheckPlatform, Mail, ScheduleRetry, rows, TypeOK, Tx
<1>6. \A s \in Reqs \ {r} : Alike(s)
  BY <1>1, <1>4, <1>5 DEF Alike, Same
<1>7. /\ r \notin dropped /\ ~At(r, "died")
      /\ job[r].state # "failed"
  BY <1>3, Working DEF Over
<1>8. Firm(r)'
  BY <1>t, <1>1, <1>7 DEF Firm, At
<1>9. WorkOf(r)' = WorkOf(r) /\ StageOf(r)' = StageOf(r)
  BY <1>1, <1>4, <1>5, <1>7 DEF WorkOf, Over, Stalled, At, StageOf
<1>10. Hidden(r)
  BY <1>1, <1>3, <1>4, <1>5, <1>9 DEF Hidden, DealOf, PaidOf, Doing
<1> QED BY <1>1, <1>6, <1>8, <1>10, HiddenStep

LEMMA ExpiryKeeps ==
  ASSUME IInv, IInv', Firms, NEW k \in Keys, KeyExpires(k) 
  PROVE  Kept
<1>1. UNCHANGED <<tx, balance, job, att, timer, req, onChain, booked, dropped, sent>>
  BY DEF KeyExpires, rows, work, history
<1>2. Firms'
  BY <1>1 DEF Firms, Firm, At
<1>3. Deals' = Deals /\ Paids' = Paids
  BY <1>1 DEF Deals, DealOf, StageOf, WorkOf, Over, Stalled, At, Paids, PaidOf, Doing
<1>4. UNCHANGED Contract!contractVars
  BY <1>1, <1>3 DEF Contract!contractVars, Deals, Paids
<1> QED BY <1>2, <1>4 DEF Kept

-----------------------------------------------------------------------------
(* The steps the contract sees.                                            *)

LEMMA OneDeal ==
  ASSUME IInv, IInv', Firms, NEW r \in Reqs, \A s \in Reqs \ {r} : Alike(s)
  PROVE  /\ \A s \in Reqs \ {r} : Firm(s)'
         /\ DOMAIN Deals = Reqs /\ DOMAIN Deals' = Reqs
         /\ \A s \in Reqs : Deals[s] = DealOf(s) /\ Deals'[s] = DealOf(s)'
         /\ \A s \in Reqs \ {r} : Deals'[s] = Deals[s]
         /\ \A s \in Withdrawals \ {r} : PaidOf(s)' = PaidOf(s)
<1>1. \A s \in Reqs \ {r} : Firm(s)' /\ Hidden(s)
  BY AlikeIsHidden DEF Firms
<1> QED BY <1>1 DEF Hidden, Deals, Reqs

\* The stage or the work of one deal changes, or all of it.
LEMMA DealChange ==
  ASSUME IInv, IInv', Firms, NEW r \in Reqs, \A s \in Reqs \ {r} : Alike(s), NEW d,
         DealOf(r)' = d
  PROVE  Deals' = [Deals EXCEPT ![r] = d]
<1>1. /\ Deals = [s \in Reqs |-> Deals[s]] /\ Deals' = [s \in Reqs |-> Deals'[s]]
  BY DEF Deals
<1>2. Deals'[r] = d /\ \A s \in Reqs \ {r} : Deals'[s] = Deals[s]
  BY OneDeal
<1> QED BY <1>1, <1>2

\* A row is decided.
LEMMA MarkKeeps ==
  ASSUME IInv, IInv', Firms, NEW r \in Reqs,
         \/ MarkSuccess(r)
         \/ r \in Withdrawals /\ MarkFailed(r)
         \/ r \in Deposits /\ GiveUp(r)
  PROVE  Kept
<1>t. TypeOK /\ Handled(r) /\ OneAttempt(r) /\ Firm(r) /\ job[r] \in Job /\ booked[r] \in Nat
  BY DEF IInv, InOrder, TypeOK, Firms
<1>1. UNCHANGED <<balance, job, timer, req, onChain, booked, dropped, sent>>
  BY DEF MarkSuccess, MarkFailed, GiveUp, history
<1>2. PICK p \in {"SUCCESS", "FAILED"}, q \in {"notify", "notifyFailed"} :
        /\ Status(r, p) /\ Then(r, q)
        /\ \/ att[r].step = "mark" /\ p = "SUCCESS"
           \/ r \in Withdrawals /\ att[r].step = "markFailed" /\ p = "FAILED"
           \/ r \in Deposits /\ att[r].step = "giveUp" /\ p = "FAILED"
  BY DEF MarkSuccess, MarkFailed, GiveUp, Doing
<1>3. tx'[r].status = p /\ \A s \in Reqs \ {r} : tx'[s] = tx[s]
  BY <1>t, <1>2, StatusEffect
<1>4. att'[r].step = q /\ \A s \in Reqs \ {r} : att'[s] = att[s]
  BY <1>t, <1>2, ThenEffect DEF Steps, WithdrawalSteps
<1>5. \A s \in Reqs \ {r} : Alike(s)
  BY <1>1, <1>3, <1>4 DEF Alike, Same
<1>6. /\ ~Over(r) /\ tx[r].status # "none" /\ r \notin dropped
  BY <1>2, Working DEF Over
<1>7. Firm(r)'
  BY <1>t, <1>1, <1>6 DEF Firm, At
<1>8. WorkOf(r)' = WorkOf(r) /\ WorkOf(r) # "over" /\ PaidOf(r)' = PaidOf(r)
  BY <1>1, <1>2, <1>4, <1>6 DEF WorkOf, Over, Stalled, At, PaidOf, Doing
<1>9. CASE StageOf(r)' = StageOf(r)
  <2>1. Hidden(r)
    BY <1>1, <1>3, <1>6, <1>8, <1>9 DEF Hidden, DealOf
  <2> QED BY <1>1, <1>5, <1>7, <2>1, HiddenStep
<1>10. CASE StageOf(r)' # StageOf(r)
  <2>1. p = "FAILED" /\ booked[r] = 0
    <3>1. p = "SUCCESS" => booked[r] > 0
      BY <1>2, WalletAssumption DEF IInv, InOrder, PaidOut, Credited, Doing, Reqs
    <3> QED BY <1>t, <1>1, <1>10, <3>1 DEF StageOf
  <2>2. StageOf(r) = "pending" /\ StageOf(r)' = "failed"
    BY <1>1, <1>3, <1>10, <2>1 DEF StageOf
  <2>3. r \in Withdrawals /\ WorkOf(r) = "whole" => PaidOf(r) = 0
    <3>1. SUFFICES ASSUME r \in Withdrawals, ~Stalled(r) PROVE PaidOf(r) = 0
      BY DEF WorkOf
    <3>2. PaidOut(r) /\ att[r].step = "markFailed"
      BY <1>2, <2>1, <3>1, WalletAssumption DEF IInv, InOrder
    <3> QED BY <3>1, <3>2 DEF PaidOut, PaidOf, Doing
  <2>4. /\ DealOf(r) = [stage |-> "pending", user |-> req[r].user,
                        amount |-> Dollars(req[r].amount), work |-> WorkOf(r)]
        /\ DealOf(r)' = [stage |-> "failed", user |-> req[r].user,
                         amount |-> Dollars(req[r].amount), work |-> WorkOf(r)]
    BY <1>1, <1>3, <1>6, <1>8, <2>2 DEF DealOf
  <2>5. Deals[r] = DealOf(r)
    BY DEF Deals
  <2>6. Deals' = [Deals EXCEPT ![r].stage = "failed"]
    <3>1. [Deals[r] EXCEPT !.stage = "failed"] = DealOf(r)'
      BY <2>4, <2>5
    <3> QED BY <1>5, <3>1, DealChange
  <2>7. Paids' = Paids
    BY <1>5, <1>8, OneDeal DEF Paids
  <2>8. Contract!Fail(r)
    BY <1>1, <1>8, <2>3, <2>4, <2>5, <2>6, <2>7 DEF Contract!Fail, Deals, Paids
  <2>9. Firms'
    BY <1>5, <1>7, OneDeal DEF Firms
  <2> QED BY <2>8, <2>9 DEF Kept, Contract!ContractNext, Contract!All, Reqs
<1> QED BY <1>9, <1>10

\* A balance is debited or credited: the payout shows with its debit.
LEMMA BookKeeps ==
  ASSUME IInv, IInv', Firms, NEW r \in Reqs,
         \/ r \in Withdrawals /\ DebitUser(r)
         \/ r \in Deposits /\ CreditUser(r)
  PROVE  Kept
<1>t. /\ TypeOK /\ Handled(r) /\ OneAttempt(r) /\ RowTrue(r) /\ Firm(r)
      /\ job[r].stalls \in {0, 1} /\ booked[r] \in Nat /\ booked \in [Reqs -> Nat]
      /\ r \in Withdrawals => PaidOut(r) /\ sent[r] \in Nat
      /\ r \in Deposits => Credited(r)
  BY DEF IInv, InOrder, TypeOK, Firms, Job
<1>1. UNCHANGED <<tx, job, timer, req, onChain, dropped, sent>>
  BY DEF DebitUser, CreditUser
<1>2. PICK sign \in {-1, 1} :
        /\ Book(r, sign) /\ Then(r, "mark")
        /\ \/ r \in Withdrawals /\ att[r].step = "debit" /\ sign = -1
           \/ r \in Deposits /\ att[r].step = "credit" /\ sign = 1
  BY DEF DebitUser, CreditUser, Doing
<1>3. booked'[r] = booked[r] + 1 /\ \A s \in Reqs \ {r} : booked'[s] = booked[s]
  BY <1>t, <1>2, BookEffect
<1>4. att'[r].step = "mark" /\ \A s \in Reqs \ {r} : att'[s] = att[s]
  BY <1>t, <1>2, ThenEffect DEF Steps, WithdrawalSteps
<1>5. \A s \in Reqs \ {r} : Alike(s)
  BY <1>1, <1>3, <1>4 DEF Alike, Same
<1>6. ~Over(r) /\ tx[r].status # "none" /\ r \notin dropped
  BY <1>2, Working DEF Over
<1>7. Firm(r)'
  BY <1>t, <1>1, <1>6 DEF Firm, At
<1>8. /\ WorkOf(r)' = WorkOf(r)
      /\ WorkOf(r) = IF job[r].stalls = 0 THEN "whole" ELSE "broken"
  BY <1>t, <1>1, <1>6 DEF WorkOf, Over, Stalled, At
<1>9. /\ booked[r] < 1 + job[r].stalls
      /\ r \in Withdrawals => sent[r] - 1 < 1 + job[r].stalls
  BY <1>t, <1>2, WalletAssumption DEF PaidOut, Credited, Doing
<1>10. StageOf(r) = "pending" \/ WorkOf(r) = "broken"
  <2>1. SUFFICES ASSUME job[r].stalls = 0 PROVE booked[r] = 0 /\ tx[r].status # "FAILED"
    BY <1>8, <1>t DEF StageOf
  <2> QED BY <1>t, <1>2, <1>9, <2>1 DEF RowTrue, Decided, Stalled
<1>11. StageOf(r)' = "done"
  BY <1>t, <1>3 DEF StageOf
<1>12. /\ DealOf(r) = [stage |-> StageOf(r), user |-> req[r].user,
                       amount |-> Dollars(req[r].amount), work |-> WorkOf(r)]
       /\ DealOf(r)' = [stage |-> "done", user |-> req[r].user,
                        amount |-> Dollars(req[r].amount), work |-> WorkOf(r)]
  BY <1>1, <1>6, <1>8, <1>11 DEF DealOf
<1>13. Deals[r] = DealOf(r) /\ StageOf(r) # "none"
  BY DEF Deals, StageOf
<1>14. Deals' = [Deals EXCEPT ![r].stage = "done"]
  <2>1. [Deals[r] EXCEPT !.stage = "done"] = DealOf(r)'
    BY <1>12, <1>13
  <2> QED BY <1>5, <2>1, DealChange
<1>15. Contract!Runs(r) = 1 + job[r].stalls
  BY <1>t, <1>8, <1>12, <1>13 DEF Contract!Runs, Deals
<1>16. booked' = [booked EXCEPT ![r] = @ + 1]
  BY <1>2 DEF Book
<1>17. balance' = [balance EXCEPT ![Deals[r].user] = @ + sign * Deals[r].amount]
  BY <1>2, <1>12, <1>13 DEF Book
<1>18. Contract!Move(r, sign)
  BY <1>8, <1>9, <1>10, <1>12, <1>13, <1>14, <1>15, <1>16, <1>17 DEF Contract!Move, Deals
<1>19. Firms'
  BY <1>5, <1>7, OneDeal DEF Firms
<1>20. CASE r \in Withdrawals
  <2>1. PaidOf(r) = sent[r] - 1 /\ PaidOf(r)' = sent[r]
    BY <1>1, <1>2, <1>4, <1>20, WalletAssumption DEF PaidOf, Doing
  <2>2. PaidOf(r)' = PaidOf(r) + 1
    BY <1>t, <1>20, <2>1
  <2>3. Paids' = [Paids EXCEPT ![r] = @ + 1]
    BY <1>5, <1>20, <2>2, OneDeal DEF Paids
  <2>4. Paids[r] = PaidOf(r)
    BY <1>20 DEF Paids
  <2>5. sign = -1
    BY <1>2, <1>20, WalletAssumption
  <2>6. Contract!Withdraw(r)
    BY <1>1, <1>9, <1>15, <1>18, <1>20, <2>1, <2>3, <2>4, <2>5 DEF Contract!Withdraw, Paids
  <2> QED BY <1>19, <1>20, <2>6 DEF Kept, Contract!ContractNext
<1>21. CASE r \in Deposits
  <2>1. onChain[r] = "valid" /\ sign = 1
    BY <1>t, <1>2, <1>21, WalletAssumption DEF Credited, Doing
  <2>2. Paids' = Paids
    BY <1>5, <1>21, OneDeal, WalletAssumption DEF Paids
  <2>3. Contract!Credit(r)
    BY <1>1, <1>18, <2>1, <2>2 DEF Contract!Credit, Paids
  <2> QED BY <1>19, <1>21, <2>3 DEF Kept, Contract!ContractNext
<1> QED BY <1>20, <1>21 DEF Reqs

\* The row of a transaction is created.
LEMMA InitiateKeeps ==
  ASSUME IInv, IInv', Firms, NEW r \in Reqs, InitiateTransaction(r)
  PROVE  Kept
<1>t. TypeOK /\ Handled(r) /\ Firm(r) /\ req[r] \in Request
  BY DEF IInv, InOrder, TypeOK, Firms
<1>1. UNCHANGED <<balance, job, att, timer, onChain, booked, dropped, sent>>
  BY DEF InitiateTransaction, work, history
<1>2. /\ req[r].pc = "create" /\ req'[r].pc \in {"store", "add"}
      /\ req'[r].user = req[r].user /\ req'[r].amount = req[r].amount
      /\ \A s \in Reqs \ {r} : req'[s] = req[s]
  <2>1. PICK p \in {"store", "add"} : req' = [req EXCEPT ![r].pc = p]
    BY DEF InitiateTransaction, Goto
  <2>2. req[r].pc = "create"
    BY DEF InitiateTransaction, At
  <2> QED BY <1>t, <2>1, <2>2 DEF TypeOK, Request
<1>3. tx'[r].status = "PENDING" /\ \A s \in Reqs \ {r} : tx'[s] = tx[s]
  BY <1>t, StatusEffect DEF InitiateTransaction
<1>4. /\ tx[r].status = "none" /\ job[r].state = "none" /\ job[r].stalls = 0
      /\ booked[r] = 0 /\ r \notin dropped
  BY <1>t, <1>2 DEF Handled, Firm, HandlerSteps
<1>5. \A s \in Reqs \ {r} : Alike(s)
  BY <1>1, <1>2, <1>3 DEF Alike, Same
<1>6. Firm(r)'
  BY <1>t, <1>1, <1>2, <1>4 DEF Firm, At
<1>7. WorkOf(r) = "whole" /\ WorkOf(r)' = "whole" /\ StageOf(r)' = "pending"
  BY <1>1, <1>2, <1>3, <1>4 DEF WorkOf, Over, Stalled, At, StageOf
<1>8. /\ req[r].user \in Users /\ req[r].amount \in Amounts
      /\ Dollars(req[r].amount) \in {Dollars(a) : a \in Amounts}
  BY <1>t, <1>2 DEF Firm
<1>9. r \in Withdrawals => Dollars(req[r].amount) >= Contract!MinDollars
  <2>1. req[r].amount \in Nat
    BY <1>8, WalletAssumption
  <2>2. r \in Withdrawals => req[r].amount >= 10
    BY <1>t, <1>2 DEF Firm, At, MinWithdrawal
  <2> QED BY <2>1, <2>2 DEF Dollars, Contract!MinDollars
<1>10. Deals[r] = Contract!NoDeal
  BY <1>4, <1>7 DEF Deals, DealOf, Contract!NoDeal
<1>11. DealOf(r)' = [stage |-> "pending", user |-> req[r].user,
                     amount |-> Dollars(req[r].amount), work |-> "whole"]
  BY <1>2, <1>3, <1>7 DEF DealOf
<1>12. Deals' = [Deals EXCEPT ![r] = [stage |-> "pending", user |-> req[r].user,
                                      amount |-> Dollars(req[r].amount), work |-> "whole"]]
  BY <1>5, <1>11, DealChange
<1>13. Paids' = Paids
  BY <1>1 DEF Paids, PaidOf, Doing
<1>14. Contract!Open(r, req[r].user, Dollars(req[r].amount))
  BY <1>1, <1>9, <1>10, <1>12, <1>13 DEF Contract!Open, Deals, Paids
<1>15. Firms'
  BY <1>5, <1>6, OneDeal DEF Firms
<1> QED BY <1>8, <1>14, <1>15 DEF Kept, Contract!ContractNext, Contract!All, Reqs

\* The chain confirms the transaction of a deposit.
LEMMA ConfirmKeeps ==
  ASSUME IInv, IInv', Firms, NEW d \in Deposits, Confirm(d)
  PROVE  Kept
<1>1. UNCHANGED <<tx, balance, job, att, timer, req, booked, dropped, sent>>
  BY DEF Confirm, rows, work, history
<1>2. Firms'
  BY <1>1 DEF Firms, Firm, At
<1>3. Deals' = Deals /\ Paids' = Paids
  BY <1>1 DEF Deals, DealOf, StageOf, WorkOf, Over, Stalled, At, Paids, PaidOf, Doing
<1>4. Contract!Confirm(d)
  BY <1>1, <1>3 DEF Confirm, Contract!Confirm, Deals, Paids
<1> QED BY <1>2, <1>4 DEF Kept, Contract!ContractNext

-----------------------------------------------------------------------------
(* Work that is cut short.                                                 *)

Cut(s) ==
  /\ WorkOf(s) # "over" /\ WorkOf(s)' \in {"broken", "over"}
  /\ WorkOf(s) = "broken" => WorkOf(s)' = "over"
  /\ DealOf(s)' = [DealOf(s) EXCEPT !.work = WorkOf(s)']
  /\ s \in Withdrawals /\ PaidOf(s)' # PaidOf(s) =>
       /\ PaidOf(s)' = PaidOf(s) + 1
       /\ tx[s].status # "none"
       /\ PaidOf(s) < 1 + job[s].stalls

LEMMA WorkIs ==
  ASSUME NEW s \in Reqs
  PROVE  DealOf(s).work = WorkOf(s) /\ (tx[s].status # "none" => DealOf(s).stage # "none")
BY DEF DealOf, StageOf

LEMMA CutStep ==
  ASSUME IInv, Firms', UNCHANGED <<balance, onChain, booked>>,
         \A s \in Reqs : Hidden(s) \/ Cut(s)
  PROVE  Kept
<1> DEFINE S == {s \in Reqs : ~Hidden(s)}
           L == {w \in Withdrawals : PaidOf(w)' # PaidOf(w)}
           how == [s \in Reqs |-> IF WorkOf(s)' = "broken" THEN "broken" ELSE "over"]
<1>1. S \in SUBSET Contract!All /\ how \in [Contract!All -> {"broken", "over"}]
  BY DEF Contract!All, Reqs
<1>2. L \in SUBSET (S \cap Withdrawals)
  BY DEF Hidden, Reqs
<1>3. ASSUME NEW s \in S
      PROVE  Deals[s].work # "over" /\ (Deals[s].work = "broken" => how[s] = "over")
  BY <1>3, WorkIs DEF Cut, Deals
<1>4. ASSUME NEW w \in L PROVE Deals[w].stage # "none" /\ Paids[w] < Contract!Runs(w)
  <2>1. w \in Reqs /\ Cut(w) /\ PaidOf(w)' # PaidOf(w)
    BY <1>2, <1>4
  <2>2. /\ Deals[w].stage # "none" /\ PaidOf(w) < 1 + job[w].stalls
        /\ Deals[w].work = WorkOf(w) /\ WorkOf(w) # "over" /\ Paids[w] = PaidOf(w)
    BY <1>4, <2>1, WorkIs DEF Cut, Deals, Paids
  <2>3. WorkOf(w) = IF job[w].stalls = 1 THEN "broken" ELSE "whole"
    BY <2>2 DEF WorkOf, Stalled
  <2>4. job[w].stalls \in {0, 1}
    BY <2>1 DEF IInv, TypeOK, Job
  <2>5. Contract!Runs(w) = 1 + job[w].stalls
    BY <2>2, <2>3, <2>4 DEF Contract!Runs, Deals
  <2> QED BY <2>2, <2>5
<1>5. Deals' = [s \in Contract!All |->
                  IF s \in S THEN [Deals[s] EXCEPT !.work = how[s]] ELSE Deals[s]]
  <2>1. ASSUME NEW s \in Reqs
        PROVE  DealOf(s)' = IF s \in S THEN [Deals[s] EXCEPT !.work = how[s]] ELSE Deals[s]
    <3>1. CASE s \in S
      <4>1. Cut(s) /\ how[s] = WorkOf(s)'
        BY <3>1 DEF Cut
      <4> QED BY <3>1, <4>1 DEF Cut, Deals
    <3>2. CASE s \notin S
      BY <3>2 DEF Hidden, Deals
    <3> QED BY <3>1, <3>2
  <2> HIDE DEF S, how
  <2> QED BY <2>1 DEF Deals, Contract!All, Reqs
<1>6. Paids' = [w \in Withdrawals |-> IF w \in L THEN Paids[w] + 1 ELSE Paids[w]]
  <2>1. ASSUME NEW w \in Withdrawals
        PROVE  PaidOf(w)' = IF w \in L THEN Paids[w] + 1 ELSE Paids[w]
    BY <1>2 DEF Cut, Paids
  <2> HIDE DEF L
  <2> QED BY <2>1 DEF Paids
<1> HIDE DEF S, L, how
<1>7. Contract!Interrupt(S, L, how)
  BY <1>3, <1>4, <1>5, <1>6 DEF Contract!Interrupt, Deals, Paids
<1> QED BY <1>1, <1>2, <1>7 DEF Kept, Contract!ContractNext

\* The handler or the attempt at one request is cut short.
LEMMA CutOne ==
  ASSUME IInv, Firms, NEW r \in Reqs, \A s \in Reqs \ {r} : Alike(s), Firm(r)', Cut(r),
         UNCHANGED <<balance, onChain, booked>>
  PROVE  Kept
<1>1. \A s \in Reqs \ {r} : Firm(s)' /\ Hidden(s)
  BY AlikeIsHidden DEF Firms
<1>2. Firms'
  BY <1>1 DEF Firms
<1> QED BY <1>1, <1>2, CutStep

LEMMA CallFailsKeeps ==
  ASSUME IInv, Firms, NEW r \in Reqs, CallFails(r)
  PROVE  Kept
<1>t. TypeOK /\ Handled(r) /\ Firm(r) /\ req[r] \in Request
  BY DEF IInv, InOrder, TypeOK, Firms
<1>1. UNCHANGED <<tx, balance, job, att, timer, onChain, booked, dropped, sent>>
  BY DEF CallFails, rows, work, history
<1>2. /\ req[r].pc \in HandlerSteps /\ req'[r].pc = "died"
      /\ req'[r].user = req[r].user /\ req'[r].amount = req[r].amount
      /\ \A s \in Reqs \ {r} : req'[s] = req[s]
  BY <1>t DEF CallFails, Goto, TypeOK, Request
<1>3. job[r].state = "none" /\ job[r].stalls = 0 /\ r \notin dropped
  BY <1>t, <1>2 DEF Handled, Firm
<1>4. \A s \in Reqs \ {r} : Alike(s)
  BY <1>1, <1>2 DEF Alike, Same
<1>5. Firm(r)'
  BY <1>t, <1>1, <1>2, <1>3 DEF Firm, At, HandlerSteps
<1>6. WorkOf(r) = "whole" /\ WorkOf(r)' = "over" /\ StageOf(r)' = StageOf(r)
  BY <1>1, <1>2, <1>3 DEF WorkOf, Over, Stalled, At, StageOf, HandlerSteps
<1>7. DealOf(r)' = [DealOf(r) EXCEPT !.work = "over"]
  BY <1>1, <1>2, <1>6 DEF DealOf
<1>8. PaidOf(r)' = PaidOf(r)
  BY <1>1 DEF PaidOf, Doing
<1> QED BY <1>1, <1>4, <1>5, <1>6, <1>7, <1>8, CutOne DEF Cut

\* What an attempt has paid out before it is cut short, and after.
LEMMA PaidAtCut ==
  ASSUME IInv, NEW w \in Withdrawals, att[w].step # "none", att'[w].step = "none",
         sent'[w] = sent[w] \/ (att[w].step = "send" /\ sent'[w] = sent[w] + 1)
  PROVE  PaidOf(w)' # PaidOf(w) =>
           PaidOf(w)' = PaidOf(w) + 1 /\ PaidOf(w) < 1 + job[w].stalls
<1>1. PaidOut(w) /\ sent[w] \in Nat /\ job[w].stalls \in {0, 1}
  BY DEF IInv, InOrder, TypeOK, Job, Reqs
<1> QED BY <1>1 DEF PaidOut, PaidOf, Doing

LEMMA AttemptEndsKeeps ==
  ASSUME IInv, Firms, NEW r \in Reqs, att[r].step # "none", job[r].state = "active",
         EndAttempt(r, "failed"),
         UNCHANGED <<tx, balance, timer, req, onChain, booked, dropped>>,
         \A w \in Withdrawals : w # r => sent'[w] = sent[w],
         r \in Withdrawals =>
           sent'[r] = sent[r] \/ (att[r].step = "send" /\ sent'[r] = sent[r] + 1)
  PROVE  Kept
<1>t. TypeOK /\ Firm(r)
  BY DEF IInv, Firms
<1>1. /\ att'[r].step = "none" /\ job'[r].state = "failed"
      /\ \A s \in Reqs \ {r} : att'[s] = att[s] /\ job'[s] = job[s]
  BY <1>t, EndEffect DEF JobStates
<1>2. \A s \in Reqs \ {r} : Alike(s)
  BY <1>1 DEF Alike, Same
<1>3. ~Over(r) /\ tx[r].status # "none" /\ r \notin dropped /\ ~At(r, "died")
  BY Working DEF Over
<1>4. Firm(r)'
  BY <1>t, <1>3 DEF Firm, At
<1>5. WorkOf(r) # "over" /\ WorkOf(r)' = "over" /\ StageOf(r)' = StageOf(r)
  BY <1>1, <1>3 DEF WorkOf, Over, StageOf
<1>6. DealOf(r)' = [DealOf(r) EXCEPT !.work = "over"]
  BY <1>5 DEF DealOf
<1>7. Cut(r)
  BY <1>1, <1>3, <1>5, <1>6, PaidAtCut DEF Cut
<1> QED BY <1>2, <1>4, <1>7, CutOne

\* The process dies: every handler, attempt and timer is cut short at once.
LEMMA RestartKeeps ==
  ASSUME IInv, IInv', Firms, Restart, UNCHANGED <<tx, balance, onChain, sent, booked>>
  PROVE  Kept
<1>1. ASSUME NEW s \in Reqs PROVE Firm(s)' /\ (Hidden(s) \/ Cut(s))
  <2>t. /\ Handled(s) /\ OneAttempt(s) /\ Firm(s)
        /\ job[s] \in Job /\ job[s].stalls \in {0, 1} /\ req[s] \in Request
    BY DEF IInv, InOrder, TypeOK, Firms, Job
  <2>1. /\ att'[s].step = "none" /\ s \notin timer'
        /\ job[s].state # "active" => job'[s] = job[s]
        /\ job[s].state = "active" /\ job[s].stalls = 0 =>
             job'[s].state = "waiting" /\ job'[s].stalls = 1
        /\ job[s].state = "active" /\ job[s].stalls = 1 =>
             job'[s].state = "failed" /\ job'[s].stalls = 1
    BY <2>t DEF Restart, Stall, NoAttempt, Job
  <2>2. /\ req'[s].user = req[s].user /\ req'[s].amount = req[s].amount
        /\ req'[s].pc = IF req[s].pc \in HandlerSteps THEN "died" ELSE req[s].pc
    <3>1. CASE req[s].pc \in HandlerSteps
      <4>1. req'[s] = [req[s] EXCEPT !.pc = "died"]
        BY <3>1 DEF Restart
      <4> QED BY <2>t, <3>1, <4>1 DEF Request
    <3>2. CASE req[s].pc \notin HandlerSteps
      <4>1. req'[s] = req[s]
        BY <3>2 DEF Restart
      <4> QED BY <3>2, <4>1
    <3> QED BY <3>1, <3>2
  <2>3. s \in dropped' <=> \/ s \in dropped \/ s \in timer
                           \/ s \in Deposits /\ att[s].step # "none" /\ job[s].state # "active"
    BY DEF Restart
  <2>4. PaidOf(s)' # PaidOf(s) /\ s \in Withdrawals =>
          /\ PaidOf(s)' = PaidOf(s) + 1 /\ tx[s].status # "none"
          /\ PaidOf(s) < 1 + job[s].stalls /\ att[s].step # "none"
    <3>1. SUFFICES ASSUME s \in Withdrawals, PaidOf(s)' # PaidOf(s)
                   PROVE  /\ PaidOf(s)' = PaidOf(s) + 1 /\ tx[s].status # "none"
                          /\ PaidOf(s) < 1 + job[s].stalls /\ att[s].step # "none"
      OBVIOUS
    <3>2. att[s].step # "none"
      BY <3>1, <2>1 DEF PaidOf, Doing
    <3> QED BY <2>1, <3>1, <3>2, PaidAtCut, Working
  <2>5. StageOf(s)' = StageOf(s)
    BY DEF StageOf
  <2>6. DealOf(s)' = [DealOf(s) EXCEPT !.work = WorkOf(s)']
    BY <2>2, <2>5 DEF DealOf
  <2>7. Firm(s)'
    BY <2>t, <2>1, <2>2, <2>3, WalletAssumption
       DEF Firm, Handled, OneAttempt, At, HandlerSteps
  <2>8. CASE req[s].pc \in HandlerSteps
    <3>1. job[s].state = "none" /\ job[s].stalls = 0 /\ att[s].step = "none"
      BY <2>t, <2>8 DEF Handled
    <3>2. WorkOf(s) = "whole" /\ WorkOf(s)' = "over"
      BY <2>t, <2>1, <2>2, <2>8, <3>1 DEF WorkOf, Over, Stalled, At, Firm, HandlerSteps
    <3>3. Cut(s)
      BY <2>4, <2>6, <3>1, <3>2 DEF Cut
    <3> QED BY <2>7, <3>3
  <2>9. CASE req[s].pc \notin HandlerSteps /\ job[s].state = "active"
    <3>1. /\ WorkOf(s) = IF job[s].stalls = 0 THEN "whole" ELSE "broken"
          /\ WorkOf(s)' = IF job[s].stalls = 0 THEN "broken" ELSE "over"
      BY <2>t, <2>1, <2>2, <2>3, <2>9 DEF WorkOf, Over, Stalled, At, Firm, OneAttempt
    <3>2. Cut(s)
      BY <2>t, <2>4, <2>6, <3>1 DEF Cut
    <3> QED BY <2>7, <3>2
  <2>10. CASE /\ req[s].pc \notin HandlerSteps /\ job[s].state # "active"
              /\ s \in timer \/ att[s].step # "none"
    <3>1. s \in Deposits /\ job[s].state = "completed" /\ s \notin dropped /\ s \in dropped'
      BY <2>t, <2>3, <2>10 DEF OneAttempt, Firm
    <3>2. WorkOf(s) # "over" /\ WorkOf(s)' = "over"
      BY <2>t, <3>1 DEF WorkOf, Over, Firm
    <3>3. Cut(s)
      BY <2>6, <3>1, <3>2, WalletAssumption DEF Cut
    <3> QED BY <2>7, <3>3
  <2>11. CASE /\ req[s].pc \notin HandlerSteps /\ job[s].state # "active"
              /\ s \notin timer /\ att[s].step = "none"
    <3>1. WorkOf(s)' = WorkOf(s)
      BY <2>1, <2>2, <2>3, <2>11 DEF WorkOf, Over, Stalled, At
    <3>2. Hidden(s)
      BY <2>2, <2>4, <2>5, <2>11, <3>1 DEF Hidden, DealOf
    <3> QED BY <2>7, <3>2
  <2> QED BY <2>8, <2>9, <2>10, <2>11
<1>2. Firms'
  BY <1>1 DEF Firms
<1> QED BY <1>1, <1>2, CutStep

LEMMA ThrowsKeeps ==
  ASSUME IInv, IInv', Firms, NEW r \in Reqs, att[r].step # "none", Throws(r),
         UNCHANGED <<tx, balance, onChain, sent, booked>>
  PROVE  Kept
<1>1. CASE Restart
  BY <1>1, RestartKeeps
<1>2. CASE /\ job[r].state = "active"
           /\ EndAttempt(r, "failed") /\ UNCHANGED <<timer, req, dropped>>
  BY <1>2, AttemptEndsKeeps
<1> QED BY <1>1, <1>2 DEF Throws

LEMMA FailuresKeep ==
  ASSUME IInv, IInv', Firms,
         \/ \E r \in Reqs : NotifyOffline(r) \/ AttemptFails(r) \/ CallFails(r)
         \/ \E w \in Withdrawals : PayoutRejected(w) \/ PayoutUnconfirmed(w)
         \/ Crash
  PROVE  Kept
<1>t. TypeOK
  BY DEF IInv
<1>1. ASSUME NEW r \in Reqs, NotifyOffline(r) \/ AttemptFails(r) PROVE Kept
  BY <1>1, ThrowsKeeps DEF NotifyOffline, AttemptFails, rows, redis
<1>2. ASSUME NEW w \in Withdrawals, EndAttempt(w, "failed"),
             PayoutRejected(w) \/ PayoutUnconfirmed(w)
      PROVE  Kept
  <2>1. w \in Reqs /\ att[w].step = "send"
    BY <1>2 DEF Reqs, PayoutRejected, PayoutUnconfirmed, Doing
  <2>2. job[w].state = "active"
    BY <2>1, Working
  <2>3. UNCHANGED <<tx, balance, timer, req, onChain, booked, dropped>>
    BY <1>2 DEF PayoutRejected, PayoutUnconfirmed, rows, history
  <2>4. /\ sent'[w] = sent[w] \/ sent'[w] = sent[w] + 1
        /\ \A v \in Withdrawals : v # w => sent'[v] = sent[v]
    BY <1>t, <1>2 DEF PayoutRejected, PayoutUnconfirmed, history, TypeOK
  <2> QED BY <1>2, <2>1, <2>2, <2>3, <2>4, AttemptEndsKeeps
<1>3. ASSUME NEW w \in Withdrawals, PayoutRejected(w), ~EndAttempt(w, "failed") PROVE Kept
  <2>1. w \in Reqs /\ att[w].step = "send" /\ Then(w, "markFailed")
    BY <1>3 DEF Reqs, PayoutRejected, Doing
  <2>2. att'[w].step = "markFailed" /\ \A s \in Reqs \ {w} : att'[s] = att[s]
    BY <1>t, <2>1, ThenEffect DEF Steps, WithdrawalSteps
  <2>3. UNCHANGED <<tx, balance, job, timer, req, onChain, booked, dropped, sent>>
    BY <1>3 DEF PayoutRejected, rows, history
  <2> QED BY <2>1, <2>2, <2>3, MovesOn DEF PaidOf, Doing
<1>4. Crash => Kept
  BY RestartKeeps DEF Crash, rows, redis
<1> QED BY <1>1, <1>2, <1>3, <1>4, CallFailsKeeps DEF PayoutUnconfirmed

LEMMA FirmAtStart == Init => Firms
BY DEF Init, Firms, Firm, NotSent, At

LEMMA ContractStart == Init => Contract!ContractInit
<1> SUFFICES ASSUME Init PROVE Contract!ContractInit
  OBVIOUS
<1>1. \A r \in Reqs : DealOf(r) = Contract!NoDeal
  BY DEF Init, NotSent, DealOf, WorkOf, Over, Stalled, At, Contract!NoDeal
<1>2. \A w \in Withdrawals : PaidOf(w) = 0
  BY DEF Init, NoAttempt, PaidOf, Doing, Reqs
<1> QED BY <1>1, <1>2 DEF Init, Contract!ContractInit, Contract!All, Reqs

LEMMA NextKeeps ==
  ASSUME IInv, IInv', Firms, Next
  PROVE  Kept
<1>1. ASSUME NEW r \in Reqs, Arrives(r) PROVE Kept
  BY <1>1, HandlerKeeps
<1>2. ASSUME NEW r \in Reqs, Handles(r) PROVE Kept
  BY <1>2, HandlerKeeps, InitiateKeeps DEF Handles
<1>3. ASSUME NEW r \in Reqs, StartJob(r) PROVE Kept
  BY <1>3, StartKeeps
<1>4. ASSUME NEW r \in Withdrawals, Pays(r) PROVE Kept
  BY <1>4, StepKeeps, BookKeeps, MarkKeeps, EndKeeps, FailuresKeep DEF Pays, Reqs
<1>5. ASSUME NEW r \in Deposits, Confirms(r) PROVE Kept
  BY <1>5, StepKeeps, BookKeeps, MarkKeeps, EndKeeps DEF Confirms, Reqs
<1>6. ASSUME NEW r \in Reqs, MarkSuccess(r) \/ Notify(r) \/ NotifyOffline(r) \/ Mail(r) PROVE Kept
  BY <1>6, StepKeeps, MarkKeeps, EndKeeps, FailuresKeep DEF Reqs
<1>7. ASSUME NEW r \in Reqs, AttemptFails(r) \/ CallFails(r) PROVE Kept
  BY <1>7, FailuresKeep
<1>8. ASSUME NEW w \in Withdrawals, PayoutUnconfirmed(w) PROVE Kept
  BY <1>8, FailuresKeep
<1>9. ASSUME NEW d \in Deposits, FireTimer(d) \/ Confirm(d) PROVE Kept
  BY <1>9, StartKeeps, ConfirmKeeps DEF Reqs
<1>10. ASSUME NEW k \in Keys, KeyExpires(k) PROVE Kept
  BY <1>10, ExpiryKeeps
<1>11. ASSUME Crash PROVE Kept
  BY <1>11, FailuresKeep
<1>12. ASSUME NEW r \in Reqs, Attempts(r) PROVE Kept
  BY <1>4, <1>5, <1>6, <1>12 DEF Attempts
<1> QED BY <1>1, <1>2, <1>3, <1>7, <1>8, <1>9, <1>10, <1>11, <1>12 DEF Next

LEMMA RestKeeps ==
  ASSUME Firms, UNCHANGED vars
  PROVE  Kept
<1>1. Firms'
  BY DEF vars, Firms, Firm, At
<1>2. Deals' = Deals /\ Paids' = Paids
  BY DEF vars, Deals, DealOf, StageOf, WorkOf, Over, Stalled, At, Paids, PaidOf, Doing
<1>3. UNCHANGED Contract!contractVars
  BY <1>2 DEF vars, Contract!contractVars, Deals, Paids
<1> QED BY <1>1, <1>3 DEF Kept

\* For any users, requests and keys, any interleaving of handlers, jobs and timers
\* and any faults, the wallet service implements its contract: a withdrawal is paid
\* out and debited as one step, a deposit credited once, a failed transaction has
\* moved nothing, and only work that was cut short is an exception.
THEOREM WalletImplementsContract == Spec => KeepsWalletContract
<1>1. IInv /\ IInv' /\ Firms /\ [Next]_vars =>
        Firms' /\ [Contract!ContractNext]_(Contract!contractVars)
  BY NextKeeps, RestKeeps DEF Kept
<1> QED BY Inductive, FirmAtStart, ContractStart, <1>1, PTL
        DEF Spec, KeepsWalletContract, Contract!ContractSpec
=============================================================================
