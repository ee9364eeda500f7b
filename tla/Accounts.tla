------------------------------ MODULE Accounts ------------------------------
(***************************************************************************)
(* The users table: sign up (apps/auth, and the gateway's Google           *)
(* strategy), two factor authentication, and the user service's profiles,  *)
(* deletion and transfers, together with what the wager and the wallet     *)
(* service do to User.balance, in the form in which Wager and Wallet have  *)
(* it: a stake checks a balance it reads, a withdrawal checks the one read *)
(* when the gateway authenticated the request, and both debit later.       *)
(*                                                                         *)
(* An action is what a handler does between two awaits.  An input is       *)
(* chosen in the step that first uses it.  Log in, the check of a two      *)
(* factor token and the look-ups only read, and are left out.  A service   *)
(* that dies takes its handlers with it, each as if its call had rejected; *)
(* what becomes of jobs and timers then is in Wager and Wallet.            *)
(***************************************************************************)
EXTENDS Integers, FiniteSets, Functions

CONSTANTS
  Ids, NoId,        \* ids that the table gives out, each once
  Members,          \* the ids given out at the start
  Emails, NoEmail,
  Names, NoName,    \* usernames
  Openings,         \* the balances members may have at the start
  Amounts,          \* amounts of transfers, stakes, withdrawals and deposits
  Reqs, NoReq,      \* requests, each sent at most once
  MaxFaults         \* bound on the calls that reject in a behaviour

ASSUME AccountsAssumption ==
  /\ NoId \notin Ids /\ Members \subseteq Ids
  /\ NoEmail \notin Emails /\ NoName \notin Names /\ NoReq \notin Reqs
  /\ Openings \subseteq Nat /\ Amounts \subseteq Nat \ {0}
  /\ MaxFaults \in Nat

VARIABLES
  user,    \* the user table; a row that is deleted keeps its last contents
  req,     \* the requests: where each handler is, and its locals
  faults   \* calls that have rejected so far

vars == <<user, req, faults>>

\* A secret is named by the request that stored it.
User == [state : {"none", "live", "deleted"}, email : Emails \cup {NoEmail},
         username : Names \cup {NoName}, balance : Int, opened : Nat,
         twoFAEnabled : BOOLEAN, twoFASecret : Reqs \cup {NoReq},
         edited : BOOLEAN]  \* history: a profile update has set one of the two

NewUser(e, n, b) ==
  [state |-> "live", email |-> e, username |-> n, balance |-> b, opened |-> b,
   twoFAEnabled |-> FALSE, twoFASecret |-> NoReq, edited |-> FALSE]

NoUser == [NewUser(NoEmail, NoName, 0) EXCEPT !.state = "none"]

Live(u) == u \in Ids /\ user[u].state = "live"

\* What a handler is about to do.
Steps == {"find", "create", "welcome", "update", "enable", "show", "disable",
          "decide", "debit", "credit", "read", "stake", "check", "charge", "deposit"}

Request ==
  [pc : Steps \cup {"idle", "done", "died"},
   kind : {"none", "signup", "google", "profile", "enable", "disable", "delete",
           "transfer", "stake", "withdraw", "deposit"},
   who : Ids \cup {NoId},         \* the user who travels with the request
   seen : Int,                    \* the balance of who when it was read
   email : Emails \cup {NoEmail}, \* the email Google vouches for
   amount : Amounts \cup {0},
   paid : BOOLEAN,                \* history: has who been debited?
   to : Ids \cup {NoId},          \* history: the user that was credited
   overtaken : SUBSET {"raised", "lowered"}]  \* history: the balance since then

NoRequest == [pc |-> "idle", kind |-> "none", who |-> NoId, seen |-> 0,
              email |-> NoEmail, amount |-> 0, paid |-> FALSE, to |-> NoId,
              overtaken |-> {}]

Init ==
  /\ \E emails \in [Members -> Emails], names \in [Members -> Names],
        balances \in [Members -> Openings] :
       /\ \A u, v \in Members : u # v => emails[u] # emails[v] /\ names[u] # names[v]
       /\ user = [u \in Ids |-> IF u \in Members
                                THEN NewUser(emails[u], names[u], balances[u])
                                ELSE NoUser]
  /\ req = [r \in Reqs |-> NoRequest]
  /\ faults = 0

At(r, p) == req[r].pc = p
Goto(r, p) == req' = [req EXCEPT ![r].pc = p]

\* The handler of q goes by a balance of u that it, or the gateway, has read.
Remembers(q, u) == req[q].who = u /\ req[q].pc \in {"decide", "check", "charge", "stake"}

\* One update of a balance by request r, which goes on as next.  It overtakes
\* those who remember an older balance.
Book(u, change, r, next) ==
  /\ user' = [user EXCEPT ![u].balance = @ + change]
  /\ req' = [q \in Reqs |->
       IF q = r THEN next
       ELSE IF Remembers(q, u)
       THEN [req[q] EXCEPT !.overtaken = @ \cup {IF change < 0 THEN "lowered" ELSE "raised"}]
       ELSE req[q]]

\* The handler is through, or its call has rejected, and forgets what it read.
Ends(r, p) == [req[r] EXCEPT !.pc = p, !.seen = 0, !.email = NoEmail]
Finish(r) == req' = [req EXCEPT ![r] = Ends(r, "done")]
Refuse(r) == Finish(r) /\ UNCHANGED user

\* The gateway authenticates a request: it reads the user, who travels along.
Send(r, u, x) ==
  /\ At(r, "idle")
  /\ Live(u)
  /\ req' = [req EXCEPT ![r] = [x EXCEPT !.who = u, !.seen = user[u].balance]]
  /\ UNCHANGED <<user, faults>>

Begin(pc, kind) == [NoRequest EXCEPT !.pc = pc, !.kind = kind]

-----------------------------------------------------------------------------
(* Mutated forms of the operators below.                                   *)

\* Unique: only the username is a unique column.
Unique_Names(u, e, n) ==
  \A v \in Ids \ {u} : Live(v) => user[v].username # n

\* Kept: only the balances that are too small to be withdrawn are guarded.
Kept_SmallOnly(b) == 1 < b /\ b < 5

\* SendTransfer: the recipient is credited before the sender is debited.
SendTransfer_CreditFirst(r, u) ==
  \E a \in Amounts : Send(r, u, [Begin("credit", "transfer") EXCEPT !.amount = a])

\* CheckFunds: only the minimum is checked.
CheckFunds_MinimumOnly(r) ==
  /\ At(r, "check")
  /\ \E a \in Amounts :
       IF a < 5 \/ ~Live(req[r].who) THEN Refuse(r)
       ELSE /\ req' = [req EXCEPT ![r].pc = "charge", ![r].amount = a]
            /\ UNCHANGED user
  /\ UNCHANGED faults

\* DisableTwoFactor: the secret stays.
DisableTwoFactor_SecretKept(r) ==
  /\ At(r, "disable")
  /\ IF Live(req[r].who)
     THEN user' = [user EXCEPT ![req[r].who].twoFAEnabled = FALSE, ![req[r].who].edited = FALSE]
     ELSE UNCHANGED user
  /\ Finish(r)
  /\ UNCHANGED faults

-----------------------------------------------------------------------------
\* email and username are unique columns.
Unique(u, e, n) ==
  \A v \in Ids \ {u} : Live(v) => user[v].email # e /\ user[v].username # n

(* Sign up *)

SendSignup(r) ==
  /\ At(r, "idle")
  /\ req' = [req EXCEPT ![r].pc = "create", ![r].kind = "signup"]
  /\ UNCHANGED <<user, faults>>

SendGoogle(r, e) ==
  /\ At(r, "idle")
  /\ req' = [req EXCEPT ![r].pc = "find", ![r].kind = "google", ![r].email = e]
  /\ UNCHANGED <<user, faults>>

\* Google's callback looks the email up: a user who is there logs in.
FindUser(r) ==
  /\ At(r, "find")
  /\ IF \E u \in Ids : Live(u) /\ user[u].email = req[r].email
     THEN Finish(r)
     ELSE Goto(r, "create")
  /\ UNCHANGED <<user, faults>>

\* A sign up through Google makes up a username, which may be taken as well.
CreateUser(r) ==
  /\ At(r, "create")
  /\ \E e \in Emails, n \in Names :
       /\ req[r].email \in {e, NoEmail}
       /\ IF Unique(NoId, e, n)
          THEN \E u \in Ids : /\ user[u].state = "none"
                              /\ user' = [user EXCEPT ![u] = NewUser(e, n, 0)]
                              /\ Goto(r, "welcome")
          ELSE Refuse(r)
  /\ UNCHANGED faults

\* The welcome mail is queued before the answer; when that fails the sign up
\* is refused although the account is there.
QueueWelcome(r) ==
  /\ At(r, "welcome")
  /\ Finish(r)
  /\ UNCHANGED <<user, faults>>

-----------------------------------------------------------------------------
(* Requests of users *)

(* Two factor authentication *)

SendEnable(r, u) == Send(r, u, Begin("enable", "enable"))

\* The row has the new secret before anybody has seen it.
EnableTwoFactor(r) ==
  /\ At(r, "enable")
  /\ LET u == req[r].who
     IN  IF Live(u)
         THEN /\ user' = [user EXCEPT ![u].twoFAEnabled = TRUE, ![u].twoFASecret = r,
                                      ![u].edited = FALSE]
              /\ Goto(r, "show")
         ELSE Refuse(r)
  /\ UNCHANGED faults

ShowCode(r) ==
  /\ At(r, "show")
  /\ Finish(r)
  /\ UNCHANGED <<user, faults>>

SendDisable(r, u) == Send(r, u, Begin("disable", "disable"))

DisableTwoFactor(r) ==
  /\ At(r, "disable")
  /\ LET u == req[r].who
     IN  IF Live(u)
         THEN user' = [user EXCEPT ![u].twoFAEnabled = FALSE, ![u].twoFASecret = NoReq,
                                   ![u].edited = FALSE]
         ELSE UNCHANGED user
  /\ Finish(r)
  /\ UNCHANGED faults

(* Profiles *)

SendProfile(r, u) == Send(r, u, Begin("update", "profile"))

\* Each field of the request is optional, and the two factor fields are among
\* them: the others keep their value.
UpdateProfile(r) ==
  /\ At(r, "update")
  /\ LET u == req[r].who
     IN  \E e \in Emails, n \in Names, on \in BOOLEAN, s \in {user[u].twoFASecret, r} :
           IF Live(u) /\ Unique(u, e, n)
           THEN user' = [user EXCEPT ![u].email = e, ![u].username = n,
                                     ![u].twoFAEnabled = on, ![u].twoFASecret = s,
                                     ![u].edited = @ \/ on # user[u].twoFAEnabled
                                                     \/ s # user[u].twoFASecret]
           ELSE UNCHANGED user
  /\ Finish(r)
  /\ UNCHANGED faults

SendDelete(r, u) == Send(r, u, Begin("decide", "delete"))

\* The balances with which an account is not deleted.
Kept(b) == (1 < b /\ b < 5) \/ b > 5

DeleteAccount(r) ==
  /\ At(r, "decide")
  /\ IF ~Kept(req[r].seen) /\ Live(req[r].who)
     THEN user' = [user EXCEPT ![req[r].who].state = "deleted"]
     ELSE UNCHANGED user
  /\ Finish(r)
  /\ UNCHANGED faults

(* Transfers *)

SendTransfer(r, u) ==
  \E a \in Amounts : Send(r, u, [Begin("debit", "transfer") EXCEPT !.amount = a])

DebitSender(r) ==
  /\ At(r, "debit")
  /\ IF Live(req[r].who)
     THEN Book(req[r].who, -req[r].amount, r, [req[r] EXCEPT !.pc = "credit", !.paid = TRUE])
     ELSE Refuse(r)
  /\ UNCHANGED faults

\* Whoever has the username by now is credited; if nobody has, the update throws.
CreditRecipient(r) ==
  /\ At(r, "credit")
  /\ \E n \in Names :
       IF \E u \in Ids : Live(u) /\ user[u].username = n
       THEN \E u \in Ids : /\ Live(u) /\ user[u].username = n
                           /\ Book(u, req[r].amount, r, [Ends(r, "done") EXCEPT !.to = u])
       ELSE Refuse(r)
  /\ UNCHANGED faults

-----------------------------------------------------------------------------
(* The balance in the other services *)

(* createWager and joinWager *)

SendStake(r, u) == Send(r, u, Begin("read", "stake"))

ReadBalance(r) ==
  /\ At(r, "read")
  /\ \E a \in Amounts :
       IF Live(req[r].who) /\ a <= user[req[r].who].balance
       THEN /\ req' = [req EXCEPT ![r].pc = "stake", ![r].amount = a,
                                  ![r].seen = user[req[r].who].balance]
            /\ UNCHANGED user
       ELSE Refuse(r)
  /\ UNCHANGED faults

\* The debit after a check, of a stake or of a withdrawal that is paid out.
DebitChecked(r) ==
  /\ req[r].pc \in {"stake", "charge"}
  /\ IF Live(req[r].who)
     THEN Book(req[r].who, -req[r].amount, r, [Ends(r, "done") EXCEPT !.paid = TRUE])
     ELSE Refuse(r)
  /\ UNCHANGED faults

(* withdrawal *)

SendWithdrawal(r, u) == Send(r, u, Begin("check", "withdraw"))

\* The row of the transaction needs its user.
CheckFunds(r) ==
  /\ At(r, "check")
  /\ \E a \in Amounts :
       IF req[r].seen < a \/ a < 5 \/ ~Live(req[r].who) THEN Refuse(r)
       ELSE /\ req' = [req EXCEPT ![r].pc = "charge", ![r].amount = a]
            /\ UNCHANGED user
  /\ UNCHANGED faults

(* deposit *)

SendDeposit(r, u) == Send(r, u, Begin("deposit", "deposit"))

\* A deposit is confirmed; prizes and refunds are credited the same way.
CreditDeposit(r) ==
  /\ At(r, "deposit")
  /\ IF Live(req[r].who)
     THEN \E a \in Amounts :
            Book(req[r].who, a, r, [Ends(r, "done") EXCEPT !.amount = a, !.to = req[r].who])
     ELSE Refuse(r)
  /\ UNCHANGED faults

-----------------------------------------------------------------------------

\* A call of the handler to the database or the queue rejects.
CallFails(r) ==
  /\ faults < MaxFaults
  /\ req[r].pc \in Steps
  /\ faults' = faults + 1
  /\ req' = [req EXCEPT ![r] = Ends(r, "died")]
  /\ UNCHANGED user

Signs(r) ==
  \/ SendSignup(r) \/ \E e \in Emails : SendGoogle(r, e)
  \/ FindUser(r) \/ CreateUser(r) \/ QueueWelcome(r)

Secures(r) ==
  \/ \E u \in Ids : SendEnable(r, u) \/ SendDisable(r, u)
  \/ EnableTwoFactor(r) \/ ShowCode(r) \/ DisableTwoFactor(r)

Serves(r) ==
  \/ \E u \in Ids : SendProfile(r, u) \/ SendDelete(r, u) \/ SendTransfer(r, u)
  \/ UpdateProfile(r) \/ DeleteAccount(r) \/ DebitSender(r) \/ CreditRecipient(r)

Spends(r) ==
  \/ \E u \in Ids : SendStake(r, u) \/ SendWithdrawal(r, u) \/ SendDeposit(r, u)
  \/ ReadBalance(r) \/ CheckFunds(r) \/ DebitChecked(r) \/ CreditDeposit(r)

Next == \E r \in Reqs : Signs(r) \/ Secures(r) \/ Serves(r) \/ Spends(r) \/ CallFails(r)

Spec == Init /\ [][Next]_vars

-----------------------------------------------------------------------------

\* Includes what the unique columns promise.
TypeOK ==
  /\ user \in [Ids -> User]
  /\ req \in [Reqs -> Request]
  /\ faults \in 0 .. MaxFaults
  /\ \A u, v \in Ids : u # v /\ Live(u) /\ Live(v) =>
       user[u].email # user[v].email /\ user[u].username # user[v].username

Sum(S) == SumFunctionOnSet([r \in Reqs |-> req[r].amount], S)

\* Whatever fails in between, a balance is what it was at first plus what was
\* credited and minus what was debited, and a transfer credits only what it has
\* debited: the half that a failure leaves undone loses money and makes none.
MoneyTraced ==
  /\ \A u \in Ids : user[u].balance = user[u].opened
       + Sum({r \in Reqs : req[r].to = u})
       - Sum({r \in Reqs : req[r].paid /\ req[r].who = u})
  /\ \A r \in Reqs : req[r].kind = "transfer" /\ req[r].to # NoId => req[r].paid

\* A balance is negative only after a transfer, which is not checked at all, or
\* a stake or withdrawal that another debit of that user has overtaken between
\* its check and its own debit: the checks of both services guard against
\* anything but overlaps, a deletion or a deposit in between included.
OverdraftsOvertaken ==
  \A u \in Ids : user[u].balance < 0 =>
    \E r \in Reqs : /\ req[r].who = u /\ req[r].paid
                    /\ req[r].kind = "transfer" \/ "lowered" \in req[r].overtaken

\* An account is deleted with $5, at most $1, or a balance that was written
\* after its owner's request to delete it had been authenticated.
DeletedPoor ==
  [][\A u \in Ids : user[u].state = "live" /\ user'[u].state = "deleted" =>
       \E r \in Reqs :
         /\ At(r, "decide") /\ req'[r].pc = "done" /\ req[r].who = u
         /\ \/ user[u].balance <= 1 \/ user[u].balance = 5
            \/ req[r].overtaken # {}]_vars

\* Two factor authentication is on exactly when there is a secret, and the
\* secret is one whose code its owner has been shown, is about to be, or was
\* not because the call that draws it failed; unless a profile update has set
\* either by itself.
TwoFactorBacked ==
  \A u \in Ids : Live(u) /\ ~user[u].edited =>
    LET s == user[u].twoFASecret
    IN  /\ user[u].twoFAEnabled <=> s # NoReq
        /\ s # NoReq => /\ req[s].kind = "enable" /\ req[s].who = u
                        /\ req[s].pc \in {"show", "done", "died"}
=============================================================================
