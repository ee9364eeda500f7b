--------------------------- MODULE PasswordReset ---------------------------
(***************************************************************************)
(* The reset of a password in the auth service (apps/auth).  A user asks   *)
(* for a reset, may have the code sent again, enters it, and sets a new    *)
(* password: separate requests that only have in common the one object     *)
(* sessionData of the controller, which serves all users, and the sessions *)
(* in Redis, which are kept by email.                                      *)
(*                                                                         *)
(* An action is what a handler does between two awaits.  Redis serves the  *)
(* calls of the service in the order in which they are made.  A code is    *)
(* named by the request that made it.  Entering a code (verifyOtp) changes *)
(* nothing and the request after it does not look at its outcome, so it is *)
(* left out, and the expiration of codes with it.                          *)
(***************************************************************************)
EXTENDS Integers

CONSTANTS
  Emails, NoEmail,  \* emails of users; their accounts exist
  Reqs, NoReq,      \* requests, each sent at most once
  MaxFaults         \* bound on the crashes and failed calls of a behaviour

ASSUME ResetAssumption ==
  /\ NoEmail \notin Emails /\ NoReq \notin Reqs /\ MaxFaults \in Nat

VARIABLES
  data,      \* sessionData: whose reset is under way, and its code
  sessions,  \* the sessions in Redis: a function of the emails that have one
  password,  \* the request that set the password of each user
  req,       \* the requests: where each handler is, and its locals
  faults     \* crashes and failed calls so far

vars == <<data, sessions, password, req, faults>>

SessionData == [email : Emails \cup {NoEmail}, otp : Reqs \cup {NoReq}]
Cleared == [email |-> NoEmail, otp |-> NoReq]

\* About to store a code, renew it, mail it, change the password, clear the data.
Steps == {"store", "renew", "mail", "change", "clear"}
Request == [pc : Steps \cup {"idle", "done", "died"},
            kind : {"none", "reset", "resend", "change"}, email : Emails \cup {NoEmail},
            to : Emails \cup {NoEmail}, code : Reqs \cup {NoReq}]  \* the mail it sent
NoRequest == [pc |-> "idle", kind |-> "none", email |-> NoEmail, to |-> NoEmail, code |-> NoReq]

Init ==
  /\ data = Cleared
  /\ sessions = <<>>
  /\ password = [e \in Emails |-> NoReq]
  /\ req = [r \in Reqs |-> NoRequest]
  /\ faults = 0

At(r, p) == req[r].pc = p
Goto(r, p) == req' = [req EXCEPT ![r].pc = p]
Begin(r, p, k, e) ==
  req' = [req EXCEPT ![r] = [NoRequest EXCEPT !.pc = p, !.kind = k, !.email = e]]

\* sessionService.set: the handler goes on, or Redis rejects and it ends.
Store(r, e, value, next) ==
  \/ /\ sessions' = [x \in DOMAIN sessions \cup {e} |-> IF x = e THEN value ELSE sessions[x]]
     /\ req' = [req EXCEPT ![r].pc = next, ![r].email = e]
     /\ UNCHANGED faults
  \/ /\ faults < MaxFaults
     /\ faults' = faults + 1
     /\ req' = [req EXCEPT ![r].pc = "died", ![r].email = e]
     /\ UNCHANGED sessions

\* sessionService.get finds a session of a reset; without an email, a session,
\* or an email in it the handler throws.
InReset(e) == e \in DOMAIN sessions /\ sessions[e].email # NoEmail

-----------------------------------------------------------------------------
(* Mutated forms of the operators below.                                   *)

\* StoreOtp: the session is stored before the code is made.
StoreOtp_Swapped(r) ==
  /\ At(r, "store")
  /\ Store(r, req[r].email, [email |-> req[r].email, otp |-> data.otp], "mail")
  /\ data' = [email |-> req[r].email, otp |-> r]
  /\ UNCHANGED password

\* RenewOtp: the session is stored without an email, too.
RenewOtp_Anyway(r) ==
  /\ At(r, "renew")
  /\ data' = [data EXCEPT !.otp = r]
  /\ Store(r, data.email, [data EXCEPT !.otp = r], "mail")
  /\ UNCHANGED password

\* RenewOtp: the session is stored for the email that it was read for.
RenewOtp_SeenKey(r) ==
  /\ At(r, "renew")
  /\ data' = [data EXCEPT !.otp = r]
  /\ Store(r, req[r].email, [data EXCEPT !.otp = r], "mail")
  /\ UNCHANGED password

\* MailOtp: a code that is sent again goes to the user who asked for it.
MailOtp_SeenUser(r) ==
  /\ At(r, "mail")
  /\ req' = [req EXCEPT ![r].pc = "done", ![r].to = req[r].email, ![r].code = data.otp]
  /\ UNCHANGED <<data, sessions, password, faults>>

\* ChangePassword: the user is the one whose reset is under way.
ChangePassword_Shared(r) ==
  /\ At(r, "change")
  /\ data.email # NoEmail
  /\ password' = [password EXCEPT ![data.email] = r]
  /\ Goto(r, "clear")
  /\ UNCHANGED <<data, sessions, faults>>

\* ClearSession: only the session is cleared, the data in memory is kept.
ClearSession_DataKept(r) ==
  /\ At(r, "clear")
  /\ Store(r, req[r].email, Cleared, "done")
  /\ UNCHANGED <<data, password>>

-----------------------------------------------------------------------------
(* requestPasswordReset *)

SendReset(r, e) ==
  /\ At(r, "idle")
  /\ Begin(r, "store", "reset", e)
  /\ UNCHANGED <<data, sessions, password, faults>>

StoreOtp(r) ==
  /\ At(r, "store")
  /\ data' = [email |-> req[r].email, otp |-> r]
  /\ Store(r, req[r].email, [email |-> req[r].email, otp |-> r], "mail")
  /\ UNCHANGED password

\* The mail has the code that is in sessionData by now; a code that is sent
\* again goes to the user who is in sessionData by now.
MailOtp(r) ==
  /\ At(r, "mail")
  /\ req' = [req EXCEPT ![r].pc = "done", ![r].code = data.otp,
                         ![r].to = IF req[r].kind = "reset" THEN req[r].email ELSE data.email]
  /\ UNCHANGED <<data, sessions, password, faults>>

(* resendOtp *)

SendResend(r) ==
  /\ At(r, "idle")
  /\ InReset(data.email)
  /\ Begin(r, "renew", "resend", data.email)
  /\ UNCHANGED <<data, sessions, password, faults>>

\* set throws when sessionData has lost its email.
RenewOtp(r) ==
  /\ At(r, "renew")
  /\ data' = [data EXCEPT !.otp = r]
  /\ IF data.email # NoEmail
     THEN Store(r, data.email, [data EXCEPT !.otp = r], "mail")
     ELSE Goto(r, "died") /\ UNCHANGED <<sessions, faults>>
  /\ UNCHANGED password

(* changePassword *)

SendNewPassword(r) ==
  /\ At(r, "idle")
  /\ InReset(data.email)
  /\ Begin(r, "change", "change", sessions[data.email].email)
  /\ UNCHANGED <<data, sessions, password, faults>>

\* After the look-up of the user, the check of the old password and the hash.
ChangePassword(r) ==
  /\ At(r, "change")
  /\ password' = [password EXCEPT ![req[r].email] = r]
  /\ Goto(r, "clear")
  /\ UNCHANGED <<data, sessions, faults>>

SamePassword(r) ==
  /\ At(r, "change")
  /\ Goto(r, "done")
  /\ UNCHANGED <<data, sessions, password, faults>>

ClearSession(r) ==
  /\ At(r, "clear")
  /\ data' = Cleared
  /\ Store(r, req[r].email, Cleared, "done")
  /\ UNCHANGED password

(* logout *)

Logout(e) ==
  /\ e \in DOMAIN sessions
  /\ sessions' = [x \in DOMAIN sessions \ {e} |-> sessions[x]]
  /\ UNCHANGED <<data, password, req, faults>>

-----------------------------------------------------------------------------
(* Failures *)

\* A call of a handler to the database, the queue or Redis rejects.
CallFails(r) ==
  /\ faults < MaxFaults
  /\ req[r].pc \in Steps
  /\ faults' = faults + 1
  /\ Goto(r, "died")
  /\ UNCHANGED <<data, sessions, password>>

\* The service dies and is restarted; the sessions are in Redis.
Crash ==
  /\ faults < MaxFaults
  /\ faults' = faults + 1
  /\ data' = Cleared
  /\ req' = [r \in Reqs |-> IF req[r].pc \in Steps
                            THEN [req[r] EXCEPT !.pc = "died"] ELSE req[r]]
  /\ UNCHANGED <<sessions, password>>

-----------------------------------------------------------------------------

Next ==
  \/ \E r \in Reqs :
       \/ \E e \in Emails : SendReset(r, e)
       \/ SendResend(r) \/ SendNewPassword(r)
       \/ StoreOtp(r) \/ RenewOtp(r) \/ MailOtp(r)
       \/ ChangePassword(r) \/ SamePassword(r) \/ ClearSession(r)
       \/ CallFails(r)
  \/ \E e \in Emails : Logout(e)
  \/ Crash

Spec == Init /\ [][Next]_vars

-----------------------------------------------------------------------------

TypeOK ==
  /\ data \in SessionData
  /\ DOMAIN sessions \subseteq Emails
  /\ \A e \in DOMAIN sessions : sessions[e] \in SessionData
  /\ password \in [Emails -> Reqs \cup {NoReq}]
  /\ req \in [Reqs -> Request]
  /\ faults \in 0 .. MaxFaults

\* Although all users share one object, the session kept for an email is of
\* that email, and its code was made for it.
SessionsOwn ==
  \A e \in DOMAIN sessions : sessions[e] # Cleared =>
    /\ sessions[e].email = e
    /\ req[sessions[e].otp].email = e

\* The session in Redis of the reset under way is what memory has, unless the
\* handler that made its code ended before it was through.
CurrentStored ==
  (data.email \in DOMAIN sessions /\ ~At(data.otp, "died"))
    => sessions[data.email] = data

\* A password is changed for the user whose reset was under way when the
\* request came, and who had asked for it, whatever resets came in between.
ChangesAsked ==
  \A e \in Emails : password[e] # NoReq =>
    /\ req[password[e]].email = e
    /\ \E r \in Reqs : /\ req[r].kind = "reset" /\ req[r].email = e
                       /\ req[r].pc \notin {"idle", "store"}

\* A code is mailed to the user it was made for: only the first mail of a reset
\* may have another user's code, of a request that came in between; a code that
\* is sent again is always that of its addressee, whoever asked for it.
MailsOwn ==
  \A r \in Reqs : req[r].to # NoEmail /\ req[r].code # NoReq =>
    \/ req[req[r].code].email = req[r].to
    \/ req[r].kind = "reset" /\ req[r].code # r

\* A reset that is over stays over: no resend that is still under way revives
\* its session, only a new request of that user does, or one that had failed.
FinishedStays ==
  [][\A e \in DOMAIN sessions \cap DOMAIN sessions' :
       sessions[e] = Cleared /\ sessions'[e] # Cleared =>
         \E r \in Reqs : /\ req[r].kind = "reset" /\ req[r].email = e
                         /\ req[r].pc \in {"store", "died"}]_vars
=============================================================================
