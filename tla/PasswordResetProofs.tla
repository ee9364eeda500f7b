------------------------ MODULE PasswordResetProofs ------------------------
(***************************************************************************)
(* What holds of password resets, for any users, requests and faults,      *)
(* although they share one object in memory.                               *)
(***************************************************************************)
EXTENDS PasswordReset, TLAPS

\* A request past the point where it made its code, if it is one that makes any:
\* its email does not change any more.
Made(r) == req[r].pc \in {"mail", "change", "clear", "done", "died"}

\* The user has asked for a reset.
Asked(e) == \E r \in Reqs : /\ req[r].kind = "reset" /\ req[r].email = e
                            /\ req[r].pc \notin {"idle", "store"}

\* The handler a request is in follows from its kind.
Handled(r) ==
  /\ req[r].pc = "idle" => req[r] = NoRequest
  /\ req[r].pc = "store" => req[r].kind = "reset"
  /\ req[r].pc = "renew" => req[r].kind = "resend"
  /\ req[r].pc \in {"change", "clear"} => req[r].kind = "change" /\ Asked(req[r].email)
  /\ req[r].pc \in {"store", "change", "clear"} => req[r].email \in Emails
  /\ req[r].pc # "done" => req[r].to = NoEmail

\* The code in memory was made, for the user in memory, who asked for it.
DataOwn ==
  /\ data.otp # NoReq => Made(data.otp)
  /\ data.email # NoEmail => /\ data.otp # NoReq
                             /\ req[data.otp].email = data.email
                             /\ Asked(data.email)

\* SessionsOwn, with a code that was made.
Filled(e) ==
  e \in DOMAIN sessions /\ sessions[e] # Cleared =>
    /\ sessions[e].email = e
    /\ sessions[e].otp # NoReq /\ Made(sessions[e].otp)
    /\ req[sessions[e].otp].email = e

\* ChangesAsked, with a request that is past the change.
Changed(e) ==
  password[e] # NoReq => /\ Made(password[e])
                         /\ req[password[e]].email = e
                         /\ Asked(e)

\* MailsOwn, with a code that was made.
Mailed(r) ==
  req[r].to # NoEmail /\ req[r].code # NoReq =>
    /\ Made(req[r].code)
    /\ \/ req[req[r].code].email = req[r].to
       \/ req[r].kind = "reset" /\ req[r].code # r

\* The reset in memory whose session is that of an old one could not be stored.
HalfReset ==
  data.email \in DOMAIN sessions /\ sessions[data.email] = Cleared =>
    \E r \in Reqs : /\ req[r].kind = "reset" /\ req[r].email = data.email
                    /\ req[r].pc = "died"

IInv ==
  /\ TypeOK
  /\ \A r \in Reqs : Handled(r) /\ Mailed(r)
  /\ DataOwn
  /\ \A e \in Emails : Filled(e) /\ Changed(e)
  /\ CurrentStored
  /\ HalfReset

\* What no step undoes.
Onward ==
  \A r \in Reqs :
    /\ Made(r) => Made(r)' /\ req'[r].email = req[r].email
    /\ req[r].pc = "died" => req'[r].pc = "died"
    /\ req[r].pc # "idle" => req'[r].pc # "idle" /\ req'[r].kind = req[r].kind

-----------------------------------------------------------------------------

LEMMA Initial == Init => IInv
  BY ResetAssumption
     DEF Init, IInv, TypeOK, Handled, Mailed, DataOwn, Filled, Changed, CurrentStored, HalfReset,
         NoRequest, Cleared, SessionData, Request, Steps

\* The two outcomes of a write to Redis by the handler of r.
Stored(r, e, v, p) ==
  /\ \A q \in Reqs \ {r} : req'[q] = req[q]
  /\ req'[r].email = e /\ req'[r].kind = req[r].kind
  /\ req'[r].to = req[r].to /\ req'[r].code = req[r].code
  /\ \/ req'[r].pc = "died" /\ UNCHANGED sessions /\ faults' \in 0 .. MaxFaults
     \/ /\ req'[r].pc = p /\ UNCHANGED faults
        /\ DOMAIN sessions' = DOMAIN sessions \cup {e}
        /\ sessions'[e] = v
        /\ \A x \in DOMAIN sessions \ {e} : sessions'[x] = sessions[x]

LEMMA StoreEffect ==
  ASSUME TypeOK, NEW r \in Reqs, NEW e \in Emails, NEW v \in SessionData,
         NEW p \in Steps \cup {"done"}, Store(r, e, v, p)
  PROVE  req' \in [Reqs -> Request] /\ Stored(r, e, v, p)
<1>1. ASSUME NEW s \in Steps \cup {"done", "died"},
             req' = [req EXCEPT ![r].pc = s, ![r].email = e]
      PROVE  /\ req' \in [Reqs -> Request]
             /\ \A q \in Reqs \ {r} : req'[q] = req[q]
             /\ req'[r].email = e /\ req'[r].kind = req[r].kind
             /\ req'[r].to = req[r].to /\ req'[r].code = req[r].code
             /\ req'[r].pc = s
  <2>1. PICK x : x = [req[r] EXCEPT !.pc = s]
    OBVIOUS
  <2>2. req[r] \in Request
    BY DEF TypeOK
  <2>3. x \in Request /\ x.pc = s /\ x.kind = req[r].kind /\ x.to = req[r].to /\ x.code = req[r].code
    BY <2>1, <2>2 DEF Request
  <2>4. PICK y : y = [x EXCEPT !.email = e]
    OBVIOUS
  <2>5. /\ y \in Request /\ y.email = e /\ y.pc = s
        /\ y.kind = x.kind /\ y.to = x.to /\ y.code = x.code
    BY <2>3, <2>4 DEF Request
  <2>6. req' = [req EXCEPT ![r] = y]
    BY <1>1, <2>1, <2>4
  <2> QED BY <2>3, <2>5, <2>6 DEF TypeOK
<1>2. CASE /\ sessions' = [x \in DOMAIN sessions \cup {e} |-> IF x = e THEN v ELSE sessions[x]]
           /\ req' = [req EXCEPT ![r].pc = p, ![r].email = e]
           /\ UNCHANGED faults
  <2>1. /\ DOMAIN sessions' = DOMAIN sessions \cup {e}
        /\ sessions'[e] = v
        /\ \A x \in DOMAIN sessions \ {e} : sessions'[x] = sessions[x]
    BY <1>2
  <2> QED BY <1>1, <1>2, <2>1 DEF Stored
<1>3. CASE /\ faults < MaxFaults
           /\ faults' = faults + 1
           /\ req' = [req EXCEPT ![r].pc = "died", ![r].email = e]
           /\ UNCHANGED sessions
  <2>1. faults' \in 0 .. MaxFaults
    BY <1>3, ResetAssumption DEF TypeOK
  <2> QED BY <1>1, <1>3, <2>1 DEF Stored
<1> QED BY <1>2, <1>3 DEF Store

\* A step of the handler of r that stays on its request.
LEMMA GotoEffect ==
  ASSUME TypeOK, NEW r \in Reqs, NEW p \in Steps \cup {"done", "died"}, Goto(r, p)
  PROVE  /\ req' \in [Reqs -> Request]
         /\ \A q \in Reqs \ {r} : req'[q] = req[q]
         /\ req'[r] = [req[r] EXCEPT !.pc = p]
         /\ req'[r].pc = p /\ req'[r].email = req[r].email /\ req'[r].kind = req[r].kind
         /\ req'[r].to = req[r].to /\ req'[r].code = req[r].code
<1>1. req[r] \in Request
  BY DEF TypeOK
<1>2. [req[r] EXCEPT !.pc = p] \in Request
  BY <1>1 DEF Request
<1> QED BY <1>1, <1>2 DEF TypeOK, Goto, Request

LEMMA BeginEffect ==
  ASSUME TypeOK, NEW r \in Reqs, NEW p \in Steps,
         NEW k \in {"reset", "resend", "change"}, NEW e \in Emails, Begin(r, p, k, e)
  PROVE  /\ req' \in [Reqs -> Request]
         /\ \A q \in Reqs \ {r} : req'[q] = req[q]
         /\ req'[r].pc = p /\ req'[r].email = e /\ req'[r].kind = k
         /\ req'[r].to = NoEmail /\ req'[r].code = NoReq
<1>1. PICK x : x = [NoRequest EXCEPT !.pc = p, !.kind = k, !.email = e]
  OBVIOUS
<1>2. x = [pc |-> p, kind |-> k, email |-> e, to |-> NoEmail, code |-> NoReq]
  BY <1>1 DEF NoRequest
<1>3. x \in Request
  BY <1>2 DEF Request
<1>4. req' = [req EXCEPT ![r] = x]
  BY <1>1 DEF Begin
<1> QED BY <1>2, <1>3, <1>4 DEF TypeOK

-----------------------------------------------------------------------------

LEMMA TypePreserved == TypeOK /\ [Next]_vars /\ (\A r \in Reqs : Handled(r)) => TypeOK'
<1> SUFFICES ASSUME TypeOK, [Next]_vars, \A r \in Reqs : Handled(r) PROVE TypeOK'
  OBVIOUS
<1>1. ASSUME NEW r \in Reqs, NEW e \in Emails, SendReset(r, e) PROVE TypeOK'
  BY <1>1, BeginEffect DEF SendReset, TypeOK, Steps
<1>2. ASSUME NEW r \in Reqs, SendResend(r) PROVE TypeOK'
  <2>1. data.email \in Emails
    BY <1>2 DEF SendResend, InReset, TypeOK
  <2> QED BY <1>2, <2>1, BeginEffect DEF SendResend, TypeOK, Steps
<1>3. ASSUME NEW r \in Reqs, SendNewPassword(r) PROVE TypeOK'
  <2>1. sessions[data.email].email \in Emails
    BY <1>3 DEF SendNewPassword, InReset, TypeOK, SessionData
  <2> QED BY <1>3, <2>1, BeginEffect DEF SendNewPassword, TypeOK, Steps
<1>4. ASSUME NEW r \in Reqs, NEW e \in Emails, NEW v \in SessionData,
             NEW p \in {"mail", "done"}, Store(r, e, v, p), data' \in SessionData,
             UNCHANGED password
      PROVE  TypeOK'
  <2>0. p \in Steps \cup {"done"}
    BY DEF Steps
  <2>1. /\ req' \in [Reqs -> Request]
        /\ \/ UNCHANGED sessions /\ faults' \in 0 .. MaxFaults
           \/ /\ UNCHANGED faults
              /\ DOMAIN sessions' = DOMAIN sessions \cup {e}
              /\ sessions'[e] = v
              /\ \A x \in DOMAIN sessions \ {e} : sessions'[x] = sessions[x]
    <3>1. req' \in [Reqs -> Request] /\ Stored(r, e, v, p)
      BY <1>4, <2>0, StoreEffect
    <3> QED BY <3>1 DEF Stored
  <2>2. DOMAIN sessions' \subseteq Emails /\ \A x \in DOMAIN sessions' : sessions'[x] \in SessionData
    BY <2>1 DEF TypeOK
  <2> QED BY <1>4, <2>1, <2>2 DEF TypeOK
<1>5. ASSUME NEW r \in Reqs, StoreOtp(r) PROVE TypeOK'
  <2>1. req[r].email \in Emails
    BY <1>5 DEF StoreOtp, At, Handled
  <2>2. [email |-> req[r].email, otp |-> r] \in SessionData
    BY <2>1 DEF SessionData
  <2> QED BY <1>4, <1>5, <2>1, <2>2 DEF StoreOtp
<1>6. ASSUME NEW r \in Reqs, RenewOtp(r) PROVE TypeOK'
  <2>1. [data EXCEPT !.otp = r] \in SessionData
    BY DEF TypeOK, SessionData
  <2>2. CASE data.email # NoEmail
    <3>1. data.email \in Emails
      BY <2>2 DEF TypeOK, SessionData
    <3> QED BY <1>4, <1>6, <2>1, <2>2, <3>1 DEF RenewOtp
  <2>3. CASE data.email = NoEmail
    BY <1>6, <2>1, <2>3, GotoEffect DEF RenewOtp, TypeOK
  <2> QED BY <2>2, <2>3
<1>7. ASSUME NEW r \in Reqs, MailOtp(r) PROVE TypeOK'
  <2>1. PICK c, t : /\ req' = [req EXCEPT ![r].pc = "done", ![r].code = c, ![r].to = t]
                    /\ c \in Reqs \cup {NoReq} /\ t \in Emails \cup {NoEmail}
    BY <1>7 DEF MailOtp, TypeOK, SessionData, Request
  <2>2. req[r] \in Request
    BY DEF TypeOK
  <2>3. PICK x : x = [req[r] EXCEPT !.pc = "done", !.code = c]
    OBVIOUS
  <2>4. x \in Request
    BY <2>1, <2>2, <2>3 DEF Request
  <2>5. [x EXCEPT !.to = t] \in Request
    BY <2>1, <2>4 DEF Request
  <2>6. req' = [req EXCEPT ![r] = [x EXCEPT !.to = t]]
    BY <2>1, <2>3
  <2>7. req' \in [Reqs -> Request]
    BY <2>5, <2>6 DEF TypeOK
  <2> QED BY <1>7, <2>7 DEF MailOtp, TypeOK
<1>8. ASSUME NEW r \in Reqs, ChangePassword(r) PROVE TypeOK'
  <2>1. password' \in [Emails -> Reqs \cup {NoReq}]
    BY <1>8 DEF ChangePassword, TypeOK
  <2> QED BY <1>8, <2>1, GotoEffect DEF ChangePassword, TypeOK, Steps
<1>9. ASSUME NEW r \in Reqs, SamePassword(r) PROVE TypeOK'
  BY <1>9, GotoEffect DEF SamePassword, TypeOK
<1>10. ASSUME NEW r \in Reqs, ClearSession(r) PROVE TypeOK'
  <2>1. req[r].email \in Emails
    BY <1>10 DEF ClearSession, At, Handled
  <2>2. Cleared \in SessionData
    BY DEF SessionData, Cleared
  <2> QED BY <1>4, <1>10, <2>1, <2>2 DEF ClearSession
<1>11. ASSUME NEW r \in Reqs, CallFails(r) PROVE TypeOK'
  <2>1. faults' \in 0 .. MaxFaults
    BY <1>11, ResetAssumption DEF CallFails, TypeOK
  <2> QED BY <1>11, <2>1, GotoEffect DEF CallFails, TypeOK
<1>12. ASSUME NEW e \in Emails, Logout(e) PROVE TypeOK'
  BY <1>12 DEF Logout, TypeOK
<1>13. CASE Crash
  <2>1. faults' \in 0 .. MaxFaults
    BY <1>13, ResetAssumption DEF Crash, TypeOK
  <2>2. \A r \in Reqs : [req[r] EXCEPT !.pc = "died"] \in Request
    BY DEF TypeOK, Request
  <2>3. req' \in [Reqs -> Request]
    BY <1>13, <2>2 DEF Crash, TypeOK
  <2> QED BY <1>13, <2>1, <2>3 DEF Crash, TypeOK, Cleared, SessionData
<1>14. CASE UNCHANGED vars
  BY <1>14 DEF vars, TypeOK
<1> QED BY <1>1, <1>2, <1>3, <1>5, <1>6, <1>7, <1>8, <1>9, <1>10, <1>11, <1>12, <1>13, <1>14
        DEF Next

-----------------------------------------------------------------------------
(* What a step leaves as it is.                                            *)

LEMMA AskedKept ==
  ASSUME IInv, TypeOK', Onward, NEW e, Asked(e)
  PROVE  Asked(e)'
<1>1. PICK r \in Reqs : req[r].kind = "reset" /\ req[r].email = e /\ req[r].pc \notin {"idle", "store"}
  BY DEF Asked
<1>2. Made(r)
  BY <1>1 DEF IInv, Handled, Made, TypeOK, Request, Steps
<1>3. Made(r)' /\ req'[r].email = e /\ req'[r].kind = "reset"
  BY <1>1, <1>2 DEF Onward
<1> QED BY <1>3 DEF Asked, Made

\* A request that does not move stays in order.
LEMMA RequestKept ==
  ASSUME IInv, TypeOK', Onward, NEW q \in Reqs, req'[q] = req[q]
  PROVE  Handled(q)' /\ Mailed(q)'
<1>1. Handled(q)'
  BY AskedKept DEF IInv, Handled
<1>2. CASE req[q].to # NoEmail /\ req[q].code # NoReq
  <2>1. req[q].code \in Reqs /\ Made(req[q].code)
    BY <1>2 DEF IInv, Mailed, TypeOK, Request
  <2>2. Made(req[q].code)' /\ req'[req[q].code].email = req[req[q].code].email
    BY <2>1 DEF Onward
  <2> QED BY <1>1, <1>2, <2>2 DEF IInv, Mailed, Made
<1>3. CASE ~(req[q].to # NoEmail /\ req[q].code # NoReq)
  BY <1>1, <1>3 DEF Mailed
<1> QED BY <1>2, <1>3

LEMMA DataKept ==
  ASSUME IInv, TypeOK', Onward, UNCHANGED data
  PROVE  DataOwn'
<1>1. data.otp # NoReq => data.otp \in Reqs
  BY DEF IInv, TypeOK, SessionData
<1>2. data.otp # NoReq => Made(data.otp)' /\ req'[data.otp].email = req[data.otp].email
  BY <1>1 DEF IInv, DataOwn, Onward
<1>3. Asked(data.email) => Asked(data.email)'
  BY AskedKept
<1> QED BY <1>2, <1>3 DEF IInv, DataOwn, Made, Asked

\* Sessions may be deleted.
LEMMA SessionKept ==
  ASSUME IInv, TypeOK', Onward, NEW e \in Emails,
         e \in DOMAIN sessions' => e \in DOMAIN sessions /\ sessions'[e] = sessions[e]
  PROVE  Filled(e)'
<1> SUFFICES ASSUME e \in DOMAIN sessions', sessions'[e] # Cleared
             PROVE  Filled(e)'
  BY DEF Filled, Cleared
<1>1. Filled(e) /\ sessions'[e] = sessions[e] /\ e \in DOMAIN sessions
  BY DEF IInv
<1>2. sessions[e].otp \in Reqs
  BY <1>1 DEF Filled, IInv, TypeOK, SessionData
<1>3. Made(sessions[e].otp)' /\ req'[sessions[e].otp].email = e
  BY <1>1, <1>2 DEF Filled, Onward
<1> QED BY <1>1, <1>3 DEF Filled, Made

LEMMA SessionsKept ==
  ASSUME IInv, TypeOK', Onward,
         \A e \in DOMAIN sessions' : e \in DOMAIN sessions /\ sessions'[e] = sessions[e]
  PROVE  \A e \in Emails : Filled(e)'
  BY SessionKept

LEMMA MemoryKept ==
  ASSUME IInv, TypeOK', Onward, UNCHANGED data,
         \A e \in DOMAIN sessions' : e \in DOMAIN sessions /\ sessions'[e] = sessions[e]
  PROVE  CurrentStored' /\ HalfReset'
<1>1. CurrentStored'
  <2> SUFFICES ASSUME data.email \in DOMAIN sessions', ~At(data.otp, "died")'
               PROVE  sessions'[data.email] = data
    BY DEF CurrentStored
  <2>1. data.email \in DOMAIN sessions /\ data.email # NoEmail
    BY ResetAssumption DEF IInv, TypeOK
  <2>2. data.otp \in Reqs
    BY <2>1 DEF IInv, DataOwn, TypeOK, SessionData
  <2>3. ~At(data.otp, "died")
    BY <2>2 DEF Onward, At
  <2> QED BY <2>1, <2>3 DEF IInv, CurrentStored
<1>2. HalfReset'
  <2> SUFFICES ASSUME data.email \in DOMAIN sessions', sessions'[data.email] = Cleared
               PROVE  \E r \in Reqs : /\ req'[r].kind = "reset" /\ req'[r].email = data.email
                                      /\ req'[r].pc = "died"
    BY DEF HalfReset, Cleared
  <2>1. PICK r \in Reqs : req[r].kind = "reset" /\ req[r].email = data.email /\ req[r].pc = "died"
    BY DEF IInv, HalfReset
  <2>2. req'[r].kind = "reset" /\ req'[r].email = data.email /\ req'[r].pc = "died"
    BY <2>1 DEF Onward, Made
  <2> QED BY <2>2
<1> QED BY <1>1, <1>2

LEMMA PasswordsKept ==
  ASSUME IInv, TypeOK', Onward, NEW e \in Emails, password'[e] = password[e]
  PROVE  Changed(e)'
<1> SUFFICES ASSUME password[e] # NoReq
             PROVE  Changed(e)'
  BY DEF Changed
<1>1. password[e] \in Reqs /\ Changed(e)
  BY DEF IInv, TypeOK
<1>2. Made(password[e])' /\ req'[password[e]].email = e
  BY <1>1 DEF Changed, Onward
<1>3. Asked(e)'
  BY <1>1, AskedKept DEF Changed
<1> QED BY <1>2, <1>3 DEF Changed, Made, Asked

\* A step of one handler that writes neither to memory nor to Redis.
LEMMA QuietStep ==
  ASSUME IInv, TypeOK', Onward, UNCHANGED <<data, sessions, password>>,
         NEW r \in Reqs, \A q \in Reqs \ {r} : req'[q] = req[q],
         Handled(r)', Mailed(r)'
  PROVE  IInv'
<1>1. \A q \in Reqs : Handled(q)' /\ Mailed(q)'
  BY RequestKept
<1>2. \A e \in Emails : Filled(e)' /\ Changed(e)'
  BY SessionsKept, PasswordsKept
<1>3. DataOwn' /\ CurrentStored' /\ HalfReset'
  BY DataKept, MemoryKept
<1> QED BY <1>1, <1>2, <1>3 DEF IInv

-----------------------------------------------------------------------------
(* The steps, one by one.                                                  *)

LEMMA StoreOtpPreserves ==
  ASSUME IInv, TypeOK', NEW r \in Reqs, StoreOtp(r)
  PROVE  IInv'
<1> DEFINE e == req[r].email
<1>1. /\ TypeOK /\ Handled(r) /\ req[r].pc = "store" /\ e \in Emails
      /\ [email |-> e, otp |-> r] \in SessionData
  BY DEF IInv, StoreOtp, At, Handled, SessionData
<1>2. /\ \A q \in Reqs \ {r} : req'[q] = req[q]
      /\ req'[r].email = e /\ req'[r].kind = "reset" /\ req'[r].to = NoEmail
      /\ \/ req'[r].pc = "died" /\ UNCHANGED sessions
         \/ /\ req'[r].pc = "mail"
            /\ DOMAIN sessions' = DOMAIN sessions \cup {e}
            /\ sessions'[e] = [email |-> e, otp |-> r]
            /\ \A x \in DOMAIN sessions \ {e} : sessions'[x] = sessions[x]
  <2>1. Store(r, e, [email |-> e, otp |-> r], "mail") /\ "mail" \in Steps \cup {"done"}
    BY DEF StoreOtp, Steps
  <2>2. Stored(r, e, [email |-> e, otp |-> r], "mail")
    BY <1>1, <2>1, StoreEffect
  <2>3. req[r].to = NoEmail /\ req[r].kind = "reset"
    BY <1>1 DEF Handled
  <2> QED BY <2>2, <2>3 DEF Stored
<1>3. data' = [email |-> e, otp |-> r] /\ UNCHANGED password
  BY DEF StoreOtp
<1>4. Onward
  BY <1>1, <1>2 DEF Onward, Made, Handled
<1>5. \A q \in Reqs : Handled(q)' /\ Mailed(q)'
  <2>1. Handled(r)' /\ Mailed(r)'
    BY <1>2 DEF Handled, Mailed
  <2> QED BY <1>2, <1>4, <2>1, RequestKept
<1>6. Made(r)' /\ Asked(e)' /\ r # NoReq
  BY <1>2, ResetAssumption DEF Made, Asked
<1>7. DataOwn'
  BY <1>2, <1>3, <1>6 DEF DataOwn, Made, Asked
<1>8. ASSUME NEW x \in Emails PROVE Filled(x)'
  <2>1. CASE UNCHANGED sessions
    BY <1>4, <2>1, SessionsKept
  <2>2. CASE x = e /\ ~ UNCHANGED sessions
    BY <1>2, <1>6, <2>2 DEF Filled, Made
  <2>3. CASE x # e /\ ~ UNCHANGED sessions
    <3>1. x \in DOMAIN sessions' => x \in DOMAIN sessions /\ sessions'[x] = sessions[x]
      BY <1>2, <2>3
    <3> QED BY <1>4, <3>1, SessionKept
  <2> QED BY <2>1, <2>2, <2>3
<1>9. CurrentStored'
  BY <1>2, <1>3 DEF CurrentStored, At
<1>10. HalfReset'
  <2>1. CASE req'[r].pc = "died"
    BY <1>2, <1>3, <2>1 DEF HalfReset
  <2>2. CASE req'[r].pc # "died"
    BY <1>1, <1>2, <1>3, <2>2, ResetAssumption DEF HalfReset, Cleared
  <2> QED BY <2>1, <2>2
<1>11. \A x \in Emails : Changed(x)'
  BY <1>3, <1>4, PasswordsKept
<1> QED BY <1>5, <1>7, <1>8, <1>9, <1>10, <1>11 DEF IInv

LEMMA RenewOtpPreserves ==
  ASSUME IInv, TypeOK', NEW r \in Reqs, RenewOtp(r), data.email # NoEmail
  PROVE  IInv'
<1> DEFINE e == data.email
<1>1. /\ TypeOK /\ Handled(r) /\ req[r].pc = "renew" /\ e \in Emails
      /\ data' \in SessionData /\ data'.email = e /\ data'.otp = r
      /\ UNCHANGED password /\ Asked(e)
  BY DEF IInv, TypeOK, DataOwn, RenewOtp, At, SessionData
<1>2. /\ \A q \in Reqs \ {r} : req'[q] = req[q]
      /\ req'[r].email = e /\ req'[r].kind = "resend" /\ req'[r].to = NoEmail
      /\ \/ req'[r].pc = "died" /\ UNCHANGED sessions
         \/ /\ req'[r].pc = "mail"
            /\ DOMAIN sessions' = DOMAIN sessions \cup {e}
            /\ sessions'[e] = data'
            /\ \A x \in DOMAIN sessions \ {e} : sessions'[x] = sessions[x]
  <2>1. Store(r, e, data', "mail") /\ "mail" \in Steps \cup {"done"}
    BY DEF RenewOtp, Steps
  <2>2. PICK v \in SessionData : v = data'
    BY <1>1
  <2>3. Store(r, e, v, "mail")
    BY <2>1, <2>2 DEF Store
  <2>4. Stored(r, e, v, "mail")
    BY <1>1, <2>1, <2>2, <2>3, StoreEffect
  <2>5. req[r].to = NoEmail /\ req[r].kind = "resend"
    BY <1>1 DEF Handled
  <2> QED BY <2>2, <2>4, <2>5 DEF Stored
<1>4. Onward
  BY <1>1, <1>2 DEF Onward, Made, Handled
<1>5. \A q \in Reqs : Handled(q)' /\ Mailed(q)'
  <2>1. Handled(r)' /\ Mailed(r)'
    BY <1>2 DEF Handled, Mailed
  <2> QED BY <1>2, <1>4, <2>1, RequestKept
<1>6. Made(r)' /\ Asked(e)' /\ r # NoReq
  BY <1>1, <1>2, <1>4, AskedKept, ResetAssumption DEF Made
<1>7. DataOwn'
  BY <1>1, <1>2, <1>6 DEF DataOwn, Made, Asked
<1>8. ASSUME NEW x \in Emails PROVE Filled(x)'
  <2>1. CASE UNCHANGED sessions
    BY <1>4, <2>1, SessionsKept
  <2>2. CASE x = e /\ ~ UNCHANGED sessions
    BY <1>1, <1>2, <1>6, <2>2 DEF Filled, Made
  <2>3. CASE x # e /\ ~ UNCHANGED sessions
    <3>1. x \in DOMAIN sessions' => x \in DOMAIN sessions /\ sessions'[x] = sessions[x]
      BY <1>2, <2>3
    <3> QED BY <1>4, <3>1, SessionKept
  <2> QED BY <2>1, <2>2, <2>3
<1>9. CurrentStored'
  BY <1>1, <1>2 DEF CurrentStored, At
<1>10. HalfReset'
  <2>1. CASE UNCHANGED sessions
    <3> SUFFICES ASSUME e \in DOMAIN sessions, sessions[e] = Cleared
                 PROVE  HalfReset'
      BY <1>1, <2>1 DEF HalfReset, Cleared
    <3>1. PICK q \in Reqs : req[q].kind = "reset" /\ req[q].email = e /\ req[q].pc = "died"
      BY DEF IInv, HalfReset
    <3>2. req'[q] = req[q]
      BY <1>1, <1>2, <3>1
    <3> QED BY <1>1, <3>1, <3>2 DEF HalfReset
  <2>2. CASE ~ UNCHANGED sessions
    BY <1>1, <1>2, <2>2, ResetAssumption DEF HalfReset, Cleared
  <2> QED BY <2>1, <2>2
<1>11. \A x \in Emails : Changed(x)'
  BY <1>1, <1>4, PasswordsKept
<1> QED BY <1>5, <1>7, <1>8, <1>9, <1>10, <1>11 DEF IInv

\* sessionData has lost its email: the code is made, and set throws.
LEMMA RenewNobodyPreserves ==
  ASSUME IInv, TypeOK', NEW r \in Reqs, RenewOtp(r), data.email = NoEmail
  PROVE  IInv'
<1>1. /\ TypeOK /\ Handled(r) /\ req[r].pc = "renew"
      /\ data'.email = NoEmail /\ data'.otp = r
      /\ UNCHANGED <<password, sessions>> /\ Goto(r, "died")
  BY DEF IInv, TypeOK, RenewOtp, At, SessionData
<1>2. /\ \A q \in Reqs \ {r} : req'[q] = req[q]
      /\ req'[r].pc = "died" /\ req'[r].kind = "resend" /\ req'[r].to = NoEmail
  BY <1>1, GotoEffect DEF Handled
<1>3. Onward
  BY <1>1, <1>2 DEF Onward, Made, Handled
<1>4. \A q \in Reqs : Handled(q)' /\ Mailed(q)'
  <2>1. Handled(r)' /\ Mailed(r)'
    BY <1>2 DEF Handled, Mailed
  <2> QED BY <1>2, <1>3, <2>1, RequestKept
<1>5. DataOwn' /\ CurrentStored' /\ HalfReset'
  BY <1>1, <1>2, ResetAssumption DEF DataOwn, Made, CurrentStored, HalfReset, TypeOK
<1>6. \A e \in Emails : Filled(e)' /\ Changed(e)'
  BY <1>1, <1>3, SessionsKept, PasswordsKept
<1> QED BY <1>4, <1>5, <1>6 DEF IInv

LEMMA ClearSessionPreserves ==
  ASSUME IInv, TypeOK', NEW r \in Reqs, ClearSession(r)
  PROVE  IInv'
<1> DEFINE e == req[r].email
<1>1. /\ TypeOK /\ Handled(r) /\ req[r].pc = "clear" /\ e \in Emails
      /\ Cleared \in SessionData /\ data' = Cleared /\ UNCHANGED password
  BY DEF IInv, ClearSession, At, Handled, SessionData, Cleared
<1>2. /\ \A q \in Reqs \ {r} : req'[q] = req[q]
      /\ req'[r].email = e /\ req'[r].kind = "change" /\ req'[r].to = NoEmail
      /\ req'[r].pc \in {"died", "done"}
      /\ \/ UNCHANGED sessions
         \/ /\ DOMAIN sessions' = DOMAIN sessions \cup {e}
            /\ sessions'[e] = Cleared
            /\ \A x \in DOMAIN sessions \ {e} : sessions'[x] = sessions[x]
  <2>1. Store(r, e, Cleared, "done") /\ "done" \in Steps \cup {"done"}
    BY DEF ClearSession
  <2>2. Stored(r, e, Cleared, "done")
    BY <1>1, <2>1, StoreEffect
  <2>3. req[r].to = NoEmail /\ req[r].kind = "change"
    BY <1>1 DEF Handled
  <2> QED BY <2>2, <2>3 DEF Stored
<1>3. Onward
  BY <1>1, <1>2 DEF Onward, Made, Handled
<1>4. \A q \in Reqs : Handled(q)' /\ Mailed(q)'
  <2>1. Handled(r)' /\ Mailed(r)'
    BY <1>2 DEF Handled, Mailed
  <2> QED BY <1>2, <1>3, <2>1, RequestKept
<1>5. DataOwn' /\ CurrentStored' /\ HalfReset'
  BY <1>1, ResetAssumption DEF DataOwn, Made, CurrentStored, HalfReset, TypeOK, Cleared
<1>6. ASSUME NEW x \in Emails PROVE Filled(x)'
  <2>1. CASE UNCHANGED sessions
    BY <1>3, <2>1, SessionsKept
  <2>2. CASE x = e /\ ~ UNCHANGED sessions
    BY <1>2, <2>2 DEF Filled, Cleared
  <2>3. CASE x # e /\ ~ UNCHANGED sessions
    <3>1. x \in DOMAIN sessions' => x \in DOMAIN sessions /\ sessions'[x] = sessions[x]
      BY <1>2, <2>3
    <3> QED BY <1>3, <3>1, SessionKept
  <2> QED BY <2>1, <2>2, <2>3
<1>7. \A x \in Emails : Changed(x)'
  BY <1>1, <1>3, PasswordsKept
<1> QED BY <1>4, <1>5, <1>6, <1>7 DEF IInv

LEMMA ChangePasswordPreserves ==
  ASSUME IInv, TypeOK', NEW r \in Reqs, ChangePassword(r)
  PROVE  IInv'
<1> DEFINE e == req[r].email
<1>1. /\ TypeOK /\ Handled(r) /\ req[r].pc = "change" /\ e \in Emails
      /\ UNCHANGED <<data, sessions>> /\ Goto(r, "clear") /\ Asked(e)
  BY DEF IInv, ChangePassword, At, Handled
<1>2. /\ \A q \in Reqs \ {r} : req'[q] = req[q]
      /\ req'[r].pc = "clear" /\ req'[r].kind = "change" /\ req'[r].to = NoEmail
      /\ req'[r].email = e
  <2>1. "clear" \in Steps \cup {"done", "died"}
    BY DEF Steps
  <2> QED BY <1>1, <2>1, GotoEffect DEF Handled
<1>3. Onward
  BY <1>1, <1>2 DEF Onward, Made, Handled
<1>4. Asked(e)' /\ Made(r)'
  BY <1>1, <1>2, <1>3, AskedKept DEF Made
<1>5. \A q \in Reqs : Handled(q)' /\ Mailed(q)'
  <2>1. Handled(r)' /\ Mailed(r)'
    BY <1>1, <1>2, <1>4 DEF Handled, Mailed, Asked
  <2> QED BY <1>2, <1>3, <2>1, RequestKept
<1>6. ASSUME NEW x \in Emails PROVE Changed(x)'
  <2>1. password' = [password EXCEPT ![e] = r]
    BY DEF ChangePassword
  <2>2. CASE x = e
    <3>1. password'[x] = r
      BY <1>1, <2>1, <2>2 DEF TypeOK
    <3> QED BY <1>2, <1>4, <2>2, <3>1 DEF Changed, Made, Asked
  <2>3. CASE x # e
    <3>1. password'[x] = password[x]
      BY <1>1, <2>1, <2>3 DEF TypeOK
    <3> QED BY <1>3, <3>1, PasswordsKept
  <2> QED BY <2>2, <2>3
<1>7. \A x \in Emails : Filled(x)'
  BY <1>1, <1>3, SessionsKept
<1>8. DataOwn' /\ CurrentStored' /\ HalfReset'
  BY <1>1, <1>3, DataKept, MemoryKept
<1> QED BY <1>5, <1>6, <1>7, <1>8 DEF IInv

LEMMA MailOtpPreserves ==
  ASSUME IInv, TypeOK', NEW r \in Reqs, MailOtp(r)
  PROVE  IInv'
<1>1. /\ TypeOK /\ Handled(r) /\ req[r].pc = "mail"
      /\ UNCHANGED <<data, sessions, password>>
  BY DEF IInv, MailOtp, At
<1>2. PICK t : /\ t = IF req[r].kind = "reset" THEN req[r].email ELSE data.email
               /\ req' = [req EXCEPT ![r].pc = "done", ![r].code = data.otp, ![r].to = t]
  BY DEF MailOtp
<1>3. PICK x : x = [req[r] EXCEPT !.pc = "done", !.code = data.otp]
  OBVIOUS
<1>4. /\ req[r] \in Request /\ x.pc = "done" /\ x.code = data.otp
      /\ x.email = req[r].email /\ x.kind = req[r].kind
      /\ x = [pc |-> "done", kind |-> req[r].kind, email |-> req[r].email,
              to |-> req[r].to, code |-> data.otp]
  BY <1>1, <1>3 DEF TypeOK, Request
<1>5. req' = [req EXCEPT ![r] = [x EXCEPT !.to = t]]
  BY <1>2, <1>3
<1>6. /\ \A q \in Reqs \ {r} : req'[q] = req[q]
      /\ req'[r] = [x EXCEPT !.to = t]
  BY <1>1, <1>5 DEF TypeOK
<1>7. /\ req'[r].pc = "done" /\ req'[r].code = data.otp /\ req'[r].to = t
      /\ req'[r].email = req[r].email /\ req'[r].kind = req[r].kind
  BY <1>4, <1>6
<1>8. Onward
  BY <1>1, <1>6, <1>7 DEF Onward, Made
<1>9. Handled(r)'
  BY <1>7 DEF Handled
<1>10. Mailed(r)'
  <2> SUFFICES ASSUME t # NoEmail, data.otp # NoReq
               PROVE  Mailed(r)'
    BY <1>7 DEF Mailed
  <2>1. PICK c \in Reqs : c = data.otp /\ Made(c)
    BY <1>1 DEF IInv, DataOwn, TypeOK, SessionData
  <2>2. Made(c)' /\ req'[c].email = req[c].email
    BY <1>8, <2>1 DEF Onward
  <2>3. req'[c].email = t \/ (req'[r].kind = "reset" /\ c # r)
    <3>1. CASE req[r].kind = "reset"
      BY <1>2, <1>7, <2>2, <3>1
    <3>2. CASE req[r].kind # "reset"
      BY <1>2, <2>1, <2>2, <3>2 DEF IInv, DataOwn
    <3> QED BY <3>1, <3>2
  <2> QED BY <1>7, <2>1, <2>2, <2>3 DEF Mailed, Made
<1> QED BY <1>1, <1>6, <1>8, <1>9, <1>10, QuietStep

LEMMA SendPreserves ==
  ASSUME IInv, TypeOK', NEW r \in Reqs, NEW p \in Steps,
         NEW k \in {"reset", "resend", "change"}, NEW e \in Emails,
         At(r, "idle"), Begin(r, p, k, e), UNCHANGED <<data, sessions, password>>,
         \/ p = "store" /\ k = "reset"
         \/ p = "renew" /\ k = "resend"
         \/ p = "change" /\ k = "change" /\ Asked(e)
  PROVE  IInv'
<1>1. TypeOK
  BY DEF IInv
<1>2. /\ \A q \in Reqs \ {r} : req'[q] = req[q]
      /\ req'[r].pc = p /\ req'[r].email = e /\ req'[r].kind = k /\ req'[r].to = NoEmail
  BY <1>1, BeginEffect
<1>3. Onward
  BY <1>2 DEF Onward, Made, At
<1>4. Asked(e) => Asked(e)'
  BY <1>3, AskedKept
<1>5. Handled(r)' /\ Mailed(r)'
  BY <1>2, <1>4 DEF Handled, Mailed, Asked
<1> QED BY <1>2, <1>3, <1>5, QuietStep

LEMMA CrashPreserves ==
  ASSUME IInv, TypeOK', Crash
  PROVE  IInv'
<1>1. data' = Cleared /\ UNCHANGED <<sessions, password>> /\ TypeOK
  BY DEF Crash, IInv
<1>2. ASSUME NEW q \in Reqs
      PROVE  /\ req'[q].pc = IF req[q].pc \in Steps THEN "died" ELSE req[q].pc
             /\ req'[q].kind = req[q].kind /\ req'[q].email = req[q].email
             /\ req'[q].to = req[q].to /\ req'[q].code = req[q].code
             /\ req[q].pc \notin Steps => req'[q] = req[q]
  BY <1>1 DEF Crash, TypeOK, Request
<1>3. Onward
  BY <1>2 DEF Onward, Made, Steps
<1>4. ASSUME NEW q \in Reqs PROVE Handled(q)' /\ Mailed(q)'
  <2>1. CASE req[q].pc \notin Steps
    BY <1>2, <1>3, <2>1, RequestKept
  <2>2. CASE req[q].pc \in Steps
    <3>1. req'[q].to = NoEmail /\ req'[q].pc = "died"
      BY <1>2, <2>2 DEF IInv, Handled, Steps
    <3> QED BY <3>1 DEF Handled, Mailed
  <2> QED BY <2>1, <2>2
<1>5. DataOwn' /\ CurrentStored' /\ HalfReset'
  BY <1>1, ResetAssumption DEF DataOwn, Made, CurrentStored, HalfReset, TypeOK, Cleared
<1>6. \A e \in Emails : Filled(e)' /\ Changed(e)'
  BY <1>1, <1>3, SessionsKept, PasswordsKept
<1> QED BY <1>4, <1>5, <1>6 DEF IInv

LEMMA Inductive == Spec => []IInv
<1>1. IInv /\ [Next]_vars => IInv'
  <2> SUFFICES ASSUME IInv, [Next]_vars PROVE IInv'
    OBVIOUS
  <2>0. TypeOK /\ TypeOK'
    BY TypePreserved DEF IInv
  <2>1. ASSUME NEW r \in Reqs, NEW e \in Emails, SendReset(r, e) PROVE IInv'
    BY <2>0, <2>1, SendPreserves DEF SendReset, Steps
  <2>2. ASSUME NEW r \in Reqs, SendResend(r) \/ SendNewPassword(r) PROVE IInv'
    <3>1. /\ data.email \in Emails /\ Asked(data.email)
          /\ sessions[data.email].email = data.email
      BY <2>0, <2>2 DEF SendResend, SendNewPassword, InReset, TypeOK, IInv, DataOwn, Filled, Cleared,
                        SessionData
    <3>2. CASE SendResend(r)
      BY <2>0, <3>1, <3>2, SendPreserves DEF SendResend, Steps
    <3>3. CASE SendNewPassword(r)
      BY <2>0, <3>1, <3>3, SendPreserves DEF SendNewPassword, Steps
    <3> QED BY <2>2, <3>2, <3>3
  <2>3. ASSUME NEW r \in Reqs, StoreOtp(r) \/ RenewOtp(r) \/ MailOtp(r) PROVE IInv'
    BY <2>0, <2>3, StoreOtpPreserves, RenewOtpPreserves, RenewNobodyPreserves, MailOtpPreserves
  <2>4. ASSUME NEW r \in Reqs, ChangePassword(r) \/ ClearSession(r) PROVE IInv'
    BY <2>0, <2>4, ChangePasswordPreserves, ClearSessionPreserves
  <2>5. ASSUME NEW r \in Reqs, SamePassword(r) \/ CallFails(r) PROVE IInv'
    <3>1. /\ req[r].pc \in Steps /\ UNCHANGED <<data, sessions, password>>
          /\ \E p \in {"done", "died"} : Goto(r, p)
      BY <2>5 DEF SamePassword, CallFails, At, Steps
    <3>2. /\ \A q \in Reqs \ {r} : req'[q] = req[q]
          /\ req'[r].pc \in {"done", "died"}
          /\ req'[r].email = req[r].email /\ req'[r].kind = req[r].kind
          /\ req'[r].to = req[r].to
      BY <2>0, <3>1, GotoEffect
    <3>3. req[r].to = NoEmail
      BY <3>1 DEF IInv, Handled, Steps
    <3>4. Onward /\ Handled(r)' /\ Mailed(r)'
      <4>1. Onward
        BY <3>1, <3>2 DEF Onward, Made, Steps
      <4> QED BY <3>2, <3>3, <4>1 DEF Handled, Mailed
    <3> QED BY <2>0, <3>1, <3>2, <3>4, QuietStep
  <2>6. CASE \/ \E e \in Emails : Logout(e)
             \/ UNCHANGED vars
    <3>1. UNCHANGED <<data, password, req>>
      BY <2>6 DEF Logout, vars
    <3>2. Onward
      BY <3>1 DEF Onward, Made
    <3>3. \A e \in DOMAIN sessions' : e \in DOMAIN sessions /\ sessions'[e] = sessions[e]
      BY <2>6 DEF Logout, vars
    <3>4. \A q \in Reqs : Handled(q)' /\ Mailed(q)'
      BY <2>0, <3>1, <3>2, RequestKept
    <3>5. \A e \in Emails : Filled(e)' /\ Changed(e)'
      BY <2>0, <3>1, <3>2, <3>3, SessionsKept, PasswordsKept
    <3>6. DataOwn' /\ CurrentStored' /\ HalfReset'
      BY <2>0, <3>1, <3>2, <3>3, DataKept, MemoryKept
    <3> QED BY <2>0, <3>4, <3>5, <3>6 DEF IInv
  <2>7. CASE Crash
    BY <2>0, <2>7, CrashPreserves
  <2> QED BY <2>1, <2>2, <2>3, <2>4, <2>5, <2>6, <2>7 DEF Next
<1> QED BY Initial, <1>1, PTL DEF Spec

-----------------------------------------------------------------------------

\* The shared object, the sessions, passwords and requests are well typed in
\* every reachable state.
THEOREM TypeCorrect == Spec => []TypeOK
<1>1. IInv => TypeOK
  BY DEF IInv
<1> QED BY <1>1, Inductive, PTL

\* Every session in Redis is that of its own email, with a code made for it
\* (sessionService.set with the object all users share).
THEOREM SessionsAreOwn == Spec => []SessionsOwn
<1>1. IInv => SessionsOwn
  BY DEF IInv, Filled, SessionsOwn, TypeOK
<1> QED BY <1>1, Inductive, PTL

\* What Redis has of the reset under way is what memory has, unless the handler
\* that made the code ended early.
THEOREM CurrentIsStored == Spec => []CurrentStored
<1>1. IInv => CurrentStored
  BY DEF IInv
<1> QED BY <1>1, Inductive, PTL

\* changePassword changes the password of a user who asked for a reset, and of
\* the one whose reset was under way when the request came.
THEOREM ChangesAreAsked == Spec => []ChangesAsked
<1>1. IInv => ChangesAsked
  BY DEF IInv, Changed, Asked, ChangesAsked
<1> QED BY <1>1, Inductive, PTL

\* A code goes to the user it was made for, but for the first mail of a reset
\* that another request has overtaken.
THEOREM MailsAreOwn == Spec => []MailsOwn
<1>1. IInv => MailsOwn
  BY DEF IInv, Mailed, MailsOwn
<1> QED BY <1>1, Inductive, PTL

\* A session of a reset that is over is written again only for a user who asks
\* anew, or whose last request had failed: no resend that was under way does it.
THEOREM FinishedResetsStay == Spec => FinishedStays
<1>1. IInv /\ [Next]_vars =>
        [\A e \in DOMAIN sessions \cap DOMAIN sessions' :
           sessions[e] = Cleared /\ sessions'[e] # Cleared =>
             \E r \in Reqs : /\ req[r].kind = "reset" /\ req[r].email = e
                             /\ req[r].pc \in {"store", "died"}]_vars
  <2> SUFFICES ASSUME IInv, Next, NEW e \in DOMAIN sessions, e \in DOMAIN sessions',
                      sessions[e] = Cleared, sessions'[e] # Cleared
               PROVE  \E r \in Reqs : /\ req[r].kind = "reset" /\ req[r].email = e
                                      /\ req[r].pc \in {"store", "died"}
    OBVIOUS
  <2>0. TypeOK /\ e \in Emails
    BY DEF IInv, TypeOK
  <2>1. \E r \in Reqs : StoreOtp(r) \/ RenewOtp(r) \/ ClearSession(r)
    <3>1. ~ \E x \in Emails : Logout(x)
      BY DEF Logout
    <3>2. sessions' # sessions
      OBVIOUS
    <3> QED BY <3>1, <3>2
            DEF Next, SendReset, SendResend, SendNewPassword, MailOtp, ChangePassword,
                SamePassword, CallFails, Crash
  <2>2. ASSUME NEW r \in Reqs, StoreOtp(r)
        PROVE  /\ req[r].kind = "reset" /\ req[r].email = e
               /\ req[r].pc \in {"store", "died"}
    <3>1. req[r].pc = "store" /\ req[r].kind = "reset" /\ req[r].email \in Emails
      BY <2>2 DEF StoreOtp, At, IInv, Handled
    <3>2. PICK v \in SessionData : Store(r, req[r].email, v, "mail")
      BY <2>2, <3>1 DEF StoreOtp, SessionData
    <3>3. Stored(r, req[r].email, v, "mail")
      BY <2>0, <3>1, <3>2, StoreEffect DEF Steps
    <3> QED BY <3>1, <3>3 DEF Stored
  <2>3. ASSUME NEW r \in Reqs, RenewOtp(r)
        PROVE  data.email = e
    <3>1. CASE data.email = NoEmail
      BY <2>3, <3>1 DEF RenewOtp
    <3>2. CASE data.email # NoEmail
      <4>1. data.email \in Emails
        BY <2>0, <3>2 DEF TypeOK, SessionData
      <4>2. PICK v \in SessionData : Store(r, data.email, v, "mail")
        BY <2>0, <2>3, <3>2 DEF RenewOtp, TypeOK, SessionData
      <4>3. Stored(r, data.email, v, "mail")
        BY <2>0, <4>1, <4>2, StoreEffect DEF Steps
      <4> QED BY <4>3 DEF Stored
    <3> QED BY <3>1, <3>2
  <2>4. ASSUME NEW r \in Reqs, ClearSession(r)
        PROVE  FALSE
    <3>1. req[r].email \in Emails /\ Cleared \in SessionData
      BY <2>4 DEF ClearSession, At, IInv, Handled, Cleared, SessionData
    <3>2. Stored(r, req[r].email, Cleared, "done")
      BY <2>0, <2>4, <3>1, StoreEffect DEF ClearSession
    <3> QED BY <3>2 DEF Stored
  <2>5. data.email = e =>
          \E r \in Reqs : req[r].kind = "reset" /\ req[r].email = e /\ req[r].pc = "died"
    BY DEF IInv, HalfReset
  <2> QED BY <2>1, <2>2, <2>3, <2>4, <2>5
<1> QED BY <1>1, Inductive, PTL DEF Spec, FinishedStays
=============================================================================
