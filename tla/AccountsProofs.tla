--------------------------- MODULE AccountsProofs ---------------------------
(***************************************************************************)
(* What holds of users and their balances, for any users, requests and     *)
(* faults.                                                                 *)
(***************************************************************************)
EXTENDS Accounts, MoneyProofs, TLAPS

\* A balance that a request goes by is the one that is there, but for what has
\* overtaken it since; x is the record of the request.
InOrder(x) ==
  /\ x.paid => x.pc \in {"credit", "done", "died"}
  /\ x.pc = "debit" => x.kind = "transfer"
  /\ x.pc \in {"enable", "show"} => x.kind = "enable"
  /\ x.pc \in Steps \ {"find", "create", "welcome"} => x.who \in Ids
  /\ x.who \in Ids => user[x.who].state # "none"
  /\ x.pc \in {"decide", "check"} =>
       /\ "lowered" \notin x.overtaken => user[x.who].balance >= x.seen
       /\ x.overtaken = {} => user[x.who].balance = x.seen
  /\ x.pc \in {"stake", "charge"} /\ "lowered" \notin x.overtaken =>
       user[x.who].balance >= x.amount

\* Request x explains why its user has a negative balance.
Explains(x, u) ==
  x.who = u /\ x.paid /\ (x.kind = "transfer" \/ "lowered" \in x.overtaken)

Sound(u) == user[u].balance < 0 => \E r \in Reqs : Explains(req[r], u)

\* Request x has given its user u a secret.
Secured(x, u) ==
  x.kind = "enable" /\ x.who = u /\ x.pc \in {"show", "done", "died"}

Backed(u) ==
  Live(u) /\ ~user[u].edited =>
    /\ user[u].twoFAEnabled <=> user[u].twoFASecret # NoReq
    /\ user[u].twoFASecret # NoReq => Secured(req[user[u].twoFASecret], u)

IInv ==
  /\ TypeOK
  /\ \A r \in Reqs : InOrder(req[r])
  /\ \A u \in Ids : Sound(u) /\ Backed(u)

\* What a request has done stays done: it goes on from x to y.
Follows(x, y) ==
  /\ \A u : Explains(x, u) => Explains(y, u)
  /\ \A u : Secured(x, u) => Secured(y, u)

-----------------------------------------------------------------------------

LEMMA Initial == Init => IInv
<1> SUFFICES ASSUME Init PROVE IInv
  OBVIOUS
<1>1. \A r \in Reqs : req[r] = NoRequest
  BY DEF Init
<1>2. NoRequest \in Request /\ InOrder(NoRequest)
  BY AccountsAssumption DEF NoRequest, Request, InOrder, Steps
<1>3. PICK emails \in [Members -> Emails], names \in [Members -> Names],
           balances \in [Members -> Openings] :
        /\ \A u, v \in Members : u # v => emails[u] # emails[v] /\ names[u] # names[v]
        /\ user = [u \in Ids |-> IF u \in Members
                                 THEN NewUser(emails[u], names[u], balances[u])
                                 ELSE NoUser]
  BY DEF Init
<1>4. ASSUME NEW e \in Emails \cup {NoEmail}, NEW n \in Names \cup {NoName}, NEW b \in Nat
      PROVE  /\ NewUser(e, n, b) \in User
             /\ NewUser(e, n, b).balance = b /\ NewUser(e, n, b).twoFASecret = NoReq
             /\ ~NewUser(e, n, b).twoFAEnabled
             /\ NewUser(e, n, b).email = e /\ NewUser(e, n, b).username = n
  BY <1>4 DEF NewUser, User
<1>5. NoUser \in User /\ NoUser.state = "none" /\ NoUser.balance = 0
  <2>1. PICK x : x = NewUser(NoEmail, NoName, 0)
    OBVIOUS
  <2>2. x \in User /\ x.balance = 0
    BY <2>1 DEF NewUser, User
  <2>3. NoUser = [x EXCEPT !.state = "none"]
    BY <2>1 DEF NoUser
  <2> QED BY <2>2, <2>3 DEF User
<1>6. ASSUME NEW u \in Ids
      PROVE  /\ user[u] \in User /\ user[u].balance >= 0
             /\ user[u].state # "none" =>
                  /\ u \in Members /\ user[u].email = emails[u] /\ user[u].username = names[u]
                  /\ user[u].twoFASecret = NoReq /\ ~user[u].twoFAEnabled
  <2>1. CASE u \in Members
    <3>1. user[u] = NewUser(emails[u], names[u], balances[u]) /\ balances[u] \in Nat
      BY <1>3, <2>1, AccountsAssumption
    <3> QED BY <1>4, <2>1, <3>1
  <2>2. CASE u \notin Members
    BY <1>3, <1>5, <2>2
  <2> QED BY <2>1, <2>2
<1>7. TypeOK
  BY <1>1, <1>2, <1>3, <1>6, AccountsAssumption DEF Init, TypeOK, Live
<1>8. ASSUME NEW u \in Ids PROVE Sound(u) /\ Backed(u)
  <2>1. user[u].balance \in Int
    BY <1>6 DEF User
  <2> QED BY <1>6, <2>1 DEF Sound, Backed, Live
<1> QED BY <1>1, <1>2, <1>7, <1>8 DEF IInv

-----------------------------------------------------------------------------
(* Three kinds of steps: of a request alone, of a request and one row, and     *)
(* updates of a balance.                                                   *)

LEMMA OthersFollow == \A x : Follows(x, x)
  BY DEF Follows

\* The explanations and secrets there are stay.
LEMMA SoundKept ==
  ASSUME IInv, NEW u \in Ids, \A q \in Reqs : Follows(req[q], req'[q]),
         user'[u].balance >= user[u].balance, user'[u].balance \in Int
  PROVE  Sound(u)'
<1> SUFFICES ASSUME user'[u].balance < 0 PROVE \E r \in Reqs : Explains(req'[r], u)
  BY DEF Sound, Explains
<1>1. user[u].balance < 0
  BY DEF IInv, TypeOK, User
<1>2. PICK r \in Reqs : Explains(req[r], u)
  BY <1>1 DEF IInv, Sound
<1> QED BY <1>2 DEF Follows

LEMMA BackedKept ==
  ASSUME IInv, NEW u \in Ids, \A q \in Reqs : Follows(req[q], req'[q]),
         user'[u].state = user[u].state, user'[u].edited = user[u].edited,
         user'[u].twoFAEnabled = user[u].twoFAEnabled,
         user'[u].twoFASecret = user[u].twoFASecret
  PROVE  Backed(u)'
<1> SUFFICES ASSUME user[u].state = "live", ~user[u].edited
             PROVE  /\ user[u].twoFAEnabled <=> user[u].twoFASecret # NoReq
                    /\ user[u].twoFASecret # NoReq => Secured(req'[user[u].twoFASecret], u)
  BY DEF Backed, Live, Secured
<1>1. Backed(u) /\ Live(u)
  BY DEF IInv, Live
<1>2. PICK s : s = user[u].twoFASecret
  OBVIOUS
<1>3. s \in Reqs \cup {NoReq}
  BY <1>2 DEF IInv, TypeOK, User
<1>4. s # NoReq => Secured(req'[s], u)
  BY <1>1, <1>2, <1>3 DEF Backed, Follows
<1> QED BY <1>1, <1>2, <1>4 DEF Backed

LEMMA InOrderKept ==
  ASSUME NEW x, InOrder(x), UNCHANGED user
  PROVE  InOrder(x)'
  BY DEF InOrder

LEMMA Amounted == Amounts \cup {0} \subseteq Nat
<1>1. \A a \in Amounts : a \in Nat \ {0}
  BY AccountsAssumption
<1> QED BY <1>1

LEMMA QuietStep ==
  ASSUME IInv, UNCHANGED user, faults' \in 0 .. MaxFaults,
         NEW r \in Reqs, NEW x \in Request, req' = [req EXCEPT ![r] = x],
         InOrder(x), Follows(req[r], x)
  PROVE  IInv'
<1>1. TypeOK /\ req \in [Reqs -> Request]
  BY DEF IInv, TypeOK
<1>2. req' \in [Reqs -> Request] /\ \A q \in Reqs : req'[q] = IF q = r THEN x ELSE req[q]
  BY <1>1
<1>3. TypeOK'
  BY <1>1, <1>2 DEF TypeOK, Live
<1>4. \A q \in Reqs : Follows(req[q], req'[q])
  BY <1>2, OthersFollow
<1>5. ASSUME NEW q \in Reqs PROVE InOrder(req[q])'
  <2>1. PICK y : y = req'[q]
    OBVIOUS
  <2>2. InOrder(y)
    BY <1>2, <2>1 DEF IInv
  <2>3. InOrder(y)'
    BY <2>2, InOrderKept
  <2> QED BY <2>1, <2>3 DEF InOrder
<1>6. \A u \in Ids : user[u].balance \in Int
  BY <1>1 DEF TypeOK, User
<1>7. \A u \in Ids : Sound(u)' /\ Backed(u)'
  BY <1>4, <1>6, SoundKept, BackedKept
<1> QED BY <1>3, <1>5, <1>7 DEF IInv

\* The row of u becomes y: it may be new, and keeps its balance otherwise.
LEMMA RowStep ==
  ASSUME IInv, UNCHANGED faults,
         NEW r \in Reqs, NEW x \in Request, req' = [req EXCEPT ![r] = x],
         Follows(req[r], x), InOrder(x), x.pc \notin {"decide", "check", "stake", "charge"},
         NEW u \in Ids, NEW y \in User, user' = [user EXCEPT ![u] = y],
         y.state # "none",
         y.balance = user[u].balance \/ (user[u].state = "none" /\ y.balance = 0),
         y.state = "live" => Unique(u, y.email, y.username),
         y.state = "live" /\ ~y.edited =>
           /\ y.twoFAEnabled <=> y.twoFASecret # NoReq
           /\ y.twoFASecret # NoReq => Secured(req'[y.twoFASecret], u)
  PROVE  IInv'
<1>1. TypeOK /\ req \in [Reqs -> Request] /\ user \in [Ids -> User]
  BY DEF IInv, TypeOK
<1>2. /\ req' \in [Reqs -> Request]
      /\ \A q \in Reqs : req'[q] = IF q = r THEN x ELSE req[q]
      /\ user' \in [Ids -> User]
      /\ \A v \in Ids : user'[v] = IF v = u THEN y ELSE user[v]
  BY <1>1
<1>3. TypeOK'
  <2>1. ASSUME NEW v \in Ids, NEW w \in Ids, v # w, Live(v)', Live(w)'
        PROVE  user'[v].email # user'[w].email /\ user'[v].username # user'[w].username
    BY <1>1, <1>2, <2>1 DEF TypeOK, Live, Unique
  <2> QED BY <1>1, <1>2, <2>1 DEF TypeOK
<1>4. \A q \in Reqs : Follows(req[q], req'[q])
  BY <1>2, OthersFollow
<1>5. ASSUME NEW q \in Reqs PROVE InOrder(req[q])'
  <2>1. PICK z \in Request : z = req'[q]
    BY <1>2
  <2>2. InOrder(z)
    BY <1>2, <2>1 DEF IInv
  <2>3. InOrder(z)'
    <3>1. CASE z.who = u
      <4>1. user'[z.who].state # "none" /\ user'[z.who].balance = user[u].balance
        BY <1>2, <2>2, <3>1 DEF InOrder
      <4> QED BY <2>2, <3>1, <4>1 DEF InOrder
    <3>2. CASE z.who # u /\ z.who \in Ids
      <4>1. user'[z.who] = user[z.who]
        BY <1>2, <3>2
      <4> QED BY <2>2, <3>2, <4>1 DEF InOrder
    <3>3. CASE z.who \notin Ids
      BY <2>2, <3>3 DEF InOrder, Steps
    <3> QED BY <3>1, <3>2, <3>3
  <2> QED BY <2>1, <2>3 DEF InOrder
<1>6. ASSUME NEW v \in Ids PROVE Sound(v)' /\ Backed(v)'
  <2>1. user'[v].balance \in Int
    BY <1>2 DEF User
  <2>2. CASE v # u
    <3>1. user'[v] = user[v]
      BY <1>2, <2>2
    <3> QED BY <1>4, <2>1, <3>1, SoundKept, BackedKept
  <2>3. CASE v = u
    <3>1. user'[v] = y
      BY <1>2, <2>3
    <3>2. Sound(v)'
      <4>1. CASE y.balance = user[u].balance
        BY <1>4, <2>1, <2>3, <3>1, <4>1, SoundKept
      <4>2. CASE y.balance = 0
        BY <3>1, <4>2 DEF Sound
      <4> QED BY <4>1, <4>2
    <3>3. Backed(v)'
      <4> SUFFICES ASSUME y.state = "live", ~y.edited PROVE Backed(v)'
        BY <3>1 DEF Backed, Live
      <4> QED BY <2>3, <3>1 DEF Backed, Secured
    <3> QED BY <3>2, <3>3
  <2> QED BY <2>2, <2>3
<1> QED BY <1>3, <1>5, <1>6 DEF IInv

\* A credit, or a debit that leaves enough or is explained by r, which is done
\* with what it has read.
LEMMA BookStep ==
  ASSUME IInv, UNCHANGED faults,
         NEW r \in Reqs, NEW x \in Request, NEW u \in Ids, NEW c \in Int,
         Live(u), Book(u, c, r, x), InOrder(x), Follows(req[r], x),
         x.pc \in {"credit", "done"},
         c >= 0 \/ user[u].balance + c >= 0 \/ Explains(x, u)
  PROVE  IInv'
<1>1. TypeOK /\ req \in [Reqs -> Request] /\ user \in [Ids -> User]
  BY DEF IInv, TypeOK
<1>2. user' = [user EXCEPT ![u].balance = @ + c]
  BY DEF Book
<1>3. ASSUME NEW v \in Ids
      PROVE  /\ user'[v] \in User
             /\ user'[v].balance = IF v = u THEN user[u].balance + c ELSE user[v].balance
             /\ user'[v].state = user[v].state /\ user'[v].edited = user[v].edited
             /\ user'[v].twoFAEnabled = user[v].twoFAEnabled
             /\ user'[v].twoFASecret = user[v].twoFASecret
             /\ user'[v].email = user[v].email /\ user'[v].username = user[v].username
  BY <1>1, <1>2 DEF User
<1>4. ASSUME NEW q \in Reqs
      PROVE  req'[q] = IF q = r THEN x
                       ELSE IF Remembers(q, u)
                       THEN [req[q] EXCEPT !.overtaken =
                               @ \cup {IF c < 0 THEN "lowered" ELSE "raised"}]
                       ELSE req[q]
  BY DEF Book
<1>5. ASSUME NEW q \in Reqs, q # r
      PROVE  /\ req'[q] \in Request
             /\ req'[q].pc = req[q].pc /\ req'[q].kind = req[q].kind
             /\ req'[q].who = req[q].who /\ req'[q].seen = req[q].seen
             /\ req'[q].amount = req[q].amount /\ req'[q].paid = req[q].paid
             /\ req'[q].overtaken = IF Remembers(q, u)
                                    THEN req[q].overtaken
                                           \cup {IF c < 0 THEN "lowered" ELSE "raised"}
                                    ELSE req[q].overtaken
  <2>1. PICK y \in Request : y = req[q]
    BY <1>1
  <2>2. PICK d \in {"raised", "lowered"} : d = IF c < 0 THEN "lowered" ELSE "raised"
    OBVIOUS
  <2>3. PICK z : z = [y EXCEPT !.overtaken = @ \cup {d}]
    OBVIOUS
  <2>4. /\ z \in Request /\ z.overtaken = y.overtaken \cup {d}
        /\ z.pc = y.pc /\ z.kind = y.kind /\ z.who = y.who
        /\ z.seen = y.seen /\ z.amount = y.amount /\ z.paid = y.paid
    BY <2>1, <2>2, <2>3 DEF Request
  <2>5. req'[q] = IF Remembers(q, u) THEN z ELSE y
    BY <1>4, <1>5, <2>1, <2>2, <2>3
  <2> QED BY <2>1, <2>2, <2>4, <2>5
<1>6. TypeOK'
  <2>1. req' \in [Reqs -> Request]
    <3>1. \A q \in Reqs : req'[q] \in Request
      BY <1>4, <1>5
    <3> QED BY <3>1 DEF Book
  <2>2. user' \in [Ids -> User]
    BY <1>1, <1>2, <1>3
  <2>3. ASSUME NEW v \in Ids, NEW w \in Ids, v # w, Live(v)', Live(w)'
        PROVE  user'[v].email # user'[w].email /\ user'[v].username # user'[w].username
    BY <1>1, <1>3, <2>3 DEF TypeOK, Live
  <2> QED BY <1>1, <2>1, <2>2, <2>3 DEF TypeOK
<1>7. ASSUME NEW q \in Reqs PROVE Follows(req[q], req'[q])
  <2>1. CASE q = r
    BY <1>4, <2>1
  <2>2. CASE q # r
    BY <1>5, <2>2 DEF Follows, Explains, Secured
  <2> QED BY <2>1, <2>2
<1>8. ASSUME NEW q \in Reqs PROVE InOrder(req[q])'
  <2>1. CASE q = r
    <3>1. req'[q] = x
      BY <1>4, <2>1
    <3>2. x.who \in Ids => user'[x.who].state # "none"
      BY <1>3 DEF InOrder
    <3> QED BY <3>1, <3>2 DEF InOrder
  <2>2. CASE q # r
    <3>1. PICK y \in Request : y = req[q]
      BY <1>1
    <3>2. InOrder(y)
      BY <3>1 DEF IInv
    <3>3. PICK z \in Request : z = req'[q]
      BY <1>5, <2>2
    <3>4. /\ z.pc = y.pc /\ z.kind = y.kind /\ z.who = y.who /\ z.seen = y.seen
          /\ z.amount = y.amount /\ z.paid = y.paid
          /\ y.who = u /\ y.pc \in {"decide", "check", "charge", "stake"} =>
               z.overtaken = y.overtaken \cup {IF c < 0 THEN "lowered" ELSE "raised"}
          /\ ~(y.who = u /\ y.pc \in {"decide", "check", "charge", "stake"}) =>
               z.overtaken = y.overtaken
      BY <1>5, <2>2, <3>1, <3>3 DEF Remembers
    <3>5. /\ z.paid => z.pc \in {"credit", "done", "died"}
          /\ z.pc = "debit" => z.kind = "transfer"
          /\ z.pc \in {"enable", "show"} => z.kind = "enable"
          /\ z.pc \in Steps \ {"find", "create", "welcome"} => z.who \in Ids
          /\ z.who \in Ids => user'[z.who].state # "none"
      BY <1>3, <3>2, <3>4 DEF InOrder
    <3>6. ASSUME z.pc \in {"decide", "check", "stake", "charge"}
          PROVE  /\ z.who \in Ids /\ user[z.who].balance \in Int
                 /\ z.seen \in Int /\ z.amount \in Int
                 /\ user'[z.who].balance =
                      IF z.who = u THEN user[z.who].balance + c ELSE user[z.who].balance
      <4>1. z.who \in Ids
        BY <3>5, <3>6 DEF Steps
      <4>2. user[z.who] \in User
        BY <1>1, <4>1
      <4>3. user[z.who].balance \in Int
        BY <4>2 DEF User
      <4>4. z.seen \in Int /\ z.amount \in Amounts \cup {0}
        BY <3>3 DEF Request
      <4>5. z.amount \in Int
        BY <4>4, Amounted
      <4> QED BY <1>3, <4>1, <4>3, <4>4, <4>5
    <3>7. /\ z.pc \in {"decide", "check"} =>
               /\ "lowered" \notin z.overtaken => user'[z.who].balance >= z.seen
               /\ z.overtaken = {} => user'[z.who].balance = z.seen
          /\ z.pc \in {"stake", "charge"} /\ "lowered" \notin z.overtaken =>
               user'[z.who].balance >= z.amount
      <4>1. CASE z.who = u /\ z.pc \in {"decide", "check", "stake", "charge"}
        <5>1. z.overtaken # {} /\ (c < 0 => "lowered" \in z.overtaken)
              /\ ("lowered" \notin z.overtaken => "lowered" \notin y.overtaken)
          BY <3>4, <4>1
        <5> QED BY <3>2, <3>4, <3>6, <4>1, <5>1 DEF InOrder
      <4>2. CASE ~(z.who = u /\ z.pc \in {"decide", "check", "stake", "charge"})
        <5>1. z.overtaken = y.overtaken
          BY <3>4, <4>2
        <5> QED BY <3>2, <3>4, <3>6, <4>2, <5>1 DEF InOrder
      <4> QED BY <4>1, <4>2
    <3> QED BY <3>3, <3>5, <3>7 DEF InOrder
  <2> QED BY <2>1, <2>2
<1>9. ASSUME NEW v \in Ids PROVE Sound(v)'
  <2>1. user'[v].balance \in Int /\ user[v].balance \in Int
    BY <1>1, <1>3 DEF User
  <2>2. CASE v # u \/ c >= 0
    <3>1. user'[v].balance >= user[v].balance
      BY <1>3, <2>1, <2>2
    <3> QED BY <1>7, <2>1, <3>1, SoundKept
  <2>3. CASE v = u /\ user[u].balance + c >= 0
    BY <1>3, <2>1, <2>3 DEF Sound
  <2>4. CASE v = u /\ Explains(x, u)
    BY <1>4, <2>4 DEF Sound, Explains
  <2> QED BY <2>2, <2>3, <2>4
<1>10. \A v \in Ids : Backed(v)'
  BY <1>3, <1>7, BackedKept
<1> QED BY <1>6, <1>8, <1>9, <1>10 DEF IInv
-----------------------------------------------------------------------------
(* The steps of requests.                                                  *)

\* A request that ends, and one that starts.
LEMMA EndsWell ==
  ASSUME IInv, NEW r \in Reqs, req[r].pc \in Steps, NEW p \in {"done", "died"}
  PROVE  /\ Ends(r, p) \in Request /\ Ends(r, p).pc = p
         /\ InOrder(Ends(r, p)) /\ Follows(req[r], Ends(r, p))
         /\ Ends(r, p).who = req[r].who /\ Ends(r, p).kind = req[r].kind
         /\ Ends(r, p).overtaken = req[r].overtaken /\ Ends(r, p).paid = req[r].paid
<1>1. PICK y \in Request : y = req[r]
  BY DEF IInv, TypeOK
<1>2. InOrder(y) /\ y.pc \in Steps
  BY <1>1 DEF IInv
<1>3. PICK z1 : z1 = [y EXCEPT !.pc = p]
  OBVIOUS
<1>4. /\ z1 \in Request /\ z1.pc = p
      /\ z1.who = y.who /\ z1.kind = y.kind /\ z1.paid = y.paid /\ z1.overtaken = y.overtaken
  BY <1>3 DEF Request
<1>5. PICK z2 : z2 = [z1 EXCEPT !.seen = 0]
  OBVIOUS
<1>6. /\ z2 \in Request /\ z2.pc = p
      /\ z2.who = y.who /\ z2.kind = y.kind /\ z2.paid = y.paid /\ z2.overtaken = y.overtaken
  BY <1>4, <1>5 DEF Request
<1>7. PICK z : z = [z2 EXCEPT !.email = NoEmail]
  OBVIOUS
<1>8. /\ z \in Request /\ z.pc = p
      /\ z.who = y.who /\ z.kind = y.kind /\ z.paid = y.paid /\ z.overtaken = y.overtaken
  BY <1>6, <1>7 DEF Request
<1>9. z = Ends(r, p)
  BY <1>1, <1>3, <1>5, <1>7 DEF Ends
<1>10. InOrder(z)
  BY <1>2, <1>8 DEF InOrder, Steps
<1>11. Follows(y, z)
  BY <1>2, <1>8 DEF Follows, Explains, Secured
<1> QED BY <1>1, <1>8, <1>9, <1>10, <1>11

LEMMA EndStep ==
  ASSUME IInv, NEW r \in Reqs, req[r].pc \in Steps, NEW p \in {"done", "died"},
         req' = [req EXCEPT ![r] = Ends(r, p)], UNCHANGED user,
         faults' \in 0 .. MaxFaults
  PROVE  IInv'
<1>1. PICK x : x = Ends(r, p)
  OBVIOUS
<1>2. x \in Request /\ InOrder(x) /\ Follows(req[r], x)
  BY <1>1, EndsWell
<1>3. req' = [req EXCEPT ![r] = x]
  BY <1>1
<1> QED BY <1>2, <1>3, QuietStep

LEMMA FinishStep ==
  ASSUME IInv, NEW r \in Reqs, req[r].pc \in Steps, Finish(r), UNCHANGED <<user, faults>>
  PROVE  IInv'
BY EndStep DEF Finish, IInv, TypeOK

LEMMA SendStep ==
  ASSUME IInv, NEW r \in Reqs, NEW u \in Ids, NEW x \in Request, Send(r, u, x),
         x.pc \in {"enable", "disable", "update", "decide", "debit", "read", "check", "deposit"},
         x.pc = "debit" => x.kind = "transfer", x.pc = "enable" => x.kind = "enable",
         ~x.paid
  PROVE  IInv'
<1>1. PICK b : b = user[u].balance
  OBVIOUS
<1>2. b \in Int /\ user[u].state # "none"
  BY <1>1 DEF Send, Live, IInv, TypeOK, User
<1>3. PICK y : y = [x EXCEPT !.who = u]
  OBVIOUS
<1>4. /\ y \in Request /\ y.who = u
      /\ y.pc = x.pc /\ y.kind = x.kind /\ y.paid = x.paid
  BY <1>3 DEF Request
<1>5. PICK z : z = [y EXCEPT !.seen = b]
  OBVIOUS
<1>6. /\ z \in Request /\ z.who = u /\ z.seen = b
      /\ z.pc = x.pc /\ z.kind = x.kind /\ z.paid = x.paid
  BY <1>2, <1>4, <1>5 DEF Request
<1>7. req' = [req EXCEPT ![r] = z]
  BY <1>1, <1>3, <1>5 DEF Send
<1>8. InOrder(z)
  BY <1>1, <1>2, <1>6 DEF InOrder
<1>9. Follows(req[r], z)
  <2>1. req[r].pc = "idle" /\ InOrder(req[r])
    BY DEF Send, At, IInv
  <2> QED BY <2>1 DEF Follows, Explains, Secured, InOrder
<1>10. UNCHANGED user /\ faults' \in 0 .. MaxFaults
  BY DEF Send, IInv, TypeOK
<1> QED BY <1>6, <1>7, <1>8, <1>9, <1>10, QuietStep

LEMMA Begun ==
  ASSUME NEW p \in Steps, NEW k \in {"profile", "enable", "disable", "delete", "transfer",
                                     "stake", "withdraw", "deposit"}
  PROVE  /\ Begin(p, k) \in Request
         /\ Begin(p, k).pc = p /\ Begin(p, k).kind = k /\ ~Begin(p, k).paid
<1>1. NoRequest \in Request /\ ~NoRequest.paid
  BY DEF NoRequest, Request
<1>2. PICK y : y = [NoRequest EXCEPT !.pc = p]
  OBVIOUS
<1>3. y \in Request /\ y.pc = p /\ ~y.paid
  BY <1>1, <1>2 DEF Request
<1>4. PICK z : z = [y EXCEPT !.kind = k]
  OBVIOUS
<1>5. z \in Request /\ z.pc = p /\ z.kind = k /\ ~z.paid
  BY <1>3, <1>4 DEF Request
<1> QED BY <1>2, <1>4, <1>5 DEF Begin

LEMMA Sends ==
  ASSUME IInv, NEW r \in Reqs, NEW u \in Ids,
         \/ SendEnable(r, u) \/ SendDisable(r, u) \/ SendProfile(r, u) \/ SendDelete(r, u)
         \/ SendTransfer(r, u) \/ SendStake(r, u) \/ SendWithdrawal(r, u)
         \/ SendDeposit(r, u)
  PROVE  IInv'
<1>1. CASE SendEnable(r, u)
  <2>1. PICK x : x = Begin("enable", "enable")
    OBVIOUS
  <2>2. x \in Request /\ x.pc = "enable" /\ x.kind = "enable" /\ ~x.paid
    BY <2>1, Begun DEF Steps
  <2> QED BY <1>1, <2>1, <2>2, SendStep DEF SendEnable
<1>2. CASE SendTransfer(r, u)
  <2>1. PICK a \in Amounts : Send(r, u, [Begin("debit", "transfer") EXCEPT !.amount = a])
    BY <1>2 DEF SendTransfer
  <2>2. PICK x : x = Begin("debit", "transfer")
    OBVIOUS
  <2>3. x \in Request /\ x.pc = "debit" /\ x.kind = "transfer" /\ ~x.paid
    BY <2>2, Begun DEF Steps
  <2>4. PICK y : y = [x EXCEPT !.amount = a]
    OBVIOUS
  <2>5. y \in Request /\ y.pc = "debit" /\ y.kind = "transfer" /\ ~y.paid
    BY <2>3, <2>4 DEF Request
  <2> QED BY <2>1, <2>2, <2>4, <2>5, SendStep
<1>3. CASE \E p \in {"disable", "update", "decide", "read", "check", "deposit"},
              k \in {"disable", "profile", "delete", "stake", "withdraw", "deposit"} :
              Send(r, u, Begin(p, k))
  <2>1. PICK p \in {"disable", "update", "decide", "read", "check", "deposit"},
             k \in {"disable", "profile", "delete", "stake", "withdraw", "deposit"} :
             Send(r, u, Begin(p, k))
    BY <1>3
  <2>2. PICK x : x = Begin(p, k)
    OBVIOUS
  <2>3. x \in Request /\ x.pc = p /\ ~x.paid
    BY <2>2, Begun DEF Steps
  <2> QED BY <2>1, <2>2, <2>3, SendStep
<1> QED BY <1>1, <1>2, <1>3 DEF SendDisable, SendProfile, SendDelete, SendStake,
                              SendWithdrawal, SendDeposit
-----------------------------------------------------------------------------
(* Sign up *)

\* A request that goes on at p, with everything it remembers.
LEMMA Moved ==
  ASSUME NEW y \in Request, NEW p \in Steps, NEW z, z = [y EXCEPT !.pc = p]
  PROVE  /\ z \in Request /\ z.pc = p /\ z.kind = y.kind /\ z.who = y.who
         /\ z.seen = y.seen /\ z.email = y.email /\ z.amount = y.amount
         /\ z.paid = y.paid /\ z.to = y.to /\ z.overtaken = y.overtaken
BY DEF Request

LEMMA SendSignupKeeps ==
  ASSUME IInv, NEW r \in Reqs, SendSignup(r)
  PROVE  IInv'
<1>1. PICK y \in Request : y = req[r]
  BY DEF IInv, TypeOK
<1>2. y.pc = "idle" /\ InOrder(y)
  BY <1>1 DEF SendSignup, At, IInv
<1>3. PICK x : x = [y EXCEPT !.pc = "create"]
  OBVIOUS
<1>4. x \in Request /\ x.pc = "create" /\ x.who = y.who /\ x.paid = y.paid
  BY <1>3, Moved DEF Steps
<1>5. PICK z : z = [x EXCEPT !.kind = "signup"]
  OBVIOUS
<1>6. z \in Request /\ z.pc = "create" /\ z.who = y.who /\ z.paid = y.paid
      /\ z.kind = "signup"
  BY <1>4, <1>5 DEF Request
<1>7. req' = [req EXCEPT ![r] = z]
  BY <1>1, <1>3, <1>5 DEF SendSignup
<1>8. InOrder(z) /\ Follows(y, z)
  BY <1>2, <1>6 DEF InOrder, Follows, Explains, Secured
<1>9. UNCHANGED user /\ faults' \in 0 .. MaxFaults
  BY DEF SendSignup, IInv, TypeOK
<1> QED BY <1>1, <1>6, <1>7, <1>8, <1>9, QuietStep

LEMMA SendGoogleKeeps ==
  ASSUME IInv, NEW r \in Reqs, NEW e \in Emails, SendGoogle(r, e)
  PROVE  IInv'
<1>1. PICK y \in Request : y = req[r]
  BY DEF IInv, TypeOK
<1>2. y.pc = "idle" /\ InOrder(y)
  BY <1>1 DEF SendGoogle, At, IInv
<1>3. PICK x : x = [y EXCEPT !.pc = "find"]
  OBVIOUS
<1>4. x \in Request /\ x.pc = "find" /\ x.who = y.who /\ x.paid = y.paid
  BY <1>3, Moved DEF Steps
<1>5. PICK w : w = [x EXCEPT !.kind = "google"]
  OBVIOUS
<1>6. w \in Request /\ w.pc = "find" /\ w.who = y.who /\ w.paid = y.paid
      /\ w.kind = "google"
  BY <1>4, <1>5 DEF Request
<1>7. PICK z : z = [w EXCEPT !.email = e]
  OBVIOUS
<1>8. z \in Request /\ z.pc = "find" /\ z.who = y.who /\ z.paid = y.paid
      /\ z.kind = "google"
  BY <1>6, <1>7 DEF Request
<1>9. req' = [req EXCEPT ![r] = z]
  BY <1>1, <1>3, <1>5, <1>7 DEF SendGoogle
<1>10. InOrder(z) /\ Follows(y, z)
  BY <1>2, <1>8 DEF InOrder, Follows, Explains, Secured
<1>11. UNCHANGED user /\ faults' \in 0 .. MaxFaults
  BY DEF SendGoogle, IInv, TypeOK
<1> QED BY <1>1, <1>8, <1>9, <1>10, <1>11, QuietStep

LEMMA FindUserKeeps ==
  ASSUME IInv, NEW r \in Reqs, FindUser(r)
  PROVE  IInv'
<1>1. PICK y \in Request : y = req[r]
  BY DEF IInv, TypeOK
<1>2. y.pc = "find" /\ InOrder(y) /\ req[r].pc \in Steps
  BY <1>1 DEF FindUser, At, IInv, Steps
<1>3. CASE Finish(r)
  BY <1>2, <1>3, FinishStep DEF FindUser
<1>4. CASE Goto(r, "create")
  <2>1. PICK z : z = [y EXCEPT !.pc = "create"]
    OBVIOUS
  <2>2. z \in Request /\ z.pc = "create" /\ z.who = y.who /\ z.paid = y.paid
    BY <2>1, Moved DEF Steps
  <2>3. req' = [req EXCEPT ![r] = z]
    BY <1>1, <1>4, <2>1 DEF Goto
  <2>4. InOrder(z) /\ Follows(y, z)
    BY <1>2, <2>2 DEF InOrder, Follows, Explains, Secured
  <2>5. UNCHANGED user /\ faults' \in 0 .. MaxFaults
    BY DEF FindUser, IInv, TypeOK
  <2> QED BY <1>1, <2>2, <2>3, <2>4, <2>5, QuietStep
<1> QED BY <1>3, <1>4 DEF FindUser

LEMMA CreateUserKeeps ==
  ASSUME IInv, NEW r \in Reqs, CreateUser(r)
  PROVE  IInv'
<1>1. PICK y \in Request : y = req[r]
  BY DEF IInv, TypeOK
<1>2. y.pc = "create" /\ InOrder(y) /\ req[r].pc \in Steps
  BY <1>1 DEF CreateUser, At, IInv, Steps
<1>3. PICK e \in Emails, n \in Names :
        IF Unique(NoId, e, n)
        THEN \E u \in Ids : /\ user[u].state = "none"
                            /\ user' = [user EXCEPT ![u] = NewUser(e, n, 0)]
                            /\ Goto(r, "welcome")
        ELSE Refuse(r)
  BY DEF CreateUser
<1>4. CASE Refuse(r)
  BY <1>2, <1>4, FinishStep DEF CreateUser, Refuse
<1>5. CASE Unique(NoId, e, n)
  <2>1. PICK u \in Ids : /\ user[u].state = "none"
                         /\ user' = [user EXCEPT ![u] = NewUser(e, n, 0)]
                         /\ Goto(r, "welcome")
    BY <1>3, <1>5
  <2>2. PICK v : v = NewUser(e, n, 0)
    OBVIOUS
  <2>3. /\ v \in User /\ v.state = "live" /\ v.balance = 0
        /\ v.email = e /\ v.username = n /\ ~v.twoFAEnabled /\ v.twoFASecret = NoReq
    BY <2>2 DEF NewUser, User
  <2>4. Unique(u, e, n)
    BY <1>5, AccountsAssumption DEF Unique
  <2>5. PICK z : z = [y EXCEPT !.pc = "welcome"]
    OBVIOUS
  <2>6. z \in Request /\ z.pc = "welcome" /\ z.who = y.who /\ z.paid = y.paid
    BY <2>5, Moved DEF Steps
  <2>7. req' = [req EXCEPT ![r] = z] /\ user' = [user EXCEPT ![u] = v]
    BY <1>1, <2>1, <2>2, <2>5 DEF Goto
  <2>8. InOrder(z) /\ Follows(req[r], z)
    BY <1>1, <1>2, <2>6 DEF InOrder, Follows, Explains, Secured
  <2>9. UNCHANGED faults
    BY DEF CreateUser
  <2> QED BY <2>1, <2>3, <2>4, <2>6, <2>7, <2>8, <2>9, RowStep
<1> QED BY <1>3, <1>4, <1>5

-----------------------------------------------------------------------------
(* Two factor authentication and profiles *)

\* The columns of a row that is there are unique.
LEMMA UniqueRow ==
  ASSUME IInv, NEW u \in Ids, Live(u)
  PROVE  Unique(u, user[u].email, user[u].username) /\ user[u] \in User
BY DEF IInv, TypeOK, Unique

LEMMA EnableTwoFactorKeeps ==
  ASSUME IInv, NEW r \in Reqs, EnableTwoFactor(r)
  PROVE  IInv'
<1>1. PICK y \in Request : y = req[r]
  BY DEF IInv, TypeOK
<1>2. y.pc = "enable" /\ InOrder(y) /\ req[r].pc \in Steps
  BY <1>1 DEF EnableTwoFactor, At, IInv, Steps
<1>3. PICK u \in Ids : u = req[r].who
  BY <1>1, <1>2 DEF InOrder, Steps
<1>4. CASE Live(u)
  <2>1. /\ user' = [user EXCEPT ![u].twoFAEnabled = TRUE, ![u].twoFASecret = r,
                                ![u].edited = FALSE]
        /\ Goto(r, "show") /\ UNCHANGED faults
    BY <1>3, <1>4 DEF EnableTwoFactor
  <2>2. PICK o \in User : o = user[u]
    BY <1>4, UniqueRow
  <2>3. PICK v : v = [o EXCEPT !.twoFAEnabled = TRUE, !.twoFASecret = r, !.edited = FALSE]
    OBVIOUS
  <2>4. /\ v \in User /\ v.state = "live" /\ v.balance = user[u].balance
        /\ v.email = user[u].email /\ v.username = user[u].username
        /\ v.twoFAEnabled /\ v.twoFASecret = r
    BY <1>4, <2>2, <2>3 DEF User, Live
  <2>5. PICK z : z = [y EXCEPT !.pc = "show"]
    OBVIOUS
  <2>6. z \in Request /\ z.pc = "show" /\ z.who = y.who /\ z.paid = y.paid
        /\ z.kind = y.kind
    BY <2>5, Moved DEF Steps
  <2>7. req' = [req EXCEPT ![r] = z] /\ user' = [user EXCEPT ![u] = v]
    BY <1>1, <2>1, <2>2, <2>3, <2>5 DEF Goto
  <2>8. z.kind = "enable" /\ z.who = u
    BY <1>1, <1>2, <1>3, <2>6 DEF InOrder
  <2>9. InOrder(z) /\ Follows(req[r], z)
    BY <1>1, <1>2, <2>6, <2>8 DEF InOrder, Follows, Explains, Secured
  <2>10. req'[r] = z /\ r # NoReq
    BY <2>7, AccountsAssumption DEF IInv, TypeOK
  <2>11. Secured(req'[v.twoFASecret], u) /\ v.twoFASecret # NoReq
    BY <2>4, <2>6, <2>8, <2>10 DEF Secured
  <2>12. Unique(u, v.email, v.username)
    BY <1>4, <2>4, UniqueRow
  <2> QED BY <2>1, <2>4, <2>6, <2>7, <2>9, <2>11, <2>12, RowStep
<1>5. CASE ~Live(u)
  BY <1>2, <1>3, <1>5, FinishStep DEF EnableTwoFactor, Refuse
<1> QED BY <1>4, <1>5

\* A handler is through when it has updated the row of its user to v.
LEMMA LastUpdate ==
  ASSUME IInv, NEW r \in Reqs, req[r].pc \in Steps, Finish(r), UNCHANGED faults,
         NEW u \in Ids, NEW v \in User, user' = [user EXCEPT ![u] = v],
         v.state # "none", v.balance = user[u].balance,
         v.state = "live" => Unique(u, v.email, v.username),
         v.state = "live" /\ ~v.edited =>
           /\ v.twoFAEnabled <=> v.twoFASecret # NoReq
           /\ v.twoFASecret # NoReq => Secured(req[v.twoFASecret], u)
  PROVE  IInv'
<1>1. PICK x : x = Ends(r, "done")
  OBVIOUS
<1>2. x \in Request /\ InOrder(x) /\ Follows(req[r], x) /\ x.pc = "done"
  BY <1>1, EndsWell
<1>3. req' = [req EXCEPT ![r] = x]
  BY <1>1 DEF Finish
<1>4. ASSUME NEW s \in Reqs, Secured(req[s], u) PROVE Secured(req'[s], u)
  BY <1>2, <1>3, <1>4 DEF Follows, IInv, TypeOK
<1>5. v.twoFASecret \in Reqs \cup {NoReq}
  BY DEF User
<1> QED BY <1>2, <1>3, <1>4, <1>5, RowStep

LEMMA DisableTwoFactorKeeps ==
  ASSUME IInv, NEW r \in Reqs, DisableTwoFactor(r)
  PROVE  IInv'
<1>1. req[r].pc = "disable" /\ InOrder(req[r]) /\ req[r].pc \in Steps
  BY DEF DisableTwoFactor, At, IInv, Steps
<1>2. PICK u \in Ids : u = req[r].who
  BY <1>1 DEF InOrder, Steps
<1>3. CASE Live(u)
  <2>1. PICK o \in User : o = user[u]
    BY <1>3, UniqueRow
  <2>2. PICK v : v = [o EXCEPT !.twoFAEnabled = FALSE, !.twoFASecret = NoReq, !.edited = FALSE]
    OBVIOUS
  <2>3. /\ v \in User /\ v.state = "live" /\ v.balance = user[u].balance
        /\ v.email = user[u].email /\ v.username = user[u].username
        /\ ~v.twoFAEnabled /\ v.twoFASecret = NoReq
    BY <1>3, <2>1, <2>2 DEF User, Live
  <2>4. user' = [user EXCEPT ![u] = v] /\ Finish(r) /\ UNCHANGED faults
    BY <1>2, <1>3, <2>1, <2>2 DEF DisableTwoFactor
  <2> QED BY <1>1, <1>3, <2>3, <2>4, UniqueRow, LastUpdate
<1>4. CASE ~Live(u)
  BY <1>1, <1>2, <1>4, FinishStep DEF DisableTwoFactor
<1> QED BY <1>3, <1>4

LEMMA UpdateProfileKeeps ==
  ASSUME IInv, NEW r \in Reqs, UpdateProfile(r)
  PROVE  IInv'
<1>1. req[r].pc = "update" /\ InOrder(req[r]) /\ req[r].pc \in Steps
  BY DEF UpdateProfile, At, IInv, Steps
<1> DEFINE u == req[r].who
<1>2. u \in Ids
  BY <1>1 DEF InOrder, Steps
<1>3. Finish(r) /\ UNCHANGED faults
  BY DEF UpdateProfile
<1>4. PICK e \in Emails, n \in Names, on \in BOOLEAN, s \in {user[u].twoFASecret, r} :
        IF Live(u) /\ Unique(u, e, n)
        THEN user' = [user EXCEPT ![u].email = e, ![u].username = n,
                                  ![u].twoFAEnabled = on, ![u].twoFASecret = s,
                                  ![u].edited = @ \/ on # user[u].twoFAEnabled
                                                  \/ s # user[u].twoFASecret]
        ELSE UNCHANGED user
  BY DEF UpdateProfile
<1> HIDE DEF u
<1>5. CASE UNCHANGED user
  BY <1>1, <1>3, <1>5, FinishStep
<1>6. CASE Live(u) /\ Unique(u, e, n)
  <2>1. PICK o \in User : o = user[u]
    BY <1>2, <1>6, UniqueRow
  <2>2. PICK d \in BOOLEAN : d = (o.edited \/ on # o.twoFAEnabled \/ s # o.twoFASecret)
    OBVIOUS
  <2>3. PICK v : v = [o EXCEPT !.email = e, !.username = n, !.twoFAEnabled = on,
                               !.twoFASecret = s, !.edited = d]
    OBVIOUS
  <2>4. /\ v \in User /\ v.state = "live" /\ v.balance = user[u].balance
        /\ v.email = e /\ v.username = n
        /\ v.twoFAEnabled = on /\ v.twoFASecret = s /\ v.edited = d
    BY <1>6, <2>1, <2>3 DEF User, Live
  <2>5. user' = [user EXCEPT ![u] = v]
    BY <1>4, <1>6, <2>1, <2>2, <2>3
  <2>6. ~d => on = user[u].twoFAEnabled /\ s = user[u].twoFASecret /\ ~user[u].edited
    BY <2>1, <2>2
  <2>7. Backed(u)
    BY <1>2 DEF IInv
  <2>8. ~d => /\ on <=> s # NoReq
              /\ s # NoReq => Secured(req[s], u)
    BY <1>2, <1>6, <2>6, <2>7 DEF Backed
  <2> QED BY <1>1, <1>2, <1>3, <1>6, <2>4, <2>5, <2>8, LastUpdate
<1> QED BY <1>4, <1>5, <1>6

LEMMA DeleteAccountKeeps ==
  ASSUME IInv, NEW r \in Reqs, DeleteAccount(r)
  PROVE  IInv'
<1>1. req[r].pc = "decide" /\ InOrder(req[r]) /\ req[r].pc \in Steps
  BY DEF DeleteAccount, At, IInv, Steps
<1>2. PICK u \in Ids : u = req[r].who
  BY <1>1 DEF InOrder, Steps
<1>3. Finish(r) /\ UNCHANGED faults
  BY DEF DeleteAccount
<1>4. CASE UNCHANGED user
  BY <1>1, <1>3, <1>4, FinishStep
<1>5. CASE user' = [user EXCEPT ![u].state = "deleted"]
  <2>1. PICK o \in User : o = user[u]
    BY DEF IInv, TypeOK
  <2>2. PICK v : v = [o EXCEPT !.state = "deleted"]
    OBVIOUS
  <2>3. v \in User /\ v.state = "deleted" /\ v.balance = user[u].balance
    BY <2>1, <2>2 DEF User
  <2>4. user' = [user EXCEPT ![u] = v]
    BY <1>5, <2>1, <2>2
  <2> QED BY <1>1, <1>3, <2>3, <2>4, LastUpdate
<1> QED BY <1>2, <1>4, <1>5 DEF DeleteAccount
-----------------------------------------------------------------------------
(* Transfers, stakes, withdrawals and deposits *)

LEMMA DebitSenderKeeps ==
  ASSUME IInv, NEW r \in Reqs, DebitSender(r)
  PROVE  IInv'
<1>1. PICK y \in Request : y = req[r]
  BY DEF IInv, TypeOK
<1>2. y.pc = "debit" /\ InOrder(y) /\ req[r].pc \in Steps
  BY <1>1 DEF DebitSender, At, IInv, Steps
<1>3. PICK u \in Ids : u = req[r].who
  BY <1>1, <1>2 DEF InOrder, Steps
<1>4. CASE Live(u)
  <2>1. PICK x : x = [y EXCEPT !.pc = "credit"]
    OBVIOUS
  <2>2. x \in Request /\ x.pc = "credit" /\ x.who = y.who /\ x.kind = y.kind
    BY <2>1, Moved DEF Steps
  <2>3. PICK z : z = [x EXCEPT !.paid = TRUE]
    OBVIOUS
  <2>4. z \in Request /\ z.pc = "credit" /\ z.who = y.who /\ z.kind = y.kind /\ z.paid
    BY <2>2, <2>3 DEF Request
  <2>5. y.amount \in Nat /\ -y.amount \in Int
    <3>1. y.amount \in Amounts \cup {0}
      BY DEF Request
    <3> QED BY <3>1, Amounted
  <2>6. z = [req[r] EXCEPT !.pc = "credit", !.paid = TRUE]
    BY <1>1, <2>1, <2>3
  <2>7. Book(u, -y.amount, r, z) /\ UNCHANGED faults
    BY <1>1, <1>3, <1>4, <2>6 DEF DebitSender
  <2>8. z.kind = "transfer" /\ z.who = u
    BY <1>1, <1>2, <1>3, <2>4 DEF InOrder
  <2>9. InOrder(z) /\ Follows(req[r], z) /\ Explains(z, u)
    BY <1>1, <1>2, <2>4, <2>8 DEF InOrder, Follows, Explains, Secured
  <2> QED BY <1>4, <2>4, <2>5, <2>7, <2>9, BookStep
<1>5. CASE ~Live(u)
  BY <1>2, <1>3, <1>5, FinishStep DEF DebitSender, Refuse
<1> QED BY <1>4, <1>5

LEMMA CreditRecipientKeeps ==
  ASSUME IInv, NEW r \in Reqs, CreditRecipient(r)
  PROVE  IInv'
<1>1. PICK y \in Request : y = req[r]
  BY DEF IInv, TypeOK
<1>2. y.pc = "credit" /\ req[r].pc \in Steps /\ UNCHANGED faults
  BY <1>1 DEF CreditRecipient, At, Steps
<1>3. PICK n \in Names :
        IF \E u \in Ids : Live(u) /\ user[u].username = n
        THEN \E u \in Ids : /\ Live(u) /\ user[u].username = n
                            /\ Book(u, req[r].amount, r, [Ends(r, "done") EXCEPT !.to = u])
        ELSE Refuse(r)
  BY DEF CreditRecipient
<1>4. CASE Refuse(r)
  BY <1>2, <1>4, FinishStep DEF Refuse
<1>5. CASE \E u \in Ids : /\ Live(u)
                          /\ Book(u, req[r].amount, r, [Ends(r, "done") EXCEPT !.to = u])
  <2>1. PICK u \in Ids : /\ Live(u)
                         /\ Book(u, req[r].amount, r, [Ends(r, "done") EXCEPT !.to = u])
    BY <1>5
  <2>2. PICK x \in Request : x = Ends(r, "done")
    BY <1>2, EndsWell
  <2>3. x.pc = "done" /\ InOrder(x) /\ Follows(req[r], x)
    BY <1>2, <2>2, EndsWell
  <2>4. PICK z : z = [x EXCEPT !.to = u]
    OBVIOUS
  <2>5. /\ z \in Request /\ z.pc = "done" /\ z.who = x.who /\ z.kind = x.kind
        /\ z.paid = x.paid /\ z.overtaken = x.overtaken
    BY <2>3, <2>4 DEF Request
  <2>6. InOrder(z) /\ Follows(req[r], z)
    BY <2>3, <2>5 DEF InOrder, Follows, Explains, Secured, Steps
  <2>7. y.amount \in Nat
    <3>1. y.amount \in Amounts \cup {0}
      BY DEF Request
    <3> QED BY <3>1, Amounted
  <2>8. Book(u, y.amount, r, z)
    BY <1>1, <2>1, <2>2, <2>4
  <2> QED BY <1>2, <2>1, <2>5, <2>6, <2>7, <2>8, BookStep
<1> QED BY <1>3, <1>4, <1>5

LEMMA ReadBalanceKeeps ==
  ASSUME IInv, NEW r \in Reqs, ReadBalance(r)
  PROVE  IInv'
<1>1. PICK y \in Request : y = req[r]
  BY DEF IInv, TypeOK
<1>2. y.pc = "read" /\ InOrder(y) /\ req[r].pc \in Steps /\ UNCHANGED faults
  BY <1>1 DEF ReadBalance, At, IInv, Steps
<1>3. PICK u \in Ids : u = req[r].who
  BY <1>1, <1>2 DEF InOrder, Steps
<1>4. PICK b : b = user[u].balance
  OBVIOUS
<1>5. PICK a \in Amounts :
        IF Live(req[r].who) /\ a <= user[req[r].who].balance
        THEN /\ req' = [req EXCEPT ![r].pc = "stake", ![r].amount = a,
                                   ![r].seen = user[req[r].who].balance]
             /\ UNCHANGED user
        ELSE Refuse(r)
  BY DEF ReadBalance
<1>6. CASE Refuse(r)
  BY <1>2, <1>6, FinishStep DEF Refuse
<1>7. CASE /\ Live(u) /\ a <= b /\ UNCHANGED user
           /\ req' = [req EXCEPT ![r].pc = "stake", ![r].amount = a, ![r].seen = b]
  <2>1. b \in Int /\ a \in Int
    BY <1>4, Amounted DEF IInv, TypeOK, User
  <2>2. PICK x : x = [y EXCEPT !.pc = "stake"]
    OBVIOUS
  <2>3. x \in Request /\ x.pc = "stake" /\ x.who = y.who /\ x.paid = y.paid
    BY <2>2, Moved DEF Steps
  <2>4. PICK w : w = [x EXCEPT !.amount = a]
    OBVIOUS
  <2>5. /\ w \in Request /\ w.pc = "stake" /\ w.who = y.who /\ w.paid = y.paid
        /\ w.amount = a
    BY <2>3, <2>4 DEF Request
  <2>6. PICK z : z = [w EXCEPT !.seen = b]
    OBVIOUS
  <2>7. /\ z \in Request /\ z.pc = "stake" /\ z.who = y.who /\ z.paid = y.paid
        /\ z.amount = a
    BY <2>1, <2>5, <2>6 DEF Request
  <2>8. req' = [req EXCEPT ![r] = z]
    BY <1>1, <1>7, <2>2, <2>4, <2>6
  <2>9. ~y.paid /\ user[u].state # "none" /\ z.who = u
    BY <1>1, <1>2, <1>3, <2>7 DEF InOrder
  <2>10. InOrder(z)
    BY <1>4, <1>7, <2>1, <2>7, <2>9 DEF InOrder
  <2>11. Follows(y, z)
    BY <1>2, <2>9 DEF Follows, Explains, Secured
  <2> QED BY <1>1, <1>2, <1>7, <2>7, <2>8, <2>10, <2>11, QuietStep DEF IInv, TypeOK
<1> QED BY <1>3, <1>4, <1>5, <1>6, <1>7

LEMMA CheckFundsKeeps ==
  ASSUME IInv, NEW r \in Reqs, CheckFunds(r)
  PROVE  IInv'
<1>1. PICK y \in Request : y = req[r]
  BY DEF IInv, TypeOK
<1>2. y.pc = "check" /\ InOrder(y) /\ req[r].pc \in Steps /\ UNCHANGED faults
  BY <1>1 DEF CheckFunds, At, IInv, Steps
<1>3. PICK a \in Amounts :
        IF req[r].seen < a \/ a < 5 \/ ~Live(req[r].who) THEN Refuse(r)
        ELSE /\ req' = [req EXCEPT ![r].pc = "charge", ![r].amount = a]
             /\ UNCHANGED user
  BY DEF CheckFunds
<1>4. CASE Refuse(r)
  BY <1>2, <1>4, FinishStep DEF Refuse
<1>5. CASE /\ ~(y.seen < a) /\ UNCHANGED user
           /\ req' = [req EXCEPT ![r].pc = "charge", ![r].amount = a]
  <2>1. PICK x : x = [y EXCEPT !.pc = "charge"]
    OBVIOUS
  <2>2. /\ x \in Request /\ x.pc = "charge" /\ x.who = y.who /\ x.paid = y.paid
        /\ x.overtaken = y.overtaken
    BY <2>1, Moved DEF Steps
  <2>3. PICK z : z = [x EXCEPT !.amount = a]
    OBVIOUS
  <2>4. /\ z \in Request /\ z.pc = "charge" /\ z.who = y.who /\ z.paid = y.paid
        /\ z.amount = a /\ z.overtaken = y.overtaken
    BY <2>2, <2>3 DEF Request
  <2>5. req' = [req EXCEPT ![r] = z]
    BY <1>1, <1>5, <2>1, <2>3
  <2>6. PICK u \in Ids : u = y.who
    BY <1>2 DEF InOrder, Steps
  <2>7. user[u].balance \in Int /\ y.seen \in Int /\ a \in Int
    BY Amounted DEF IInv, TypeOK, User, Request
  <2>8. /\ ~y.paid /\ user[u].state # "none"
        /\ "lowered" \notin y.overtaken => user[u].balance >= y.seen
    BY <1>2, <2>6 DEF InOrder
  <2>9. InOrder(z)
    BY <1>5, <2>4, <2>6, <2>7, <2>8 DEF InOrder
  <2>10. Follows(y, z)
    BY <1>2, <2>8 DEF Follows, Explains, Secured
  <2> QED BY <1>1, <1>2, <1>5, <2>4, <2>5, <2>9, <2>10, QuietStep DEF IInv, TypeOK
<1> QED BY <1>1, <1>3, <1>4, <1>5

LEMMA DebitCheckedKeeps ==
  ASSUME IInv, NEW r \in Reqs, DebitChecked(r)
  PROVE  IInv'
<1>1. PICK y \in Request : y = req[r]
  BY DEF IInv, TypeOK
<1>2. y.pc \in {"stake", "charge"} /\ InOrder(y) /\ req[r].pc \in Steps
  BY <1>1 DEF DebitChecked, IInv, Steps
<1>3. PICK u \in Ids : u = req[r].who
  BY <1>1, <1>2 DEF InOrder, Steps
<1>4. CASE Live(u)
  <2>1. PICK x \in Request : x = Ends(r, "done")
    BY <1>2, EndsWell
  <2>2. /\ x.pc = "done" /\ InOrder(x) /\ Follows(y, x)
        /\ x.who = u /\ x.kind = y.kind /\ x.overtaken = y.overtaken
    BY <1>1, <1>2, <1>3, <2>1, EndsWell
  <2>3. PICK z : z = [x EXCEPT !.paid = TRUE]
    OBVIOUS
  <2>4. /\ z \in Request /\ z.pc = "done" /\ z.who = u /\ z.kind = x.kind /\ z.paid
        /\ z.overtaken = y.overtaken
    BY <2>2, <2>3 DEF Request
  <2>5. Book(u, -y.amount, r, z) /\ UNCHANGED faults
    BY <1>1, <1>3, <1>4, <2>1, <2>3 DEF DebitChecked
  <2>6. y.amount \in Nat /\ -y.amount \in Int /\ user[u].balance \in Int
    <3>1. y.amount \in Amounts \cup {0}
      BY DEF Request
    <3> QED BY <3>1, Amounted DEF IInv, TypeOK, User
  <2>7. "lowered" \notin y.overtaken => user[u].balance >= y.amount
    BY <1>1, <1>2, <1>3 DEF InOrder
  <2>8. user[u].balance + (-y.amount) >= 0 \/ Explains(z, u)
    <3>1. CASE "lowered" \in y.overtaken
      BY <2>4, <3>1 DEF Explains
    <3>2. CASE "lowered" \notin y.overtaken
      BY <2>6, <2>7, <3>2
    <3> QED BY <3>1, <3>2
  <2>9. InOrder(z)
    BY <2>2, <2>4 DEF InOrder, Steps
  <2>10. Follows(y, z)
    BY <2>2, <2>4 DEF Follows, Explains, Secured
  <2> QED BY <1>1, <1>4, <2>4, <2>5, <2>6, <2>8, <2>9, <2>10, BookStep
<1>5. CASE ~Live(u)
  BY <1>2, <1>3, <1>5, FinishStep DEF DebitChecked, Refuse
<1> QED BY <1>4, <1>5

LEMMA CreditDepositKeeps ==
  ASSUME IInv, NEW r \in Reqs, CreditDeposit(r)
  PROVE  IInv'
<1>1. req[r].pc = "deposit" /\ InOrder(req[r]) /\ req[r].pc \in Steps /\ UNCHANGED faults
  BY DEF CreditDeposit, At, IInv, Steps
<1>2. PICK u \in Ids : u = req[r].who
  BY <1>1 DEF InOrder, Steps
<1>3. CASE Live(u)
  <2>1. PICK a \in Amounts :
          Book(u, a, r, [Ends(r, "done") EXCEPT !.amount = a, !.to = u])
    BY <1>2, <1>3 DEF CreditDeposit
  <2>2. PICK x \in Request : x = Ends(r, "done")
    BY <1>1, EndsWell
  <2>3. x.pc = "done" /\ InOrder(x) /\ Follows(req[r], x)
    BY <1>1, <2>2, EndsWell
  <2>4. PICK w : w = [x EXCEPT !.amount = a]
    OBVIOUS
  <2>5. /\ w \in Request /\ w.pc = "done" /\ w.who = x.who /\ w.kind = x.kind
        /\ w.paid = x.paid /\ w.overtaken = x.overtaken
    BY <2>3, <2>4 DEF Request
  <2>6. PICK z : z = [w EXCEPT !.to = u]
    OBVIOUS
  <2>7. /\ z \in Request /\ z.pc = "done" /\ z.who = x.who /\ z.kind = x.kind
        /\ z.paid = x.paid /\ z.overtaken = x.overtaken
    BY <2>5, <2>6 DEF Request
  <2>8. InOrder(z) /\ Follows(req[r], z)
    BY <2>3, <2>7 DEF InOrder, Follows, Explains, Secured, Steps
  <2>9. Book(u, a, r, z) /\ a \in Nat
    BY <2>1, <2>2, <2>4, <2>6, Amounted
  <2> QED BY <1>1, <1>3, <2>7, <2>8, <2>9, BookStep
<1>4. CASE ~Live(u)
  BY <1>1, <1>2, <1>4, FinishStep DEF CreditDeposit, Refuse
<1> QED BY <1>3, <1>4

-----------------------------------------------------------------------------
(* The invariant *)

LEMMA Inductive == IInv /\ [Next]_vars => IInv'
<1> SUFFICES ASSUME IInv, [Next]_vars PROVE IInv'
  OBVIOUS
<1>1. CASE UNCHANGED vars
  BY <1>1 DEF vars, IInv, TypeOK, Live, InOrder, Sound, Backed, Secured, Explains
<1>2. ASSUME NEW r \in Reqs, Signs(r) PROVE IInv'
  <2>1. CASE QueueWelcome(r)
    BY <2>1, FinishStep DEF QueueWelcome, At, Steps
  <2> QED BY <1>2, <2>1, SendSignupKeeps, SendGoogleKeeps, FindUserKeeps, CreateUserKeeps
          DEF Signs
<1>3. ASSUME NEW r \in Reqs, Secures(r) PROVE IInv'
  <2>1. CASE ShowCode(r)
    BY <2>1, FinishStep DEF ShowCode, At, Steps
  <2> QED BY <1>3, <2>1, Sends, EnableTwoFactorKeeps, DisableTwoFactorKeeps DEF Secures
<1>4. ASSUME NEW r \in Reqs, Serves(r) PROVE IInv'
  BY <1>4, Sends, UpdateProfileKeeps, DeleteAccountKeeps, DebitSenderKeeps,
     CreditRecipientKeeps DEF Serves
<1>5. ASSUME NEW r \in Reqs, Spends(r) PROVE IInv'
  BY <1>5, Sends, ReadBalanceKeeps, CheckFundsKeeps, DebitCheckedKeeps, CreditDepositKeeps
     DEF Spends
<1>6. ASSUME NEW r \in Reqs, CallFails(r) PROVE IInv'
  <2>1. faults' \in 0 .. MaxFaults
    BY <1>6, AccountsAssumption DEF CallFails, IInv, TypeOK
  <2> QED BY <1>6, <2>1, EndStep DEF CallFails
<1> QED BY <1>1, <1>2, <1>3, <1>4, <1>5, <1>6 DEF Next

\* An account is deleted by a request whose balance is the one that is there,
\* or has been overtaken.
LEMMA PoorStep ==
  ASSUME IInv, NEW r \in Reqs, DeleteAccount(r),
         NEW u \in Ids, user[u].state = "live", user'[u].state = "deleted"
  PROVE  /\ At(r, "decide") /\ req'[r].pc = "done" /\ req[r].who = u
         /\ user[u].balance <= 1 \/ user[u].balance = 5 \/ req[r].overtaken # {}
<1>1. user \in [Ids -> User] /\ req \in [Reqs -> Request]
  BY DEF IInv, TypeOK
<1>2. At(r, "decide") /\ req[r].pc \in Steps /\ InOrder(req[r])
  BY DEF DeleteAccount, At, Steps, IInv
<1>3. PICK w \in Ids : w = req[r].who
  BY <1>2 DEF InOrder, Steps, At
<1>4. user' = [user EXCEPT ![w].state = "deleted"] /\ ~Kept(req[r].seen)
  BY <1>3 DEF DeleteAccount
<1>5. w = u
  <2>1. \A v \in Ids \ {w} : user'[v] = user[v]
    BY <1>1, <1>4
  <2> QED BY <2>1
<1>6. req'[r].pc = "done"
  <2>1. PICK x : x = Ends(r, "done")
    OBVIOUS
  <2>2. x.pc = "done" /\ req' = [req EXCEPT ![r] = x]
    BY <1>2, <2>1, EndsWell DEF DeleteAccount, Finish
  <2> QED BY <1>1, <2>2
<1>7. user[u].balance \in Int
  BY <1>1 DEF User
<1>8. req[r].overtaken = {} => user[u].balance = req[r].seen
  BY <1>2, <1>3, <1>5 DEF InOrder, At
<1>9. req[r].overtaken = {} => user[u].balance <= 1 \/ user[u].balance = 5
  BY <1>4, <1>7, <1>8 DEF Kept
<1> QED BY <1>2, <1>3, <1>5, <1>6, <1>9

\* Every other update of a row leaves its state or makes it live.
LEMMA StaysLive ==
  ASSUME IInv, NEW w \in Ids, NEW v, user' = [user EXCEPT ![w] = v],
         v.state = user[w].state \/ v.state = "live",
         NEW u \in Ids, user[u].state = "live"
  PROVE  user'[u].state = "live"
BY DEF IInv, TypeOK

LEMMA BookStaysLive ==
  ASSUME IInv, NEW w \in Ids, NEW c, NEW r, NEW x, Book(w, c, r, x),
         NEW u \in Ids, user[u].state = "live"
  PROVE  user'[u].state = "live"
<1>1. PICK o \in User : o = user[w]
  BY DEF IInv, TypeOK
<1>2. PICK z : z = [o EXCEPT !.balance = @ + c]
  OBVIOUS
<1>3. z.state = o.state
  BY <1>2 DEF User
<1>4. user' = [user EXCEPT ![w] = z]
  BY <1>1, <1>2 DEF Book
<1> QED BY <1>1, <1>3, <1>4, StaysLive
LEMMA OnlyDeleteAccountDeletes ==
  ASSUME IInv, NEW r \in Reqs, Signs(r) \/ Secures(r) \/ Serves(r) \/ Spends(r) \/ CallFails(r),
         NEW u \in Ids, user[u].state = "live", user'[u].state = "deleted"
  PROVE  DeleteAccount(r)
<1> SUFFICES ASSUME ~DeleteAccount(r) PROVE FALSE
  OBVIOUS
<1>1. ~UNCHANGED user
  BY DEF IInv, TypeOK
<1>2. ASSUME NEW w \in Ids, NEW o, o = user[w], NEW v, user' = [user EXCEPT ![w] = v],
             v.state = o.state
      PROVE  FALSE
  BY <1>2, StaysLive
<1>3. ASSUME NEW w \in Ids PROVE user[w] \in User
  BY <1>3 DEF IInv, TypeOK
<1>4. ~CreateUser(r)
  <2> SUFFICES ASSUME CreateUser(r) PROVE FALSE
    OBVIOUS
  <2>1. PICK e \in Emails, n \in Names, w \in Ids : user' = [user EXCEPT ![w] = NewUser(e, n, 0)]
    BY <1>1 DEF CreateUser, Refuse
  <2>2. PICK v : v = NewUser(e, n, 0)
    OBVIOUS
  <2>3. v.state = "live" /\ user' = [user EXCEPT ![w] = v]
    BY <2>1, <2>2 DEF NewUser
  <2> QED BY <2>3, StaysLive
<1>5. ~EnableTwoFactor(r)
  <2> SUFFICES ASSUME EnableTwoFactor(r) PROVE FALSE
    OBVIOUS
  <2>1. PICK w \in Ids : user' = [user EXCEPT ![w].twoFAEnabled = TRUE, ![w].twoFASecret = r,
                                              ![w].edited = FALSE]
    BY <1>1 DEF EnableTwoFactor, Refuse, Live
  <2>2. PICK o \in User : o = user[w]
    BY <1>3
  <2>3. PICK v : v = [o EXCEPT !.twoFAEnabled = TRUE, !.twoFASecret = r, !.edited = FALSE]
    OBVIOUS
  <2>4. v.state = o.state /\ user' = [user EXCEPT ![w] = v]
    BY <2>1, <2>2, <2>3 DEF User
  <2> QED BY <1>2, <2>2, <2>4
<1>6. ~DisableTwoFactor(r)
  <2> SUFFICES ASSUME DisableTwoFactor(r) PROVE FALSE
    OBVIOUS
  <2>1. PICK w \in Ids : user' = [user EXCEPT ![w].twoFAEnabled = FALSE, ![w].twoFASecret = NoReq,
                                              ![w].edited = FALSE]
    BY <1>1 DEF DisableTwoFactor, Live
  <2>2. PICK o \in User : o = user[w]
    BY <1>3
  <2>3. PICK v : v = [o EXCEPT !.twoFAEnabled = FALSE, !.twoFASecret = NoReq, !.edited = FALSE]
    OBVIOUS
  <2>4. v.state = o.state /\ user' = [user EXCEPT ![w] = v]
    BY <2>1, <2>2, <2>3 DEF User
  <2> QED BY <1>2, <2>2, <2>4
<1>7. ~UpdateProfile(r)
  <2> SUFFICES ASSUME UpdateProfile(r) PROVE FALSE
    OBVIOUS
  <2> DEFINE w == req[r].who
  <2>1. PICK e \in Emails, n \in Names, on \in BOOLEAN, s \in {user[w].twoFASecret, r} :
          IF Live(w) /\ Unique(w, e, n)
          THEN user' = [user EXCEPT ![w].email = e, ![w].username = n,
                                    ![w].twoFAEnabled = on, ![w].twoFASecret = s,
                                    ![w].edited = @ \/ on # user[w].twoFAEnabled
                                                    \/ s # user[w].twoFASecret]
          ELSE UNCHANGED user
    BY DEF UpdateProfile
  <2> HIDE DEF w
  <2>2. /\ Live(w)
        /\ user' = [user EXCEPT ![w].email = e, ![w].username = n,
                                ![w].twoFAEnabled = on, ![w].twoFASecret = s,
                                ![w].edited = @ \/ on # user[w].twoFAEnabled
                                                \/ s # user[w].twoFASecret]
    BY <1>1, <2>1
  <2>3. PICK o \in User : o = user[w]
    BY <1>3, <2>2 DEF Live
  <2>4. PICK d : d = (o.edited \/ on # o.twoFAEnabled \/ s # o.twoFASecret)
    OBVIOUS
  <2>5. PICK v : v = [o EXCEPT !.email = e, !.username = n, !.twoFAEnabled = on,
                               !.twoFASecret = s, !.edited = d]
    OBVIOUS
  <2>6. v.state = o.state
    BY <2>5 DEF User
  <2>7. user' = [user EXCEPT ![w] = v]
    BY <2>2, <2>3, <2>4, <2>5
  <2> QED BY <1>2, <2>2, <2>3, <2>6, <2>7 DEF Live
<1>8. ~DebitSender(r)
  BY <1>1, BookStaysLive DEF DebitSender, Refuse, Live
<1>9. ~CreditRecipient(r)
  BY <1>1, BookStaysLive DEF CreditRecipient, Refuse, Live
<1>10. ~DebitChecked(r)
  BY <1>1, BookStaysLive DEF DebitChecked, Refuse, Live
<1>11. ~CreditDeposit(r)
  BY <1>1, BookStaysLive DEF CreditDeposit, Refuse, Live
<1>12. ~Signs(r)
  BY <1>1, <1>4 DEF Signs, SendSignup, SendGoogle, FindUser, QueueWelcome
<1>13. ~Secures(r)
  BY <1>1, <1>5, <1>6 DEF Secures, SendEnable, SendDisable, Send, ShowCode
<1>14. ~Serves(r)
  BY <1>1, <1>7, <1>8, <1>9 DEF Serves, SendProfile, SendDelete, SendTransfer, Send
<1>15. ~Spends(r)
  BY <1>1, <1>10, <1>11 DEF Spends, SendStake, SendWithdrawal, SendDeposit, Send,
                            ReadBalance, CheckFunds, Refuse
<1> QED BY <1>1, <1>12, <1>13, <1>14, <1>15 DEF CallFails

-----------------------------------------------------------------------------
(* Where the money of a balance comes from.                                *)

Credits(u) == {r \in Reqs : req[r].to = u}
Debits(u) == {r \in Reqs : req[r].paid /\ req[r].who = u}

Balanced(u) ==
  /\ IsFiniteSet(Credits(u)) /\ IsFiniteSet(Debits(u))
  /\ user[u].balance = user[u].opened + Sum(Credits(u)) - Sum(Debits(u))
  /\ user[u].state = "none" => user[u].balance = user[u].opened

\* Who has been credited by the handler with record x, and when.
Settled(x) ==
  /\ x.to # NoId => x.pc = "done"
  /\ x.pc = "credit" => x.paid
  /\ x.pc = "deposit" => x.kind = "deposit"
  /\ x.kind = "transfer" /\ x.to # NoId => x.paid

Traced ==
  /\ \A u \in Ids : Balanced(u)
  /\ \A r \in Reqs : Settled(req[r])

\* A request that goes on from x to y has debited or credited somebody.
Books(x, y) == ~(/\ y.to = x.to /\ y.paid = x.paid
                 /\ x.paid \/ x.to # NoId => y.who = x.who /\ y.amount = x.amount)

\* No row that is there gets or loses money.
SameMoney(u) ==
  /\ user'[u].balance - user'[u].opened = user[u].balance - user[u].opened
  /\ user'[u].state = "none" => user[u].state = "none"
                                /\ user'[u].balance = user[u].balance
                                /\ user'[u].opened = user[u].opened

LEMMA AmountsAdd ==
  ASSUME IInv, NEW S, IsFiniteSet(S), S \subseteq Reqs
  PROVE  Sum(S) \in Int
<1> DEFINE f == [r \in Reqs |-> req[r].amount]
<1>1. ASSUME NEW r \in S PROVE f[r] \in Int
  <2>1. req[r].amount \in Amounts \cup {0}
    BY DEF IInv, TypeOK, Request
  <2> QED BY <2>1, Amounted
<1> HIDE DEF f
<1>2. SumFunctionOnSet(f, S) \in Int
  BY <1>1, SumType
<1> QED BY <1>2 DEF f, Sum

\* Nobody is paid: every balance stays what it was.
LEMMA TracedQuiet ==
  ASSUME IInv, IInv', Traced, \A q \in Reqs : ~Books(req[q], req'[q]) /\ Settled(req'[q]),
         \A u \in Ids : SameMoney(u)
  PROVE  Traced'
<1> DEFINE f == [r \in Reqs |-> req[r].amount]
           g == [r \in Reqs |-> req'[r].amount]
<1>1. ASSUME NEW S, IsFiniteSet(S), S \subseteq Reqs,
             \A q \in S : req[q].paid \/ req[q].to # NoId
      PROVE  Sum(S)' = Sum(S)
  <2>1. \A q \in S : f[q] = g[q]
    BY <1>1 DEF Books
  <2> HIDE DEF f, g
  <2>2. SumFunctionOnSet(f, S) = SumFunctionOnSet(g, S)
    BY <1>1, <2>1, SumSame
  <2> QED BY <2>2 DEF f, g, Sum
<1>2. ASSUME NEW u \in Ids PROVE Balanced(u)'
  <2>1. Credits(u)' = Credits(u) /\ Debits(u)' = Debits(u)
    BY DEF Credits, Debits, Books
  <2>2. /\ Credits(u) \subseteq Reqs /\ Debits(u) \subseteq Reqs
        /\ \A q \in Credits(u) : req[q].to # NoId
        /\ \A q \in Debits(u) : req[q].paid
    BY AccountsAssumption DEF Credits, Debits
  <2>3. Balanced(u) /\ SameMoney(u)
    BY DEF Traced
  <2> DEFINE credited == Sum(Credits(u))
             debited == Sum(Debits(u))
  <2>4. Sum(Credits(u))' = credited /\ Sum(Debits(u))' = debited
    BY <1>1, <2>1, <2>2, <2>3 DEF Balanced
  <2>5. credited \in Int /\ debited \in Int
    BY <2>2, <2>3, AmountsAdd DEF Balanced
  <2> HIDE DEF credited, debited
  <2>6. user[u] \in User /\ user'[u] \in User
    BY DEF IInv, TypeOK
  <2>7. /\ user[u].balance \in Int /\ user[u].opened \in Int
        /\ user'[u].balance \in Int /\ user'[u].opened \in Int
    BY <2>6 DEF User
  <2>8. user[u].balance = user[u].opened + credited - debited
    BY <2>3 DEF Balanced, credited, debited
  <2>9. user'[u].balance = user'[u].opened + credited - debited
    BY <2>3, <2>5, <2>7, <2>8 DEF SameMoney
  <2>10. user'[u].state = "none" => user'[u].balance = user'[u].opened
    BY <2>3 DEF SameMoney, Balanced
  <2> QED BY <2>1, <2>3, <2>4, <2>9, <2>10 DEF Balanced
<1> QED BY <1>2 DEF Traced

\* Request r becomes x and has u debited, or credited, once.
LEMMA TracedBook ==
  ASSUME IInv, IInv', Traced, NEW r \in Reqs, NEW x \in Request, NEW u \in Ids, NEW c \in Int,
         Live(u), Book(u, c, r, x), Settled(x), req[r].to = NoId,
         \/ /\ c = -x.amount /\ ~req[r].paid /\ x.paid /\ x.who = u /\ x.to = NoId
         \/ /\ c = x.amount /\ x.to = u /\ x.paid = req[r].paid
            /\ x.paid => x.who = req[r].who /\ x.amount = req[r].amount
  PROVE  Traced'
<1> DEFINE f == [q \in Reqs |-> req[q].amount]
           g == [q \in Reqs |-> req'[q].amount]
<1>1. /\ req \in [Reqs -> Request] /\ user \in [Ids -> User]
      /\ req' \in [Reqs -> Request] /\ user' \in [Ids -> User]
  BY DEF IInv, TypeOK
<1>2. req'[r] = x
  BY DEF Book
<1>3. ASSUME NEW q \in Reqs, q # r
      PROVE  /\ req'[q].pc = req[q].pc /\ req'[q].kind = req[q].kind
             /\ req'[q].who = req[q].who /\ req'[q].amount = req[q].amount
             /\ req'[q].paid = req[q].paid /\ req'[q].to = req[q].to
  <2>1. PICK y \in Request : y = req[q]
    BY <1>1
  <2>2. PICK d : d = IF c < 0 THEN "lowered" ELSE "raised"
    OBVIOUS
  <2>3. PICK z : z = [y EXCEPT !.overtaken = @ \cup {d}]
    OBVIOUS
  <2>4. /\ z.pc = y.pc /\ z.kind = y.kind /\ z.who = y.who
        /\ z.amount = y.amount /\ z.paid = y.paid /\ z.to = y.to
    BY <2>3 DEF Request
  <2>5. req'[q] \in {y, z}
    BY <1>3, <2>1, <2>2, <2>3 DEF Book
  <2> QED BY <2>1, <2>4, <2>5
<1>4. \A q \in Reqs : Settled(req'[q])
  BY <1>2, <1>3 DEF Settled, Traced
<1>5. ASSUME NEW v \in Ids
      PROVE  /\ user'[v].balance = IF v = u THEN user[u].balance + c ELSE user[v].balance
             /\ user'[v].state = user[v].state /\ user'[v].opened = user[v].opened
  BY <1>1 DEF User, Book
<1>6. \A q \in Reqs : f[q] \in Int /\ g[q] \in Int
  <2>1. \A q \in Reqs : f[q] \in Amounts \cup {0} /\ g[q] \in Amounts \cup {0}
    BY <1>1 DEF Request
  <2> QED BY <2>1, Amounted
<1>7. \A q \in Reqs : q # r => f[q] = g[q]
  BY <1>3
<1>8. g[r] = x.amount
  BY <1>2
<1>9. f[r] = req[r].amount
  OBVIOUS
<1>10. \A S : Sum(S) = SumFunctionOnSet(f, S) /\ Sum(S)' = SumFunctionOnSet(g, S)
  BY DEF Sum
<1> HIDE DEF f, g
\* A set that r is in before and after, or neither: its sum stays.
<1>11. ASSUME NEW S, IsFiniteSet(S), S \subseteq Reqs, r \in S => x.amount = req[r].amount
       PROVE  Sum(S)' = Sum(S) /\ Sum(S) \in Int
  <2>1. \A q \in S : f[q] = g[q]
    BY <1>7, <1>8, <1>9, <1>11
  <2>2. SumFunctionOnSet(f, S) = SumFunctionOnSet(g, S)
    BY <1>11, <2>1, SumSame
  <2> QED BY <1>10, <1>11, <2>2, AmountsAdd
\* A set that r joins.
<1>12. ASSUME NEW S, IsFiniteSet(S), S \subseteq Reqs, r \notin S
       PROVE  Sum(S \cup {r})' = Sum(S) + x.amount /\ IsFiniteSet(S \cup {r})
  <2>1. \A q \in S \cup {r} : g[q] \in Int
    BY <1>6, <1>12
  <2>2. SumFunctionOnSet(g, S \cup {r}) = SumFunctionOnSet(g, S) + g[r]
    BY <1>12, <2>1, SumAdd
  <2>3. Sum(S)' = Sum(S)
    BY <1>11, <1>12
  <2> QED BY <1>8, <1>10, <1>12, <2>2, <2>3, FS_AddElement
<1>13. ASSUME NEW v \in Ids PROVE Balanced(v)'
  <2>1. Balanced(v) /\ Credits(v) \subseteq Reqs /\ Debits(v) \subseteq Reqs
    BY DEF Traced, Credits, Debits
  <2>2. IsFiniteSet(Credits(v)) /\ IsFiniteSet(Debits(v)) /\ r \notin Credits(v)
    BY <2>1, AccountsAssumption DEF Balanced, Credits
  <2>3. user[v] \in User
    BY <1>1
  <2>4. user[v].balance \in Int /\ user[v].opened \in Int /\ x.amount \in Int
    BY <1>6, <1>8, <2>3 DEF User
  <2> DEFINE credited == Sum(Credits(v))
             debited == Sum(Debits(v))
  <2>5. credited \in Int /\ debited \in Int
    BY <2>1, <2>2, AmountsAdd
  <2>6. user[v].balance = user[v].opened + credited - debited
    BY <2>1 DEF Balanced
  <2>7. user'[v].state = "none" => v # u /\ user'[v].balance = user'[v].opened
    BY <1>5, <2>1 DEF Balanced, Live
  <2>8. CASE /\ c = -x.amount /\ ~req[r].paid /\ x.paid /\ x.who = u /\ x.to = NoId
    <3>1. /\ Credits(v)' = Credits(v)
          /\ Debits(v)' = IF v = u THEN Debits(v) \cup {r} ELSE Debits(v)
          /\ r \notin Debits(v)
      BY <1>2, <1>3, <2>8 DEF Credits, Debits
    <3>2. /\ Sum(Credits(v))' = credited
          /\ Sum(Debits(v))' = IF v = u THEN debited + x.amount ELSE debited
          /\ IsFiniteSet(Credits(v)') /\ IsFiniteSet(Debits(v)')
      BY <1>11, <1>12, <2>1, <2>2, <3>1
    <3> HIDE DEF credited, debited
    <3>3. user'[v].balance = user'[v].opened + Sum(Credits(v))' - Sum(Debits(v))'
      BY <1>5, <2>4, <2>5, <2>6, <2>8, <3>2
    <3> QED BY <2>7, <3>2, <3>3 DEF Balanced
  <2>9. CASE /\ c = x.amount /\ x.to = u /\ x.paid = req[r].paid
             /\ x.paid => x.who = req[r].who /\ x.amount = req[r].amount
    <3>1. Credits(v)' = IF v = u THEN Credits(v) \cup {r} ELSE Credits(v)
      <4>1. \A q \in Reqs \ {r} : req'[q].to = v <=> req[q].to = v
        BY <1>3
      <4>2. (req'[r].to = v) <=> (v = u)
        BY <1>2, <2>9
      <4> QED BY <2>2, <4>1, <4>2 DEF Credits
    <3>2. Debits(v)' = Debits(v)
      BY <1>2, <1>3, <2>9 DEF Debits
    <3>3. r \in Debits(v) => x.amount = req[r].amount
      BY <2>9 DEF Debits
    <3>4. /\ Credits(v)' = IF v = u THEN Credits(v) \cup {r} ELSE Credits(v)
          /\ Debits(v)' = Debits(v)
          /\ r \in Debits(v) => x.amount = req[r].amount
      BY <3>1, <3>2, <3>3
    <3>5. /\ Sum(Credits(v))' = IF v = u THEN credited + x.amount ELSE credited
          /\ Sum(Debits(v))' = debited
          /\ IsFiniteSet(Credits(v)') /\ IsFiniteSet(Debits(v)')
      BY <1>11, <1>12, <2>1, <2>2, <3>4
    <3> HIDE DEF credited, debited
    <3>6. user'[v].balance = user'[v].opened + Sum(Credits(v))' - Sum(Debits(v))'
      BY <1>5, <2>4, <2>5, <2>6, <2>9, <3>5
    <3> QED BY <2>7, <3>5, <3>6 DEF Balanced
  <2> QED BY <2>8, <2>9
<1> QED BY <1>4, <1>13 DEF Traced

\* The handler of r goes on with record z, and books nothing; or a row is
\* updated, but for its balance.
NoneBooked == \A q \in Reqs : ~Books(req[q], req'[q]) /\ Settled(req'[q])
MoneyStays == \A u \in Ids : SameMoney(u)

LEMMA GoesOn ==
  ASSUME IInv, Traced, NEW r \in Reqs, NEW z, req' = [req EXCEPT ![r] = z],
         Settled(z), ~Books(req[r], z)
  PROVE  NoneBooked
BY DEF IInv, TypeOK, Traced, NoneBooked, Books

LEMMA RowMoney ==
  ASSUME IInv, NEW w \in Ids, NEW v, user' = [user EXCEPT ![w] = v],
         v.balance = user[w].balance, v.opened = user[w].opened, v.state # "none"
  PROVE  MoneyStays
BY DEF IInv, TypeOK, MoneyStays, SameMoney

LEMMA NothingMoves ==
  ASSUME UNCHANGED user
  PROVE  MoneyStays
BY DEF MoneyStays, SameMoney

LEMMA EndsQuiet ==
  ASSUME IInv, Traced, NEW r \in Reqs, req[r].pc \in Steps, NEW p \in {"done", "died"}
  PROVE  /\ Settled(Ends(r, p)) /\ ~Books(req[r], Ends(r, p))
         /\ Ends(r, p).to = NoId /\ Ends(r, p).amount = req[r].amount
         /\ req' = [req EXCEPT ![r] = Ends(r, p)] => NoneBooked
<1>1. PICK y \in Request : y = req[r]
  BY DEF IInv, TypeOK
<1>2. Settled(y) /\ y.pc \in Steps
  BY <1>1 DEF Traced
<1>3. PICK z : z = [y EXCEPT !.pc = p, !.seen = 0, !.email = NoEmail]
  OBVIOUS
<1>4. /\ z.pc = p /\ z.kind = y.kind /\ z.to = y.to /\ z.paid = y.paid
      /\ z.who = y.who /\ z.amount = y.amount
  BY <1>3 DEF Request
<1>5. z = Ends(r, p)
  BY <1>1, <1>3 DEF Ends
<1>6. y.to = NoId
  BY <1>2 DEF Settled, Steps
<1>7. Settled(z) /\ ~Books(y, z)
  BY <1>4, <1>6 DEF Settled, Books
<1> QED BY <1>1, <1>4, <1>5, <1>6, <1>7, GoesOn

LEMMA FinishQuiet ==
  ASSUME IInv, Traced, NEW r \in Reqs, req[r].pc \in Steps, Finish(r)
  PROVE  NoneBooked
BY EndsQuiet DEF Finish

LEMMA SendQuiet ==
  ASSUME IInv, Traced, NEW r \in Reqs, NEW u, NEW x \in Request, Send(r, u, x),
         ~x.paid, x.to = NoId, x.pc # "credit", x.pc = "deposit" => x.kind = "deposit"
  PROVE  NoneBooked /\ MoneyStays
<1>1. PICK z : z = [x EXCEPT !.who = u, !.seen = user[u].balance]
  OBVIOUS
<1>2. z.pc = x.pc /\ z.kind = x.kind /\ z.paid = x.paid /\ z.to = x.to
  BY <1>1 DEF Request
<1>3. req' = [req EXCEPT ![r] = z] /\ UNCHANGED user
  BY <1>1 DEF Send
<1>4. req[r].pc = "idle" /\ InOrder(req[r]) /\ Settled(req[r]) /\ req[r].paid \in BOOLEAN
  BY DEF Send, At, IInv, Traced, TypeOK, Request
<1>5. req[r].paid = FALSE /\ req[r].to = NoId /\ z.paid = FALSE
  BY <1>2, <1>4 DEF Settled, InOrder, Request
<1>6. Settled(z) /\ ~Books(req[r], z)
  BY <1>2, <1>5 DEF Settled, Books
<1> QED BY <1>3, <1>6, GoesOn, NothingMoves

LEMMA SendsQuiet ==
  ASSUME IInv, Traced, NEW r \in Reqs, NEW u \in Ids,
         \/ SendEnable(r, u) \/ SendDisable(r, u) \/ SendProfile(r, u) \/ SendDelete(r, u)
         \/ SendTransfer(r, u) \/ SendStake(r, u) \/ SendWithdrawal(r, u)
         \/ SendDeposit(r, u)
  PROVE  NoneBooked /\ MoneyStays
<1>1. ASSUME NEW p \in Steps, NEW k \in {"profile", "enable", "disable", "delete", "transfer",
                                         "stake", "withdraw", "deposit"}
      PROVE  /\ Begin(p, k) \in Request /\ Begin(p, k).pc = p /\ Begin(p, k).kind = k
             /\ ~Begin(p, k).paid /\ Begin(p, k).to = NoId
  <2>1. Begin(p, k) = [NoRequest EXCEPT !.pc = p, !.kind = k]
    BY DEF Begin
  <2> QED BY <2>1, Begun DEF NoRequest
<1>2. CASE SendTransfer(r, u)
  <2>1. PICK a \in Amounts : Send(r, u, [Begin("debit", "transfer") EXCEPT !.amount = a])
    BY <1>2 DEF SendTransfer
  <2>2. PICK x : x = Begin("debit", "transfer")
    OBVIOUS
  <2>3. x \in Request /\ x.pc = "debit" /\ ~x.paid /\ x.to = NoId
    BY <1>1, <2>2 DEF Steps
  <2>4. PICK y : y = [x EXCEPT !.amount = a]
    OBVIOUS
  <2>5. y \in Request /\ y.pc = "debit" /\ ~y.paid /\ y.to = NoId
    BY <2>3, <2>4 DEF Request
  <2> QED BY <2>1, <2>2, <2>4, <2>5, SendQuiet
<1>3. CASE SendDeposit(r, u)
  <2>1. PICK x : x = Begin("deposit", "deposit")
    OBVIOUS
  <2>2. x \in Request /\ x.kind = "deposit" /\ x.pc = "deposit" /\ ~x.paid /\ x.to = NoId
    BY <1>1, <2>1 DEF Steps
  <2> QED BY <1>3, <2>1, <2>2, SendQuiet DEF SendDeposit
<1>4. CASE \E p \in {"enable", "disable", "update", "decide", "read", "check"},
              k \in {"enable", "disable", "profile", "delete", "stake", "withdraw"} :
              Send(r, u, Begin(p, k))
  <2>1. PICK p \in {"enable", "disable", "update", "decide", "read", "check"},
             k \in {"enable", "disable", "profile", "delete", "stake", "withdraw"} :
             Send(r, u, Begin(p, k))
    BY <1>4
  <2>2. PICK x : x = Begin(p, k)
    OBVIOUS
  <2>3. x \in Request /\ x.pc = p /\ ~x.paid /\ x.to = NoId
    BY <1>1, <2>2 DEF Steps
  <2> QED BY <2>1, <2>2, <2>3, SendQuiet
<1> QED BY <1>2, <1>3, <1>4 DEF SendEnable, SendDisable, SendProfile, SendDelete, SendStake,
                              SendWithdrawal

\* A handler that goes on at p, with what it remembers or a new amount.
LEMMA MoveQuiet ==
  ASSUME IInv, Traced, NEW r \in Reqs, req[r].pc \in (Steps \ {"credit"}) \cup {"idle"},
         NEW z, req' = [req EXCEPT ![r] = z], z.pc \notin {"credit", "deposit"},
         z.paid = req[r].paid, z.to = req[r].to
  PROVE  NoneBooked
<1>1. Settled(req[r]) /\ InOrder(req[r]) /\ req[r].paid \in BOOLEAN
  BY DEF IInv, Traced, TypeOK, Request
<1>2. req[r].to = NoId /\ ~req[r].paid
  BY <1>1 DEF Settled, InOrder, Steps
<1> QED BY <1>2, GoesOn DEF Settled, Books

LEMMA SignsQuiet ==
  ASSUME IInv, Traced, NEW r \in Reqs, Signs(r)
  PROVE  NoneBooked /\ MoneyStays
<1>1. PICK y \in Request : y = req[r]
  BY DEF IInv, TypeOK
<1>2. CASE SendSignup(r)
  <2>1. PICK z : z = [y EXCEPT !.pc = "create", !.kind = "signup"]
    OBVIOUS
  <2>2. z.pc = "create" /\ z.paid = y.paid /\ z.to = y.to
    BY <2>1 DEF Request
  <2> QED BY <1>1, <1>2, <2>1, <2>2, MoveQuiet, NothingMoves DEF SendSignup, At
<1>3. CASE \E e \in Emails : SendGoogle(r, e)
  <2>1. PICK e \in Emails : SendGoogle(r, e)
    BY <1>3
  <2>2. PICK z : z = [y EXCEPT !.pc = "find", !.kind = "google", !.email = e]
    OBVIOUS
  <2>3. z.pc = "find" /\ z.paid = y.paid /\ z.to = y.to
    BY <2>2 DEF Request
  <2>4. req' = [req EXCEPT ![r] = z] /\ req[r].pc = "idle" /\ UNCHANGED user
    BY <1>1, <2>1, <2>2 DEF SendGoogle, At
  <2> QED BY <1>1, <2>3, <2>4, MoveQuiet, NothingMoves
<1>4. ASSUME NEW p \in {"create", "welcome"}, Goto(r, p), y.pc \in {"find", "create"}
      PROVE  NoneBooked
  <2>1. PICK z : z = [y EXCEPT !.pc = p]
    OBVIOUS
  <2>2. z.pc = p /\ z.paid = y.paid /\ z.to = y.to
    BY <2>1, Moved DEF Steps
  <2>3. req' = [req EXCEPT ![r] = z]
    BY <1>1, <1>4, <2>1 DEF Goto
  <2>4. req[r].pc \in (Steps \ {"credit"}) \cup {"idle"}
    BY <1>1, <1>4 DEF Steps
  <2> QED BY <1>1, <2>2, <2>3, <2>4, MoveQuiet
<1>5. CASE FindUser(r)
  <2>1. y.pc = "find" /\ req[r].pc \in Steps /\ UNCHANGED user
    BY <1>1, <1>5 DEF FindUser, At, Steps
  <2> QED BY <1>4, <1>5, <2>1, FinishQuiet, NothingMoves DEF FindUser
<1>6. CASE CreateUser(r)
  <2>1. y.pc = "create" /\ req[r].pc \in Steps
    BY <1>1, <1>6 DEF CreateUser, At, Steps
  <2>2. CASE Refuse(r)
    BY <2>1, <2>2, FinishQuiet, NothingMoves DEF Refuse
  <2>3. CASE \E e \in Emails, n \in Names, u \in Ids :
               /\ user[u].state = "none" /\ user' = [user EXCEPT ![u] = NewUser(e, n, 0)]
               /\ Goto(r, "welcome")
    <3>1. PICK e \in Emails, n \in Names, u \in Ids :
               /\ user[u].state = "none" /\ user' = [user EXCEPT ![u] = NewUser(e, n, 0)]
               /\ Goto(r, "welcome")
      BY <2>3
    <3>2. PICK v : v = NewUser(e, n, 0)
      OBVIOUS
    <3>3. v.balance - v.opened = 0 /\ v.state # "none"
      BY <3>2 DEF NewUser
    <3>4. user[u].balance - user[u].opened = 0
      <4>1. user[u] \in User
        BY DEF IInv, TypeOK
      <4>2. user[u].balance = user[u].opened
        BY <3>1 DEF Traced, Balanced
      <4> QED BY <4>1, <4>2 DEF User
    <3>5. MoneyStays
      BY <3>1, <3>2, <3>3, <3>4 DEF MoneyStays, SameMoney, IInv, TypeOK
    <3> QED BY <1>4, <2>1, <3>1, <3>5
  <2> QED BY <1>6, <2>2, <2>3 DEF CreateUser
<1>7. CASE QueueWelcome(r)
  BY <1>7, FinishQuiet, NothingMoves DEF QueueWelcome, At, Steps
<1> QED BY <1>2, <1>3, <1>5, <1>6, <1>7 DEF Signs

LEMMA SecuresQuiet ==
  ASSUME IInv, Traced, NEW r \in Reqs, Secures(r)
  PROVE  NoneBooked /\ MoneyStays
<1>1. PICK y \in Request : y = req[r]
  BY DEF IInv, TypeOK
<1>2. CASE EnableTwoFactor(r)
  <2>1. req[r].pc \in (Steps \ {"credit"}) \cup {"idle"} /\ req[r].pc \in Steps
    BY <1>2 DEF EnableTwoFactor, At, Steps
  <2> DEFINE u == req[r].who
  <2>2. CASE ~Live(u)
    BY <1>2, <2>1, <2>2, FinishQuiet, NothingMoves DEF EnableTwoFactor, Refuse
  <2>3. CASE Live(u)
    <3>1. /\ user' = [user EXCEPT ![u].twoFAEnabled = TRUE, ![u].twoFASecret = r,
                                  ![u].edited = FALSE]
          /\ Goto(r, "show")
      BY <1>2, <2>3 DEF EnableTwoFactor
    <3> HIDE DEF u
    <3>2. u \in Ids /\ \E o \in User : o = user[u]
      BY <2>3 DEF IInv, TypeOK, Live
    <3>3. PICK o \in User : o = user[u]
      BY <3>2
    <3>4. PICK v : v = [o EXCEPT !.twoFAEnabled = TRUE, !.twoFASecret = r, !.edited = FALSE]
      OBVIOUS
    <3>5. v.balance = o.balance /\ v.opened = o.opened /\ v.state = o.state
      BY <3>4 DEF User
    <3>6. user' = [user EXCEPT ![u] = v] /\ v.state # "none"
      BY <2>3, <3>1, <3>3, <3>4, <3>5 DEF Live
    <3>7. PICK z : z = [y EXCEPT !.pc = "show"]
      OBVIOUS
    <3>8. z.pc = "show" /\ z.paid = y.paid /\ z.to = y.to
      BY <3>7, Moved DEF Steps
    <3>9. req' = [req EXCEPT ![r] = z]
      BY <1>1, <3>1, <3>7 DEF Goto
    <3> QED BY <1>1, <2>1, <3>2, <3>3, <3>5, <3>6, <3>8, <3>9, MoveQuiet, RowMoney
  <2> QED BY <2>2, <2>3
<1>3. CASE DisableTwoFactor(r)
  <2>1. NoneBooked
    BY <1>3, FinishQuiet DEF DisableTwoFactor, At, Steps
  <2> DEFINE u == req[r].who
  <2>2. CASE Live(u)
    <3>1. user' = [user EXCEPT ![u].twoFAEnabled = FALSE, ![u].twoFASecret = NoReq,
                               ![u].edited = FALSE]
      BY <1>3, <2>2 DEF DisableTwoFactor
    <3> HIDE DEF u
    <3>2. u \in Ids /\ \E o \in User : o = user[u]
      BY <2>2 DEF IInv, TypeOK, Live
    <3>3. PICK o \in User : o = user[u]
      BY <3>2
    <3>4. PICK v : v = [o EXCEPT !.twoFAEnabled = FALSE, !.twoFASecret = NoReq, !.edited = FALSE]
      OBVIOUS
    <3>5. v.balance = o.balance /\ v.opened = o.opened /\ v.state = o.state
      BY <3>4 DEF User
    <3>6. user' = [user EXCEPT ![u] = v] /\ v.state # "none"
      BY <2>2, <3>1, <3>3, <3>4, <3>5 DEF Live
    <3> QED BY <2>1, <3>2, <3>3, <3>5, <3>6, RowMoney
  <2>3. CASE ~Live(u)
    BY <1>3, <2>1, <2>3, NothingMoves DEF DisableTwoFactor
  <2> QED BY <2>2, <2>3
<1>4. CASE ShowCode(r)
  BY <1>4, FinishQuiet, NothingMoves DEF ShowCode, At, Steps
<1> QED BY <1>2, <1>3, <1>4, SendsQuiet DEF Secures

\* A transfer takes the amount from its sender, who is whom the request names.
LEMMA DebitSenderTraced ==
  ASSUME IInv, IInv', Traced, NEW r \in Reqs, DebitSender(r)
  PROVE  Traced'
<1>1. PICK y \in Request : y = req[r]
  BY DEF IInv, TypeOK
<1>2. y.pc = "debit" /\ InOrder(y) /\ Settled(y) /\ req[r].pc \in Steps
  BY <1>1 DEF DebitSender, At, IInv, Steps, Traced
<1>3. PICK u \in Ids : u = req[r].who
  BY <1>1, <1>2 DEF InOrder, Steps
<1>4. ~y.paid /\ y.to = NoId
  BY <1>2 DEF InOrder, Settled, Request
<1>5. CASE Live(u)
  <2>1. PICK z : z = [y EXCEPT !.pc = "credit", !.paid = TRUE]
    OBVIOUS
  <2>2. /\ z \in Request /\ z.pc = "credit" /\ z.who = y.who /\ z.kind = y.kind /\ z.paid
        /\ z.to = y.to /\ z.amount = y.amount
    BY <2>1 DEF Request, Steps
  <2>3. y.amount \in Nat /\ -y.amount \in Int
    <3>1. y.amount \in Amounts \cup {0}
      BY DEF Request
    <3> QED BY <3>1, Amounted
  <2>4. Book(u, -z.amount, r, z)
    BY <1>1, <1>3, <1>5, <2>1, <2>2 DEF DebitSender
  <2>5. Settled(z)
    BY <1>4, <2>2 DEF Settled
  <2> QED BY <1>1, <1>3, <1>4, <1>5, <2>2, <2>3, <2>4, <2>5, TracedBook
<1>6. CASE ~Live(u)
  BY <1>2, <1>3, <1>6, FinishQuiet, NothingMoves, TracedQuiet
     DEF DebitSender, Refuse, NoneBooked, MoneyStays
<1> QED BY <1>5, <1>6

LEMMA CreditRecipientTraced ==
  ASSUME IInv, IInv', Traced, NEW r \in Reqs, CreditRecipient(r)
  PROVE  Traced'
<1>1. req[r] \in Request
  BY DEF IInv, TypeOK
<1>2. req[r].pc = "credit" /\ req[r].pc \in Steps /\ Settled(req[r])
  BY DEF CreditRecipient, At, Steps, Traced
<1>3. req[r].paid /\ req[r].to = NoId
  BY <1>2 DEF Settled
<1>4. CASE Refuse(r)
  BY <1>2, <1>4, FinishQuiet, NothingMoves, TracedQuiet DEF Refuse, NoneBooked, MoneyStays
<1>5. CASE \E u \in Ids : /\ Live(u)
                          /\ Book(u, req[r].amount, r, [Ends(r, "done") EXCEPT !.to = u])
  <2>1. PICK u \in Ids : /\ Live(u)
                         /\ Book(u, req[r].amount, r, [Ends(r, "done") EXCEPT !.to = u])
    BY <1>5
  <2>2. PICK x \in Request : x = Ends(r, "done")
    BY <1>2, EndsWell
  <2>3. /\ x.pc = "done" /\ x.who = req[r].who /\ x.paid = req[r].paid
        /\ x.amount = req[r].amount
    BY <1>2, <2>2, EndsWell, EndsQuiet
  <2>4. PICK z : z = [x EXCEPT !.to = u]
    OBVIOUS
  <2>5. /\ z \in Request /\ z.pc = "done" /\ z.who = x.who /\ z.paid = x.paid
        /\ z.to = u /\ z.amount = x.amount
    BY <2>3, <2>4 DEF Request
  <2>6. Settled(z)
    BY <1>3, <2>3, <2>5 DEF Settled
  <2>7. z.amount \in Int
    <3>1. z.amount \in Amounts \cup {0}
      BY <2>5 DEF Request
    <3> QED BY <3>1, Amounted
  <2>8. Book(u, z.amount, r, z)
    BY <2>1, <2>2, <2>3, <2>4, <2>5
  <2> QED BY <1>3, <2>1, <2>3, <2>5, <2>6, <2>7, <2>8, TracedBook
<1> QED BY <1>4, <1>5 DEF CreditRecipient

LEMMA DebitCheckedTraced ==
  ASSUME IInv, IInv', Traced, NEW r \in Reqs, DebitChecked(r)
  PROVE  Traced'
<1>1. req[r] \in Request
  BY DEF IInv, TypeOK
<1>2. /\ req[r].pc \in {"stake", "charge"} /\ req[r].pc \in Steps
      /\ InOrder(req[r]) /\ Settled(req[r])
  BY DEF DebitChecked, IInv, Steps, Traced
<1>3. PICK u \in Ids : u = req[r].who
  BY <1>1, <1>2 DEF InOrder, Steps
<1>4. ~req[r].paid /\ req[r].to = NoId
  BY <1>1, <1>2 DEF InOrder, Settled, Request
<1>5. CASE Live(u)
  <2>1. PICK x \in Request : x = Ends(r, "done")
    BY <1>2, EndsWell
  <2>2. x.pc = "done" /\ x.who = u /\ x.to = NoId /\ x.amount = req[r].amount
    BY <1>2, <1>3, <2>1, EndsWell, EndsQuiet
  <2>3. PICK z : z = [x EXCEPT !.paid = TRUE]
    OBVIOUS
  <2>4. /\ z \in Request /\ z.pc = "done" /\ z.who = u /\ z.paid
        /\ z.to = NoId /\ z.amount = x.amount
    BY <2>2, <2>3 DEF Request
  <2>5. Book(u, -z.amount, r, z)
    BY <1>3, <1>5, <2>1, <2>2, <2>3, <2>4 DEF DebitChecked
  <2>6. -z.amount \in Int
    <3>1. z.amount \in Amounts \cup {0}
      BY <2>4 DEF Request
    <3> QED BY <3>1, Amounted
  <2>7. Settled(z)
    BY <2>4 DEF Settled
  <2> QED BY <1>4, <1>5, <2>4, <2>5, <2>6, <2>7, TracedBook
<1>6. CASE ~Live(u)
  BY <1>2, <1>3, <1>6, FinishQuiet, NothingMoves, TracedQuiet
     DEF DebitChecked, Refuse, NoneBooked, MoneyStays
<1> QED BY <1>5, <1>6

LEMMA CreditDepositTraced ==
  ASSUME IInv, IInv', Traced, NEW r \in Reqs, CreditDeposit(r)
  PROVE  Traced'
<1>1. req[r] \in Request
  BY DEF IInv, TypeOK
<1>2. req[r].pc = "deposit"
  BY DEF CreditDeposit, At
<1>3. req[r].pc \in Steps /\ InOrder(req[r]) /\ Settled(req[r])
  BY <1>2 DEF IInv, Steps, Traced
<1>4. PICK u \in Ids : u = req[r].who
  BY <1>1, <1>3, <1>2 DEF InOrder, Steps
<1>5. ~req[r].paid /\ req[r].to = NoId /\ req[r].kind = "deposit"
  BY <1>1, <1>3, <1>2 DEF InOrder, Settled, Request
<1>6. CASE Live(u)
  <2>1. PICK a \in Amounts : Book(u, a, r, [Ends(r, "done") EXCEPT !.amount = a, !.to = u])
    BY <1>4, <1>6 DEF CreditDeposit
  <2>2. PICK x \in Request : x = Ends(r, "done")
    BY <1>3, EndsWell
  <2>3. x.pc = "done" /\ x.paid = req[r].paid /\ x.kind = "deposit"
    BY <1>3, <1>5, <2>2, EndsWell
  <2>4. PICK z : z = [x EXCEPT !.amount = a, !.to = u]
    OBVIOUS
  <2>5. /\ z \in Request /\ z.pc = "done" /\ z.kind = "deposit" /\ z.paid = x.paid
        /\ z.to = u /\ z.amount = a
    BY <2>3, <2>4 DEF Request
  <2>6. Settled(z) /\ z.amount \in Int
    BY <2>5, Amounted DEF Settled
  <2>7. Book(u, z.amount, r, z)
    BY <2>1, <2>2, <2>4, <2>5
  <2> QED BY <1>5, <1>6, <2>3, <2>5, <2>6, <2>7, TracedBook
<1>7. CASE ~Live(u)
  BY <1>3, <1>4, <1>7, FinishQuiet, NothingMoves, TracedQuiet
     DEF CreditDeposit, Refuse, NoneBooked, MoneyStays
<1> QED BY <1>6, <1>7

LEMMA ServesTraced ==
  ASSUME IInv, IInv', Traced, NEW r \in Reqs, Serves(r)
  PROVE  Traced'
<1>1. CASE UpdateProfile(r)
  <2>1. NoneBooked
    BY <1>1, FinishQuiet DEF UpdateProfile, At, Steps
  <2>2. CASE ~UNCHANGED user
    <3> DEFINE u == req[r].who
    <3>1. PICK e \in Emails, n \in Names, on \in BOOLEAN, s \in {user[u].twoFASecret, r} :
            IF Live(u) /\ Unique(u, e, n)
            THEN user' = [user EXCEPT ![u].email = e, ![u].username = n,
                                      ![u].twoFAEnabled = on, ![u].twoFASecret = s,
                                      ![u].edited = @ \/ on # user[u].twoFAEnabled
                                                      \/ s # user[u].twoFASecret]
            ELSE UNCHANGED user
      BY <1>1 DEF UpdateProfile
    <3> HIDE DEF u
    <3>2. /\ Live(u)
          /\ user' = [user EXCEPT ![u].email = e, ![u].username = n,
                                  ![u].twoFAEnabled = on, ![u].twoFASecret = s,
                                  ![u].edited = @ \/ on # user[u].twoFAEnabled
                                                  \/ s # user[u].twoFASecret]
      BY <2>2, <3>1
    <3>3. PICK o \in User : o = user[u]
      BY <3>2 DEF IInv, TypeOK, Live
    <3>4. PICK d : d = (o.edited \/ on # o.twoFAEnabled \/ s # o.twoFASecret)
      OBVIOUS
    <3>5. PICK v : v = [o EXCEPT !.email = e, !.username = n, !.twoFAEnabled = on,
                                 !.twoFASecret = s, !.edited = d]
      OBVIOUS
    <3>6. v.balance = o.balance /\ v.opened = o.opened /\ v.state = o.state
      BY <3>5 DEF User
    <3>7. user' = [user EXCEPT ![u] = v]
      BY <3>2, <3>3, <3>4, <3>5
    <3>8. MoneyStays
      BY <3>2, <3>3, <3>6, <3>7, RowMoney DEF Live
    <3> QED BY <2>1, <3>8, TracedQuiet DEF NoneBooked, MoneyStays
  <2> QED BY <2>1, <2>2, NothingMoves, TracedQuiet DEF NoneBooked, MoneyStays
<1>2. CASE DeleteAccount(r)
  <2>1. NoneBooked
    BY <1>2, FinishQuiet DEF DeleteAccount, At, Steps
  <2>2. CASE ~UNCHANGED user
    <3>1. PICK u \in Ids : user' = [user EXCEPT ![u].state = "deleted"]
      BY <1>2, <2>2 DEF DeleteAccount, Live
    <3>2. PICK o \in User : o = user[u]
      BY DEF IInv, TypeOK
    <3>3. PICK v : v = [o EXCEPT !.state = "deleted"]
      OBVIOUS
    <3>4. v.balance = o.balance /\ v.opened = o.opened /\ v.state = "deleted"
      BY <3>3 DEF User
    <3>5. user' = [user EXCEPT ![u] = v]
      BY <3>1, <3>2, <3>3
    <3>6. MoneyStays
      BY <3>2, <3>4, <3>5, RowMoney
    <3> QED BY <2>1, <3>6, TracedQuiet DEF NoneBooked, MoneyStays
  <2> QED BY <2>1, <2>2, NothingMoves, TracedQuiet DEF NoneBooked, MoneyStays
<1>3. ASSUME NEW u \in Ids, SendProfile(r, u) \/ SendDelete(r, u) \/ SendTransfer(r, u)
      PROVE  Traced'
  BY <1>3, SendsQuiet, TracedQuiet DEF NoneBooked, MoneyStays
<1> QED BY <1>1, <1>2, <1>3, DebitSenderTraced, CreditRecipientTraced DEF Serves

LEMMA SpendsTraced ==
  ASSUME IInv, IInv', Traced, NEW r \in Reqs, Spends(r)
  PROVE  Traced'
<1>1. PICK y \in Request : y = req[r]
  BY DEF IInv, TypeOK
<1>2. ASSUME Refuse(r), req[r].pc \in Steps PROVE Traced'
  BY <1>2, FinishQuiet, NothingMoves, TracedQuiet DEF Refuse, NoneBooked, MoneyStays
<1>3. ASSUME NEW a, NEW b, UNCHANGED user, y.pc = "read",
             req' = [req EXCEPT ![r].pc = "stake", ![r].amount = a, ![r].seen = b]
      PROVE  Traced'
  <2>1. PICK z : z = [y EXCEPT !.pc = "stake", !.amount = a, !.seen = b]
    OBVIOUS
  <2>2. z.pc = "stake" /\ z.paid = y.paid /\ z.to = y.to
    BY <2>1 DEF Request
  <2>3. req' = [req EXCEPT ![r] = z] /\ req[r].pc \in (Steps \ {"credit"}) \cup {"idle"}
    BY <1>1, <1>3, <2>1 DEF Steps
  <2> QED BY <1>1, <1>3, <2>2, <2>3, MoveQuiet, NothingMoves, TracedQuiet
          DEF NoneBooked, MoneyStays
<1>4. ASSUME NEW a, UNCHANGED user, y.pc = "check",
             req' = [req EXCEPT ![r].pc = "charge", ![r].amount = a]
      PROVE  Traced'
  <2>1. PICK z : z = [y EXCEPT !.pc = "charge", !.amount = a]
    OBVIOUS
  <2>2. z.pc = "charge" /\ z.paid = y.paid /\ z.to = y.to
    BY <2>1 DEF Request
  <2>3. req' = [req EXCEPT ![r] = z] /\ req[r].pc \in (Steps \ {"credit"}) \cup {"idle"}
    BY <1>1, <1>4, <2>1 DEF Steps
  <2> QED BY <1>1, <1>4, <2>2, <2>3, MoveQuiet, NothingMoves, TracedQuiet
          DEF NoneBooked, MoneyStays
<1>5. CASE ReadBalance(r)
  <2>1. y.pc = "read" /\ req[r].pc \in Steps
    BY <1>1, <1>5 DEF ReadBalance, At, Steps
  <2>2. \/ Refuse(r)
        \/ \E a, b : /\ UNCHANGED user
                     /\ req' = [req EXCEPT ![r].pc = "stake", ![r].amount = a, ![r].seen = b]
    BY <1>5 DEF ReadBalance
  <2> QED BY <1>2, <1>3, <2>1, <2>2
<1>6. CASE CheckFunds(r)
  <2>1. y.pc = "check" /\ req[r].pc \in Steps
    BY <1>1, <1>6 DEF CheckFunds, At, Steps
  <2>2. \/ Refuse(r)
        \/ \E a : /\ UNCHANGED user
                  /\ req' = [req EXCEPT ![r].pc = "charge", ![r].amount = a]
    BY <1>6 DEF CheckFunds
  <2> QED BY <1>2, <1>4, <2>1, <2>2
<1>7. ASSUME NEW u \in Ids, SendStake(r, u) \/ SendWithdrawal(r, u) \/ SendDeposit(r, u)
      PROVE  Traced'
  BY <1>7, SendsQuiet, TracedQuiet DEF NoneBooked, MoneyStays
<1> QED BY <1>5, <1>6, <1>7, DebitCheckedTraced, CreditDepositTraced DEF Spends

LEMMA TracedInitial == Init => Traced
<1> SUFFICES ASSUME Init PROVE Traced
  OBVIOUS
<1>1. \A r \in Reqs : req[r] = NoRequest
  BY DEF Init
<1>2. /\ NoRequest.pc = "idle" /\ NoRequest.to = NoId /\ ~NoRequest.paid
      /\ Settled(NoRequest)
  BY DEF NoRequest, Settled
<1>3. ASSUME NEW u \in Ids PROVE Balanced(u)
  <2>1. Credits(u) = {} /\ Debits(u) = {}
    BY <1>1, <1>2, AccountsAssumption DEF Credits, Debits
  <2>2. IsFiniteSet({}) /\ Sum({}) = 0
    BY FS_EmptySet, SumEmpty DEF Sum
  <2>3. user[u].balance = user[u].opened
    <3>1. \E e, n, b : user[u] = NewUser(e, n, b) \/ user[u] = NoUser
      BY DEF Init
    <3>2. \A e, n, b : NewUser(e, n, b).balance = b /\ NewUser(e, n, b).opened = b
      BY DEF NewUser
    <3>3. NoUser.balance = 0 /\ NoUser.opened = 0
      BY DEF NoUser, NewUser
    <3> QED BY <3>1, <3>2, <3>3
  <2>4. user[u].opened \in Int
    BY Initial DEF IInv, TypeOK, User
  <2> QED BY <2>1, <2>2, <2>3, <2>4 DEF Balanced
<1> QED BY <1>1, <1>2, <1>3 DEF Traced

LEMMA TracedInductive == IInv /\ IInv' /\ Traced /\ [Next]_vars => Traced'
<1> SUFFICES ASSUME IInv, IInv', Traced, [Next]_vars PROVE Traced'
  OBVIOUS
<1>1. CASE UNCHANGED vars
  BY <1>1 DEF vars, Traced, Balanced, Settled, Credits, Debits, Sum
<1>2. ASSUME NEW r \in Reqs, CallFails(r) PROVE Traced'
  <2>1. NoneBooked
    BY <1>2, EndsQuiet DEF CallFails
  <2> QED BY <1>2, <2>1, NothingMoves, TracedQuiet DEF CallFails, NoneBooked, MoneyStays
<1>3. ASSUME NEW r \in Reqs, Signs(r) \/ Secures(r) PROVE Traced'
  BY <1>3, SignsQuiet, SecuresQuiet, TracedQuiet DEF NoneBooked, MoneyStays
<1> QED BY <1>1, <1>2, <1>3, ServesTraced, SpendsTraced DEF Next

-----------------------------------------------------------------------------
(* The theorems.                                                           *)

LEMMA Invariance == Spec => []IInv
<1>1. IInv /\ [Next]_vars => IInv'
  BY Inductive
<1> QED BY Initial, <1>1, PTL DEF Spec

\* Every reachable state has its type, and no two accounts that are there share
\* an email or a username, whatever the sign ups and profile updates overlap.
THEOREM TypeCorrect == Spec => []TypeOK
<1>1. IInv => TypeOK
  BY DEF IInv
<1> QED BY <1>1, Invariance, PTL

\* A balance is negative only after a transfer, or a stake or withdrawal that
\* another debit of its user has overtaken between its check and its own debit.
THEOREM OverdraftsAreOvertaken == Spec => []OverdraftsOvertaken
<1>1. IInv => OverdraftsOvertaken
  BY DEF IInv, Sound, Explains, OverdraftsOvertaken
<1> QED BY <1>1, Invariance, PTL

\* Two factor authentication is on exactly when there is a secret, and the
\* secret is one that a request of its owner to enable it has stored, unless a
\* profile update has set either by itself.
THEOREM TwoFactorIsBacked == Spec => []TwoFactorBacked
<1>1. ASSUME IInv PROVE TwoFactorBacked
  <2>1. ASSUME NEW u \in Ids, Live(u), ~user[u].edited
        PROVE  /\ user[u].twoFAEnabled <=> user[u].twoFASecret # NoReq
               /\ user[u].twoFASecret # NoReq => Secured(req[user[u].twoFASecret], u)
    BY <1>1, <2>1 DEF IInv, Backed
  <2> QED BY <2>1 DEF TwoFactorBacked, Secured
<1> QED BY <1>1, Invariance, PTL

\* An account is deleted with $5, at most $1, or a balance that was written
\* after the request to delete it had been authenticated.
THEOREM DeletedWerePoor == Spec => DeletedPoor
<1>1. ASSUME IInv, [Next]_vars
      PROVE  [\A u \in Ids : user[u].state = "live" /\ user'[u].state = "deleted" =>
                \E r \in Reqs :
                  /\ At(r, "decide") /\ req'[r].pc = "done" /\ req[r].who = u
                  /\ \/ user[u].balance <= 1 \/ user[u].balance = 5
                     \/ req[r].overtaken # {}]_vars
  <2>1. ASSUME Next, NEW u \in Ids, user[u].state = "live", user'[u].state = "deleted"
        PROVE  \E r \in Reqs :
                 /\ At(r, "decide") /\ req'[r].pc = "done" /\ req[r].who = u
                 /\ \/ user[u].balance <= 1 \/ user[u].balance = 5
                    \/ req[r].overtaken # {}
    <3>1. PICK r \in Reqs : Signs(r) \/ Secures(r) \/ Serves(r) \/ Spends(r) \/ CallFails(r)
      BY <2>1 DEF Next
    <3>2. DeleteAccount(r)
      BY <1>1, <2>1, <3>1, OnlyDeleteAccountDeletes
    <3> QED BY <1>1, <2>1, <3>2, PoorStep
  <2> QED BY <1>1, <2>1
<1> QED BY <1>1, Invariance, PTL DEF Spec, DeletedPoor

\* A balance is what it was at first plus every amount credited and minus every
\* amount debited, and a transfer credits only what it has debited, whatever
\* fails in between and however many requests there are.
THEOREM MoneyIsTraced == Spec => []MoneyTraced
<1>1. IInv /\ IInv' /\ Traced /\ [Next]_vars => Traced'
  BY TracedInductive
<1>2. Traced => MoneyTraced
  BY DEF Traced, Balanced, Settled, Credits, Debits, MoneyTraced
<1> QED BY <1>1, <1>2, Invariance, TracedInitial, PTL DEF Spec
=============================================================================
