--------------------------- MODULE DisputeProofs ---------------------------
(***************************************************************************)
(* What holds of the admins, the contest-wager jobs and the chats, for any *)
(* admins, wagers, jobs and faults.                                        *)
(***************************************************************************)
EXTENDS Dispute, FiniteSetTheorems, TLAPS

\* Ids are given out in turn, and an admin who was removed keeps them.
IdsInTurn == \A a \in Ids : a >= nextId => admins[a].state = "none"

\* A job that goes on with an admin picked one of its wager's category.
Picked(j) ==
  LET a == job[j].pick  w == job[j].wager
  IN  /\ job[j].state # "none" => w \in Wagers
      /\ job[j].state \in {"count", "create", "join", "completed"} =>
           /\ a \in Ids \ {1}
           /\ admins[a].state # "none"
           /\ admins[a].category = category[w]
      /\ job[j].state \in {"join", "completed"} =>
           chat[w] = a \/ wager[w] = "deleted" \/ ~Live(a)

\* A request contested the wager, whatever became of it and of its job.
Contested(w) ==
  wager[w] = "disputed" => \E j \in Jobs : job[j].state # "none" /\ job[j].wager = w

\* A request is lost between its two calls by a crash or a failed add only.
LostByFault == \A j \in Jobs : job[j].state = "lost" => faults > 0

IInv ==
  /\ TypeOK
  /\ IdsInTurn
  /\ LostByFault
  /\ \A j \in Jobs : Picked(j)
  /\ ChatsAreAttended
  /\ \A w \in Wagers : Contested(w)

-----------------------------------------------------------------------------

LEMMA TypeInitial == Init => TypeOK
  BY DisputeAssumption DEF Init, TypeOK, Admin, NoAdmin, Job, NoJob, Ids,
                             JobStates, ActiveStates

LEMMA BareTyped ==
  ASSUME NEW x, x.wager \in Wagers \cup {NoWager}, NEW s \in JobStates, NEW n \in {0, 1}
  PROVE  /\ Bare(x, s, n) \in Job
         /\ Bare(x, s, n).state = s /\ Bare(x, s, n).wager = x.wager
  BY DEF Bare, NoJob, Job, Ids

LEMMA StallTyped ==
  ASSUME NEW x \in Job
  PROVE  Stall(x) \in Job
<1>1. /\ x.wager \in Wagers \cup {NoWager} /\ x.stalls \in {0, 1}
      /\ {"lost", "waiting", "failed"} \subseteq JobStates
  BY DEF Job, JobStates
<1>2. Stall(x) \in {x, Bare(x, "lost", 0), Bare(x, "waiting", 1), Bare(x, "failed", 0)}
  BY <1>1 DEF Stall, ActiveStates
<1> QED BY <1>1, <1>2, BareTyped

LEMMA FailsEffect ==
  ASSUME job \in [Jobs -> Job], NEW j \in Jobs, Fails(j)
  PROVE  /\ job'[j].state = "failed" /\ job'[j].wager = job[j].wager
         /\ \A i \in Jobs : i # j => job'[i] = job[i]
  BY DEF Fails, Bare, NoJob

LEMMA FailsTyped ==
  ASSUME TypeOK, NEW j \in Jobs, Fails(j)
  PROVE  job' \in [Jobs -> Job]
<1>1. job[j].wager \in Wagers \cup {NoWager} /\ "failed" \in JobStates
  BY DEF TypeOK, Job, JobStates
<1> QED BY <1>1, BareTyped DEF Fails, TypeOK

LEMMA TypePreserved == TypeOK /\ [Next]_vars => TypeOK'
<1> SUFFICES ASSUME TypeOK, [Next]_vars PROVE TypeOK'
  OBVIOUS
<1> USE DisputeAssumption DEF TypeOK, table, wagers, chats
<1>1. ASSUME NEW s \in Signups, CheckSignup(s) PROVE TypeOK'
  BY <1>1 DEF CheckSignup
<1>2. ASSUME NEW s \in Signups, CreateSuperAdmin(s) PROVE TypeOK'
  BY <1>2 DEF CreateSuperAdmin, NewAdmin, Admin, Ids
<1>3. ASSUME NEW c \in Categories, AddAdmin(c) PROVE TypeOK'
  BY <1>3 DEF AddAdmin, NewAdmin, Admin, Ids
<1>4. ASSUME NEW a \in Ids, RemoveAdmin(a) PROVE TypeOK'
  <2>1. admins' \in [Ids -> Admin]
    BY <1>4 DEF RemoveAdmin, Admin
  <2>2. chat' \in [Wagers -> Ids \cup {0}] /\ messages' \in [Wagers -> 0 .. MaxMessages]
    BY <1>4 DEF RemoveAdmin, FreeChats
  <2> QED BY <1>4, <2>1, <2>2 DEF RemoveAdmin
<1>5. ASSUME NEW w \in Wagers, NEW j \in Jobs, ContestRow(w, j) PROVE TypeOK'
  BY <1>5 DEF ContestRow, Job, NoJob, JobStates, ActiveStates
<1>6. ASSUME NEW w \in Wagers, JoinRow(w) \/ Resolve(w) \/ DeleteRow(w) \/ HandleMessage(w)
      PROVE  TypeOK'
  BY <1>6 DEF JoinRow, Resolve, DeleteRow, HandleMessage
<1>7. ASSUME NEW j \in Jobs,
             \/ QueueContest(j) \/ StartJob(j) \/ ReadWager(j) \/ ChooseNobody(j)
             \/ JoinChat(j) \/ CallFails(j) \/ JobFails(j)
      PROVE TypeOK'
  <2>1. job' \in [Jobs -> Job]
    <3>1. CASE Fails(j)
      BY <3>1, FailsTyped
    <3>2. CASE ~Fails(j)
      BY <1>7, <3>2 DEF QueueContest, StartJob, ReadWager, ChooseNobody, JoinChat, CallFails,
                        JobFails, Goes, Job, JobStates, ActiveStates
    <3> QED BY <3>1, <3>2
  <2> QED BY <1>7, <2>1 DEF QueueContest, StartJob, ReadWager, ChooseNobody, JoinChat,
                            CallFails, JobFails
<1>8. ASSUME NEW j \in Jobs, Choose(j) PROVE TypeOK'
  <2>1. PICK a \in Ids : job' = [job EXCEPT ![j].state = "count", ![j].pick = a]
    BY <1>8 DEF Choose, LeastDisputes, Eligible
  <2>2. PICK x : x = [job[j] EXCEPT !.state = "count"]
    OBVIOUS
  <2>3. x \in Job
    BY <2>2 DEF Job, JobStates, ActiveStates
  <2>4. job' = [job EXCEPT ![j] = [x EXCEPT !.pick = a]]
    BY <2>1, <2>2
  <2>5. [x EXCEPT !.pick = a] \in Job
    BY <2>3 DEF Job
  <2>6. job' \in [Jobs -> Job]
    BY <2>4, <2>5
  <2> QED BY <1>8, <2>6 DEF Choose
<1>9. ASSUME NEW j \in Jobs, CountDispute(j) PROVE TypeOK'
  <2>1. admins' \in [Ids -> Admin]
    BY <1>9 DEF CountDispute, Admin
  <2>2. job' \in [Jobs -> Job]
    BY <1>9, FailsTyped DEF CountDispute, Goes, Job, JobStates, ActiveStates
  <2> QED BY <1>9, <2>1, <2>2 DEF CountDispute
<1>10. ASSUME NEW j \in Jobs, CreateChat(j) PROVE TypeOK'
  <2>1. job' \in [Jobs -> Job]
    BY <1>10, FailsTyped DEF CreateChat, Goes, Job, JobStates, ActiveStates
  <2> QED BY <1>10, <2>1 DEF CreateChat, Live
<1>11. CASE Crash
  <2>1. \A j \in Jobs : Stall(job[j]) \in Job
    BY StallTyped
  <2> QED BY <1>11, <2>1 DEF Crash
<1>12. CASE AdminCrash
  BY <1>12 DEF AdminCrash
<1>13. CASE UNCHANGED vars
  BY <1>13 DEF vars
<1> QED BY <1>1, <1>2, <1>3, <1>4, <1>5, <1>6, <1>7, <1>8, <1>9, <1>10, <1>11, <1>12, <1>13
        DEF Next, AdminNext, WagerNext, Works

\* The admins, wagers, chats and jobs are well typed in every reachable state,
\* for any bounds, signups, wagers and jobs.
THEOREM TypeCorrect == Spec => []TypeOK
  BY TypeInitial, TypePreserved, PTL DEF Spec

-----------------------------------------------------------------------------
(* Steps that change neither the admins, nor the wagers, nor the chats only    *)
(* have to keep the jobs in order; the others are taken one by one.            *)

LEMMA Initial == Init => IInv
<1> SUFFICES ASSUME Init PROVE IInv
  OBVIOUS
<1>1. TypeOK
  BY TypeInitial
<1> QED BY <1>1, DisputeAssumption
        DEF Init, IInv, IdsInTurn, LostByFault, Picked, ChatsAreAttended, Contested, NoAdmin, NoJob

LEMMA FaultsCounted == TypeOK => faults \in Nat
  BY DisputeAssumption DEF TypeOK

\* Only the row of one id changes, and an id that was given out keeps its category.
LEMMA AdminsKept ==
  ASSUME IInv, TypeOK', UNCHANGED <<wagers, chats, job>>, faults' >= faults,
         nextId' \in {nextId, nextId + 1},
         \A a \in Ids : admins[a].state # "none" =>
            /\ admins'[a].state = admins[a].state
            /\ admins'[a].category = admins[a].category,
         \A a \in Ids : a >= nextId' => admins'[a] = admins[a]
  PROVE  IInv'
<1> USE DEF IInv, TypeOK, wagers, chats
<1>0. LostByFault'
  BY DisputeAssumption DEF LostByFault
<1>1. IdsInTurn'
  BY DEF IdsInTurn, Ids
<1>2. \A a : Live(a) => Live(a)'
  BY DEF Live
<1>3. \A a \in Ids : admins[a].state = "removed" => ~Live(a)'
  BY DEF Live
<1>4. ASSUME NEW j \in Jobs PROVE Picked(j)'
  BY <1>2, <1>3 DEF Picked, Live, Admin
<1>5. ChatsAreAttended'
  BY <1>2 DEF ChatsAreAttended, Live
<1>6. \A w \in Wagers : Contested(w)'
  BY DEF Contested
<1> QED BY <1>0, <1>1, <1>4, <1>5, <1>6

LEMMA RemoveAdminPreserves ==
  ASSUME IInv, TypeOK', NEW a \in Ids, RemoveAdmin(a)
  PROVE  IInv'
<1> USE DEF IInv, TypeOK, wagers, chats
<1>1. /\ admins' = [admins EXCEPT ![a].state = "removed"]
      /\ chat' = [w \in Wagers |-> IF chat[w] = a THEN 0 ELSE chat[w]]
      /\ UNCHANGED <<nextId, wager, category, job, faults>>
      /\ Live(a)
  BY DEF RemoveAdmin, FreeChats
<1>2. \A b \in Ids : /\ admins'[b].category = admins[b].category
                     /\ b # a => admins'[b] = admins[b]
                     /\ Live(b)' <=> (Live(b) /\ b # a)
                     /\ admins'[b].state = "none" <=> admins[b].state = "none"
  BY <1>1 DEF Admin, Live
<1>3. IdsInTurn' /\ LostByFault'
  BY <1>1, <1>2 DEF IdsInTurn, LostByFault
<1>4. ASSUME NEW j \in Jobs PROVE Picked(j)'
  BY <1>1, <1>2 DEF Picked
<1>5. ChatsAreAttended'
  BY <1>1, <1>2 DEF ChatsAreAttended
<1>6. \A w \in Wagers : Contested(w)'
  BY <1>1 DEF Contested
<1> QED BY <1>3, <1>4, <1>5, <1>6

LEMMA ContestRowPreserves ==
  ASSUME IInv, TypeOK', NEW w \in Wagers, NEW j \in Jobs, ContestRow(w, j)
  PROVE  IInv'
<1> USE DEF IInv, TypeOK, table, chats, ContestRow
<1>1. IdsInTurn' /\ LostByFault' /\ ChatsAreAttended'
  BY DEF IdsInTurn, LostByFault, ChatsAreAttended, Live, NoJob
<1>2. job'[j].state = "queueContest" /\ job'[j].wager = w
  BY DEF NoJob
<1>3. ASSUME NEW i \in Jobs PROVE Picked(i)'
  <2>1. CASE i = j
    BY <2>1, <1>2 DEF Picked
  <2>2. CASE i # j
    BY <2>2 DEF Picked, Live
  <2> QED BY <2>1, <2>2
<1>4. ASSUME NEW x \in Wagers PROVE Contested(x)'
  <2>1. CASE x = w
    BY <2>1, <1>2 DEF Contested
  <2>2. CASE x # w
    BY <2>2, <1>2 DEF Contested
  <2> QED BY <2>1, <2>2
<1> QED BY <1>1, <1>3, <1>4

LEMMA WagerPreserves ==
  ASSUME IInv, TypeOK', NEW w \in Wagers,
         JoinRow(w) \/ Resolve(w) \/ DeleteRow(w) \/ HandleMessage(w)
  PROVE  IInv'
<1>1. /\ UNCHANGED <<admins, nextId, category, job, faults>>
      /\ \A x \in Wagers : chat'[x] = chat[x] \/ (chat'[x] = 0 /\ wager'[x] = "deleted")
      /\ \A x \in Wagers : /\ wager'[x] = "disputed" => wager[x] = "disputed"
                           /\ wager[x] = "deleted" => wager'[x] = "deleted"
  BY DEF IInv, TypeOK, JoinRow, Resolve, DeleteRow, HandleMessage, table, wagers, chats
<1>2. IdsInTurn' /\ LostByFault' /\ ChatsAreAttended'
  BY <1>1 DEF IInv, IdsInTurn, LostByFault, ChatsAreAttended, Live
<1>3. ASSUME NEW i \in Jobs PROVE Picked(i)'
  <2>1. Picked(i) /\ job'[i] = job[i] /\ admins' = admins /\ category' = category
    BY <1>1 DEF IInv
  <2>2. CASE job[i].state = "none"
    BY <2>1, <2>2 DEF Picked
  <2>3. CASE job[i].state # "none"
    <3>1. job[i].wager \in Wagers
      BY <2>1, <2>3 DEF Picked
    <3> QED BY <1>1, <2>1, <3>1 DEF Picked, Live
  <2> QED BY <2>2, <2>3
<1>4. ASSUME NEW x \in Wagers PROVE Contested(x)'
  BY <1>1 DEF IInv, Contested
<1> QED BY <1>2, <1>3, <1>4 DEF IInv

\* The steps of a request or a job, a failure of it and a crash, which keep its wager.
LEMMA JobsKept ==
  ASSUME IInv, TypeOK', UNCHANGED <<nextId, wagers>>,
         \A a \in Ids : /\ admins'[a].state = admins[a].state
                        /\ admins'[a].category = admins[a].category,
         ChatsAreAttended',
         LostByFault',
         \A j \in Jobs : Picked(j)',
         \A j \in Jobs : /\ job'[j].wager = job[j].wager
                         /\ job[j].state # "none" => job'[j].state # "none"
  PROVE  IInv'
<1> USE DEF IInv, TypeOK, wagers
<1>1. IdsInTurn'
  BY DEF IdsInTurn
<1>2. \A w \in Wagers : Contested(w)'
  BY DEF Contested
<1> QED BY <1>1, <1>2

\* What a job forgets when it fails leaves nothing to pick.
LEMMA FailsPicked ==
  ASSUME IInv, TypeOK', NEW j \in Jobs, job[j].state # "none", Fails(j),
         UNCHANGED <<wagers, chats>>, faults' >= faults,
         \A a \in Ids : /\ admins'[a].state = admins[a].state
                        /\ admins'[a].category = admins[a].category
  PROVE  /\ LostByFault'
         /\ \A i \in Jobs : /\ Picked(i)'
                            /\ job'[i].wager = job[i].wager
                            /\ job[i].state # "none" => job'[i].state # "none"
<1> USE DEF IInv, TypeOK, wagers, chats
<1>1. /\ job'[j].state = "failed" /\ job'[j].wager = job[j].wager
      /\ \A i \in Jobs : i # j => job'[i] = job[i]
  BY FailsEffect
<1>2. LostByFault'
  BY <1>1, DisputeAssumption DEF LostByFault
<1>3. \A a : Live(a)' <=> Live(a)
  BY DEF Live
<1>4. ASSUME NEW i \in Jobs PROVE Picked(i)'
  <2>1. CASE i = j
    BY <1>1, <2>1 DEF Picked
  <2>2. CASE i # j
    BY <1>1, <1>3, <2>2 DEF Picked
  <2> QED BY <2>1, <2>2
<1> QED BY <1>1, <1>2, <1>4

LEMMA QuietJobPreserves ==
  ASSUME IInv, TypeOK', NEW j \in Jobs,
         \/ QueueContest(j) \/ StartJob(j) \/ ReadWager(j) \/ ChooseNobody(j) \/ JoinChat(j)
         \/ CallFails(j) \/ JobFails(j) \/ Choose(j)
  PROVE  IInv'
<1> USE DEF IInv, TypeOK, table, wagers, chats
<1> DEFINE Quiet == \/ QueueContest(j) \/ StartJob(j) \/ ReadWager(j) \/ ChooseNobody(j)
                    \/ JoinChat(j) \/ CallFails(j) \/ JobFails(j)
<1>1. UNCHANGED <<table, wagers, chats>> /\ faults' >= faults /\ job[j].state # "none"
  BY DisputeAssumption DEF QueueContest, StartJob, ReadWager, ChooseNobody, JoinChat, CallFails,
                           JobFails, Choose, ActiveStates
<1>2. ChatsAreAttended'
  BY <1>1 DEF ChatsAreAttended, Live
<1>3. CASE Fails(j)
  BY <1>1, <1>2, <1>3, FailsPicked, JobsKept
<1>4. CASE Quiet /\ ~Fails(j)
  <2>1. LostByFault'
    BY <1>1, <1>4, DisputeAssumption
       DEF QueueContest, StartJob, ReadWager, ChooseNobody, JoinChat, CallFails, JobFails, Goes,
           LostByFault, Job
  <2>2. ASSUME NEW i \in Jobs
        PROVE /\ Picked(i)'
              /\ job'[i].wager = job[i].wager
              /\ job[i].state # "none" => job'[i].state # "none"
    BY <1>1, <1>4 DEF QueueContest, StartJob, ReadWager, ChooseNobody, JoinChat, CallFails,
                      JobFails, Goes, ActiveStates, Picked, Live, Job
  <2> QED BY <1>1, <1>2, <2>1, <2>2, JobsKept
<1>5. CASE Choose(j)
  <2>1. PICK a \in Ids :
          /\ job' = [job EXCEPT ![j].state = "count", ![j].pick = a]
          /\ Live(a) /\ a # 1 /\ admins[a].category = category[job[j].wager]
    BY <1>5 DEF Choose, LeastDisputes, Eligible
  <2>2. job[j].state = "choose"
    BY <1>5 DEF Choose
  <2>3. LostByFault'
    BY <1>1, <2>1, DisputeAssumption DEF LostByFault, Job
  <2>4. ASSUME NEW i \in Jobs
        PROVE /\ Picked(i)'
              /\ job'[i].wager = job[i].wager
              /\ job[i].state # "none" => job'[i].state # "none"
    <3>1. CASE i = j
      BY <1>1, <2>1, <2>2, <3>1 DEF Picked, Live, Job
    <3>2. CASE i # j
      BY <1>1, <2>1, <3>2 DEF Picked, Live, Job
    <3> QED BY <3>1, <3>2
  <2> QED BY <1>1, <1>2, <2>3, <2>4, JobsKept
<1> QED BY <1>3, <1>4, <1>5

LEMMA CountDisputePreserves ==
  ASSUME IInv, TypeOK', NEW j \in Jobs, CountDispute(j)
  PROVE  IInv'
<1> USE DEF IInv, TypeOK, wagers, chats
<1>1. \A a \in Ids : /\ admins'[a].state = admins[a].state
                     /\ admins'[a].category = admins[a].category
                     /\ Live(a)' <=> Live(a)
  BY DEF CountDispute, Admin, Live
<1>2. UNCHANGED <<nextId, wagers, chats, faults>> /\ job[j].state = "count"
  BY DEF CountDispute
<1>3. Fails(j) \/ job' = [job EXCEPT ![j].state = "create"]
  BY DEF CountDispute, Goes
<1>4. ChatsAreAttended'
  BY <1>1, <1>2 DEF ChatsAreAttended
<1>5. CASE Fails(j)
  <2>1. faults' >= faults
    BY <1>2, DisputeAssumption
  <2> QED BY <1>1, <1>2, <1>4, <1>5, <2>1, FailsPicked, JobsKept
<1>6. CASE job' = [job EXCEPT ![j].state = "create"]
  <2>1. LostByFault'
    BY <1>2, <1>6 DEF LostByFault, Job
  <2>2. ASSUME NEW i \in Jobs
        PROVE /\ Picked(i)'
              /\ job'[i].wager = job[i].wager
              /\ job[i].state # "none" => job'[i].state # "none"
    BY <1>1, <1>2, <1>6 DEF Picked, Job
  <2> QED BY <1>1, <1>2, <1>4, <2>1, <2>2, JobsKept
<1> QED BY <1>3, <1>5, <1>6

LEMMA CreateChatPreserves ==
  ASSUME IInv, TypeOK', NEW j \in Jobs, CreateChat(j)
  PROVE  IInv'
<1> USE DEF IInv, TypeOK, table, wagers, chats
<1>1. UNCHANGED <<table, wagers, faults>> /\ job[j].state = "create"
  BY DEF CreateChat
<1>2. CASE UNCHANGED chats
  <2>1. Fails(j) \/ chat'[job[j].wager] = job[j].pick
    BY DEF CreateChat, Goes, Picked
  <2>2. Fails(j) /\ faults' >= faults
    BY <1>1, <1>2, <2>1, DisputeAssumption DEF CreateChat, Goes, Picked, Live, Ids
  <2>3. ChatsAreAttended'
    BY <1>1, <1>2 DEF ChatsAreAttended, Live
  <2> QED BY <1>1, <1>2, <2>2, <2>3, FailsPicked, JobsKept
<1>3. CASE ~ UNCHANGED chats
  <2>1. /\ chat' = [chat EXCEPT ![job[j].wager] = job[j].pick]
        /\ job' = [job EXCEPT ![j].state = "join"]
        /\ Live(job[j].pick) /\ chat[job[j].wager] = 0
        /\ job[j].wager \in Wagers
    BY <1>1, <1>3 DEF CreateChat, Goes, Picked
  <2>2. ChatsAreAttended' /\ LostByFault'
    BY <1>1, <2>1 DEF ChatsAreAttended, LostByFault, Live, Picked, Job
  <2>3. ASSUME NEW i \in Jobs
        PROVE /\ Picked(i)'
              /\ job'[i].wager = job[i].wager
              /\ job[i].state # "none" => job'[i].state # "none"
    <3>1. chat[job[i].wager] = job[i].pick => job[i].pick = 0 \/ job[i].wager # job[j].wager
      BY <2>1
    <3>2. CASE i = j
      BY <1>1, <2>1, <3>2 DEF Picked, Live, Job
    <3>3. CASE i # j
      BY <1>1, <2>1, <3>1, <3>3 DEF Picked, Live, Job, Ids
    <3> QED BY <3>2, <3>3
  <2> QED BY <1>1, <2>2, <2>3, JobsKept
<1> QED BY <1>2, <1>3

LEMMA StallEffect ==
  ASSUME NEW x \in Job, Stall(x) # x
  PROVE  /\ Stall(x).wager = x.wager
         /\ Stall(x).state \in {"lost", "waiting", "failed"}
         /\ x.state # "none"
<1>1. x.wager \in Wagers \cup {NoWager} /\ {"lost", "waiting", "failed"} \subseteq JobStates
  BY DEF Job, JobStates
<1>2. x.state = "queueContest" \/ x.state \in ActiveStates
  BY DEF Stall
<1>3. Stall(x) \in {Bare(x, "lost", 0), Bare(x, "waiting", 1), Bare(x, "failed", 0)}
  BY <1>2 DEF Stall, ActiveStates
<1>4. x.state # "none"
  BY <1>2 DEF ActiveStates
<1> QED BY <1>1, <1>3, <1>4, BareTyped

LEMMA CrashPreserves ==
  ASSUME IInv, TypeOK', Crash
  PROVE  IInv'
<1> USE DEF IInv, TypeOK, table, wagers, chats
<1>1. /\ UNCHANGED <<table, wagers, chats>> /\ faults' > 0
      /\ job' = [j \in Jobs |-> Stall(job[j])]
  BY DisputeAssumption DEF Crash
<1>2. ChatsAreAttended' /\ LostByFault'
  BY <1>1 DEF ChatsAreAttended, LostByFault, Live
<1>3. ASSUME NEW i \in Jobs
      PROVE /\ Picked(i)'
            /\ job'[i].wager = job[i].wager
            /\ job[i].state # "none" => job'[i].state # "none"
  <2>1. CASE job'[i] = job[i]
    BY <1>1, <2>1 DEF Picked, Live
  <2>2. CASE job'[i] # job[i]
    <3>1. /\ job'[i].wager = job[i].wager
          /\ job'[i].state \in {"lost", "waiting", "failed"}
          /\ job[i].state # "none"
      <4>1. job[i] \in Job /\ job'[i] = Stall(job[i])
        BY <1>1
      <4> QED BY <2>2, <4>1, StallEffect
    <3> QED BY <1>1, <3>1 DEF Picked
  <2> QED BY <2>1, <2>2
<1> QED BY <1>1, <1>2, <1>3, JobsKept

LEMMA Inductive == Spec => []IInv
<1>1. IInv /\ [Next]_vars => IInv'
  <2> SUFFICES ASSUME IInv, [Next]_vars PROVE IInv'
    OBVIOUS
  <2>0. TypeOK /\ TypeOK'
    BY TypePreserved DEF IInv
  <2>1. ASSUME NEW s \in Signups, CheckSignup(s) \/ CreateSuperAdmin(s) PROVE IInv'
    <3>1. CASE CheckSignup(s)
      BY <2>0, <3>1, AdminsKept, FaultsCounted DEF CheckSignup, table
    <3>2. CASE CreateSuperAdmin(s)
      BY <2>0, <3>2, AdminsKept, FaultsCounted DEF CreateSuperAdmin, NewAdmin, IInv, IdsInTurn, TypeOK, Ids
    <3> QED BY <2>1, <3>1, <3>2
  <2>2. ASSUME NEW c \in Categories, AddAdmin(c) PROVE IInv'
    BY <2>0, <2>2, AdminsKept, FaultsCounted DEF AddAdmin, NewAdmin, IInv, IdsInTurn, TypeOK, Ids
  <2>3. ASSUME NEW a \in Ids, RemoveAdmin(a) PROVE IInv'
    BY <2>0, <2>3, RemoveAdminPreserves
  <2>4. ASSUME NEW w \in Wagers, NEW j \in Jobs, ContestRow(w, j) PROVE IInv'
    BY <2>0, <2>4, ContestRowPreserves
  <2>5. ASSUME NEW w \in Wagers, JoinRow(w) \/ Resolve(w) \/ DeleteRow(w) \/ HandleMessage(w)
        PROVE  IInv'
    BY <2>0, <2>5, WagerPreserves
  <2>6. ASSUME NEW j \in Jobs,
               QueueContest(j) \/ StartJob(j) \/ Works(j) \/ CallFails(j) \/ JobFails(j)
        PROVE  IInv'
    BY <2>0, <2>6, QuietJobPreserves, CountDisputePreserves, CreateChatPreserves DEF Works
  <2>7. CASE Crash
    BY <2>0, <2>7, CrashPreserves
  <2>8. CASE AdminCrash
    BY <2>0, <2>8, AdminsKept, FaultsCounted DEF AdminCrash, table
  <2>9. CASE UNCHANGED vars
    BY <2>0, <2>9, AdminsKept, FaultsCounted DEF vars, wagers, chats
  <2> QED BY <2>1, <2>2, <2>3, <2>4, <2>5, <2>6, <2>7, <2>8, <2>9
          DEF Next, AdminNext, WagerNext
<1> QED BY Initial, <1>1, PTL DEF Spec

-----------------------------------------------------------------------------
(* The count of disputes.  Assigned counts the members of two finite sets, and *)
(* a step moves at most one member from the second to the first.               *)

Chats(a) == {w \in Wagers : chat[w] = a}
Opening(a) == {j \in Jobs : job[j].state = "create" /\ job[j].pick = a}

LEMMA Counted ==
  ASSUME NEW a
  PROVE  /\ IsFiniteSet(Chats(a)) /\ IsFiniteSet(Opening(a))
         /\ Cardinality(Chats(a)) \in Nat /\ Cardinality(Opening(a)) \in Nat
         /\ Assigned(a) = Cardinality(Chats(a)) + Cardinality(Opening(a))
<1>1. IsFiniteSet(Chats(a)) /\ IsFiniteSet(Opening(a))
  <2>1. Chats(a) \subseteq Wagers /\ Opening(a) \subseteq Jobs
    BY DEF Chats, Opening
  <2> QED BY <2>1, FS_Subset, DisputeAssumption
<1> QED BY <1>1, FS_CardinalityType DEF Assigned, Chats, Opening

\* A step that gives the admin neither a chat nor a job, and takes no count away.
LEMMA LoadKept ==
  ASSUME NEW a \in Ids, TypeOK, TypeOK', Assigned(a) <= admins[a].disputes,
         Chats(a)' \subseteq Chats(a), Opening(a)' \subseteq Opening(a),
         admins'[a].disputes >= admins[a].disputes
  PROVE  (Assigned(a) <= admins[a].disputes)'
<1>1. /\ Cardinality(Chats(a)') <= Cardinality(Chats(a))
      /\ Cardinality(Opening(a)') <= Cardinality(Opening(a))
      /\ Cardinality(Chats(a)') \in Nat /\ Cardinality(Opening(a)') \in Nat
  BY Counted, FS_Subset, FS_CardinalityType
<1>2. Assigned(a)' = Cardinality(Chats(a)') + Cardinality(Opening(a)')
  BY DEF Assigned, Chats, Opening
<1>3. admins[a].disputes \in Nat /\ admins'[a].disputes \in Nat
  BY DEF TypeOK, Admin
<1> QED BY <1>1, <1>2, <1>3, Counted

LEMMA NewAdminLoad ==
  ASSUME IInv, TypeOK', LoadCoversChats, NEW c \in Categories, NEW b \in BOOLEAN,
         NewAdmin(c, b), UNCHANGED <<chats, job>>
  PROVE  LoadCoversChats'
<1>1. SUFFICES ASSUME NEW a \in Ids PROVE (Assigned(a) <= admins[a].disputes)'
  BY DEF LoadCoversChats
<1>2. Chats(a)' = Chats(a) /\ Opening(a)' = Opening(a)
  BY DEF Chats, Opening, chats
<1>3. CASE a = nextId
  <2>1. admins[a].state = "none" /\ a # 0
    BY <1>3 DEF IInv, IdsInTurn, TypeOK, Ids
  <2>2. Chats(a) = {}
    BY <2>1 DEF Chats, IInv, ChatsAreAttended, Live
  <2>3. Opening(a) = {}
    BY <2>1 DEF Opening, IInv, Picked
  <2>4. Assigned(a)' = 0
    <3>1. Assigned(a)' = Cardinality(Chats(a)') + Cardinality(Opening(a)')
      BY DEF Assigned, Chats, Opening
    <3> QED BY <1>2, <2>2, <2>3, <3>1, FS_EmptySet
  <2>5. admins'[a].disputes = 0
    BY <1>3 DEF NewAdmin, IInv, TypeOK
  <2> QED BY <2>4, <2>5
<1>4. CASE a # nextId
  <2>1. admins'[a] = admins[a] /\ admins[a].disputes \in Nat
    BY <1>4 DEF NewAdmin, IInv, TypeOK, Admin
  <2> QED BY <1>2, <2>1, LoadKept DEF IInv, LoadCoversChats
<1> QED BY <1>3, <1>4

LEMMA CountDisputeLoad ==
  ASSUME IInv, TypeOK', LoadCoversChats, NEW j \in Jobs, CountDispute(j)
  PROVE  LoadCoversChats'
<1>1. SUFFICES ASSUME NEW a \in Ids PROVE (Assigned(a) <= admins[a].disputes)'
  BY DEF LoadCoversChats
<1>2. TypeOK /\ Assigned(a) <= admins[a].disputes
  BY DEF IInv, LoadCoversChats
<1>3. Chats(a)' = Chats(a)
  BY DEF Chats, CountDispute, chats
<1>4. CASE Live(job[j].pick) /\ a = job[j].pick
  <2>1. /\ admins'[a].disputes = admins[a].disputes + 1
        /\ admins[a].disputes \in Nat
        /\ job[j].state = "count"
        /\ job' = [job EXCEPT ![j].state = "create"]
    BY <1>2, <1>4 DEF CountDispute, Goes, TypeOK, Admin
  <2>2. Opening(a)' = Opening(a) \cup {j} /\ j \notin Opening(a)
    BY <1>2, <1>4, <2>1 DEF Opening, TypeOK, Job
  <2>3. Cardinality(Opening(a)') = Cardinality(Opening(a)) + 1
    BY <2>2, Counted, FS_AddElement
  <2>4. Assigned(a)' = Cardinality(Chats(a)') + Cardinality(Opening(a)')
    BY DEF Assigned, Chats, Opening
  <2> QED BY <1>2, <1>3, <2>1, <2>3, <2>4, Counted
<1>5. CASE ~(Live(job[j].pick) /\ a = job[j].pick)
  <2>1. Opening(a)' \subseteq Opening(a)
    BY <1>2, <1>5 DEF CountDispute, Goes, Fails, Bare, NoJob, Opening, TypeOK, Job
  <2>2. admins'[a].disputes = admins[a].disputes
    BY <1>2, <1>5 DEF CountDispute, TypeOK, Admin
  <2>3. admins[a].disputes \in Nat
    BY <1>2 DEF TypeOK, Admin
  <2> QED BY <1>2, <1>3, <2>1, <2>2, <2>3, LoadKept
<1> QED BY <1>4, <1>5

LEMMA CreateChatLoad ==
  ASSUME IInv, TypeOK', LoadCoversChats, NEW j \in Jobs, CreateChat(j)
  PROVE  LoadCoversChats'
<1>1. SUFFICES ASSUME NEW a \in Ids PROVE (Assigned(a) <= admins[a].disputes)'
  BY DEF LoadCoversChats
<1>2. TypeOK /\ Assigned(a) <= admins[a].disputes /\ 0 \notin Ids
  BY DEF IInv, LoadCoversChats, Ids
<1>3. /\ admins' = admins /\ admins[a].disputes \in Nat
      /\ job[j].state = "create"
      /\ job[j].wager \in Wagers
  BY <1>2 DEF CreateChat, table, IInv, Picked, TypeOK, Admin
<1>4. job'[j].state # "create" /\ \A i \in Jobs : i # j => job'[i] = job[i]
  <2>1. job \in [Jobs -> Job]
    BY <1>2 DEF TypeOK
  <2>2. CASE Fails(j)
    BY <2>1, <2>2, FailsEffect
  <2>3. CASE Goes(j, "join")
    BY <2>1, <2>3 DEF Goes, Job
  <2> QED BY <2>2, <2>3 DEF CreateChat
<1>5. Opening(a)' = Opening(a) \ {j}
  BY <1>4 DEF Opening
<1>6. CASE Chats(a)' \subseteq Chats(a)
  BY <1>2, <1>3, <1>5, <1>6, LoadKept
<1>7. CASE ~(Chats(a)' \subseteq Chats(a))
  <2>1. /\ chat' = [chat EXCEPT ![job[j].wager] = job[j].pick]
        /\ chat[job[j].wager] = 0
    BY <1>3, <1>7 DEF CreateChat, Chats, chats
  <2>2. a = job[j].pick
    BY <1>2, <1>3, <1>7, <2>1 DEF Chats, TypeOK
  <2>3. Chats(a)' = Chats(a) \cup {job[j].wager} /\ job[j].wager \notin Chats(a)
    BY <1>2, <1>3, <2>1, <2>2 DEF Chats, TypeOK
  <2>4. j \in Opening(a)
    BY <1>3, <2>2 DEF Opening
  <2>5. Cardinality(Chats(a)') = Cardinality(Chats(a)) + 1
    BY <2>3, Counted, FS_AddElement
  <2>6. Cardinality(Opening(a)') = Cardinality(Opening(a)) - 1
    BY <1>5, <2>4, Counted, FS_RemoveElement
  <2>7. Assigned(a)' = Cardinality(Chats(a)') + Cardinality(Opening(a)')
    BY DEF Assigned, Chats, Opening
  <2> QED BY <1>2, <1>3, <2>5, <2>6, <2>7, Counted
<1> QED BY <1>6, <1>7

\* Every other step.
LEMMA OtherLoad ==
  ASSUME IInv, TypeOK', LoadCoversChats,
         \A w \in Wagers : chat'[w] \in {chat[w], 0},
         \A j \in Jobs : /\ job'[j].state = "create" => job[j].state = "create"
                         /\ job'[j].state = "create" => job'[j].pick = job[j].pick,
         \A a \in Ids : admins'[a].disputes = admins[a].disputes
  PROVE  LoadCoversChats'
<1>1. SUFFICES ASSUME NEW a \in Ids PROVE (Assigned(a) <= admins[a].disputes)'
  BY DEF LoadCoversChats
<1>2. TypeOK /\ Assigned(a) <= admins[a].disputes /\ a # 0
  BY DEF IInv, LoadCoversChats, Ids
<1>3. Chats(a)' \subseteq Chats(a)
  BY <1>2 DEF Chats
<1>4. Opening(a)' \subseteq Opening(a)
  BY DEF Opening
<1>5. admins[a].disputes \in Nat
  BY <1>2 DEF TypeOK, Admin
<1> QED BY <1>2, <1>3, <1>4, <1>5, LoadKept

LEMMA LoadPreserved == IInv /\ LoadCoversChats /\ [Next]_vars => LoadCoversChats'
<1> SUFFICES ASSUME IInv, LoadCoversChats, [Next]_vars PROVE LoadCoversChats'
  OBVIOUS
<1>0. TypeOK /\ TypeOK'
  BY TypePreserved DEF IInv
<1> USE <1>0 DEF table, wagers, chats
<1>1. ASSUME NEW s \in Signups, CheckSignup(s) \/ CreateSuperAdmin(s) PROVE LoadCoversChats'
  <2>1. CASE CheckSignup(s)
    BY <2>1, OtherLoad DEF CheckSignup
  <2>2. CASE CreateSuperAdmin(s)
    BY <2>2, NewAdminLoad, DisputeAssumption DEF CreateSuperAdmin
  <2> QED BY <1>1, <2>1, <2>2
<1>2. ASSUME NEW c \in Categories, AddAdmin(c) PROVE LoadCoversChats'
  BY <1>2, NewAdminLoad DEF AddAdmin
<1>3. ASSUME NEW a \in Ids, RemoveAdmin(a) PROVE LoadCoversChats'
  <2>1. \A b \in Ids : admins'[b].disputes = admins[b].disputes
    BY <1>3 DEF RemoveAdmin, TypeOK, Admin
  <2>2. job' = job /\ \A w \in Wagers : chat'[w] \in {chat[w], 0}
    BY <1>3 DEF RemoveAdmin, FreeChats
  <2> QED BY <2>1, <2>2, OtherLoad
<1>4. ASSUME NEW w \in Wagers, NEW j \in Jobs, ContestRow(w, j) PROVE LoadCoversChats'
  <2>1. \A i \in Jobs : job'[i] = job[i] \/ job'[i].state = "queueContest"
    BY <1>4 DEF ContestRow, TypeOK, NoJob
  <2> QED BY <1>4, <2>1, OtherLoad DEF ContestRow
<1>5. ASSUME NEW w \in Wagers, JoinRow(w) \/ Resolve(w) \/ DeleteRow(w) \/ HandleMessage(w)
      PROVE LoadCoversChats'
  <2>1. admins' = admins /\ job' = job /\ \A x \in Wagers : chat'[x] \in {chat[x], 0}
    BY <1>5 DEF JoinRow, Resolve, DeleteRow, HandleMessage, TypeOK
  <2> QED BY <2>1, OtherLoad
<1>6. ASSUME NEW j \in Jobs,
             \/ QueueContest(j) \/ StartJob(j) \/ ReadWager(j) \/ Choose(j)
             \/ ChooseNobody(j) \/ JoinChat(j) \/ CallFails(j) \/ JobFails(j)
      PROVE LoadCoversChats'
  <2>1. admins' = admins /\ chat' = chat
    BY <1>6 DEF QueueContest, StartJob, ReadWager, Choose, ChooseNobody, JoinChat, CallFails,
                JobFails
  <2>2. \A i \in Jobs : job'[i] = job[i] \/ job'[i].state # "create"
    <3>1. CASE ~Choose(j)
      <4>1. job \in [Jobs -> Job]
        BY DEF TypeOK
      <4>2. CASE Fails(j)
        BY <4>1, <4>2, FailsEffect
      <4>3. CASE ~Fails(j)
        BY <1>6, <3>1, <4>1, <4>3 DEF QueueContest, StartJob, ReadWager, ChooseNobody, JoinChat,
                                      CallFails, JobFails, Goes, Job
      <4> QED BY <4>2, <4>3
    <3>2. CASE Choose(j)
      <4>1. PICK a \in Ids : job' = [job EXCEPT ![j].state = "count", ![j].pick = a]
        BY <3>2 DEF Choose, LeastDisputes, Eligible
      <4>2. job'[j].state = "count" /\ \A i \in Jobs \ {j} : job'[i] = job[i]
        BY <4>1 DEF TypeOK, Job
      <4> QED BY <4>2
    <3> QED BY <3>1, <3>2
  <2> QED BY <2>1, <2>2, OtherLoad
<1>7. ASSUME NEW j \in Jobs, CountDispute(j) \/ CreateChat(j) PROVE LoadCoversChats'
  BY <1>7, CountDisputeLoad, CreateChatLoad
<1>8. CASE Crash
  <2>1. \A i \in Jobs : job[i] \in Job /\ job'[i] = Stall(job[i])
    BY <1>8 DEF Crash, TypeOK
  <2>2. \A i \in Jobs : job'[i] = job[i] \/ job'[i].state # "create"
    BY <2>1, StallEffect
  <2> QED BY <1>8, <2>2, OtherLoad DEF Crash
<1>9. CASE AdminCrash
  BY <1>9, OtherLoad DEF AdminCrash
<1>10. CASE UNCHANGED vars
  BY <1>10, OtherLoad DEF vars
<1> QED BY <1>1, <1>2, <1>3, <1>4, <1>5, <1>6, <1>7, <1>8, <1>9, <1>10
        DEF Next, AdminNext, WagerNext, Works

-----------------------------------------------------------------------------

\* Every chat belongs to an admin who is still there, has the category of the
\* wager and is not the super admin, though the job chose that admin two calls
\* earlier (contestWagerClaim of the processor).
THEOREM ChatsAttended == Spec => []ChatsAreAttended
<1>1. IInv => ChatsAreAttended
  BY DEF IInv
<1> QED BY <1>1, Inductive, PTL

\* A disputed wager has its chat or is on its way to one, by a request or a job;
\* else that request was cut short between its two calls by a crash or a failed
\* add (wager.service.ts:312 and 320), or its job failed, or the chat went with the
\* admin the job had picked.
THEOREM DisputesArePursued == Spec => []DisputesPursued
<1>1. IInv => DisputesPursued
  <2> SUFFICES ASSUME IInv, NEW w \in Wagers, wager[w] = "disputed", chat[w] = 0
               PROVE  \E j \in Jobs :
                        /\ job[j].wager = w
                        /\ \/ job[j].state \in ActiveStates
                                              \cup {"queueContest", "waiting", "failed"}
                           \/ job[j].state = "lost" /\ faults > 0
                           \/ job[j].state = "completed" /\ job[j].pick # 0 /\ ~Live(job[j].pick)
    BY DEF DisputesPursued
  <2>1. PICK j \in Jobs : job[j].state # "none" /\ job[j].wager = w
    BY DEF IInv, Contested
  <2>2. job[j].state = "completed" => job[j].pick # 0 /\ ~Live(job[j].pick)
    BY <2>1 DEF IInv, Picked, Ids
  <2>3. job[j].state \in ActiveStates
                         \cup {"queueContest", "lost", "waiting", "failed", "completed"}
    BY <2>1 DEF IInv, TypeOK, Job, JobStates
  <2>4. job[j].state = "lost" => faults > 0
    BY DEF IInv, LostByFault
  <2> QED BY <2>1, <2>2, <2>3, <2>4
<1> QED BY <1>1, Inductive, PTL

\* The count of an admin's disputes never misses a chat, nor a job that is about
\* to open one, whichever jobs interleave, stall or fail.
THEOREM LoadIsCovered == Spec => []LoadCoversChats
<1>1. Init => LoadCoversChats
  <2> SUFFICES ASSUME Init, NEW a \in Ids PROVE Assigned(a) <= admins[a].disputes
    BY DEF LoadCoversChats
  <2>1. Chats(a) = {} /\ Opening(a) = {} /\ admins[a].disputes = 0
    BY DEF Init, Chats, Opening, NoJob, NoAdmin, Ids
  <2> QED BY <2>1, Counted, FS_EmptySet
<1> QED BY <1>1, LoadPreserved, Inductive, PTL DEF Spec

\* A chat keeps its admin and its messages until that admin or its wager is
\* gone, and then nothing of it stays.
THEOREM DiscussionsAreKept == Spec => DiscussionsKept
<1>1. IInv /\ [Next]_vars =>
        [\A w \in Wagers : chat[w] # 0 =>
           \/ chat'[w] = chat[w] /\ messages'[w] >= messages[w]
           \/ /\ chat'[w] = 0 /\ messages'[w] = 0
              /\ wager'[w] = "deleted" \/ admins'[chat[w]].state = "removed"]_vars
  <2> SUFFICES ASSUME IInv, Next, NEW w \in Wagers, chat[w] # 0
               PROVE  \/ chat'[w] = chat[w] /\ messages'[w] >= messages[w]
                      \/ /\ chat'[w] = 0 /\ messages'[w] = 0
                         /\ wager'[w] = "deleted" \/ admins'[chat[w]].state = "removed"
    OBVIOUS
  <2>0. TypeOK /\ messages[w] \in Nat
    BY DEF IInv, TypeOK
  <2>1. CASE UNCHANGED chats
    BY <2>0, <2>1 DEF chats
  <2>2. ASSUME NEW a \in Ids, RemoveAdmin(a)
        PROVE  \/ chat'[w] = chat[w] /\ messages'[w] >= messages[w]
               \/ /\ chat'[w] = 0 /\ messages'[w] = 0
                  /\ wager'[w] = "deleted" \/ admins'[chat[w]].state = "removed"
    BY <2>0, <2>2 DEF RemoveAdmin, FreeChats, TypeOK
  <2>3. ASSUME NEW x \in Wagers, DeleteRow(x) \/ HandleMessage(x)
        PROVE  \/ chat'[w] = chat[w] /\ messages'[w] >= messages[w]
               \/ /\ chat'[w] = 0 /\ messages'[w] = 0
                  /\ wager'[w] = "deleted" \/ admins'[chat[w]].state = "removed"
    BY <2>0, <2>3 DEF DeleteRow, HandleMessage, TypeOK
  <2>4. ASSUME NEW j \in Jobs, CreateChat(j)
        PROVE  chat'[w] = chat[w] /\ messages'[w] >= messages[w]
    BY <2>0, <2>4 DEF CreateChat, TypeOK, chats
  <2>5. \/ UNCHANGED chats
        \/ \E a \in Ids : RemoveAdmin(a)
        \/ \E x \in Wagers : DeleteRow(x) \/ HandleMessage(x)
        \/ \E j \in Jobs : CreateChat(j)
    BY DEF Next, AdminNext, WagerNext, Works, CheckSignup, CreateSuperAdmin, AddAdmin,
           ContestRow, QueueContest, JoinRow, Resolve, StartJob, ReadWager, Choose, ChooseNobody,
           CountDispute, JoinChat, CallFails, JobFails, Crash, AdminCrash
  <2> QED BY <2>1, <2>2, <2>3, <2>4, <2>5
<1> QED BY <1>1, Inductive, PTL DEF Spec, DiscussionsKept
=============================================================================
