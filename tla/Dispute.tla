------------------------------ MODULE Dispute ------------------------------
(***************************************************************************)
(* Dispute resolution: the admins (apps/admin), the contest-wager job of   *)
(* the wager service, which gives a contested wager to the admin of its    *)
(* category with the fewest disputes and opens a chat for it, and what     *)
(* becomes of the chat.  Of a wager's row Wager.tla has the detail; here   *)
(* it is disputed, not disputed, or deleted, by any handler at any time.   *)
(***************************************************************************)
EXTENDS Integers, FiniteSets

CONSTANTS
  MaxId,       \* bound: the ids that admins get are 1 .. MaxId
  Categories,  \* enum WagerCategory
  OTHERS,      \* the category of whoever signs up
  Signups,     \* admin-signup requests, each sent at most once
  Wagers, NoWager,  \* ids of wagers that exist
  Jobs,        \* requests to contest a wager, each with the job it adds
  MaxMessages, \* bound on the messages of a chat
  MaxFaults    \* bound on the crashes and failed calls of a behaviour

ASSUME DisputeAssumption ==
  /\ MaxId \in Nat \ {0} /\ OTHERS \in Categories
  /\ NoWager \notin Wagers /\ IsFiniteSet(Wagers) /\ IsFiniteSet(Jobs)
  /\ MaxFaults \in Nat /\ MaxMessages \in Nat \ {0}

VARIABLES
  admins,   \* the admin table
  nextId,   \* the sequence of its ids
  signup,   \* where the handler of each admin-signup is
  wager,    \* what has become of each wager
  solo,     \* the wagers whose playerTwo is null
  category, \* the category of each wager
  chat,     \* the admin of each wager's chat, 0 when there is none
  messages, \* how many messages that chat has
  job,      \* the contests and their contest-wager jobs
  faults    \* crashes and failed calls so far

table == <<admins, nextId>>
wagers == <<wager, solo, category>>
chats == <<chat, messages>>
vars == <<admins, nextId, signup, wager, solo, category, chat, messages, job, faults>>

Ids == 1 .. MaxId
Admin == [state : {"none", "live", "removed"}, category : Categories,
          disputes : Nat, isSuper : BOOLEAN]
NoAdmin == [state |-> "none", category |-> OTHERS, disputes |-> 0, isSuper |-> FALSE]

Live(a) == a \in Ids /\ admins[a].state = "live"

\* A worker on the job is about to read the wager, choose among the admins it
\* finds, count the dispute, create the chat, or add its members.  Before there
\* is a job, the request is about to add it ("queueContest") or ended without
\* doing so ("lost").  lone: the wager had no second player when it was read.
ActiveStates == {"wager", "choose", "count", "create", "join"}
JobStates == {"none", "queueContest", "lost", "waiting", "completed", "failed"} \cup ActiveStates
Job == [state : JobStates, wager : Wagers \cup {NoWager}, pick : Ids \cup {0},
        lone : BOOLEAN, stalls : {0, 1}]
NoJob == [state |-> "none", wager |-> NoWager, pick |-> 0, lone |-> FALSE, stalls |-> 0]

\* The job of x's wager without what a worker had read of it.
Bare(x, s, n) == [NoJob EXCEPT !.state = s, !.wager = x.wager, !.stalls = n]

Goes(j, s) == job' = [job EXCEPT ![j].state = s]
Fails(j) == job' = [job EXCEPT ![j] = Bare(job[j], "failed", 0)]

Init ==
  /\ admins = [a \in Ids |-> NoAdmin]
  /\ nextId = 1
  /\ signup = [s \in Signups |-> "idle"]
  /\ wager = [w \in Wagers |-> "undisputed"]
  /\ solo \in SUBSET Wagers
  /\ category \in [Wagers -> Categories]
  /\ chat = [w \in Wagers |-> 0]
  /\ messages = [w \in Wagers |-> 0]
  /\ job = [j \in Jobs |-> NoJob]
  /\ faults = 0

-----------------------------------------------------------------------------
(* Mutated forms of the operators below.                                   *)

\* FreeChats: the chats of the admin that is removed stay.
FreeChats_Kept(a) == UNCHANGED chats

\* CountDispute: the chat is created first and the count forgotten.
CountDispute_Forgotten(j) ==
  /\ job[j].state = "count"
  /\ job' = [job EXCEPT ![j].state = "create"]
  /\ UNCHANGED <<table, signup, wagers, chats, faults>>

\* CreateChat: the chat of a wager contested again moves to the new admin.
CreateChat_Upsert(j) ==
  /\ job[j].state = "create"
  /\ IF wager[job[j].wager] # "deleted" /\ Live(job[j].pick)
     THEN /\ chat' = [chat EXCEPT ![job[j].wager] = job[j].pick]
          /\ messages' = [messages EXCEPT ![job[j].wager] = 1]
          /\ job' = [job EXCEPT ![j].state = "join"]
     ELSE Fails(j) /\ UNCHANGED chats
  /\ UNCHANGED <<table, signup, wagers, faults>>

\* ChooseNobody: a job that finds no admin has nothing to do.
ChooseNobody_Done(j) ==
  /\ job[j].state = "choose"
  /\ {a \in Ids : Live(a) /\ admins[a].category = category[job[j].wager] /\ a # 1} = {}
  /\ job' = [job EXCEPT ![j].state = "completed"]
  /\ UNCHANGED <<table, signup, wagers, chats, faults>>

\* CountDispute: the count is decremented.
CountDispute_Lowered(j) ==
  /\ job[j].state = "count"
  /\ IF Live(job[j].pick)
     THEN /\ admins' = [admins EXCEPT ![job[j].pick].disputes = @ - 1]
          /\ job' = [job EXCEPT ![j].state = "create"]
     ELSE Fails(j) /\ UNCHANGED admins
  /\ UNCHANGED <<nextId, signup, wagers, chats, faults>>

-----------------------------------------------------------------------------
(* The admins *)

\* prisma.admin.create
NewAdmin(c, isSuper) ==
  /\ nextId \in Ids
  /\ admins' = [admins EXCEPT ![nextId] =
                  [state |-> "live", category |-> c, disputes |-> 0, isSuper |-> isSuper]]
  /\ nextId' = nextId + 1

\* admins.length === 1
CheckSignup(s) ==
  /\ signup[s] = "idle"
  /\ Cardinality({a \in Ids : Live(a)}) # 1
  /\ signup' = [signup EXCEPT ![s] = "hash"]
  /\ UNCHANGED <<table, wagers, chats, job, faults>>

CreateSuperAdmin(s) ==
  /\ signup[s] = "hash"
  /\ NewAdmin(OTHERS, TRUE)
  /\ signup' = [signup EXCEPT ![s] = "done"]
  /\ UNCHANGED <<wagers, chats, job, faults>>

\* The guard of the gateway lets nobody but the admin with id 1 add or remove.
AddAdmin(c) ==
  /\ Live(1)
  /\ NewAdmin(c, FALSE)
  /\ UNCHANGED <<signup, wagers, chats, job, faults>>

\* onDelete: Cascade, from the admin to its chats and from these to their messages
FreeChats(a) ==
  /\ chat' = [w \in Wagers |-> IF chat[w] = a THEN 0 ELSE chat[w]]
  /\ messages' = [w \in Wagers |-> IF chat[w] = a THEN 0 ELSE messages[w]]

RemoveAdmin(a) ==
  /\ Live(1) /\ Live(a)
  /\ admins' = [admins EXCEPT ![a].state = "removed"]
  /\ FreeChats(a)
  /\ UNCHANGED <<nextId, signup, wagers, job, faults>>

-----------------------------------------------------------------------------
(* The wagers *)

\* The player who joins read the row earlier, so neither its status nor its
\* second player is known to be as it was then.
JoinRow(w) ==
  /\ wager[w] # "deleted"
  /\ wager' = [wager EXCEPT ![w] = "undisputed"]
  /\ solo' = solo \ {w}
  /\ UNCHANGED <<table, signup, category, chats, job, faults>>

\* contestWagerClaim makes the row a dispute, whatever it has become since it was
\* read, and then adds the job.  A contest may come again; each adds a job.
ContestRow(w, j) ==
  /\ wager[w] # "deleted"
  /\ job[j].state = "none"
  /\ wager' = [wager EXCEPT ![w] = "disputed"]
  /\ job' = [job EXCEPT ![j] = [NoJob EXCEPT !.state = "queueContest", !.wager = w]]
  /\ UNCHANGED <<table, signup, solo, category, chats, faults>>

QueueContest(j) ==
  /\ job[j].state = "queueContest"
  /\ Goes(j, "waiting")
  /\ UNCHANGED <<table, signup, wagers, chats, faults>>

\* Settled by an admin, an accepted claim or the timer, by id and whatever the
\* status is by then.
Resolve(w) ==
  /\ wager[w] # "deleted"
  /\ wager' = [wager EXCEPT ![w] = "undisputed"]
  /\ UNCHANGED <<table, signup, solo, category, chats, job, faults>>

\* The handler read the wager while it was PENDING and deletes it by id, joined,
\* disputed or settled as it may be by then; its chat goes with it.
DeleteRow(w) ==
  /\ wager[w] # "deleted"
  /\ wager' = [wager EXCEPT ![w] = "deleted"]
  /\ solo' = solo \ {w}
  /\ chat' = [chat EXCEPT ![w] = 0]
  /\ messages' = [messages EXCEPT ![w] = 0]
  /\ UNCHANGED <<table, signup, category, job, faults>>

-----------------------------------------------------------------------------
(* The contest-wager job *)

StartJob(j) ==
  /\ job[j].state = "waiting"
  /\ Goes(j, "wager")
  /\ UNCHANGED <<table, signup, wagers, chats, faults>>

ReadWager(j) ==
  /\ job[j].state = "wager"
  /\ IF wager[job[j].wager] = "deleted"
     THEN Fails(j)
     ELSE job' = [job EXCEPT ![j].state = "choose", ![j].lone = job[j].wager \in solo]
  /\ UNCHANGED <<table, signup, wagers, chats, faults>>

Eligible(w) == {a \in Ids : Live(a) /\ admins[a].category = category[w] /\ a # 1}

LeastDisputes(A) == {a \in A : \A b \in A : admins[a].disputes <= admins[b].disputes}

\* findMany and the sort: any of those with the fewest disputes may come first.
Choose(j) ==
  /\ job[j].state = "choose"
  /\ \E a \in LeastDisputes(Eligible(job[j].wager)) :
       job' = [job EXCEPT ![j].state = "count", ![j].pick = a]
  /\ UNCHANGED <<table, signup, wagers, chats, faults>>

\* There is none: reading the id of undefined throws.
ChooseNobody(j) ==
  /\ job[j].state = "choose"
  /\ Eligible(job[j].wager) = {}
  /\ Fails(j)
  /\ UNCHANGED <<table, signup, wagers, chats, faults>>

\* disputes: { increment: 1 }; the update of an admin who is gone throws.
CountDispute(j) ==
  /\ job[j].state = "count"
  /\ IF Live(job[j].pick)
     THEN /\ admins' = [admins EXCEPT ![job[j].pick].disputes = @ + 1]
          /\ Goes(j, "create")
     ELSE Fails(j) /\ UNCHANGED admins
  /\ UNCHANGED <<nextId, signup, wagers, chats, faults>>

\* adminId and wagerId are foreign keys and wagerId is unique, so creating the
\* chat throws when the admin or the wager is gone or there is a chat.  The
\* first message comes with it.
CreateChat(j) ==
  /\ job[j].state = "create"
  /\ LET w == job[j].wager
     IN  IF wager[w] # "deleted" /\ chat[w] = 0 /\ Live(job[j].pick)
         THEN /\ chat' = [chat EXCEPT ![w] = job[j].pick]
              /\ messages' = [messages EXCEPT ![w] = 1]
              /\ Goes(j, "join")
         ELSE Fails(j) /\ UNCHANGED chats
  /\ UNCHANGED <<table, signup, wagers, faults>>

\* joinDisputeChat looks up both players, as the wager was when it was read; the
\* look-up of a null one throws.
JoinChat(j) ==
  /\ job[j].state = "join"
  /\ IF job[j].lone THEN Fails(j) ELSE Goes(j, "completed")
  /\ UNCHANGED <<table, signup, wagers, chats, faults>>

\* Anybody may send one to a chat that is there, whatever has become of its wager.
HandleMessage(w) ==
  /\ chat[w] # 0 /\ messages[w] < MaxMessages
  /\ messages' = [messages EXCEPT ![w] = @ + 1]
  /\ UNCHANGED <<table, signup, wagers, chat, job, faults>>

-----------------------------------------------------------------------------
(* Failures *)

\* The add of a request throws: Redis does not answer.
CallFails(j) ==
  /\ faults < MaxFaults
  /\ job[j].state = "queueContest"
  /\ Goes(j, "lost")
  /\ faults' = faults + 1
  /\ UNCHANGED <<table, signup, wagers, chats>>

JobFails(j) ==
  /\ faults < MaxFaults
  /\ job[j].state \in ActiveStates
  /\ Fails(j)
  /\ faults' = faults + 1
  /\ UNCHANGED <<table, signup, wagers, chats>>

\* Bull returns a stalled job to the queue once and fails it the second time; a
\* request that had not added its job is gone.
Stall(x) ==
  CASE x.state = "queueContest" -> Bare(x, "lost", 0)
    [] x.state \in ActiveStates /\ x.stalls = 0 -> Bare(x, "waiting", 1)
    [] x.state \in ActiveStates /\ x.stalls = 1 -> Bare(x, "failed", 0)
    [] OTHER -> x

\* The wager service dies and is restarted.
Crash ==
  /\ faults < MaxFaults
  /\ job' = [j \in Jobs |-> Stall(job[j])]
  /\ faults' = faults + 1
  /\ UNCHANGED <<table, signup, wagers, chats>>

\* The admin service dies and is restarted: signups in flight are gone.
AdminCrash ==
  /\ faults < MaxFaults
  /\ signup' = [s \in Signups |-> IF signup[s] = "hash" THEN "done" ELSE signup[s]]
  /\ faults' = faults + 1
  /\ UNCHANGED <<table, wagers, chats, job>>

-----------------------------------------------------------------------------

Works(j) ==
  \/ ReadWager(j) \/ Choose(j) \/ ChooseNobody(j)
  \/ CountDispute(j) \/ CreateChat(j) \/ JoinChat(j)

AdminNext ==
  \/ \E s \in Signups : CheckSignup(s) \/ CreateSuperAdmin(s)
  \/ \E c \in Categories : AddAdmin(c)
  \/ \E a \in Ids : RemoveAdmin(a)

WagerNext ==
  \/ \E w \in Wagers, j \in Jobs : ContestRow(w, j)
  \/ \E j \in Jobs : QueueContest(j)
  \/ \E w \in Wagers : JoinRow(w) \/ Resolve(w) \/ DeleteRow(w) \/ HandleMessage(w)

Next ==
  \/ AdminNext
  \/ WagerNext
  \/ \E j \in Jobs : StartJob(j) \/ Works(j) \/ CallFails(j) \/ JobFails(j)
  \/ Crash \/ AdminCrash

Spec == Init /\ [][Next]_vars

-----------------------------------------------------------------------------

TypeOK ==
  /\ admins \in [Ids -> Admin]
  /\ nextId \in 1 .. MaxId + 1
  /\ signup \in [Signups -> {"idle", "hash", "done"}]
  /\ wager \in [Wagers -> {"undisputed", "disputed", "deleted"}]
  /\ solo \subseteq Wagers
  /\ category \in [Wagers -> Categories]
  /\ chat \in [Wagers -> Ids \cup {0}]
  /\ messages \in [Wagers -> 0 .. MaxMessages]
  /\ job \in [Jobs -> Job]
  /\ faults \in 0 .. MaxFaults

\* The chats of an admin, and the jobs that are about to create one for it.
Assigned(a) ==
  Cardinality({w \in Wagers : chat[w] = a})
    + Cardinality({j \in Jobs : job[j].state = "create" /\ job[j].pick = a})

\* An admin's count of disputes never misses one: the job counts before it
\* creates the chat, whichever jobs interleave, stall or fail in between.
LoadCoversChats == \A a \in Ids : Assigned(a) <= admins[a].disputes

\* Every chat belongs to an admin who is still there, has the category of the
\* wager and is not the super admin, although the job chose that admin two
\* calls before it created the chat and admins may be removed at any time.
ChatsAreAttended ==
  \A w \in Wagers : chat[w] # 0 =>
    /\ Live(chat[w])
    /\ chat[w] # 1
    /\ admins[chat[w]].category = category[w]

\* A chat never changes hands and loses no message: contested again, by a
\* second request or a job that stalled, a wager keeps its chat and all that was
\* said in it until the admin or the wager is gone, and then nothing stays behind.
DiscussionsKept ==
  [][\A w \in Wagers : chat[w] # 0 =>
       \/ chat'[w] = chat[w] /\ messages'[w] >= messages[w]
       \/ /\ chat'[w] = 0 /\ messages'[w] = 0
          /\ wager'[w] = "deleted" \/ admins'[chat[w]].state = "removed"]_vars

\* A disputed wager has its chat, or is on its way to one: by a request that is
\* about to add the job or by the job.  If not, the cause is one of three: the
\* request ended between its two calls by a crash or a failed add, and nothing
\* takes the dispute up again; the job failed; or the admin a job had picked was
\* removed and took the chat along.  It is never dropped without one of them.
DisputesPursued ==
  \A w \in Wagers : wager[w] = "disputed" =>
    \/ chat[w] # 0
    \/ \E j \in Jobs :
         /\ job[j].wager = w
         /\ \/ job[j].state \in ActiveStates \cup {"queueContest", "waiting", "failed"}
            \/ job[j].state = "lost" /\ faults > 0
            \/ job[j].state = "completed" /\ job[j].pick # 0 /\ ~Live(job[j].pick)
=============================================================================
