--------------------------- MODULE ActivityControl ---------------------------
(***************************************************************************)
(* Activity managers: the handlers that commit to one, push it or expire   *)
(* it (src/src/controllers/activity.js and cockpit/activityManager.js),    *)
(* and activityManagerListener (src/src/utils/engineListener.js), which    *)
(* the engine calls for every change of one.                               *)
(*                                                                         *)
(* The engine is a library: it creates, completes and interrupts managers  *)
(* as their processes go on, and picks a started manager of the process    *)
(* when it is asked to commit by process id.                               *)
(***************************************************************************)
EXTENDS Broker, Naturals, Sequences

CONSTANTS
    Processes,
    Managers,
    Owner,              \* the process of each manager
    Audience,           \* whether a manager's input has session_id, actor_id
    Requests,           \* bound: requests served
    MaxCommits,         \* bound: activities of a manager
    MaxFaults,          \* bound: crashes
    OnlyOnCreation,     \* ACTIVITY_MANAGER_SEND_ONLY_ON_CREATION is "true"
    ManagerBroker       \* ACTIVITY_MANAGER_BROKER, or "MQTT" when unset

ASSUME ActivityAssumption ==
    /\ Owner \in [Managers -> Processes]
    /\ Audience \in [Managers -> SUBSET {"session", "actor"}]
    /\ MaxCommits \in Nat
    /\ MaxFaults \in Nat
    /\ OnlyOnCreation \in BOOLEAN
    /\ ManagerBroker \in Brokers

VARIABLES
    manager,    \* status and number of activities of each manager
    announced,  \* what the listener handed to publishMessage, by manager
    req,        \* what each request asks and how far its handler is
    faults

vars == <<at, client, manager, announced, req, faults>>

Operations == {"commit", "push", "commitById", "submitById", "expire"}

\* What the test of expire tells apart; "none": not created yet.
ManagerStatus == {"none", "started", "completed", "interrupted"}

Manager == [status : ManagerStatus, activities : Nat]

Topics == {"process", "session", "actor"}

\* activities, status: of the manager when it was announced.
Announcement == [topic : Topics, activities : Nat, status : ManagerStatus,
                 outcome : Outcome]

\* "background": answered, but expireActivityManager still runs.
Stages == {"idle", "fetch", "call", "background", "answered", "cut"}

\* manager: the one in the path, for requests by manager; process: the one
\* the engine is called with; on: the manager the engine changed for the
\* request, as a set of at most one.
Request == [op : Operations, manager : Managers, process : Processes,
            stage : Stages, on : SUBSET Managers,
            code : {0, 200, 202, 400, 404, 409, 422, 500}]

TypeOK ==
    /\ BrokerTypeOK
    /\ manager \in [Managers -> Manager]
    /\ announced \in [Managers -> Seq(Announcement)]
    /\ req \in [Requests -> Request]
    /\ faults \in 0..MaxFaults

Init ==
    /\ BrokerInit
    /\ manager = [m \in Managers |-> [status |-> "none", activities |-> 0]]
    /\ announced = [m \in Managers |-> <<>>]
    /\ \E m \in Managers :
          req = [r \in Requests |->
                   [op |-> "commit", manager |-> m, process |-> Owner[m],
                    stage |-> "idle", on |-> {}, code |-> 0]]
    /\ faults = 0

Started(p) == {m \in Managers : Owner[m] = p /\ manager[m].status = "started"}

At(r, op, stage) == req[r].op = op /\ req[r].stage = stage

-----------------------------------------------------------------------------
(* activityManagerListener *)

\* Mutant of Skipped: a manager is only skipped when it has both activities
\* and another status.
SkippedWhenBoth(m) ==
    OnlyOnCreation /\ m.activities > 0 /\ m.status # "started"

Skipped(m) == OnlyOnCreation /\ (m.activities > 0 \/ m.status # "started")

\* Only the first of the three messages has the manager as its context.
ManagerPayload(topic) ==
    [topic |-> TRUE, context |-> IF topic = "process" THEN "activity" ELSE "none"]

Message(topic, m, outcome) ==
    [topic |-> topic, activities |-> m.activities, status |-> m.status,
     outcome |-> outcome[topic]]

Messages(m, audience, outcome) ==
    <<Message("process", m, outcome)>>
      \o (IF "session" \in audience THEN <<Message("session", m, outcome)>> ELSE <<>>)
      \o (IF "actor" \in audience THEN <<Message("actor", m, outcome)>> ELSE <<>>)

\* What may come of the message to each topic.
Outcomes(topic) == publishMessage(ManagerPayload(topic), ManagerBroker)

\* The engine writes the manager m as new and calls the listener, which has no
\* await.
Writes(m, new) ==
    /\ manager' = [manager EXCEPT ![m] = new]
    /\ IF Skipped(new) THEN announced' = announced
       ELSE \E p \in Outcomes("process"), s \in Outcomes("session"),
               a \in Outcomes("actor") :
              announced' = [announced EXCEPT ![m] = @ \o
                  Messages(new, Audience[m],
                           [process |-> p, session |-> s, actor |-> a])]

-----------------------------------------------------------------------------
(* The engine *)

ManagerCreated(m) ==
    /\ at # "boot"
    /\ manager[m].status = "none"
    /\ Writes(m, [status |-> "started", activities |-> 0])
    /\ UNCHANGED <<brokerVars, req, faults>>

\* The process goes on, is aborted, or a timer of the manager runs out.
ManagerEnds(m) ==
    /\ at # "boot"
    /\ manager[m].status = "started"
    /\ \E s \in {"completed", "interrupted"} :
          Writes(m, [manager[m] EXCEPT !.status = s])
    /\ UNCHANGED <<brokerVars, req, faults>>

-----------------------------------------------------------------------------
(* Handlers *)

Answers(r, code) ==
    req' = [req EXCEPT ![r].stage = "answered", ![r].code = code]

\* The engine changed m for r.
AnswersOn(r, m, code) ==
    req' = [req EXCEPT ![r].stage = "answered", ![r].code = code,
                       ![r].on = {m}]

\* commitActivity, pushActivity and submitByActivityManagerId call the engine
\* at once; the others read the manager first.
Receive(r, op, m) ==
    /\ at # "boot"
    /\ req[r].stage = "idle"
    /\ req' = [req EXCEPT ![r] = [@ EXCEPT
                 !.op = op, !.manager = m, !.process = Owner[m],
                 !.stage = IF op \in {"commitById", "expire"} THEN "fetch"
                           ELSE "call"]]
    /\ UNCHANGED <<brokerVars, manager, announced, faults>>

\* A read fails: Koa answers 500.
ReadFails(r) ==
    /\ req[r].stage = "fetch"
    /\ Answers(r, 500)
    /\ UNCHANGED <<brokerVars, manager, announced, faults>>

\* Mutant of ByIdFetched: process_id is not declared, so that every handler
\* shares it.
ByIdGlobal(r) ==
    /\ At(r, "commitById", "fetch")
    /\ req' = [s \in Requests |->
                 IF s = r THEN [req[r] EXCEPT !.stage = "call"]
                 ELSE IF At(s, "commitById", "call")
                 THEN [req[s] EXCEPT !.process = Owner[req[r].manager]]
                 ELSE req[s]]
    /\ UNCHANGED <<brokerVars, manager, announced, faults>>

\* commitByActivityManagerId keeps only the process of what it read.
ByIdFetched(r) ==
    /\ At(r, "commitById", "fetch")
    /\ \/ /\ manager[req[r].manager].status # "none"
          /\ req' = [req EXCEPT ![r].stage = "call",
                                ![r].process = Owner[req[r].manager]]
       \/ Answers(r, 404)
    /\ UNCHANGED <<brokerVars, manager, announced, faults>>

\* commitActivity of both handlers: the engine picks the manager.  It may have
\* changed it and still answer an error, or reject.
CommitReturns(r) ==
    /\ At(r, "commit", "call") \/ At(r, "commitById", "call")
    /\ \/ \E m \in Started(req[r].process) :
             /\ manager[m].activities < MaxCommits
             /\ Writes(m, [manager[m] EXCEPT !.activities = @ + 1])
             /\ \E code \in {200, 400, 404, 500} : AnswersOn(r, m, code)
       \/ /\ \E code \in {400, 404, 500} : Answers(r, code)
          /\ UNCHANGED <<manager, announced>>
    /\ UNCHANGED <<brokerVars, faults>>

\* A missing response is dereferenced: 500, as for any other error, whatever
\* the engine did before.
PushReturns(r) ==
    /\ At(r, "push", "call")
    /\ \/ \E m \in Started(req[r].process) :
             /\ Writes(m, [manager[m] EXCEPT !.status = "completed"])
             /\ \E code \in {202, 404, 500} : AnswersOn(r, m, code)
       \/ /\ \E code \in {404, 500} : Answers(r, code)
          /\ UNCHANGED <<manager, announced>>
    /\ UNCHANGED <<brokerVars, faults>>

SubmitReturns(r) ==
    /\ At(r, "submitById", "call")
    /\ \/ LET m == req[r].manager
          IN  /\ manager[m].status = "started"
              /\ manager[m].activities < MaxCommits
              /\ Writes(m, [status |-> "completed",
                            activities |-> manager[m].activities + 1])
              /\ \E code \in {202, 400, 404, 422, 500} : AnswersOn(r, m, code)
       \/ /\ \E code \in {400, 404, 422, 500} : Answers(r, code)
          /\ UNCHANGED <<manager, announced>>
    /\ UNCHANGED <<brokerVars, faults>>

\* The statuses expire answers 409 for.
unexpirable == {"completed", "interrupted"}

\* The engine's promise is not awaited: 200 is sent while the call runs.
ExpireFetched(r) ==
    /\ At(r, "expire", "fetch")
    /\ LET status == manager[req[r].manager].status
       IN  \/ Answers(r, 404)
           \/ /\ status \in unexpirable
              /\ Answers(r, 409)
           \/ /\ status \notin unexpirable \cup {"none"}
              /\ req' = [req EXCEPT ![r].stage = "background",
                                    ![r].code = 200]
    /\ UNCHANGED <<brokerVars, manager, announced, faults>>

ExpireReturns(r) ==
    /\ At(r, "expire", "background")
    /\ LET m == req[r].manager
       IN  \/ /\ Writes(m, [manager[m] EXCEPT !.status = "interrupted"])
              /\ AnswersOn(r, m, 200)
           \/ /\ req' = [req EXCEPT ![r].stage = "answered"]
              /\ UNCHANGED <<manager, announced>>
    /\ UNCHANGED <<brokerVars, faults>>

\* The server stops, by a rejection nobody listens to or otherwise.
Crash ==
    /\ faults < MaxFaults
    /\ at # "boot"
    /\ at' = "boot"
    /\ client' = [b \in Brokers |-> "none"]
    /\ req' = [r \in Requests |->
                 IF req[r].stage \in {"idle", "answered", "cut"} THEN req[r]
                 ELSE [req[r] EXCEPT !.stage = "cut"]]
    /\ faults' = faults + 1
    /\ UNCHANGED <<manager, announced>>

-----------------------------------------------------------------------------

Handler(r) ==
    \/ ByIdFetched(r) \/ CommitReturns(r)
    \/ PushReturns(r) \/ SubmitReturns(r)
    \/ ExpireFetched(r) \/ ExpireReturns(r)

BrokerStep ==
    /\ ConnectStep \/ ChannelClosed
    /\ UNCHANGED <<manager, announced, req, faults>>

Next ==
    \/ \E m \in Managers : ManagerCreated(m) \/ ManagerEnds(m)
    \/ \E r \in Requests :
          \/ \E op \in Operations, m \in Managers : Receive(r, op, m)
          \/ Handler(r) \/ ReadFails(r)
    \/ BrokerStep
    \/ Crash

Spec == Init /\ [][Next]_vars

-----------------------------------------------------------------------------
(* Properties *)

\* The messages of m's creation, by their place in the log: no later change of
\* a manager leaves it started and without activities.
Creation(m) ==
    {k \in DOMAIN announced[m] :
        announced[m][k].activities = 0 /\ announced[m][k].status = "started"}

ToldOfCreation(m) ==
    LET log == announced[m]
    IN  /\ {log[k].topic : k \in Creation(m)} = {"process"} \cup Audience[m]
        /\ \A j, k \in Creation(m) : log[j].topic = log[k].topic => j = k
        /\ ManagerBroker = "MQTT" =>
              \E outcome \in {"sent", "dropped", "ignored"} :
                  /\ \A k \in Creation(m) : log[k].outcome = outcome
                  /\ outcome = "dropped" => client["MQTT"] = "none" \/ faults > 0
        /\ OnlyOnCreation => Creation(m) = DOMAIN log

\* README.md:206-208: each manager is announced as it was created, once on the
\* topic of its process and once on that of each session or actor its input
\* names.  Over MQTT the messages all go out with their content, or all fall to
\* a server that has no client: nobody is told what another is not.  With
\* ACTIVITY_MANAGER_SEND_ONLY_ON_CREATION nothing else is announced, whoever
\* commits, pushes or expires the manager (engineListener.js:47-82).
CreationTold ==
    \A m \in Managers : manager[m].status # "none" => ToldOfCreation(m)

\* A commit by manager id reaches a manager of the same process, whatever else
\* is served between the read and the commit.
CommitStaysInProcess ==
    \A r \in Requests : req[r].op = "commitById" /\ req[r].code = 200 =>
        \E m \in req[r].on : Owner[m] = Owner[req[r].manager]

\* swagger.yml:1247-1257, "Commit by Activity Manager id": a 200 means that
\* the activity went to the manager of the path.
CommitReachesManager ==
    \A r \in Requests : req[r].op = "commitById" /\ req[r].code = 200 =>
        req[r].on = {req[r].manager}
=============================================================================
