--------------------------- MODULE WorkflowControl ---------------------------
(***************************************************************************)
(* The HTTP handlers of src/src/controllers/workflow.js that change        *)
(* something: saveWorkflow, deleteWorkflow, createProcess,                 *)
(* createProcessByName and createAndRunProcessByName, with the event       *)
(* publishWorkflow (src/src/utils/publishWorkflow.js) sends of a saved     *)
(* workflow, those of the event nodes of a process that was started, the   *)
(* beacon of src/src/controllers/connection.js, and the broker clients     *)
(* that take them all.                                                     *)
(*                                                                         *)
(* Every handler awaits several answers of the engine, so another save,    *)
(* delete or creation may come between its check and its act, and an id    *)
(* may stand for another workflow at the second await than at the first: a *)
(* client may save under an id of its own, or of a workflow deleted since. *)
(* The engine is a library: here it may refuse or carry out any call the   *)
(* database does not exclude, and reject one that it has carried out.      *)
(***************************************************************************)
EXTENDS Broker, Naturals, Sequences, FiniteSets

CONSTANTS
    Names,          \* names of workflows
    OwnIds,         \* workflow ids that clients make up
    Requests,       \* bound: requests served
    MaxRows,        \* bound: workflows saved
    MaxProcesses,   \* bound: processes of a workflow
    MaxFaults,      \* bound: reads that fail, and answers lost of calls done
    EventsBroker,   \* WORKFLOW_EVENTS_BROKER, or "unset"
    Named           \* the brokers whose variable has any text, "false" as well

ASSUME WorkflowAssumption ==
    /\ Names # {}
    /\ MaxRows \in Nat
    /\ OwnIds \subseteq Nat
    /\ \A id \in OwnIds : id > MaxRows
    /\ MaxProcesses \in Nat
    /\ MaxFaults \in Nat
    /\ EventsBroker \in Brokers \cup {"unset"}
    /\ Named \subseteq Brokers
    /\ Enabled \subseteq Named

VARIABLES
    rows,       \* the table workflow, oldest first
    events,     \* the calls of publishMessage, with their outcomes
    req,        \* what each request asks and how far its handler is
    faults

vars == <<at, client, rows, events, req, faults>>

Operations == {"save", "delete", "create", "createByName", "start", "beacon"}

\* processes: how many processes refer to the workflow.
Row == [id : Nat \ {0}, name : Names, version : Nat \ {0}, deleted : BOOLEAN,
        processes : Nat]

\* by: the request that sends it; row: the workflow of the event.
Event == [of : {"saved", "node"}, by : Requests, row : Nat \ {0}, outcome : Outcome]

\* "background": answered, but runProcess still runs; "notified": it has run
\* an event node; "rejected": it failed; "cut": the server stopped under the
\* request.
Stages == {"idle", "validate", "save", "envs", "refetch", "fetch", "list",
           "call", "beacon", "background", "notified", "answered", "rejected",
           "cut"}

Serving == {"validate", "save", "envs", "refetch", "fetch", "list", "call", "beacon"}

Running == {"background", "notified"}

\* HTTP status of the reply, 0 while there is none.
Codes == {0, 200, 201, 204, 400, 404, 422, 500}

\* id: the workflow_id of the path or the body, 0 for none or one that no
\* workflow has; odd: a node of the blueprint has an extract that is no text;
\* row: the workflow that was read, 0 when there is none; seen: the number of
\* workflows then; made: the workflow the request has saved, deleted or made a
\* process of; asked: what became of a beacon at each broker.
Request == [op : Operations, name : Names, id : Nat, odd : BOOLEAN, row : Nat,
            seen : Nat, made : Nat, asked : Seq(Outcome), stage : Stages,
            code : Codes]

TypeOK ==
    /\ BrokerTypeOK
    /\ rows \in Seq(Row)
    /\ events \in Seq(Event)
    /\ req \in [Requests -> Request]
    /\ faults \in 0..MaxFaults

Init ==
    /\ BrokerInit
    /\ rows = <<>>
    /\ events = <<>>
    /\ req = [r \in Requests |->
                [op |-> "save", name |-> CHOOSE n \in Names : TRUE, id |-> 0,
                 odd |-> FALSE, row |-> 0, seen |-> 0, made |-> 0,
                 asked |-> <<>>, stage |-> "idle", code |-> 0]]
    /\ faults = 0

-----------------------------------------------------------------------------
(* Helpers *)

At(r, op, stage) == req[r].op = op /\ req[r].stage = stage

Answers(r, code) ==
    req' = [req EXCEPT ![r].stage = "answered", ![r].code = code]

\* On to the next await.
GoesOn(r, stage) == req' = [req EXCEPT ![r].stage = stage]

\* On to the next await with the workflow i.
Finds(r, stage, i) ==
    req' = [req EXCEPT ![r].stage = stage, ![r].row = i, ![r].seen = Len(rows)]

\* The engine has saved or deleted the workflow i, or made a process of it.
Does(r, i, stage, code) ==
    req' = [req EXCEPT ![r].made = i, ![r].stage = stage, ![r].code = code]

Fault == faults < MaxFaults /\ faults' = faults + 1

\* The workflow of an id, if there is one: the primary key lets no two have it.
Live(id) == {i \in DOMAIN rows : rows[i].id = id /\ ~ rows[i].deleted}

Saved(name) == {i \in DOMAIN rows : rows[i].name = name /\ ~ rows[i].deleted}

Latest(name) ==
    CHOOSE i \in Saved(name) :
        \A j \in Saved(name) : rows[j].version <= rows[i].version

\* A promise that nobody listens to is rejected: Node stops the server and
\* what it serves, r's reply included when it is not out yet, unless something
\* else in the process listens.  done: r's record if it is not cut.
Unhandled(r, done) ==
    \/ /\ req' = [req EXCEPT ![r] = done]
       /\ UNCHANGED brokerVars
    \/ /\ \E last \in {done.stage, "cut"} :
             req' = [s \in Requests |->
                       IF s = r THEN [done EXCEPT !.stage = last]
                       ELSE IF req[s].stage \in Serving \cup Running
                       THEN [req[s] EXCEPT !.stage = "cut"]
                       ELSE req[s]]
       /\ at' = "boot"
       /\ client' = [b \in Brokers |-> "none"]

-----------------------------------------------------------------------------
(* Requests come in to a server that has called connect() *)

\* The ids a client can name.
Ids == {0} \cup OwnIds \cup {rows[i].id : i \in DOMAIN rows}

Receive(r, op, name, id, odd) ==
    /\ at # "boot"
    /\ req[r].stage = "idle"
    /\ id # 0 => op \in {"save", "delete", "create"}
    /\ odd => op = "save"
    /\ req' = [req EXCEPT ![r].op = op, ![r].name = name, ![r].id = id, ![r].odd = odd,
                 ![r].stage = CASE op = "save" -> "validate"
                                [] op = "beacon" -> "beacon"
                                [] OTHER -> "fetch"]
    /\ UNCHANGED <<brokerVars, rows, events, faults>>

\* A read is not answered: every handler ends in 500, by its catch or Koa's.
ReadFails(r) ==
    /\ req[r].stage \in {"envs", "refetch", "fetch", "list"}
    /\ Answers(r, 500)
    /\ Fault
    /\ UNCHANGED <<brokerVars, rows, events>>

-----------------------------------------------------------------------------
(* saveWorkflow *)

Validated(r) ==
    /\ At(r, "save", "validate")
    /\ Answers(r, 400) \/ GoesOn(r, "save")
    /\ UNCHANGED <<brokerVars, rows, events, faults>>

\* Versions of a name count up; the table refuses two rows of one version.
NextVersion(name) ==
    IF Saved(name) = {} THEN 1 ELSE rows[Latest(name)].version + 1

\* The id of the body, or one nobody has had.
NewId(r) == IF req[r].id = 0 THEN Len(rows) + 1 ELSE req[r].id

\* The engine stores the workflow, unless there is one of its id.
Stores(r) ==
    /\ Len(rows) < MaxRows
    /\ Live(req[r].id) = {}
    /\ rows' = Append(rows, [id |-> NewId(r), name |-> req[r].name,
                            version |-> NextVersion(req[r].name),
                            deleted |-> FALSE, processes |-> 0])

\* The engine stores the workflow, or answers with an error, or rejects, which
\* it may do though it has stored it.
SaveReturns(r) ==
    /\ At(r, "save", "save")
    /\ \/ Stores(r) /\ Does(r, Len(rows) + 1, "envs", 0) /\ UNCHANGED faults
       \/ Stores(r) /\ Does(r, Len(rows) + 1, "answered", 500) /\ Fault
       \/ GoesOn(r, "envs") /\ UNCHANGED <<rows, faults>>
       \/ Answers(r, 500) /\ UNCHANGED <<rows, faults>>
    /\ UNCHANGED <<brokerVars, events>>

\* Mutant of EnvironmentValidated: a missing variable is an error.
EnvironmentDemanded(r) ==
    /\ At(r, "save", "envs")
    /\ \/ Answers(r, 500)
       \/ req[r].made = 0 /\ Answers(r, 400)
       \/ req[r].made # 0 /\ GoesOn(r, "refetch")
    /\ UNCHANGED <<brokerVars, rows, events, faults>>

\* validateEnvironmentVariable and validateNodesExtract only collect warnings,
\* but an extract that is no text throws; the error of the save is looked at
\* after them.
EnvironmentValidated(r) ==
    /\ At(r, "save", "envs")
    /\ \/ req[r].odd /\ Answers(r, 500)
       \/ ~ req[r].odd /\ req[r].made = 0 /\ Answers(r, 400)
       \/ ~ req[r].odd /\ req[r].made # 0 /\ GoesOn(r, "refetch")
    /\ UNCHANGED <<brokerVars, rows, events, faults>>

\* publishWorkflow's payload has a context with the topic, and no topic.
WorkflowPayload == [topic |-> FALSE, context |-> "message"]

Announcement == publishMessage(WorkflowPayload, EventsBroker)

\* publishWorkflow(i) and the reply; neither its promise nor that of
\* publishMessage is awaited.
Announces(r, i) ==
    LET done == [req[r] EXCEPT !.stage = "answered", !.code = 201]
    IN  \E outcome \in Announcement :
          /\ events' = Append(events, [of |-> "saved", by |-> r, row |-> i,
                                      outcome |-> outcome])
          /\ IF outcome = "rejected" THEN Unhandled(r, done)
             ELSE req' = [req EXCEPT ![r] = done] /\ UNCHANGED brokerVars

\* publishWorkflow's promise rejects, and the reply is the 500 of the
\* handler's own catch.
Vanished(r) ==
    /\ Unhandled(r, [req[r] EXCEPT !.stage = "answered", !.code = 500])
    /\ UNCHANGED events

\* The workflow of the id that was saved: r's own, or one saved after it was
\* deleted.
OfSavedId(r) == Live(rows[req[r].made].id)

\* Mutants of Refetched: the workflow is fetched until it is there; it is
\* fetched by its name.
RefetchedUntilFound(r) ==
    /\ At(r, "save", "refetch")
    /\ \/ \E i \in OfSavedId(r) : Announces(r, i)
       \/ OfSavedId(r) = {} /\ UNCHANGED <<brokerVars, events, req>>
    /\ UNCHANGED <<rows, faults>>

RefetchedByName(r) ==
    /\ At(r, "save", "refetch")
    /\ IF Saved(req[r].name) # {} THEN Announces(r, Latest(req[r].name))
       ELSE Vanished(r)
    /\ UNCHANGED <<rows, faults>>

\* The saved workflow is fetched again.
Refetched(r) ==
    /\ At(r, "save", "refetch")
    /\ \/ \E i \in OfSavedId(r) : Announces(r, i)
       \/ OfSavedId(r) = {} /\ Vanished(r)
    /\ UNCHANGED <<rows, faults>>

-----------------------------------------------------------------------------
(* deleteWorkflow *)

DeleteFetched(r) ==
    /\ At(r, "delete", "fetch")
    /\ \/ \E i \in Live(req[r].id) : Finds(r, "list", i)
       \/ Live(req[r].id) = {} /\ Answers(r, 404)
    /\ UNCHANGED <<brokerVars, rows, events, faults>>

\* Workflows with this id that have a process.
Referenced(id) == {i \in DOMAIN rows : rows[i].id = id /\ rows[i].processes > 0}

DeleteListed(r) ==
    /\ At(r, "delete", "list")
    /\ IF Referenced(req[r].id) # {} THEN Answers(r, 422) ELSE GoesOn(r, "call")
    /\ UNCHANGED <<brokerVars, rows, events, faults>>

\* Mutant of Unreferenced: the table process has no foreign key.
ReferencedToo(i) == TRUE

\* process.workflow_id is a foreign key.
Unreferenced(i) == rows[i].processes = 0

Deleted(i) == rows' = [rows EXCEPT ![i].deleted = TRUE]

\* Mutant of DeleteReturns: the rows deleted are not counted.
DeleteBlindly(r) ==
    /\ At(r, "delete", "call")
    /\ \/ Live(req[r].id) = {} /\ Does(r, req[r].row, "answered", 204) /\ UNCHANGED rows
       \/ \E i \in Live(req[r].id) :
             IF Unreferenced(i) THEN Deleted(i) /\ Does(r, i, "answered", 204)
             ELSE Answers(r, 500) /\ UNCHANGED rows
    /\ UNCHANGED <<brokerVars, events, faults>>

\* Mutant of DeleteReturns: the engine's promise is not awaited.
DeleteUnawaited(r) ==
    /\ At(r, "delete", "call")
    /\ \/ Live(req[r].id) = {} /\ Answers(r, 204) /\ UNCHANGED <<brokerVars, rows>>
       \/ \E i \in Live(req[r].id) :
             IF Unreferenced(i)
             THEN Deleted(i) /\ Does(r, i, "answered", 204) /\ UNCHANGED brokerVars
             ELSE /\ Unhandled(r, [req[r] EXCEPT !.stage = "answered", !.code = 204])
                  /\ UNCHANGED rows
    /\ UNCHANGED <<events, faults>>

\* One row deleted, none left to delete, or a rejection nobody catches, which
\* may come though the row is deleted.
DeleteReturns(r) ==
    /\ At(r, "delete", "call")
    /\ \/ /\ Live(req[r].id) = {}
          /\ Answers(r, 404) /\ UNCHANGED <<rows, faults>>
       \/ \E i \in Live(req[r].id) :
             /\ Unreferenced(i) /\ Deleted(i)
             /\ \/ Does(r, i, "answered", 204) /\ UNCHANGED faults
                \/ Does(r, i, "answered", 500) /\ Fault
       \/ /\ \E i \in Live(req[r].id) : ~ Unreferenced(i)
          /\ Answers(r, 500) /\ UNCHANGED <<rows, faults>>
       \/ Answers(r, 500) /\ Fault /\ UNCHANGED rows
    /\ UNCHANGED <<brokerVars, events>>

-----------------------------------------------------------------------------
(* createProcess, createProcessByName, createAndRunProcessByName *)

CreateFetched(r) ==
    /\ At(r, "create", "fetch")
    /\ \/ \E i \in Live(req[r].id) : Finds(r, "call", i)
       \/ Live(req[r].id) = {} /\ Answers(r, 404)
    /\ UNCHANGED <<brokerVars, rows, events, faults>>

\* Mutant of NameFetched: the first workflow of the name is read.
OldestFetched(r) ==
    /\ At(r, "createByName", "fetch") \/ At(r, "start", "fetch")
    /\ IF Saved(req[r].name) = {} THEN Answers(r, 404)
       ELSE \E i \in Saved(req[r].name) :
               /\ \A j \in Saved(req[r].name) : i <= j
               /\ Finds(r, "call", i)
    /\ UNCHANGED <<brokerVars, rows, events, faults>>

NameFetched(r) ==
    /\ At(r, "createByName", "fetch") \/ At(r, "start", "fetch")
    /\ IF Saved(req[r].name) = {} THEN Answers(r, 404)
       ELSE Finds(r, "call", Latest(req[r].name))
    /\ UNCHANGED <<brokerVars, rows, events, faults>>

\* What the engine may create a process of: the workflow of the id, or the
\* latest of the name, looked up again.
Chosen(r) ==
    IF req[r].op = "create" THEN Live(req[r].id)
    ELSE IF Saved(req[r].name) = {} THEN {} ELSE {Latest(req[r].name)}

\* createAndRunProcessByName replies while runProcess runs.
Created(r, i) ==
    /\ rows[i].processes < MaxProcesses
    /\ rows' = [rows EXCEPT ![i].processes = @ + 1]
    /\ \/ /\ Does(r, i, IF req[r].op = "start" THEN "background" ELSE "answered", 201)
          /\ UNCHANGED faults
       \/ \E code \in {404, 500} : Does(r, i, "answered", code) /\ Fault

\* No process is answered with 404, a rejection with Koa's 500; the process
\* may have been created all the same.
CreateReturns(r) ==
    /\ req[r].op \in {"create", "createByName", "start"}
    /\ req[r].stage = "call"
    /\ \/ \E i \in Chosen(r) : Created(r, i)
       \/ \E code \in {404, 500} : Answers(r, code) /\ UNCHANGED <<rows, faults>>
    /\ UNCHANGED <<brokerVars, events>>

Runs(r) == req[r].op = "start" /\ req[r].stage \in Running

\* eventNodeNotifier, for a target or a trigger: the engine awaits it, so that
\* what it rejects with is the run's to deal with.
EventNodeRuns(r) ==
    /\ At(r, "start", "background")
    /\ LET broker == IF EventsBroker = "unset" THEN "KAFKA" ELSE EventsBroker
       IN  \E outcome \in publishMessage(WorkflowPayload, broker) :
             events' = Append(events, [of |-> "node", by |-> r, row |-> req[r].made,
                                       outcome |-> outcome])
    /\ GoesOn(r, "notified")
    /\ UNCHANGED <<brokerVars, rows, faults>>

RunReturns(r) ==
    /\ Runs(r)
    /\ GoesOn(r, "answered")
    /\ UNCHANGED <<brokerVars, rows, events, faults>>

RunRejects(r) ==
    /\ Runs(r)
    /\ Unhandled(r, [req[r] EXCEPT !.stage = "rejected"])
    /\ UNCHANGED <<rows, events, faults>>

-----------------------------------------------------------------------------
(* sendBeacon; an actor without an id does not get past captureActorData *)

\* Any text in a broker's variable makes the beacon ask it, in this order.
IfNamed(b) == IF b \in Named THEN <<b>> ELSE <<>>

Order == IfNamed("MQTT") \o IfNamed("KAFKA") \o IfNamed("AMQP")

Beacon(b) == [topic |-> b = "MQTT", context |-> IF b = "MQTT" THEN "none" ELSE "message"]

Asks(r) == At(r, "beacon", "beacon") /\ Len(req[r].asked) < Len(Order)

Asked(r) == Order[Len(req[r].asked) + 1]

\* Mutant of BeaconAsks: the broker is not awaited.
BeaconTells(r) ==
    /\ Asks(r)
    /\ \E outcome \in publishMessage(Beacon(Asked(r)), Asked(r)) :
          req' = [req EXCEPT ![r].asked = Append(@, outcome)]
    /\ UNCHANGED <<brokerVars, rows, events, faults>>

\* One broker after the other; a rejection ends in Koa's 500.
BeaconAsks(r) ==
    /\ Asks(r)
    /\ \E outcome \in publishMessage(Beacon(Asked(r)), Asked(r)) :
          req' = [req EXCEPT ![r].asked = Append(@, outcome),
                    ![r].stage = IF outcome = "rejected" THEN "answered" ELSE @,
                    ![r].code = IF outcome = "rejected" THEN 500 ELSE @]
    /\ UNCHANGED <<brokerVars, rows, events, faults>>

BeaconReturns(r) ==
    /\ At(r, "beacon", "beacon")
    /\ ~ Asks(r)
    /\ Answers(r, IF Order = <<>> THEN 500 ELSE 200)
    /\ UNCHANGED <<brokerVars, rows, events, faults>>

\* MQTT takes a beacon when it confirms it, which is never while the client is
\* not connected.
AwaitsMqtt(r) == Asks(r) /\ Asked(r) = "MQTT" /\ client["MQTT"] # "none"

-----------------------------------------------------------------------------

Handler(r) ==
    \/ Validated(r) \/ SaveReturns(r) \/ EnvironmentValidated(r) \/ Refetched(r)
    \/ DeleteFetched(r) \/ DeleteListed(r) \/ DeleteReturns(r)
    \/ CreateFetched(r) \/ NameFetched(r) \/ CreateReturns(r)
    \/ EventNodeRuns(r) \/ RunReturns(r) \/ RunRejects(r)
    \/ BeaconAsks(r) \/ BeaconReturns(r)

BrokerStep ==
    /\ ConnectStep \/ ChannelClosed
    /\ UNCHANGED <<rows, events, req, faults>>

Next ==
    \/ \E r \in Requests :
          \/ \E op \in Operations, name \in Names, id \in Ids, odd \in BOOLEAN :
                Receive(r, op, name, id, odd)
          \/ Handler(r) \/ ReadFails(r)
    \/ BrokerStep

Spec == Init /\ [][Next]_vars

\* Every read and every call of the engine settles, and every call of a broker
\* but that of MQTT.
FairSpec == Spec /\ \A r \in Requests : WF_vars(~ AwaitsMqtt(r) /\ Handler(r))

-----------------------------------------------------------------------------
(* Properties *)

\* No process is left without its workflow, whatever is created between the
\* list deleteWorkflow reads and the deletion (workflow.js:162-171).
NoOrphans ==
    \A i \in DOMAIN rows : rows[i].deleted => rows[i].processes = 0

\* A delete is refused for a reason (a process, or no such workflow any more;
\* a call that fails may be any), and two deletes never report the same
\* deletion (workflow.js:154-181).
DeletesAreExact ==
    \A r \in Requests : req[r].op = "delete" =>
        /\ req[r].code = 204 => req[r].made # 0
        /\ req[r].made # 0 =>
              /\ rows[req[r].made].deleted /\ rows[req[r].made].id = req[r].id
              /\ \A s \in Requests \ {r} :
                    ~ (req[s].op = "delete" /\ req[s].made = req[r].made)
        /\ req[r].code = 404 /\ req[r].row # 0 => rows[req[r].row].deleted
        /\ req[r].code = 422 \/ (req[r].code = 500 /\ faults = 0)
              => Referenced(req[r].id) # {}

\* A save announces its workflow once when it is told that it was saved, and
\* never when it is told that it failed; it announces the workflow of another
\* save only when its own was deleted and the id saved again in between
\* (workflow.js:46-68).
AnnouncedOnce ==
    \A r \in Requests : req[r].op = "save" =>
        LET sent == {k \in DOMAIN events : events[k].of = "saved" /\ events[k].by = r}
        IN  /\ \A j, k \in sent : j = k
            /\ req[r].code = 201 => sent # {}
            /\ req[r].code \in {400, 500} => sent = {}
            /\ \A k \in sent :
                  \/ events[k].row = req[r].made
                  \/ /\ rows[req[r].made].deleted
                     /\ events[k].row > req[r].made
                     /\ rows[events[k].row].id = rows[req[r].made].id

\* A save that is told as failed has left a workflow behind only because an
\* extract was no text, which is found after it is saved, or because a read or
\* an answer failed; one that vanished before it was fetched was deleted.  An
\* error the engine answers with is a save that did nothing.
FailedSavesLeaveNothing ==
    \A r \in Requests : At(r, "save", "answered") /\ req[r].made # 0 =>
        /\ req[r].code # 400
        /\ req[r].code = 500 =>
              req[r].odd \/ faults > 0 \/ rows[req[r].made].deleted

\* The version a 201 reports was read before the process was created: it is
\* that of the process's workflow unless a newer one was saved, or the one
\* that was read deleted, in between; by id it takes both, and the same id
\* (workflow.js:214-312).
ReportedVersionIsKnown ==
    \A r \in Requests :
        req[r].op \in {"create", "createByName", "start"} /\ req[r].code = 201 =>
            \/ req[r].made = req[r].row
            \/ req[r].op # "create" /\ req[r].made > req[r].seen
            \/ /\ rows[req[r].row].deleted
               /\ req[r].op = "create" =>
                     /\ req[r].made > req[r].seen
                     /\ rows[req[r].made].id = rows[req[r].row].id

\* A beacon that is told as emitted was awaited at every broker that has a
\* variable, and none of them rejected it, though a broker that is not enabled
\* or has no client took nothing and RabbitMQ took a message without content;
\* one that fails was rejected by the last broker asked, which the brokers
\* before it do not learn of (connection.js:19-50).
BeaconTellsWhoWasAsked ==
    \A r \in Requests : req[r].op = "beacon" =>
        LET asked == req[r].asked
            Has(outcome) == \E i \in DOMAIN asked : asked[i] = outcome
        IN  /\ req[r].code = 200 => Len(asked) = Cardinality(Named) /\ ~ Has("rejected")
            /\ req[r].code = 500 =>
                  Named = {} \/ (Has("rejected") /\ asked[Len(asked)] = "rejected")
            /\ \A i \in DOMAIN asked :
                  /\ asked[i] = "rejected" => Order[i] # "MQTT" /\ i = Len(asked)
                  /\ asked[i] = "blank" => Order[i] = "AMQP"
                  /\ asked[i] = "ignored" <=> Order[i] \notin Enabled

\* Every request is answered unless the server stops under it, or MQTT never
\* confirms its beacon.
RequestsAnswered ==
    \A r \in Requests :
        req[r].stage \in Serving ~>
            req[r].code # 0 \/ req[r].stage = "cut" \/ AwaitsMqtt(r)

\* The registry of workflows that clients see; beacons do not concern it.
Concerns(r) == req[r].op # "beacon" /\ req[r].stage # "idle"

AsksFor(r) ==
    IF Concerns(r) THEN [op |-> req[r].op, name |-> req[r].name, id |-> req[r].id]
    ELSE [op |-> "none"]

Done(op) == CASE op = "save" -> "saved" [] op = "delete" -> "deleted" [] OTHER -> "made"

Did(r) ==
    IF req[r].made = 0 THEN [what |-> "nothing", row |-> 0]
    ELSE [what |-> Done(req[r].op), row |-> req[r].made]

ReplyTo(r) == IF Concerns(r) THEN req[r].code ELSE 0

Lost(r) == Concerns(r) /\ req[r].stage = "cut" /\ req[r].code = 0

Announced == {<<events[k].by, events[k].row>> :
                 k \in {k \in DOMAIN events : events[k].of = "saved"}}

Registry == INSTANCE WorkflowRegistry WITH
    registry <- rows,
    asked <- [r \in Requests |-> AsksFor(r)],
    did <- [r \in Requests |-> Did(r)],
    reply <- [r \in Requests |-> ReplyTo(r)],
    lost <- {r \in Requests : Lost(r)},
    announced <- Announced

\* However the reads and calls of the handlers come between each other, each
\* request does what it is told to have done at one moment, once, to a
\* workflow that is there, or nothing, and is told as failed after it did
\* something only when an answer was lost or a saved workflow could not be read
\* again (workflow.js:20-68, 154-190, 214-312).
RegistryImplemented == Registry!RegistrySpec
=============================================================================
