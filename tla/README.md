# TLA+ models of FlowBuild's workflow-api

The workflow-api is a Koa server around two libraries, the workflow engine
(`@flowbuild/engine`) and the process tree (`@flowbuild/process-tree`). Its own
logic is in what it does between the awaits. It reads a process or a workflow,
tests what it read and asks the engine to change it; it reacts to what the
engine writes by writing a table and publishing events; and it connects three
message brokers while all of that goes on.

One Node.js process runs every handler and callback on one thread, so code
between two awaits is one atomic step of the models. Every await is a point
where another handler, the engine, the database or a broker may act. A promise
that nobody awaits or catches is the other source of trouble. Under Node 18 (the
`FROM` of `Dockerfile`) its rejection stops the process unless something in the
process listens for `unhandledRejection`; whether the engine library does is not
known from this repository, so the models allow both.

Paths below are relative to `src/src` unless they say otherwise.

## Inventory

| Component | State | Operations | Interacts with | What is hard |
|---|---|---|---|---|
| Broker clients, `services/broker/*` | one module variable per broker, progress of `connect()` | `connect`, `publishMessage` | started by `app.js`, called by every notifier | connecting while publishing, failures that are swallowed, a payload of which each broker reads another part |
| Process state listener, `utils/engineListener.js:9-45` | table `process_tree`, listeners that await it | listener of a first state, of a later state | called back by the engine, writes the tree, publishes | parent and child listeners race, first events come late, failures skip the publication |
| Activity manager listener, `utils/engineListener.js:47-82` | none | listener of a change | called back by the engine, publishes to up to three topics | telling a creation from any other change |
| Process handlers, `controllers/process.js`, `controllers/cockpit/process.js` | the requests being served | run, abort, continue, fetch, states by parameters, set, transfer, resume, expire | engine and cockpit libraries | stale reads, un-awaited calls |
| Workflow handlers, `controllers/workflow.js`, `utils/publishWorkflow.js` | the requests being served; tables `workflow`, `process` | save, delete, create, create by name, create and run | engine library, brokers | deletions against creations, versions read and looked up again, un-awaited runs and events |
| Event nodes and beacon, `engineListener.js:84-112`, `controllers/connection.js` | none | publish | brokers | sequential awaits of several brokers, one of which may never confirm |
| Activity handlers, `controllers/activity.js`, `controllers/cockpit/activityManager.js` | the requests being served | commit, push, commit and submit by id, expire | engine library | the manager committed to is chosen after another was read |
| Environment variables, `controllers/cockpit/environmentVariable.js` | table `environment_variable`, the server's environment | save, get, delete, list | cockpit library | check, await, act |
| Blueprint validation and comparison, `validators/*`, `services/compareBlueprints.js` | none | schema, connections, nodes, comparison | before and in the workflow handlers | what each validator leaves to the next, defaults, cases of letters, sorting |
| Samples and seeds, `samples/*`, `db/seeds/*` | rows of `workflow` the seeds write | | the database, past the validators | stored blueprints that could not be saved again |
| Custom nodes, `nodes/*` | none | `deepCompare`, `remapData`, `filterData`, `createIndex`, `findProcess`, `kafkaPublish` | run by the engine with the parameters it prepared | partial matches, nested data, failures that do not show |
| Remote-call nodes, `nodes/*` | none | gRPC, GraphQL, basic authentication, tokens, ids, schemas | other servers | which of two calls failed |
| Reads, `controllers/state.js`, `controllers/package.js`, `controllers/cockpit/*` | none | queries that take several awaits | database | replies put together from several moments |
| Health check, `controllers/healthcheck.js` | none | two counts of timers | engine library | judged at one moment, told of another |
| Request validation, authentication, middlewares, logging, routers, start-up, schema of the database | configuration | | | order of start-up, constraints |

What makes each of them correct:

- *Brokers*: a failed broker does not keep the others from being contacted; the
  procedure ends; a message is sent, dropped or rejected, and never silently
  anything else. A beacon's reply says whom it reached.
- *State listener*: the tree is a forest whatever order the listeners run in;
  events of a process come at most once and in order, except the first; what is
  missing, late or lost can be named.
- *Handlers of processes, workflows, managers and variables*: a check that was
  made is only ever overtaken, never absent; replies report something that was
  true while the request was served; a failure of one request does not hurt
  another; every request is answered.
- *Activity listener*: a manager's creation is announced once per topic, to
  everyone its input names or to nobody.
- *Blueprints*: what is saved is closed (every node leads to nodes and lanes of
  the blueprint), although no validator asks for it alone; comparisons tell exactly
  what is so.
- *Custom nodes*: no item is lost or told twice; a failure shows in the state of
  the process; a node that would run can be saved.
- *Reads*: a reply is what one moment entitled to, or its parts are, and a 500
  means that a read failed, or what one makes of the data.

`PROJECT.json` lists the hazards behind these at their lines, with the
properties that cover each, or the reason why none does.

## Modules

| Module | Models | Extends |
|---|---|---|
| `Broker` | `services/broker/*` | |
| `StateFeed` | what the state topics promise: an abstract specification | |
| `ProcessStateListener` | `processStateListener`, `app.js:43-45`, the table `process_tree` | `Broker` |
| `ProcessControl` | the handlers that act on one process | |
| `WorkflowControl` | the handlers that save, delete and instantiate workflows, `publishWorkflow`, event nodes, the beacon | `Broker` |
| `WorkflowRegistry` | what the routes of workflows promise: an abstract specification | |
| `ActivityControl` | the handlers of activity managers and `activityManagerListener` | `Broker` |
| `EnvironmentVariables` | save, get and delete of a variable | |
| `VariableStore` | what the routes of variables promise: an abstract specification | |
| `Reads` | the handlers that only read and take several awaits, and the health check | |
| `JsonSchema` | JSON values, and what the keywords the schemas use accept | |
| `BlueprintSchemas`, `SampleBlueprints` | `validators/schemas/*`; `samples/*` and `db/seeds/blueprints/*` | `JsonSchema` |
| `Blueprints` | `validators/workflow.js`, `services/compareBlueprints.js`, the failures after a save | the two above |
| `NodeSchemas` | the two schemas of each node | `JsonSchema` |
| `NodeData` | what `deepCompare`, `remapData` and `filterData` compute | `NodeSchemas` |
| `CustomNodes` | one run of a custom node | `NodeData` |
| `MC*` | constants, functions, inputs and symmetry sets for TLC | the module named |
| `ProcessStateListenerProofs`, `ProcessControlProofs`, `WorkflowControlProofs`, `ActivityControlProofs`, `EnvironmentVariablesProofs`, `ReadsProofs`, `CustomNodesProofs`, `BlueprintsProofs` | theorems and proofs | the module named, `TLAPS` |

A definition named `... Mutant of X` in a comment is a plausible wrong version of
`X`, placed before it. Nothing refers to it; it exists to show that the property
it is meant to break is able to fail.

No module has a `RECURSIVE` operator, so that all of them can be proved about.
Where the code follows nested data, the modules of data do it in one of three ways.
A schema is evaluated by levels, `Valid0` to `Valid`, as deep as the schemas here are
nested (`SchemasAreSixDeep` of the MC modules has TLC count them). A partial match or a
pick of lodash looks as deep as the items are, objects of objects. And `remapData`,
which calls itself for each object or list in a dictionary, is a recursive function on
the domain of `Depth`: the dictionaries that are given, those inside them, and how deep
each is. `Within` follows a path through objects, lists and texts, as JavaScript's
`value[key]` does: `Fields` are the entries of any value by their keys, `Index` the keys
of a list, `Letters` the characters of the texts that have several. A name with dots is
a path unless the item has a key of that name (`PathTo`). Lists are made by
comprehension: `Chosen` is the items at some places, in their order.

### Broker

`at` is the await of `connect()` that is pending. Its values follow the code:
`broker/index.js:6-16` calls MQTT, RabbitMQ and Kafka in turn, `rabbitMQ.js:7-17`
awaits a connection, a queue and a channel and sets `channel` only after the
third, `kafka.js:14-28` stores its producer before it awaits the connection.
`client` is what each module variable holds: nothing, a client that is not
connected, or one that is. `publishMessage` is a function from the payload's
shape (has it a `topic`; is its `context` an activity manager, a
`{topic, message}` record or missing) to the set of outcomes it may have. MQTT reads `topic` and
`message`, AMQP and Kafka read `context` only, so `"blank"` is the outcome of a
payload that has nothing where its broker looks. Kafka destructures the context
before it tests anything (`kafka.js:30`), hence `"rejected"`. The MQTT client
queues while it is offline, so once it exists a message counts as taken. A Kafka
producer that is connected may still fail to send.

Outside: MQTT's own reconnection, and the content of messages.

### ProcessStateListener and StateFeed

State: `parent` and `steps` belong to the engine, `tree` to the database,
`listener` and `fate` to the server, `feed` to the subscribers. `CreateProcess`
is the call for step number 1 up to its await (`engineListener.js:11-21`),
`TreeWritten` and `TreeRefused` the database, `ListenerResumes` the rest of the
listener, `ListenerThrows` what a rejection does to it: nothing after the await
runs. `CreateState` is the call for any later state, without an await.
`DatabaseFault` fails the statement before or after it has taken effect; `Crash`
stops the server at any await, and lets the database still execute what it was
asked. `root_id NOT NULL` in `src/db/migrations/20230302215201_process_tree.js`
is why a child cannot be stored before its parent (`Storable`). `overtook` is history:
the children whose statement was refused while that of their parent was still on its
way (`Overtakes`). A publication that is rejected is awaited by nobody and may stop the
server; `Crash` is possible after it, as at any moment.

`EngineAwaits` is a parameter because this repository does not say whether the
engine awaits its notifier; the properties are stated for both.

`StateFeed` promises the following of one process: its events come at most
once and in step order, except that the first is held back and may come late or
never; if the engine waits, no later state exists while it is held.
`FeedImplemented` maps `created` to `steps`, `held` to the processes whose
listener is in flight, and `Ordered` to `EngineAwaits`. A listener that throws and
one that publishes are the same abstract step, `Release`.

### ProcessControl

`history` holds the states of each process, with the operation that wrote each
and the number of the state its handler had tested (`by`, `seen`: history that
only the properties read). `req` holds each request's operation, how far its
handler is and what it replied. One action per await: `RunFetched` is
`runProcess` from its read to its call of the engine, `RunReturns` the rest, and
so on for each handler. The engine may refuse any call or carry it out, and one it has
carried out may still be rejected or answered with nothing: nothing here says which. `EngineMoves` is its own progress, timers and activities.
`resuming` is the stage of a request that has been answered but whose call still
runs (`cockpit/process.js:104`, without `await`). What stops the server is a resume that
is rejected; what the listeners publish can as well, and is part of
`ProcessStateListener`. `fetchStateByParameters` is that of
`controllers/state.js:149-200`, the one the routes use; `controllers/process.js`
exports another that no route reaches.

### WorkflowControl and WorkflowRegistry

`rows` is the table `workflow` with a count of referring processes, `events` the
calls of `publishMessage`. A workflow's id is the `workflow_id` of the body of the save
(`workflow.js:31`), one the client makes up (`OwnIds`) or the id of an earlier workflow,
or, without one, an id nobody has had. The primary key keeps two workflows of one id
from being there at once (`Live`), but an id can be saved again after a deletion, also
between two awaits of another request, which then acts on another workflow than it read.
A `Fault` is a read that fails, or an answer that is lost of a call that was carried
out.

`saveWorkflow` is `Validated` (its body was checked), `SaveReturns` (stored, refused or
rejected, or stored and rejected), `EnvironmentValidated` (the error of the save is
looked at after the warnings, which throw if an extract is no text: `odd`) and
`Refetched`: the workflow of the id is fetched again, `OfSavedId`, its event goes out,
and 201; if it is gone `publishWorkflow` throws (`Vanished`). `deleteWorkflow` is
`DeleteFetched`, `DeleteListed`, `DeleteReturns`; the foreign key of
`process.workflow_id` is `Unreferenced`. `NameFetched` reads the latest version of a
name, and `CreateReturns` lets the engine look it up again. `Unhandled` is a rejection
nobody listens to: it may stop the server and cut every request that is being served.
The rejections of events the engine's listeners publish, which may stop it too, are
not in this module. The verdict of the validators is a choice here; `Blueprints` says
what it is.

The beacon is `BeaconAsks`, one broker after the other in `Order`, and
`BeaconReturns`. `Named` are the brokers whose variable is set to any text, which
is what `connection.js:19-46` tests, while `connect()` wants `true` (`Enabled`).
MQTT's publish with QoS 1 settles when the broker confirms it; `AwaitsMqtt` is
that wait. `EventNodeRuns` is `eventNodeNotifier` for a process that
`createAndRunProcessByName` started: its un-awaited run goes on after the 201,
through `background` and `notified`. Its broker is Kafka when
`WORKFLOW_EVENTS_BROKER` is not set, where `publishWorkflow` is silent then.

`WorkflowRegistry` is the same without awaits. A request asks (`Ask`), does one
thing at one moment (`Save`, `Delete`, `Instantiate`) or nothing, and is answered,
refused or, when the server stops, lost. A workflow is saved only under an id no other
has, and its version is the one after the latest of the name at the moment the row is
added; a workflow is deleted while it is there and has no process; a process is made
of a workflow that is there, of the latest if it is asked for by name; a save announces
at most once, its own workflow or one saved later under the same id, while that is
there. `RegistryImplemented` maps `registry` to `rows`, `asked` to what came with a
request, `did` to the row it made, marked or referred to, `reply` to its code, `lost` to
those that are cut before they had an answer, `announced` to the events of saves and
`faults` to itself. What is read between the awaits (`seen`, `row` of a creation by name)
is in none of them, which is the point: it must not matter. The steps that only read,
the events of nodes and the beacon are stutters. What is promised is as weak as the code
makes it: a failure that is told may be of something that was done, but only by a fault
(`Tells`), apart from a save, which is told 500 also when its workflow cannot be fetched
again or an extract is no text; a creation may be refused with any reason; and who is
lost may have done what it asked. A deletion is refused without a fault only for a
process, or because no workflow has the id.

### ActivityControl

`manager` has each activity manager's status and number of activities;
`announced` what the listener handed to `publishMessage`. `Writes` is a change of
a manager by the engine together with the listener's synchronous run; with each message
goes what came of it and what it told of the manager, so that `Creation` is the
messages of a manager's creation. The engine may change a manager and still answer with
an error or with nothing (`CommitReturns`, `PushReturns`, `SubmitReturns`). A commit by
process id lets the engine pick any started manager of the process (`Started`),
and `commitByActivityManagerId` keeps only the process of what it read
(`activity.js:219-227`). `ExpireFetched` answers 200 while the engine still works
(`cockpit/activityManager.js:34`); what becomes of a manager that was completed in
between is up to the engine.

### EnvironmentVariables and VariableStore

`table` keeps all values a row has had, oldest first, with the request that wrote
each; `NoValue` means no row. `Environ` is the server's own environment, which a
read falls back on. Reads and writes are separate steps, so every check may be
stale. `key` is the primary key: a second creation is rejected and answered 500. Any
call may fail before or after it took effect (`Fails`, `TakesEffect`), and is told 500
either way.

`VariableStore` has one moment for each request, between its arrival and its
answer: a save stores its value there, a deletion removes the variable, a read is
told what was there, or what the server's environment had. `StoreImplemented` maps
`store` to the last value of each row, `asked` to the request until it is answered
and `since` to what each key has been since the request came. The exceptions it names
are those of the code: a save that a deletion overtakes is told 200 and has changed
nothing, a deletion that another overtakes is told 204, a save that finds its key
taken is refused with 500, and a variable that only the environment has is not
removed by a deletion that is told 204. Who is told that a call failed does not know
whether the request was served (`Fail`).

### Blueprints, BlueprintSchemas, SampleBlueprints

A run takes one body along its route: `CheckSchema` (what every route has), then
for `POST /workflows` `CheckConnections`, `CheckNodes` and `Save`, for the
cockpit's routes `ValidateBlueprint` or `Compare`. `at` is the next step and
`reply` what the client is told. Values are records tagged with their JSON type
(`JsonSchema`), so that a schema, `typeof` or `Object.values` sees in a value what
the code sees. Texts are values; what the code asks of them is a constant given
by the instance: lower case, characters, order (`Rank`). Whether the engine, a library,
takes a blueprint remains its choice. After the save come calls any of which may be
rejected (`validators/workflow.js:173`, `workflow.js:46-71`); here they are one choice,
in `WorkflowControl` each is a step. `ExtractsAreTexts` is what `validateNodesExtract`
needs not to throw.
`Ordered` is the sort of `compareBlueprints.js:12`, whose comparison never says
greater: with ids that differ it still sorts, with ids that occur twice the order
of the request stays. `SampleBlueprints` has the blueprints of the samples, tests
and seeds, reduced to what validators look at.

### CustomNodes, NodeData, NodeSchemas

One run of a node: its own check of the prepared parameters (`executionSchema`
where the node has one), its computation (`NodeData`) and the calls it makes, one
`at` per await, each of which may fail. `tokenize` replaces any falsy session, actor or
claims and may throw when it signs (`Tokenized`); `graphQl` without a request throws
before it calls. `outcome` is what the engine gets: a
status, a result or a throw. `order` is the order of the keys of an object, which
`filterData` depends on and JSON does not fix. The partial matches of lodash
are `Matches`, and what becomes of one item of `base` is `ListOf`. `NodeSchemas` has both schemas of each node, that of a blueprint's
spec and that of the prepared parameters, because they are written apart.

### Reads

`past` is the list of states the database has been in since the request came, the
present one last: a history for the properties and the world at once. The actions
of `Database` are what the engine, the listeners, other handlers and the timers
do between two awaits of a reader. Readers change nothing, so one request at a
time shows everything. Reads that are made at once (`Promise.all` over the tree's
processes) are answered in any order. The spec and the execution of a state are made out
of the node of its blueprint, which can throw for a node the engine does not know, for
one without parameters or for input its preprocessing rejects (`Computed`).

## Runs

Deadlock is not checked in any run: requests are served a bounded number of times
and a process makes a bounded number of states, after which the system rightly
has nothing more to do.

| Run | Question | Bounds |
|---|---|---|
| `feed_unawaited` | How far can events get out of order, which are lost, is the tree a forest, if the engine does not wait? | three processes (parent, child, grandchild), three states, one failure or crash, MQTT |
| `feed_settled` | And if it does wait? The feed implements `StateFeed` in order; do listeners and `connect()` settle? | two processes, three states, one failure or crash, RabbitMQ and Kafka, `FairSpec` |
| `control` | What do the checks of the process handlers still guarantee, is every request answered? | two requests of any kind, two processes with different blueprints, four states, `FairSpec` |
| `workflow` | Do deletions and creations exclude each other, do failed saves leave nothing, are events told right, does each request act at one moment (`WorkflowRegistry`)? | three requests, two rows of one name, one id of a client, one process each, one failed read or lost answer, Kafka |
| `workflow_beacon` | Is a beacon told as emitted only when every broker was asked, is every request answered? | two requests, one row, one failed read or lost answer, all three brokers, `FairSpec` |
| `activity_race` | Are commits confined, and creations announced once, to all or to nobody? | two requests, two processes with a manager each, one crash, MQTT |
| `environment_race` | Are saves, reads and deletions of variables consistent, as if each were served at one moment (`VariableStore`)? | three requests, two keys, two values, three changes of a row, one call that fails before or after it took effect |
| `custom_nodes` | What do the custom nodes make of every small input, and of failing calls? | lists of up to two items, all parameters of `MCCustomNodes` |
| `blueprints` | What do the validators and the comparison make of a blueprint? | the repository's own and some 700 made from small parts |
| `reads` | Which replies are put together from several moments, which failures are not those of a read? | a parent and its child, four states, one timer, two changes under a request |
| `control_resume` | *violated*: a resume that fails is answered 400 | |
| `activity_commit` | *violated*: a commit by manager id reaches that manager | |

The bounds are the smallest at which the races happen. A grandchild needs a parent
that is itself late (three processes); with three states two later events could change
places, if any could. A stale check of a process needs the
checking request and one that overtakes it; the engine is a third actor. In
`workflow` the third request is what deletes while the second saves and the first
waits between its two reads; two rows are two versions, or a version and one
saved after it was deleted, under the same id or another. The beacon asks one broker
after the other and needs all three, a second request and no more workflows than one.
A reader of `Reads` has at most three awaits in a row, so two
gaps, and two changes can be one in each or both in one. One failure at
every possible moment covers what a single failure can do; two failures do not
meet, because no step retries. An item list of two is where one item meets
another; a third meets them in pairs. Counters with a bound: states of a process
(`MaxSteps`, `MaxStates`), workflows and processes (`MaxRows`, `MaxProcesses`),
activities (`MaxCommits`), timers (`MaxTimers`), changes of a row or of the
database (`MaxChanges`), failures (`MaxFaults`), the set `Requests` and the inputs
`Bodies`, `Current`, `Inputs`. Bounds of the data: no names with brackets in them, nor
any that every object of JavaScript has; lists as long as `Index`; items that are
compared are objects of values or of objects of values, without lists (`IsShallow`), and
no key of a list is in a name with dots (`PathsAreKeys`), of which `_.pick` would make a
list; both are in `ItemsAssumption`. `MaxReadyTimers` is no bound but a setting of the
server.

Symmetry is used for processes or requests, in runs without liveness only.
No run checks a type invariant: the six of the project are proved, for every value of the
constants (see the theorems below).

### What the passing runs show

- Only the event of a first state can be out of order (`OnlyFirstIsLate`), a
  published first event finds its process in the tree (`FirstEventIsInTree`),
  each event has exactly one fate, and an MQTT server drops none for want of a
  client, because the notifiers are registered after `connect()` has set it
  (`EventsAccounted`). The tree is a forest (`TreeIsForest`), and without failures
  only a child whose statement came to the database before its parent's, or whose
  parent is missing in turn, is missing from it (`MissingOnlyByOvertaking`).
- Every listener settles (`ListenersSettle`). `connect()` comes to its end
  whatever the brokers answer, and Kafka is contacted when RabbitMQ fails
  (`ConnectionSettles`).
- The checks of run, abort, expire and resume are stale at worst
  (`OverwritesAreRaces`); statuses and 404s in replies were true while the
  request was served (`RepliesAreCurrent`); a process is never pending at a node it does
  not have (`PendingNodeIsKnown`); every request is answered unless the server
  stops under it (`RequestsAnswered`).
- No process is left without its workflow (`NoOrphans`), deletions report exactly
  what they did, and two never the same one (`DeletesAreExact`). A save that failed has
  left no workflow, unless a call failed, its extracts could not be read, or the
  workflow was deleted before the save had read it again (`FailedSavesLeaveNothing`).
  Every save that is told as made announces once, and its own workflow or one saved
  under the same id since it was deleted (`AnnouncedOnce`). The version reported by a
  creation is that of the process or was overtaken by a save or a deletion
  (`ReportedVersionIsKnown`). To a client, each of these requests does one thing at one
  moment to a workflow that is there then, or nothing, and a success is what it did
  (`RegistryImplemented`).
- A beacon told as emitted was awaited at every broker with a variable and
  rejected by none, though brokers that are not connected took nothing; the one
  that rejects hides those before it, which took it (`BeaconTellsWhoWasAsked`). A beacon
  may wait for MQTT for ever, every other request is answered (`RequestsAnswered`).
- A commit by id stays in the process (`CommitStaysInProcess`). A manager's creation is
  announced once per topic, to all it names; over MQTT the messages have their content
  and all go out, or none does, for want of a client; with
  `ACTIVITY_MANAGER_SEND_ONLY_ON_CREATION` nothing else is announced (`CreationTold`).
- What a save or a deletion of a variable reports is what it did to the row, up to
  a deletion that overtakes an update and to calls that failed, which may have stored
  their value once (`WritesTakeEffect`). All requests for a variable can be put in one
  order in which each is served wholly, up to the exceptions of `VariableStore`
  (`StoreImplemented`).
- `deepCompare` tells of every item of the base once, and is refused only for a
  conflict inside one list (`ComparePartition`); `remapData` succeeds exactly when
  every name is there, and throws on a null (`RemapAccounted`); `filterData` puts every item
  in the list of the first class it fits, and throws only when an item gets as far as a
  class that is none (`FilterPartition`); a failure ends in an exception, an error state
  or a status that says so, and such a status is told of failures only, but for
  `kafkaPublish` without a client (`FailuresShow`); and that what a node runs can be saved (`RunnableIsSavable`).
- What is saved is closed (`AcceptedIsClosed`), the repository's own blueprints are
  judged as their names say, with two exceptions named below (`SamplesAreJudged`),
  and the comparison tells exactly the parts that differ
  up to order, when ids occur once (`ComparisonIsExact`).
- A reply that combines two reads may be of no single moment in three handlers
  only, `fetchActivity`, `getProcessTree` and the health check
  (`RepliesAreOfOneMoment`); each of its parts was true (`PartsWereTrue`); and a
  500 without a failed read is the spec or the execution of a state that exists, whose
  node the engine could not be made to compute, or the tree of a process that had no
  row in it (`FailuresAreExplained`).

### What the violated runs show

- `control_resume`: `runPendingProcess` is not awaited, so its failure is
  answered 202 and its rejection is unhandled; the 400 the API description
  documents is never sent for it.
- `activity_commit`: `commitByActivityManagerId` commits by process id; another
  started manager of the process can get the activity.

The models also show things that have no run of their own:

- Each broker reads another part of a payload (`PublishMqtt`, `PublishAmqp`,
  `PublishKafka`). `publishWorkflow` builds a topic for MQTT but puts it where the MQTT
  client does not look (`publishWorkflow.js:15`), so that with
  `WORKFLOW_EVENTS_BROKER=MQTT` every event is `"blank"` (`WorkflowPayload`). The messages
  about a manager for a session and for an actor have no `context`
  (`engineListener.js:71`, `:78`), the only thing RabbitMQ and Kafka read: with
  `ACTIVITY_MANAGER_BROKER=AMQP` they go out blank, and with Kafka they are rejected
  (`ManagerPayload`). What `CreationTold` says of outcomes is of MQTT for this reason.
- `PUBLISH_STATE_EVENTS` is tested for being set, so the string `false` publishes
  (`Announcement` of `ProcessStateListener`).
- `StatePayload` has no context, so `PROCESS_STATE_BROKER=AMQP` sends events
  without content.
- Without `ACTIVITY_MANAGER_SEND_ONLY_ON_CREATION` the `am/create` topics carry
  every change of a manager (`Skipped`).
- `TIMER_BATCH` is a text compared with the number 0, so the health check never
  tells the number of timers that are due (`ReadyCounted`).
- The comparison tells the error of a failed read as one of the blueprint
  (`Compare`), and an extract that is no text makes a 500 of a workflow that is
  already saved (`EnvironmentValidated`, `ExtractsAreTexts`).
- An id can be saved again after a deletion while the first save is still served, and
  its event is then that of the second workflow (`OfSavedId`).
- A `null` in the dictionary of `remapData` throws, although
  `remapDataNode.js:90` means to copy it (`RemapAccounted`).
- `kafkaPublish` without a client loses the message and the process goes on, and
  the node for GraphQL takes an answer of any status for a result
  (`FailuresShow`).
- The sample `invalidWrongNode` is accepted, because no type is unknown to the
  validators, and the seed `test_workflow` would be refused, because its
  `ScriptTask` has no `args` (`SamplesAreJudged`).

## Fairness

Safety needs none. `ProcessStateListener` assumes weak fairness of each
statement's answer, of each listener's continuation and of `connect()`: the
database and the brokers answer, with success or failure, and Node's event loop
runs every callback that is due. `ProcessControl` and `WorkflowControl` assume it
of each handler, for the same two reasons; but not of a beacon that waits for
MQTT to confirm, `WF_vars(~ AwaitsMqtt(r) /\ Handler(r))`, because a client that is
not connected confirms nothing and sets no limit. Nothing obliges the engine to go
on, requests to come in, a failure or a restart to happen. `ListenersSettle`,
`ConnectionSettles` and `RequestsAnswered` hold under no more than that.

## Proofs

| Theorem | States |
|---|---|
| `TypeCorrect` | `TypeOK` of `ProcessStateListener` |
| `TreeCorrect` | `TreeIsForest` |
| `MissingExplained` | `MissingOnlyByOvertaking` |
| `FeedCorrect` | `OnlyFirstIsLate` |
| `FirstEventFound` | `FirstEventIsInTree` |
| `EventsAccountedFor` | `EventsAccounted` |
| `FeedRefined` | `ProcessStateListener` implements `StateFeed` (its safety) |
| `ControlTypeCorrect` | `TypeOK` of `ProcessControl` |
| `OverwritesCorrect` | `OverwritesAreRaces` |
| `PendingCorrect` | `PendingNodeIsKnown` |
| `RepliesCorrect` | `RepliesAreCurrent` |
| `WorkflowTypeCorrect` | `TypeOK` of `WorkflowControl` |
| `NoProcessOrphaned` | `NoOrphans` |
| `DeletesReported` | `DeletesAreExact` |
| `SavesAnnounced` | `AnnouncedOnce` |
| `FailedSavesClean` | `FailedSavesLeaveNothing` |
| `VersionExplained` | `ReportedVersionIsKnown` |
| `BeaconsTold` | `BeaconTellsWhoWasAsked` |
| `RegistryRefined` | `WorkflowControl` implements `WorkflowRegistry` |
| `ActivityTypeCorrect` | `TypeOK` of `ActivityControl` |
| `CreationsAreTold` | `CreationTold` |
| `CommitsStayInProcess` | `CommitStaysInProcess` |
| `EnvironmentTypeCorrect` | `TypeOK` of `EnvironmentVariables` |
| `WritesCorrect` | `WritesTakeEffect` |
| `StoreRefined` | `EnvironmentVariables` implements `VariableStore` |
| `ReadsTypeCorrect` | `TypeOK` of `Reads` |
| `RepliesOfOneMoment` | `RepliesAreOfOneMoment` |
| `PartsTrue` | `PartsWereTrue` |
| `FailuresExplained` | `FailuresAreExplained` |
| `FailuresAlwaysShow` | `FailuresShow` of `CustomNodes` |
| `AcceptedCanBeSaved` | `RunnableIsSavable` |
| `FilterIsPartition` | `FilterPartition` |
| `CompareIsPartition` | `ComparePartition` |
| `RemapIsAccounted` | `RemapAccounted` |
| `SavedIsClosed` | `AcceptedIsClosed` of `Blueprints` |
| `ComparisonTellsChanges` | `ComparisonIsExact` |

They hold for any set of processes, managers, requests, names, keys, values and
nodes, any number of states, rows, changes and failures, any inputs of the custom
nodes, bodies and stored workflows, with either value of `EngineAwaits` and any
choice of brokers, from the assumptions `EnabledAssumption`, `ListenerAssumption`,
`ControlAssumption`, `WorkflowAssumption`, `ActivityAssumption`,
`EnvironmentAssumption` and `ReadsAssumption`, and of the data
`InputsAssumption` and `ListsAssumption` (lists are sequences and objects have
finitely many keys, as in JSON), `IndexAssumption` (the keys of a list are different),
`DictionariesAssumption` (an object or a list inside a dictionary is one itself and less
deep, no entry is undefined), `RemapAssumption`
(`Depth` covers the dictionaries that are given), `DottedAssumption`, `RankAssumption`
and `IdsAssumption` (the ids that are compared are ordered). TLC evaluates these in every run of the modules
that declare them. `ItemsAssumption` is used by no proof: it says for which items and keys `Pick`, `Omit` and
`Matches` are what lodash computes, and so of which `CompareIsPartition` speaks.

*The listener.* `TreeIsForest` is not inductive: that a row may be written needs
that its parent's row, once there, stays, and `MissingOnlyByOvertaking` needs that
a listener that is `"written"` has its row, and why one that is `"refused"` was
(`RefusedIsOvertaken`): its parent's listener was still asking, or has settled without a
row, and a row that is missing then stays missing. `TreeInv` adds how each stage of the
listener and the row of its process go together. The key lemma is
`GrowingForest`: adding rows `RowOf(p)` for processes that are `Storable` keeps a
forest, which covers both a single write and the set a crash may leave behind.
`FeedInv` adds for each event where it stands: everything in the feed is a state
that exists, a first event is in the feed only when its listener has settled, and
each state is there at most once. `AnnounceFeed` is what one publication does to
it. `MqttInv` adds that before the first event the client of an MQTT server is
set. The refinement follows from `FeedInv` with each action mapped to a step of
`StateFeed` or a stutter.

*The handlers of processes.* `ControlInv` says of each request that what its
handler has seen is no more than the history's length, that a handler waiting for
the engine tested a status its check allows at the state it saw, and
that a node to be set is a node of the target's blueprint. The histories only
grow, which `HistoryKept` states; each helper that writes `req` has a lemma of what
it keeps. The engine appends anything it is allowed to, so nothing depends on what
it refuses.

*The handlers of workflows.* `WorkflowInv` has one part for each thing the
properties relate. `RowsInv`: among the rows of a name that are left, versions go
up, which makes `Latest` the last of them; among those of an id only the last can be
left (`LiveIsLast`); and a deleted row has no processes. `EventsInv`: every announcement
has the save that sent it, of its own row or of one that replaces it (`SentBy`), and no
save has two. `PairsInv`: two deletions have different rows; with these `DeletesAreExact`
and `AnnouncedOnce` follow from what each request says of itself. `RequestInv` is, for
each request, what it has read, done and told by the await it is at: for a save
(`SaveInv`), for a deletion (`DeleteInv`), and for a creation (`CreateInv`) that what it
read was the last of its id (`LastOf`) or the latest of its name (`LatestOf`), so that
what the engine finds later is known (`Known`). Rows and events are only added to, and a
deletion only marks a row, so a request that does not move keeps its part; each action
has one lemma for the part of the request that moves. That the latest version exists,
for any number of rows, comes from the well-foundedness of `<` on `Nat`. `BeaconInv`
stands on top: what was asked are the first brokers of `Order`, whose length is that of
`Named`.

For the registry one thing is added, `RepliesInv`: who is done was told something. With
it a request is open in the registry exactly while it is served (`OpenIs`). A step of
one request changes what the registry knows of that request alone (`Views`), also when
it stops the server, which only adds to the lost (`MayStopIs`). Each action then has one
lemma saying which step it is: those that read are none (`GoesOnIsNoStep`), those that
answer without effect are refusals (`RefuseIs`), and the others are the step of their
name. `SaveReturnsIs` and `CreateReturnsIs` need that the latest version exists,
`RefetchedIs` that the workflow that is announced has the id of the one that was
saved, and `RunIs`, where a rejected run
stops the server, that its own request was answered long ago.

*The handlers of managers.* `ActivityInv` says of each manager that exists what its log
tells of its creation (`ToldOfCreation`), and of each request that whatever it has
changed belongs to the process it read. A log of messages is the creation's and then
those of later changes, none of which leaves a manager started and without activities:
a change adds no message of a creation. That over MQTT all messages of one creation have
the same outcome is `MqttAlike`: the client does not change within a call.

*Variables.* The rows keep their past and only grow. `TableInv` ties each value a
row has had to the request that wrote it and to what that request told
(`WrittenBy`), a 500 included, which then was a fault; no request wrote two.
`RequestInv` says at which moment of its row a request has read what. For the store `ServedInv` adds that it has read its row
after it came (`arrival`), so what is no longer as it was read is in `since`
(`ReadIsOld`); each action is then a step of the store, or none if it only reads.

*Reads.* That a reply fits one moment is said of a request that has ended, so
`ReadsInv` says what leads to it: of every moment, how it stands to the present
one (`Grows`: states and rows of the tree are never taken back, and a workflow
that is deleted stays deleted), and of a request between two awaits, at which
moment what it has read was so (`FirstRead`). From `Grows` comes that what a
first read has found is still there for the next. `TreeRead` is the list of
`getProcessTree` while it is filled: what it still asks for and what it was told
are together the ancestors of a process that has a row. `Ancestors` is the least
set closed under parents, which needs no induction over the depth of a tree. A
change of the database is `Moves`, a new moment that grows from the present one;
one lemma shows it for each action of the database, and one that it keeps what is
known of the moments before.

*Custom nodes.* A run takes few steps, and the work is in what a step computes.
`ComputeInv` says that a run of `deepCompare`, `remapData` or `filterData` that is done
ended with what the node computes of its data; what remains is to show of any data that
the lists so computed are those of the properties, which are stated with sets. The lemmas
between are about lists: counting the places up to each one numbers them
(`PlacesAreNumbered`), so a list chosen by places has exactly the items at those
places, once each (`ChosenItems`, `ChosenCount`), `Uniq` is a list of the set,
and the lists of the classes and of the loop over `base` share out the items
(`ToldPartition`, `LeftCount`). For items with numbers in all of the keys a match is
equality of keys (`FlatMatches`), from which the four lists are the differences of two
sets of keys (`ComparedSets`). For `filterData`, `VerdictOfClass` says what the first
alternative that decides means for a class, and `ThrowsAreStops` that the loop throws for
exactly the items the property names. `RunInv` carries for the calls that none was made
with refused parameters, and that a run that has failed shows it (`Shown`);
`ConflictShows` and `NothingShows` add the failures that are computed. That what a
node accepts can be saved is a statement about two schemas, proved keyword by
keyword and level by level.

`remapData` needs two things more. That the recursive function exists at all, so that
`Remap` equals its body (`RemapEquation`), is shown by a least counterexample:
each value depends on those of less deep dictionaries only (`CallIsLocal`), so the
functions on the dictionaries less deep than `n` agree and can be put together for
`n` (`LeastOf`, from the well-foundedness of `<` on `Nat`). The same for the paths of
`Within` and `Place` (`WalkExists`). Then `Tells` says of one call how its result, its messages and its exception
follow from the leaves of its dictionary, and `CallTells` that it does so when the calls for
the dictionaries inside do; the leaves of a dictionary are its plain entries and
the leaves of the dictionaries in it, one key longer (`LeavesAre`, `LeavesGoDown`).
`LeastOf` again makes of that a statement for every depth (`EveryCallTells`). No induction
theorem with an operator parameter is needed.

*Blueprints.* `AcceptedInv` says at each step of the route what the validators
before it have asked for, none of which another one repeats: the schema that a
node has a `next`, `validateConnections` that ids are not repeated and lanes and next
nodes exist, `validateNodes` that a Flow has a default and a Finish no next. Only
together they make a blueprint closed. For the comparison, `Ordered` puts each
item at the place that counts what comes before it: with a place for every id that
is a rearrangement (`PlacesAreTaken`, `OrderedPlaces`), and when no id is repeated
it depends on the set of items alone (`PrecedingIsAbove`, `OrderedAlike`). So equal
after sorting is equal as sets, but for repeated ids.

Only model-checked are:

- the liveness properties `RequestsAnswered`, `ListenersSettle` and
  `ConnectionSettles`, which need fairness and `ENABLED`;
- `SamplesAreJudged`, an evaluation of the validators on the blueprints there are,
  which has nothing to generalize.

## Not modelled

- The engine, the process tree library, the cockpit library, knex and PostgreSQL,
  except as the environment of the handlers. They are not in the repository.
- Single reads without a decision: lists, histories, statistics, counts, and the
  handlers of packages, which are one call of the engine each.
- `fetchStateByParameters` of `controllers/process.js:163-213`, which no route
  reaches.
- The schemas of the requests of process, state and cockpit routes. Each is applied
  once, before its handler, to a body of a few scalar fields.
- The publication of the engine's log (`utils/engineLogger.js`): one call of
  `publishMessage` per line, without state or reply.
- The warnings a save is told of: what they name. Their failures are modelled.
- In `WorkflowControl` and `ProcessControl`, that an event of the engine's listeners may
  stop the server. In `ProcessStateListener` and `ActivityControl` it may stop at any
  moment.
- Wording, formats, logging, tracing and Swagger. One thing of it matters:
  `utils/logger.js:14-19` makes winston handle rejections, which is one of the two
  outcomes the models give to a rejection nobody awaits.
- Authentication and middlewares: what they put in `ctx.state.actor_data` does not
  change the order of events in any modelled handler.
- Two servers over one database. The handlers of one server already interleave at
  every await, and nothing is kept in a server's memory between requests except
  the broker clients.

## Plan

The order is by what goes wrong most easily. Done: items 1 to 15.

1. `Broker`, `StateFeed`, `ProcessStateListener`, with the refinement and its
   proofs.
2. `ProcessControl`, with its proofs.
3. `WorkflowControl` over `Broker`.
4. `ActivityControl` over `Broker`, with its proofs.
5. `EnvironmentVariables`.
6. `WorkflowControlProofs`: every safety property of the module.
7. `EnvironmentVariablesProofs`: every safety property of the module.
8. Event nodes and the beacon, which share requests and clients with the workflow
   handlers and became part of `WorkflowControl`.
9. `Reads`: every handler that combines several reads against a database that moves
   on between them.
10. `Blueprints`: the validators and the comparison as they follow each other in a route, over the repository's blueprints and small ones.
11. `CustomNodes` and `NodeData`: the nodes over bounded data.
12. `ReadsProofs`: every property of the module.
13. `CustomNodesProofs`: every property of the module.
14. `BlueprintsProofs`: every property of the module but `SamplesAreJudged`.
15. `VariableStore` and `WorkflowRegistry`, with the refinements and their proofs.
16. Left: the schemas of the other routes over `JsonSchema`, with the question which
    values they let through that a handler then dereferences.
