------------------------ MODULE ProcessStateListener ------------------------
(***************************************************************************)
(* processStateListener of src/src/utils/engineListener.js, called by the  *)
(* engine for every state it writes.  For the first state of a process it  *)
(* awaits a write to the process tree and publishes only afterwards; for   *)
(* every later state it publishes at once.  The publication itself is      *)
(* neither awaited nor caught.                                             *)
(*                                                                         *)
(* The engine and the tree are libraries (@flowbuild/engine,               *)
(* @flowbuild/process-tree): the engine numbers the states of a process    *)
(* from 1 and creates a child from a running parent; the tree writes one   *)
(* row per process, whose root is copied from the parent's row.  Whether   *)
(* the engine waits for its notifier is a parameter.                       *)
(***************************************************************************)
EXTENDS Broker, Naturals, Sequences

CONSTANTS
    Processes,
    NoParent,
    MaxSteps,               \* bound: states of a process
    MaxFaults,              \* bound: database failures and crashes together
    PublishStateEvents,     \* the variable PUBLISH_STATE_EVENTS
    StateBroker,            \* PROCESS_STATE_BROKER, or "MQTT" when unset
    EngineAwaits            \* the engine awaits the promise of its notifier

ASSUME ListenerAssumption ==
    /\ NoParent \notin Processes
    /\ MaxSteps \in Nat \ {0}
    /\ MaxFaults \in Nat
    /\ PublishStateEvents \in {"unset", "true", "false"}
    /\ StateBroker \in Brokers
    /\ EngineAwaits \in BOOLEAN

VARIABLES
    parent,     \* the parent the engine recorded in the bag or actor data
    steps,      \* states the engine has created
    listener,   \* how far the listener of the first state is
    tree,       \* rows of the table process_tree
    fate,       \* what became of the event of each state
    feed,       \* events a client took, per process, in order
    faults,
    overtook    \* history: children whose statement came to the database
                \* while their parent's was still on its way

treeVars == <<parent, tree>>
vars == <<at, client, parent, steps, listener, tree, fate, feed, faults,
          overtook>>

NoRow == [root |-> NoParent, parent |-> NoParent, depth |-> 0]

Row == [root : Processes, parent : Processes \cup {NoParent}, depth : Nat]

\* "asked": the statement is with the database; "written", "refused": its
\* answer is on its way back; "settled": the listener has returned or thrown.
Progress == {"idle", "asked", "written", "refused", "settled"}

InFlight == {"asked", "written", "refused"}

\* "none": no such state yet; "held": the listener awaits the tree; "silent":
\* publication is off; "lost": the listener threw or died before publishing.
Fate == Outcome \cup {"none", "held", "silent", "lost"}

TypeOK ==
    /\ BrokerTypeOK
    /\ parent \in [Processes -> Processes \cup {NoParent}]
    /\ steps \in [Processes -> 0..MaxSteps]
    /\ listener \in [Processes -> Progress]
    /\ tree \in [Processes -> Row \cup {NoRow}]
    /\ fate \in [Processes -> [1..MaxSteps -> Fate]]
    /\ feed \in [Processes -> Seq(1..MaxSteps)]
    /\ faults \in 0..MaxFaults
    /\ overtook \subseteq Processes

Init ==
    /\ BrokerInit
    /\ parent = [p \in Processes |-> NoParent]
    /\ steps = [p \in Processes |-> 0]
    /\ listener = [p \in Processes |-> "idle"]
    /\ tree = [p \in Processes |-> NoRow]
    /\ fate = [p \in Processes |-> [k \in 1..MaxSteps |-> "none"]]
    /\ feed = [p \in Processes |-> <<>>]
    /\ faults = 0
    /\ overtook = {}

-----------------------------------------------------------------------------
(* Publication *)

\* {topic, message}: the payload of a state event has no context.
StatePayload == [topic |-> TRUE, context |-> "none"]

\* The variable is tested for being set, not for its value.
Announcement ==
    IF PublishStateEvents = "unset" THEN {"silent"}
    ELSE publishMessage(StatePayload, StateBroker)

\* Mutants of Announce: the event is taken for delivered whatever the broker
\* did; the listener reads the state to publish from the
\* process instead of its argument.
AnnounceBlindly(p, k) == \E outcome \in Announcement :
    /\ fate' = [fate EXCEPT ![p][k] = outcome]
    /\ feed' = [feed EXCEPT ![p] = Append(@, k)]

AnnounceLatest(p, k) == \E outcome \in Announcement :
    /\ fate' = [fate EXCEPT ![p][k] = outcome]
    /\ feed' = [feed EXCEPT ![p] = Append(@, IF k > steps[p] THEN k ELSE steps[p])]

Announce(p, k) == \E outcome \in Announcement :
    /\ fate' = [fate EXCEPT ![p][k] = outcome]
    /\ feed' = IF outcome \in {"sent", "blank"}
               THEN [feed EXCEPT ![p] = Append(@, k)]
               ELSE feed

-----------------------------------------------------------------------------
(* The listener and the engine that calls it *)

\* Mutant of EngineFree: the engine's await is lost.
EngineNeverWaits(p) == TRUE

\* An engine that awaits its notifier does nothing more for the process until
\* the listener has settled.
EngineFree(p) == EngineAwaits => listener[p] \notin InFlight

\* startServer registers the notifiers after it has called broker.connect().
Notifying == at # "boot"

\* The first state of p: the listener runs up to its await.  q is the process
\* that starts p, or NoParent for a request.
CreateProcess(p, q) ==
    /\ Notifying
    /\ steps[p] = 0
    /\ q # NoParent => q # p /\ steps[q] > 0 /\ EngineFree(q)
    /\ steps' = [steps EXCEPT ![p] = 1]
    /\ parent' = [parent EXCEPT ![p] = q]
    /\ listener' = [listener EXCEPT ![p] = "asked"]
    /\ fate' = [fate EXCEPT ![p][1] = "held"]
    /\ UNCHANGED <<brokerVars, tree, feed, faults, overtook>>

\* Any later state: published before the listener returns.
CreateState(p) ==
    /\ Notifying
    /\ steps[p] \in 1..(MaxSteps - 1)
    /\ EngineFree(p)
    /\ steps' = [steps EXCEPT ![p] = @ + 1]
    /\ Announce(p, steps[p] + 1)
    /\ UNCHANGED <<brokerVars, treeVars, listener, faults, overtook>>

\* createTree, or appendChild: the child's row is made from the parent's.
RowOf(p) ==
    IF parent[p] = NoParent
    THEN [root |-> p, parent |-> NoParent, depth |-> 0]
    ELSE [root |-> tree[parent[p]].root,
          parent |-> parent[p],
          depth |-> tree[parent[p]].depth + 1]

\* Mutants of Storable: the table takes a child without its parent's row;
\* appendChild is called for processes without a parent too.
StorableAlways(p) == TRUE

StorableAsChild(p) ==
    IF parent[p] = NoParent THEN FALSE ELSE tree[parent[p]] # NoRow

\* root_id is NOT NULL: a child cannot be stored before its parent.
Storable(p) == parent[p] # NoParent => tree[parent[p]] # NoRow

TreeWritten(p) ==
    /\ listener[p] = "asked"
    /\ Storable(p)
    /\ tree' = [tree EXCEPT ![p] = RowOf(p)]
    /\ listener' = [listener EXCEPT ![p] = "written"]
    /\ UNCHANGED <<brokerVars, parent, steps, fate, feed, faults, overtook>>

\* Mutant of TreeRefused: the statement is sent again until it succeeds.
TreeRefusedRetried(p) ==
    /\ listener[p] = "asked"
    /\ ~ Storable(p)
    /\ UNCHANGED vars

Overtakes(p) == parent[p] # NoParent /\ listener[parent[p]] = "asked"

TreeRefused(p) ==
    /\ listener[p] = "asked"
    /\ ~ Storable(p)
    /\ listener' = [listener EXCEPT ![p] = "refused"]
    /\ overtook' = IF Overtakes(p) THEN overtook \cup {p} ELSE overtook
    /\ UNCHANGED <<brokerVars, treeVars, steps, fate, feed, faults>>

\* The database fails the statement, or its answer is lost after the row was
\* written.
DatabaseFault(p) ==
    /\ faults < MaxFaults
    /\ listener[p] \in {"asked", "written"}
    /\ listener' = [listener EXCEPT ![p] = "refused"]
    /\ faults' = faults + 1
    /\ UNCHANGED <<brokerVars, treeVars, steps, fate, feed, overtook>>

\* The await returns: the listener goes on and publishes.
ListenerResumes(p) ==
    /\ listener[p] = "written"
    /\ listener' = [listener EXCEPT ![p] = "settled"]
    /\ Announce(p, 1)
    /\ UNCHANGED <<brokerVars, treeVars, steps, faults, overtook>>

\* Mutant of ListenerThrows: the failure is caught and the event published.
ListenerPublishesAnyway(p) ==
    /\ listener[p] = "refused"
    /\ listener' = [listener EXCEPT ![p] = "settled"]
    /\ Announce(p, 1)
    /\ UNCHANGED <<brokerVars, treeVars, steps, faults, overtook>>

\* The await throws: nothing after it runs.
ListenerThrows(p) ==
    /\ listener[p] = "refused"
    /\ listener' = [listener EXCEPT ![p] = "settled"]
    /\ fate' = [fate EXCEPT ![p][1] = "lost"]
    /\ UNCHANGED <<brokerVars, treeVars, steps, feed, faults, overtook>>

\* The server stops: its clients and its pending listeners are gone; the
\* database keeps what it had written and may still execute what it was asked.
Crash ==
    /\ faults < MaxFaults
    /\ at # "boot"
    /\ \E W \in SUBSET {p \in Processes : listener[p] = "asked" /\ Storable(p)} :
          tree' = [p \in Processes |-> IF p \in W THEN RowOf(p) ELSE tree[p]]
    /\ at' = "boot"
    /\ client' = [b \in Brokers |-> "none"]
    /\ listener' = [p \in Processes |->
                      IF listener[p] \in InFlight THEN "settled"
                      ELSE listener[p]]
    /\ fate' = [p \in Processes |->
                  IF listener[p] \in InFlight
                  THEN [fate[p] EXCEPT ![1] = "lost"] ELSE fate[p]]
    /\ faults' = faults + 1
    /\ UNCHANGED <<parent, steps, feed, overtook>>

BrokerStep ==
    /\ ConnectStep \/ ChannelClosed
    /\ UNCHANGED <<treeVars, steps, listener, fate, feed, faults, overtook>>

Engine(p) ==
    \/ \E q \in Processes \cup {NoParent} : CreateProcess(p, q)
    \/ CreateState(p)

Database(p) == TreeWritten(p) \/ TreeRefused(p)

Listener(p) == ListenerResumes(p) \/ ListenerThrows(p)

Next ==
    \/ \E p \in Processes :
          Engine(p) \/ Database(p) \/ DatabaseFault(p) \/ Listener(p)
    \/ BrokerStep
    \/ Crash

Spec == Init /\ [][Next]_vars

\* Every statement is answered and every answer reaches the event loop; every
\* await of connect() settles.  Nothing obliges the engine to go on.
Fairness ==
    /\ \A p \in Processes : WF_vars(Database(p)) /\ WF_vars(Listener(p))
    /\ WF_vars(ConnectStep /\ BrokerStep)

FairSpec == Spec /\ Fairness

-----------------------------------------------------------------------------
(* Properties *)

\* The tree is a forest: a row's parent has a row too, one level higher and
\* under the same root.  Rows are written by listeners that race each other.
TreeIsForest ==
    \A p \in Processes : tree[p] # NoRow =>
        LET q == tree[p].parent
        IN  IF q = NoParent
            THEN tree[p].root = p /\ tree[p].depth = 0
            ELSE /\ tree[q] # NoRow
                 /\ tree[p].root = tree[q].root
                 /\ tree[p].depth = tree[q].depth + 1

\* A subscriber that hears of the first state of a process finds it in the
\* tree: GET /cockpit/processes/:id/tree answers for it.
FirstEventIsInTree ==
    \A p \in Processes :
        (\E i \in DOMAIN feed[p] : feed[p][i] = 1) => tree[p] # NoRow

\* The engine does not wait for its listeners, p is a child, and its statement
\* came to the database before its parent's, or its parent is missing in turn.
Overtaken(p) ==
    LET q == parent[p]
    IN  /\ ~ EngineAwaits
        /\ q # NoParent
        /\ \/ p \in overtook
           \/ listener[q] \in {"refused", "settled"} /\ tree[q] = NoRow

\* Without failures a process is missing from the tree only when its listener
\* overtook its parent's, or its parent is missing for the same reason
\* (engineListener.js:16-41).
MissingOnlyByOvertaking ==
    \A p \in Processes :
        faults = 0 /\ listener[p] = "settled" /\ tree[p] = NoRow => Overtaken(p)

\* Only the event of the first state can be out of order, and only when the
\* engine does not wait for the listener.
OnlyFirstIsLate ==
    \A p \in Processes : \A i, j \in DOMAIN feed[p] :
        i < j => \/ feed[p][i] < feed[p][j]
                 \/ ~ EngineAwaits /\ feed[p][j] = 1 /\ feed[p][i] # 1

\* Every created state has exactly one fate, and the clients hold the events
\* of exactly those states whose fate says so.
Accounted ==
    \A p \in Processes : \A k \in 1..MaxSteps :
        /\ fate[p][k] = "none" <=> k > steps[p]
        /\ fate[p][k] = "held" <=> k = 1 /\ listener[p] \in InFlight
        /\ fate[p][k] \in {"sent", "blank"}
              <=> \E i \in DOMAIN feed[p] : feed[p][i] = k

\* The MQTT client is there before the notifiers are registered: a server
\* that has one never dropped an event for want of it.
EarlyMqttEventsKept ==
    StateBroker = "MQTT" /\ faults = 0 /\ client["MQTT"] # "none" =>
        \A p \in Processes : \A k \in 1..MaxSteps : fate[p][k] # "dropped"

\* No event disappears without its fate saying so, and none for want of a
\* client that is there (app.js:90-96, engineListener.js:9-57).
EventsAccounted == Accounted /\ EarlyMqttEventsKept

\* A listener that waits for the tree settles.
ListenersSettle ==
    \A p \in Processes : listener[p] \in InFlight ~> listener[p] = "settled"

\* The connection procedure ends, whatever the brokers answer, and RabbitMQ's
\* failure does not keep Kafka from being contacted (services/broker/index.js).
ConnectionSettles ==
    at # "boot" ~>
        \/ at = "boot"
        \/ at = "done" /\ ("KAFKA" \in Enabled => client["KAFKA"] # "none")

\* The listener implements the feed subscribers rely on.
Feed == INSTANCE StateFeed WITH
            created <- steps,
            held <- {p \in Processes : listener[p] \in InFlight},
            Ordered <- EngineAwaits

FeedImplemented == Feed!FeedSpec
=============================================================================
