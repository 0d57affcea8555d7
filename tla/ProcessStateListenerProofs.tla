--------------------- MODULE ProcessStateListenerProofs ---------------------
(***************************************************************************)
(* Theorems about the state listener, for every set of processes, every    *)
(* bound on their states and on the failures, every broker configuration   *)
(* and an engine that does or does not wait for its notifier.              *)
(***************************************************************************)
EXTENDS ProcessStateListener, TLAPS

-----------------------------------------------------------------------------
(* The broker clients *)

(***************************************************************************)
(* The broker steps keep the types of the broker's variables.              *)
(***************************************************************************)
LEMMA BrokerType == BrokerTypeOK /\ (ConnectStep \/ ChannelClosed) => BrokerTypeOK'
<1> SUFFICES ASSUME BrokerTypeOK, ConnectStep \/ ChannelClosed
             PROVE  BrokerTypeOK'
  OBVIOUS
<1> USE DEF BrokerTypeOK, Awaits, ClientState, Brokers
<1>1. ASSUME NEW next \in Awaits, NEW clients \in [Brokers -> ClientState],
             Proceed(next, clients)
      PROVE  BrokerTypeOK'
  BY <1>1 DEF Proceed
<1>2. AfterAmqp \in Awaits /\ AfterMqtt \in Awaits
  BY DEF AfterAmqp, AfterMqtt
<1>3. CASE StartConnect
  <2>1. PICK m \in {"ready", "none"} :
             Proceed(AfterMqtt, [client EXCEPT !["MQTT"] = m])
    BY <1>3 DEF StartConnect
  <2>2. QED
    BY <2>1, <1>1, <1>2
<1>4. CASE AmqpProgress
  BY <1>4, <1>1 DEF AmqpProgress
<1>5. CASE AmqpConnected
  BY <1>5, <1>1, <1>2 DEF AmqpConnected
<1>6. CASE AmqpFailed
  BY <1>6, <1>1, <1>2 DEF AmqpFailed
<1>7. CASE KafkaConnected
  BY <1>7, <1>1 DEF KafkaConnected
<1>8. CASE KafkaFailed
  BY <1>8, <1>1 DEF KafkaFailed
<1>9. CASE ChannelClosed
  BY <1>9 DEF ChannelClosed
<1> QED
  BY <1>3, <1>4, <1>5, <1>6, <1>7, <1>8, <1>9 DEF ConnectStep

-----------------------------------------------------------------------------
(* The listener *)

(***************************************************************************)
(* What an event can become: the listener never records a fate outside the *)
(* outcomes of publishMessage, and "held", "none" and "lost" are not among *)
(* them.                                                                   *)
(***************************************************************************)
LEMMA AnnouncementType == Announcement \subseteq Outcome \cup {"silent"}
  BY DEF Announcement, publishMessage, PublishMqtt, PublishAmqp, PublishKafka,
         Outcome, StatePayload

(***************************************************************************)
(* A row of the tree is never mistaken for the absence of one: the root of *)
(* a row is a process.                                                     *)
(***************************************************************************)
LEMMA RowIsNotNoRow == \A r \in Row : r # NoRow
  BY ListenerAssumption DEF Row, NoRow

(***************************************************************************)
(* The row a storable child or root process gets is a row.                 *)
(***************************************************************************)
LEMMA RowOfType ==
    ASSUME TypeOK, NEW p \in Processes, Storable(p)
    PROVE  RowOf(p) \in Row
<1>1. CASE parent[p] = NoParent
  BY <1>1 DEF RowOf, Row
<1>2. CASE parent[p] # NoParent
  <2>1. parent[p] \in Processes /\ tree[parent[p]] # NoRow
    BY <1>2 DEF TypeOK, Storable
  <2>2. tree[parent[p]] \in Row
    BY <2>1 DEF TypeOK
  <2>3. /\ tree[parent[p]].root \in Processes
        /\ tree[parent[p]].depth + 1 \in Nat
    BY <2>2 DEF Row
  <2>4. QED
    BY <1>2, <2>1, <2>3 DEF RowOf, Row
<1> QED
  BY <1>1, <1>2

(***************************************************************************)
(* Publishing the event of a state keeps the types of fate and feed.       *)
(***************************************************************************)
LEMMA AnnounceType ==
    ASSUME TypeOK, NEW p \in Processes, NEW k \in 1..MaxSteps, Announce(p, k)
    PROVE  /\ fate' \in [Processes -> [1..MaxSteps -> Fate]]
           /\ feed' \in [Processes -> Seq(1..MaxSteps)]
<1>1. Announcement \subseteq Fate
  BY AnnouncementType DEF Fate
<1>2. fate' \in [Processes -> [1..MaxSteps -> Fate]]
  BY <1>1 DEF Announce, TypeOK
<1>3. Append(feed[p], k) \in Seq(1..MaxSteps)
  BY DEF TypeOK
<1>4. feed' \in [Processes -> Seq(1..MaxSteps)]
  BY <1>3 DEF Announce, TypeOK
<1> QED
  BY <1>2, <1>4

(***************************************************************************)
(* Every variable keeps its type (the listener, the tree, the feeds and    *)
(* the broker clients).                                                    *)
(***************************************************************************)
THEOREM TypeCorrect == Spec => []TypeOK
<1> USE ListenerAssumption
<1>1. Init => TypeOK
  BY DEF Init, TypeOK, BrokerInit, BrokerTypeOK, Awaits, ClientState, Progress,
         Fate
<1>2. TypeOK /\ [Next]_vars => TypeOK'
  <2> SUFFICES ASSUME TypeOK, [Next]_vars
               PROVE  TypeOK'
    OBVIOUS
  <2> USE DEF Progress
  <2>1. ASSUME NEW p \in Processes, NEW q \in Processes \cup {NoParent},
               CreateProcess(p, q)
        PROVE  TypeOK'
    <3>1. 1 \in 0..MaxSteps /\ 1 \in 1..MaxSteps
      OBVIOUS
    <3>2. fate' \in [Processes -> [1..MaxSteps -> Fate]]
      BY <2>1, <3>1 DEF CreateProcess, TypeOK, Fate
    <3>3. QED
      BY <2>1, <3>1, <3>2 DEF CreateProcess, TypeOK, brokerVars, BrokerTypeOK
  <2>2. ASSUME NEW p \in Processes, CreateState(p)
        PROVE  TypeOK'
    <3>1. steps[p] + 1 \in 1..MaxSteps /\ steps[p] + 1 \in 0..MaxSteps
      BY <2>2 DEF CreateState, TypeOK
    <3>2. /\ fate' \in [Processes -> [1..MaxSteps -> Fate]]
          /\ feed' \in [Processes -> Seq(1..MaxSteps)]
      BY <2>2, <3>1, AnnounceType DEF CreateState
    <3>3. QED
      BY <2>2, <3>1, <3>2
      DEF CreateState, TypeOK, brokerVars, treeVars, BrokerTypeOK
  <2>3. ASSUME NEW p \in Processes, TreeWritten(p)
        PROVE  TypeOK'
    <3>1. RowOf(p) \in Row
      BY <2>3, RowOfType DEF TreeWritten
    <3>2. QED
      BY <2>3, <3>1 DEF TreeWritten, TypeOK, brokerVars, BrokerTypeOK
  <2>4. ASSUME NEW p \in Processes, TreeRefused(p)
        PROVE  TypeOK'
    BY <2>4 DEF TreeRefused, TypeOK, brokerVars, treeVars, BrokerTypeOK
  <2>5. ASSUME NEW p \in Processes, DatabaseFault(p)
        PROVE  TypeOK'
    BY <2>5 DEF DatabaseFault, TypeOK, brokerVars, treeVars, BrokerTypeOK
  <2>6. ASSUME NEW p \in Processes, ListenerResumes(p)
        PROVE  TypeOK'
    <3>1. /\ fate' \in [Processes -> [1..MaxSteps -> Fate]]
          /\ feed' \in [Processes -> Seq(1..MaxSteps)]
      BY <2>6, AnnounceType DEF ListenerResumes
    <3>2. QED
      BY <2>6, <3>1
      DEF ListenerResumes, TypeOK, brokerVars, treeVars, BrokerTypeOK
  <2>7. ASSUME NEW p \in Processes, ListenerThrows(p)
        PROVE  TypeOK'
    <3>1. fate' \in [Processes -> [1..MaxSteps -> Fate]]
      BY <2>7 DEF ListenerThrows, TypeOK, Fate
    <3>2. QED
      BY <2>7, <3>1
      DEF ListenerThrows, TypeOK, brokerVars, treeVars, BrokerTypeOK
  <2>8. CASE BrokerStep
    BY <2>8, BrokerType DEF BrokerStep, TypeOK, treeVars
  <2>9. CASE Crash
    <3>1. PICK W \in SUBSET {p \in Processes :
                                listener[p] = "asked" /\ Storable(p)} :
             tree' = [p \in Processes |-> IF p \in W THEN RowOf(p) ELSE tree[p]]
      BY <2>9 DEF Crash
    <3>2. tree' \in [Processes -> Row \cup {NoRow}]
      BY <3>1, RowOfType DEF TypeOK
    <3>3. fate' \in [Processes -> [1..MaxSteps -> Fate]]
      BY <2>9 DEF Crash, TypeOK, Fate
    <3>4. BrokerTypeOK'
      BY <2>9 DEF Crash, BrokerTypeOK, Awaits, ClientState
    <3>5. QED
      BY <2>9, <3>2, <3>3, <3>4 DEF Crash, TypeOK
  <2>10. CASE UNCHANGED vars
    BY <2>10 DEF vars, TypeOK, BrokerTypeOK
  <2> QED
    BY <2>1, <2>2, <2>3, <2>4, <2>5, <2>6, <2>7, <2>8, <2>9, <2>10
    DEF Next, Engine, Database, Listener
<1>3. QED
  BY <1>1, <1>2, PTL DEF Spec

-----------------------------------------------------------------------------
(***************************************************************************)
(* The inductive invariant.  Its parts say what the properties leave out:  *)
(* which rows exist at each stage of a listener, that a row's parent is    *)
(* the process's recorded one, that a feed never runs ahead of the states  *)
(* created, and that an engine that waits has created nothing after the    *)
(* first state while its event is held.                                    *)
(***************************************************************************)
IdleIsNew == \A p \in Processes : listener[p] = "idle" <=> steps[p] = 0

RowsFollowListener ==
    \A p \in Processes :
        /\ listener[p] \in {"idle", "asked"} => tree[p] = NoRow
        /\ listener[p] = "written" => tree[p] # NoRow
        /\ tree[p] # NoRow => tree[p].parent = parent[p]

FeedBehindEngine ==
    \A p \in Processes : \A i \in DOMAIN feed[p] :
        /\ feed[p][i] <= steps[p]
        /\ listener[p] \in InFlight => feed[p][i] # 1

WaitingEngineHolds ==
    EngineAwaits => \A p \in Processes :
        listener[p] \in InFlight => steps[p] = 1

ParentsAreStored ==
    EngineAwaits /\ faults = 0 => \A p \in Processes :
        listener[p] # "idle" /\ parent[p] # NoParent => tree[parent[p]] # NoRow

RefusedIsOvertaken ==
    faults = 0 => \A p \in Processes :
        listener[p] = "refused" => Overtaken(p)

ParentsAreRunning ==
    \A p \in Processes :
        listener[p] # "idle" /\ parent[p] # NoParent => listener[parent[p]] # "idle"

TreeInv ==
    /\ TypeOK
    /\ IdleIsNew
    /\ RowsFollowListener
    /\ TreeIsForest
    /\ ParentsAreStored
    /\ ParentsAreRunning
    /\ RefusedIsOvertaken
    /\ MissingOnlyByOvertaking

FeedInv ==
    /\ FeedBehindEngine
    /\ WaitingEngineHolds
    /\ FirstEventIsInTree
    /\ OnlyFirstIsLate
    /\ Accounted

(***************************************************************************)
(* Storing rows for processes that have none, each next to its parent's    *)
(* row, keeps the tree a forest, however many are stored at once.          *)
(***************************************************************************)
LEMMA GrowingForest ==
    ASSUME TypeOK, RowsFollowListener, TreeIsForest,
           NEW W \in SUBSET {p \in Processes :
                                listener[p] = "asked" /\ Storable(p)},
           tree' = [p \in Processes |-> IF p \in W THEN RowOf(p) ELSE tree[p]],
           parent' = parent
    PROVE  /\ TreeIsForest'
           /\ \A p \in Processes : tree[p] # NoRow => tree'[p] = tree[p]
           /\ \A p \in W : tree'[p] # NoRow /\ tree'[p].parent = parent[p]
<1>1. \A p \in Processes : tree[p] # NoRow => tree'[p] = tree[p]
  BY DEF RowsFollowListener
<1>2. \A p \in W : tree'[p] # NoRow /\ tree'[p].parent = parent[p]
  BY RowOfType, RowIsNotNoRow DEF RowOf
<1>3. ASSUME NEW p \in Processes, tree'[p] # NoRow
      PROVE  LET q == tree'[p].parent
             IN  IF q = NoParent
                 THEN tree'[p].root = p /\ tree'[p].depth = 0
                 ELSE /\ tree'[q] # NoRow
                      /\ tree'[p].root = tree'[q].root
                      /\ tree'[p].depth = tree'[q].depth + 1
  <2>1. CASE p \in W
    <3>1. parent[p] # NoParent =>
             parent[p] \in Processes /\ tree[parent[p]] # NoRow
      BY <2>1 DEF TypeOK, Storable
    <3>2. tree'[p] = RowOf(p)
      BY <2>1
    <3>3. CASE parent[p] = NoParent
      BY <3>2, <3>3 DEF RowOf
    <3>4. CASE parent[p] # NoParent
      <4>1. tree'[parent[p]] = tree[parent[p]]
        BY <3>1, <3>4, <1>1
      <4>2. tree'[p] = [root |-> tree[parent[p]].root,
                        parent |-> parent[p],
                        depth |-> tree[parent[p]].depth + 1]
        BY <3>2, <3>4 DEF RowOf
      <4>3. QED
        BY <3>1, <3>4, <4>1, <4>2
    <3> QED
      BY <3>3, <3>4
  <2>2. CASE p \notin W
    <3>1. tree'[p] = tree[p] /\ tree[p] # NoRow
      BY <2>2, <1>3
    <3>2. tree[p] \in Row
      BY <3>1 DEF TypeOK
    <3>3. tree[p].parent # NoParent => tree[p].parent \in Processes
      BY <3>2 DEF Row
    <3>4. QED
      BY <3>1, <3>3, <1>1 DEF TreeIsForest
  <2> QED
    BY <2>1, <2>2
<1>4. TreeIsForest'
  BY <1>3 DEF TreeIsForest
<1> QED
  BY <1>1, <1>2, <1>4

\* A process without a row whose listener got its answer stays without one.
MissingStay ==
    \A q \in Processes :
        listener[q] \in {"refused", "settled"} /\ tree[q] = NoRow =>
            listener'[q] \in {"refused", "settled"} /\ tree'[q] = NoRow

(***************************************************************************)
(* What explains a missing row goes on explaining it.                      *)
(***************************************************************************)
LEMMA OvertakenStays ==
    ASSUME TypeOK, MissingStay, overtook \subseteq overtook',
           NEW p \in Processes, Overtaken(p), parent'[p] = parent[p]
    PROVE  Overtaken(p)'
<1>1. parent[p] \in Processes
  BY DEF TypeOK, Overtaken
<1>2. QED
  BY <1>1 DEF Overtaken, MissingStay

(***************************************************************************)
(* A step that changes no row, no parent and no listener keeps the part of *)
(* the invariant that is about the tree.                                   *)
(***************************************************************************)
LEMMA TreeUntouched ==
    ASSUME TreeInv, TypeOK', UNCHANGED <<treeVars, listener, faults, overtook>>,
           \A p \in Processes : steps[p] = 0 <=> steps'[p] = 0
    PROVE  TreeInv'
<1>1. ParentsAreRunning' /\ RefusedIsOvertaken' /\ MissingOnlyByOvertaking'
  BY DEF TreeInv, treeVars, ParentsAreRunning, RefusedIsOvertaken,
         MissingOnlyByOvertaking, Overtaken
<1>2. QED
  BY <1>1 DEF TreeInv, treeVars, TypeOK, IdleIsNew, RowsFollowListener,
              TreeIsForest, ParentsAreStored

(***************************************************************************)
(* Every step of the system keeps the tree's invariant.                    *)
(***************************************************************************)
LEMMA TreeStep == TreeInv /\ TypeOK' /\ [Next]_vars => TreeInv'
<1> SUFFICES ASSUME TreeInv, TypeOK', [Next]_vars
             PROVE  TreeInv'
  OBVIOUS
<1> USE ListenerAssumption DEF Progress, InFlight
<1>1. ASSUME NEW p \in Processes, NEW q \in Processes \cup {NoParent},
             CreateProcess(p, q)
      PROVE  TreeInv'
  <2>1. /\ listener[p] = "idle" /\ tree[p] = NoRow /\ faults' = faults
        /\ overtook' = overtook
        /\ q # NoParent => listener[q] # "idle" /\ q # p
        /\ tree' = tree /\ parent' = [parent EXCEPT ![p] = q]
        /\ listener' = [listener EXCEPT ![p] = "asked"]
        /\ steps' = [steps EXCEPT ![p] = 1]
    BY <1>1 DEF CreateProcess, TreeInv, IdleIsNew, RowsFollowListener, TypeOK
  <2>2. IdleIsNew'
    BY <2>1 DEF TreeInv, TypeOK, IdleIsNew
  <2>3. RowsFollowListener'
    BY <2>1 DEF TreeInv, TypeOK, RowsFollowListener
  <2>4. TreeIsForest'
    BY <2>1 DEF TreeInv, TreeIsForest
  <2>5. ParentsAreStored'
    <3>1. EngineAwaits /\ faults = 0 /\ q # NoParent => tree[q] # NoRow
      BY <1>1 DEF CreateProcess, EngineFree, TreeInv, TypeOK, IdleIsNew,
                  RowsFollowListener, MissingOnlyByOvertaking, Overtaken
    <3>2. QED
      BY <2>1, <3>1 DEF TreeInv, TypeOK, ParentsAreStored
  <2>6. \A r \in Processes \ {p} : Overtaken(r) => Overtaken(r)'
    <3>1. MissingStay
      BY <2>1 DEF MissingStay, TreeInv, TypeOK
    <3>2. QED
      BY <2>1, <3>1, OvertakenStays DEF TreeInv, TypeOK
  <2>7. RefusedIsOvertaken' /\ MissingOnlyByOvertaking'
    BY <2>1, <2>6
    DEF TreeInv, TypeOK, RefusedIsOvertaken, MissingOnlyByOvertaking
  <2>8. ParentsAreRunning'
    BY <2>1 DEF TreeInv, TypeOK, ParentsAreRunning
  <2> QED
    BY <2>2, <2>3, <2>4, <2>5, <2>7, <2>8 DEF TreeInv
<1>2. ASSUME NEW p \in Processes, CreateState(p)
      PROVE  TreeInv'
  <2>1. UNCHANGED <<treeVars, listener, faults, overtook>>
    BY <1>2 DEF CreateState
  <2>2. \A r \in Processes : steps[r] = 0 <=> steps'[r] = 0
    BY <1>2 DEF CreateState, TreeInv, TypeOK
  <2>3. QED
    BY <2>1, <2>2, TreeUntouched
<1>3. ASSUME NEW p \in Processes, TreeWritten(p)
      PROVE  TreeInv'
  <2>1. /\ listener[p] = "asked" /\ faults' = faults /\ overtook' = overtook
        /\ tree' = [r \in Processes |-> IF r \in {p} THEN RowOf(r) ELSE tree[r]]
        /\ parent' = parent /\ steps' = steps
        /\ listener' = [listener EXCEPT ![p] = "written"]
        /\ {p} \in SUBSET {r \in Processes :
                              listener[r] = "asked" /\ Storable(r)}
    BY <1>3 DEF TreeWritten, TreeInv, TypeOK
  <2>2. /\ TreeIsForest'
        /\ \A r \in Processes : tree[r] # NoRow => tree'[r] = tree[r]
        /\ tree'[p] # NoRow /\ tree'[p].parent = parent[p]
    BY <2>1, GrowingForest DEF TreeInv
  <2>3. IdleIsNew'
    BY <2>1 DEF TreeInv, TypeOK, IdleIsNew
  <2>4. RowsFollowListener'
    BY <2>1, <2>2 DEF TreeInv, TypeOK, RowsFollowListener
  <2>5. ParentsAreStored'
    BY <2>1, <2>2 DEF TreeInv, TypeOK, ParentsAreStored
  <2>6. \A r \in Processes : Overtaken(r) => Overtaken(r)'
    <3>1. MissingStay
      BY <2>1 DEF MissingStay, TreeInv, TypeOK
    <3>2. QED
      BY <2>1, <3>1, OvertakenStays DEF TreeInv
  <2>7. RefusedIsOvertaken' /\ MissingOnlyByOvertaking'
    BY <2>1, <2>2, <2>6
    DEF TreeInv, TypeOK, RefusedIsOvertaken, MissingOnlyByOvertaking
  <2>8. ParentsAreRunning'
    BY <2>1 DEF TreeInv, TypeOK, ParentsAreRunning
  <2> QED
    BY <2>2, <2>3, <2>4, <2>5, <2>7, <2>8 DEF TreeInv
<1>4. ASSUME NEW p \in Processes, TreeRefused(p)
      PROVE  TreeInv'
  <2>1. /\ listener[p] = "asked" /\ parent[p] # NoParent
        /\ tree[parent[p]] = NoRow
        /\ UNCHANGED <<parent, tree, steps, faults>>
        /\ listener' = [listener EXCEPT ![p] = "refused"]
        /\ overtook' = IF Overtakes(p) THEN overtook \cup {p} ELSE overtook
    BY <1>4 DEF TreeRefused, Storable, treeVars
  <2>2. faults = 0 => ~ EngineAwaits
    BY <2>1 DEF TreeInv, ParentsAreStored
  <2>3. IdleIsNew' /\ RowsFollowListener' /\ TreeIsForest'
    BY <2>1 DEF TreeInv, TypeOK, IdleIsNew, RowsFollowListener, TreeIsForest
  <2>4. ParentsAreStored' /\ ParentsAreRunning'
    BY <2>1 DEF TreeInv, TypeOK, ParentsAreStored, ParentsAreRunning
  <2>5. \A r \in Processes : Overtaken(r) => Overtaken(r)'
    <3>1. MissingStay
      BY <2>1 DEF MissingStay, TreeInv, TypeOK
    <3>2. QED
      BY <2>1, <3>1, OvertakenStays DEF TreeInv
  <2>6. faults = 0 => Overtaken(p)'
    <3>1. /\ parent[p] \in Processes
          /\ listener[parent[p]] \in {"asked", "written", "refused", "settled"}
      BY <2>1 DEF TreeInv, TypeOK, ParentsAreRunning
    <3>2. CASE listener[parent[p]] = "asked"
      BY <2>1, <2>2, <3>2 DEF Overtakes, Overtaken
    <3>3. CASE listener[parent[p]] = "written"
      BY <2>1, <3>1, <3>3 DEF TreeInv, RowsFollowListener
    <3>4. CASE listener[parent[p]] \in {"refused", "settled"}
      <4>1. listener'[parent[p]] \in {"refused", "settled"}
        BY <2>1, <3>1, <3>4 DEF TreeInv, TypeOK
      <4>2. QED
        BY <2>1, <2>2, <4>1 DEF Overtaken
    <3>5. QED
      BY <3>1, <3>2, <3>3, <3>4
  <2>7. RefusedIsOvertaken' /\ MissingOnlyByOvertaking'
    BY <2>1, <2>5, <2>6
    DEF TreeInv, TypeOK, RefusedIsOvertaken, MissingOnlyByOvertaking
  <2> QED
    BY <2>3, <2>4, <2>7 DEF TreeInv
<1>5. ASSUME NEW p \in Processes, DatabaseFault(p)
      PROVE  TreeInv'
  <2>1. /\ listener[p] \in {"asked", "written"} /\ faults' # 0
        /\ UNCHANGED <<parent, tree, steps>>
        /\ listener' = [listener EXCEPT ![p] = "refused"]
    BY <1>5 DEF DatabaseFault, treeVars, TreeInv, TypeOK
  <2>2. /\ IdleIsNew' /\ RowsFollowListener' /\ TreeIsForest'
        /\ ParentsAreRunning'
    BY <2>1 DEF TreeInv, TypeOK, IdleIsNew, RowsFollowListener, TreeIsForest,
                ParentsAreRunning
  <2>3. ParentsAreStored' /\ MissingOnlyByOvertaking' /\ RefusedIsOvertaken'
    BY <2>1 DEF ParentsAreStored, MissingOnlyByOvertaking, RefusedIsOvertaken
  <2> QED
    BY <2>2, <2>3 DEF TreeInv
<1>6. ASSUME NEW p \in Processes, Listener(p)
      PROVE  TreeInv'
  <2>1. /\ \/ listener[p] = "written"
           \/ listener[p] = "refused"
        /\ UNCHANGED <<parent, tree, steps, faults, overtook>>
        /\ listener' = [listener EXCEPT ![p] = "settled"]
    BY <1>6 DEF Listener, ListenerResumes, ListenerThrows, treeVars
  <2>2. IdleIsNew' /\ RowsFollowListener' /\ TreeIsForest'
    BY <2>1 DEF TreeInv, TypeOK, IdleIsNew, RowsFollowListener, TreeIsForest
  <2>3. /\ ParentsAreStored' /\ ParentsAreRunning'
        /\ \A r \in Processes : Overtaken(r) => Overtaken(r)'
    <3>1. MissingStay
      BY <2>1 DEF MissingStay, TreeInv, TypeOK
    <3>2. \A r \in Processes : Overtaken(r) => Overtaken(r)'
      BY <2>1, <3>1, OvertakenStays DEF TreeInv
    <3>3. QED
      BY <2>1, <3>2 DEF TreeInv, TypeOK, ParentsAreStored, ParentsAreRunning
  <2>4. RefusedIsOvertaken' /\ MissingOnlyByOvertaking'
    BY <2>1, <2>3 DEF TreeInv, TypeOK, MissingOnlyByOvertaking,
                      RowsFollowListener, RefusedIsOvertaken
  <2> QED
    BY <2>2, <2>3, <2>4 DEF TreeInv
<1>7. CASE BrokerStep
  BY <1>7, TreeUntouched DEF BrokerStep
<1>8. CASE Crash
  <2>1. PICK W \in SUBSET {p \in Processes :
                              listener[p] = "asked" /\ Storable(p)} :
           tree' = [p \in Processes |-> IF p \in W THEN RowOf(p) ELSE tree[p]]
    BY <1>8 DEF Crash
  <2>2. /\ faults' # 0 /\ UNCHANGED <<parent, steps>>
        /\ listener' = [p \in Processes |->
                          IF listener[p] \in InFlight THEN "settled"
                          ELSE listener[p]]
    BY <1>8 DEF Crash, TreeInv, TypeOK
  <2>3. /\ TreeIsForest'
        /\ \A p \in Processes : tree[p] # NoRow => tree'[p] = tree[p]
        /\ \A p \in W : tree'[p] # NoRow /\ tree'[p].parent = parent[p]
    BY <2>1, <2>2, GrowingForest DEF TreeInv
  <2>4. IdleIsNew'
    BY <2>2 DEF TreeInv, TypeOK, IdleIsNew
  <2>5. RowsFollowListener'
    BY <2>1, <2>2, <2>3 DEF TreeInv, TypeOK, RowsFollowListener
  <2>6. ParentsAreStored' /\ MissingOnlyByOvertaking' /\ RefusedIsOvertaken'
    BY <2>2 DEF ParentsAreStored, MissingOnlyByOvertaking, RefusedIsOvertaken
  <2>7. ParentsAreRunning'
    BY <2>2 DEF TreeInv, TypeOK, ParentsAreRunning
  <2> QED
    BY <2>3, <2>4, <2>5, <2>6, <2>7 DEF TreeInv
<1>9. CASE UNCHANGED vars
  BY <1>9, TreeUntouched DEF vars, treeVars
<1> QED
  BY <1>1, <1>2, <1>3, <1>4, <1>5, <1>6, <1>7, <1>8, <1>9
  DEF Next, Engine, Database

(***************************************************************************)
(* Before the first process there is no row, and all of the above holds.   *)
(***************************************************************************)
LEMMA InitTree == Init => TreeInv
<1> SUFFICES ASSUME Init PROVE TreeInv
  OBVIOUS
<1> USE ListenerAssumption
<1>1. TypeOK
  BY DEF Init, TypeOK, BrokerInit, BrokerTypeOK, Awaits, ClientState,
         Progress, Fate
<1>2. QED
  BY <1>1 DEF Init, TreeInv, IdleIsNew, RowsFollowListener, TreeIsForest,
              ParentsAreStored, ParentsAreRunning, RefusedIsOvertaken,
              MissingOnlyByOvertaking

(***************************************************************************)
(* The process tree is a forest in every state, and without failures a     *)
(* process is missing from it only when an engine that does not wait let   *)
(* its statement come to the database before its parent's, or when its     *)
(* parent is missing in turn.                                              *)
(***************************************************************************)
THEOREM TreeCorrect == Spec => [](TreeIsForest /\ MissingOnlyByOvertaking)
<1>1. TreeInv => TreeIsForest /\ MissingOnlyByOvertaking
  BY DEF TreeInv
<1>2. QED
  BY <1>1, InitTree, TreeStep, TypeCorrect, PTL DEF Spec

-----------------------------------------------------------------------------
(***************************************************************************)
(* What publishing does to the feeds: nothing, or one event more at the    *)
(* end of one of them, and which of the two the recorded fate tells.       *)
(***************************************************************************)
LEMMA AnnounceFeed ==
    ASSUME TypeOK, NEW p \in Processes, NEW k \in 1..MaxSteps, Announce(p, k)
    PROVE  /\ \A r \in Processes \ {p} : feed'[r] = feed[r]
           /\ \/ /\ feed'[p] = feed[p]
                 /\ fate'[p][k] \notin {"sent", "blank"}
              \/ /\ fate'[p][k] \in {"sent", "blank"}
                 /\ DOMAIN feed'[p] = DOMAIN feed[p] \cup {Len(feed[p]) + 1}
                 /\ feed'[p][Len(feed[p]) + 1] = k
                 /\ \A i \in DOMAIN feed[p] :
                       feed'[p][i] = feed[p][i] /\ i < Len(feed[p]) + 1
           /\ fate'[p][k] \notin {"none", "held", "lost"}
           /\ \A r \in Processes : \A j \in 1..MaxSteps :
                 (r # p \/ j # k) => fate'[r][j] = fate[r][j]
<1>0. PICK outcome \in Announcement :
         /\ fate' = [fate EXCEPT ![p][k] = outcome]
         /\ feed' = IF outcome \in {"sent", "blank"}
                    THEN [feed EXCEPT ![p] = Append(@, k)]
                    ELSE feed
  BY DEF Announce
<1>1. fate'[p][k] = outcome
  BY <1>0 DEF TypeOK
<1>2. fate'[p][k] \notin {"none", "held", "lost"}
  BY <1>1, AnnouncementType DEF Outcome
<1>3. \A r \in Processes : \A j \in 1..MaxSteps :
         (r # p \/ j # k) => fate'[r][j] = fate[r][j]
  BY <1>0 DEF TypeOK
<1>4. CASE outcome \in {"sent", "blank"}
  <2>1. feed' = [feed EXCEPT ![p] = Append(@, k)]
    BY <1>0, <1>4
  <2>2. feed[p] \in Seq(1..MaxSteps)
    BY DEF TypeOK
  <2>3. feed'[p] = Append(feed[p], k)
    BY <2>1 DEF TypeOK
  <2>4. /\ DOMAIN feed[p] = 1..Len(feed[p])
        /\ DOMAIN feed'[p] = 1..(Len(feed[p]) + 1)
        /\ feed'[p][Len(feed[p]) + 1] = k
        /\ \A i \in 1..Len(feed[p]) : feed'[p][i] = feed[p][i]
    BY <2>2, <2>3
  <2>5. Len(feed[p]) \in Nat
    BY <2>2
  <2>6. DOMAIN feed'[p] = DOMAIN feed[p] \cup {Len(feed[p]) + 1}
    BY <2>4, <2>5
  <2>7. \A r \in Processes \ {p} : feed'[r] = feed[r]
    BY <2>1 DEF TypeOK
  <2> QED
    BY <1>1, <1>2, <1>3, <1>4, <2>4, <2>5, <2>6, <2>7
<1>5. CASE outcome \notin {"sent", "blank"}
  <2>1. feed' = feed
    BY <1>0, <1>5
  <2> QED
    BY <1>1, <1>2, <1>3, <1>5, <2>1
<1> QED
  BY <1>4, <1>5

(***************************************************************************)
(* Rows are never taken back.                                              *)
(***************************************************************************)
LEMMA RowsStay ==
    TreeInv /\ [Next]_vars =>
        \A p \in Processes : tree[p] # NoRow => tree'[p] # NoRow
<1> SUFFICES ASSUME TreeInv, [Next]_vars, NEW p \in Processes, tree[p] # NoRow
             PROVE  tree'[p] # NoRow
  OBVIOUS
<1>1. ASSUME NEW q \in Processes, TreeWritten(q)
      PROVE  tree'[p] # NoRow
  <2>1. p # q
    BY <1>1 DEF TreeWritten, TreeInv, RowsFollowListener
  <2>2. QED
    BY <1>1, <2>1 DEF TreeWritten, TreeInv, TypeOK
<1>2. CASE Crash
  BY <1>2 DEF Crash, TreeInv, RowsFollowListener
<1>3. CASE UNCHANGED tree
  BY <1>3
<1> QED
  BY <1>1, <1>2, <1>3
  DEF Next, Engine, Database, Listener, CreateProcess, CreateState,
      TreeRefused, DatabaseFault, ListenerResumes, ListenerThrows, BrokerStep,
      treeVars, vars

\* Every event in the feed of p may come before the event of state k.
MayFollow(p, k) ==
    \A i \in DOMAIN feed[p] :
        \/ feed[p][i] < k
        \/ ~ EngineAwaits /\ k = 1 /\ feed[p][i] # 1

(***************************************************************************)
(* Publishing state k of p keeps the order of the feeds when every event   *)
(* already in p's feed may come before k.                                  *)
(***************************************************************************)
LEMMA OrderKept ==
    ASSUME TypeOK, OnlyFirstIsLate,
           NEW p \in Processes, NEW k \in 1..MaxSteps, Announce(p, k),
           MayFollow(p, k)
    PROVE  OnlyFirstIsLate'
<1> SUFFICES ASSUME NEW r \in Processes,
                    NEW i \in DOMAIN feed'[r], NEW j \in DOMAIN feed'[r], i < j
             PROVE  \/ feed'[r][i] < feed'[r][j]
                    \/ ~ EngineAwaits /\ feed'[r][j] = 1 /\ feed'[r][i] # 1
  BY DEF OnlyFirstIsLate
<1> DEFINE n == Len(feed[p]) + 1
<1>1. CASE r # p \/ feed'[p] = feed[p]
  BY <1>1, AnnounceFeed DEF OnlyFirstIsLate
<1>2. CASE r = p /\ feed'[p] # feed[p]
  <2>1. /\ DOMAIN feed'[p] = DOMAIN feed[p] \cup {n}
        /\ feed'[p][n] = k
        /\ \A m \in DOMAIN feed[p] : feed'[p][m] = feed[p][m] /\ m < n
    BY <1>2, AnnounceFeed
  <2>2. n \in Nat /\ DOMAIN feed[p] \subseteq Nat
    BY DEF TypeOK
  <2>3. i \in DOMAIN feed[p]
    BY <1>2, <2>1, <2>2
  <2>4. CASE j \in DOMAIN feed[p]
    BY <1>2, <2>1, <2>3, <2>4 DEF OnlyFirstIsLate
  <2>5. CASE j = n
    BY <1>2, <2>1, <2>3, <2>5 DEF MayFollow
  <2> QED
    BY <1>2, <2>1, <2>4, <2>5
<1> QED
  BY <1>1, <1>2

(***************************************************************************)
(* A step that changes neither feeds, fates, counters nor which listeners  *)
(* are in flight keeps the part of the invariant that is about the feeds.  *)
(***************************************************************************)
LEMMA FeedUntouched ==
    ASSUME TreeInv, FeedInv, UNCHANGED <<feed, fate, steps>>,
           \A p \in Processes :
              /\ listener[p] \in InFlight <=> listener'[p] \in InFlight
              /\ tree[p] # NoRow => tree'[p] # NoRow
    PROVE  FeedInv'
<1>1. FeedBehindEngine' /\ WaitingEngineHolds'
  BY DEF FeedInv, FeedBehindEngine, WaitingEngineHolds
<1>2. FirstEventIsInTree' /\ OnlyFirstIsLate'
  BY DEF FeedInv, FirstEventIsInTree, OnlyFirstIsLate
<1>3. Accounted'
  BY DEF FeedInv, Accounted
<1> QED
  BY <1>1, <1>2, <1>3 DEF FeedInv

(***************************************************************************)
(* Every step of the system keeps the feeds' invariant.                    *)
(***************************************************************************)
LEMMA FeedStep == TreeInv /\ TreeInv' /\ FeedInv /\ [Next]_vars => FeedInv'
<1> SUFFICES ASSUME TreeInv, TreeInv', FeedInv, [Next]_vars
             PROVE  FeedInv'
  OBVIOUS
<1> USE ListenerAssumption DEF Progress, InFlight
<1>a. TypeOK /\ TypeOK'
  BY DEF TreeInv
<1>b. \A p \in Processes : tree[p] # NoRow => tree'[p] # NoRow
  BY RowsStay
<1>1. ASSUME NEW p \in Processes, NEW q \in Processes \cup {NoParent},
             CreateProcess(p, q)
      PROVE  FeedInv'
  <2>1. /\ steps[p] = 0 /\ listener[p] = "idle" /\ feed' = feed
        /\ steps' = [steps EXCEPT ![p] = 1]
        /\ listener' = [listener EXCEPT ![p] = "asked"]
        /\ fate' = [fate EXCEPT ![p][1] = "held"]
    BY <1>1 DEF CreateProcess, TreeInv, IdleIsNew
  <2>2. DOMAIN feed[p] = {}
    <3>1. \A i \in DOMAIN feed[p] : feed[p][i] \in 1..MaxSteps /\ feed[p][i] <= 0
      BY <1>a, <2>1 DEF TypeOK, FeedInv, FeedBehindEngine
    <3> QED
      BY <3>1
  <2>3. FeedBehindEngine' /\ WaitingEngineHolds'
    BY <1>a, <2>1, <2>2 DEF TypeOK, FeedInv, FeedBehindEngine, WaitingEngineHolds
  <2>4. FirstEventIsInTree' /\ OnlyFirstIsLate'
    BY <1>b, <2>1 DEF FeedInv, FirstEventIsInTree, OnlyFirstIsLate
  <2>5. Accounted'
    <3>1. ASSUME NEW r \in Processes, NEW k \in 1..MaxSteps
          PROVE  /\ fate'[r][k] = "none" <=> k > steps'[r]
                 /\ fate'[r][k] = "held" <=> k = 1 /\ listener'[r] \in InFlight
                 /\ fate'[r][k] \in {"sent", "blank"}
                       <=> \E i \in DOMAIN feed'[r] : feed'[r][i] = k
      <4>1. CASE r = p /\ k = 1
        BY <4>1, <1>a, <2>1, <2>2 DEF TypeOK
      <4>2. CASE ~ (r = p /\ k = 1)
        <5>1. fate'[r][k] = fate[r][k]
          BY <4>2, <1>a, <2>1 DEF TypeOK
        <5>2. k > steps'[r] <=> k > steps[r]
          BY <4>2, <1>a, <2>1 DEF TypeOK
        <5>3. (k = 1 /\ listener'[r] \in InFlight)
                 <=> (k = 1 /\ listener[r] \in InFlight)
          BY <4>2, <1>a, <2>1 DEF TypeOK
        <5> QED
          BY <5>1, <5>2, <5>3, <2>1 DEF FeedInv, Accounted
      <4> QED
        BY <4>1, <4>2
    <3> QED
      BY <3>1 DEF Accounted
  <2> QED
    BY <2>3, <2>4, <2>5 DEF FeedInv
<1>2. ASSUME NEW p \in Processes, CreateState(p)
      PROVE  FeedInv'
  <2>0. PICK k \in 1..MaxSteps : k = steps[p] + 1 /\ steps[p] >= 1
    BY <1>2, <1>a DEF CreateState, TypeOK
  <2>1. /\ listener' = listener
        /\ steps' = [steps EXCEPT ![p] = k]
        /\ Announce(p, k) /\ tree' = tree
        /\ EngineAwaits => listener[p] \notin InFlight
    BY <1>2, <2>0 DEF CreateState, treeVars, EngineFree
  <2>2. k \in 1..MaxSteps
    OBVIOUS
  <2>3. \A i \in DOMAIN feed[p] : feed[p][i] < k
    BY <1>a, <2>0 DEF FeedInv, FeedBehindEngine, TypeOK
  <2>4. OnlyFirstIsLate'
    <3>1. MayFollow(p, k)
      BY <2>3 DEF MayFollow
    <3> QED
      BY <1>a, <2>1, <2>2, <3>1, OrderKept DEF FeedInv
  <2>5. FeedBehindEngine'
    <3>1. \A r \in Processes : steps[r] <= steps'[r]
      BY <1>a, <2>0, <2>1 DEF TypeOK
    <3>2. steps'[p] = k
      BY <1>a, <2>1 DEF TypeOK
    <3>3. \A r \in Processes : \A i \in DOMAIN feed[r] :
             feed[r][i] \in Nat /\ feed[r][i] <= steps'[r]
      BY <1>a, <3>1 DEF FeedInv, FeedBehindEngine, TypeOK
    <3>4. k # 1 /\ k <= k
      BY <1>a, <2>0 DEF TypeOK
    <3>5. ASSUME NEW r \in Processes, NEW i \in DOMAIN feed'[r]
          PROVE  /\ feed'[r][i] <= steps'[r]
                 /\ listener'[r] \in InFlight => feed'[r][i] # 1
      <4>1. CASE i \in DOMAIN feed[r] /\ feed'[r][i] = feed[r][i]
        BY <4>1, <2>1, <3>3 DEF FeedInv, FeedBehindEngine
      <4>2. CASE r = p /\ feed'[r][i] = k
        BY <4>2, <3>2, <3>4
      <4> QED
        BY <1>a, <2>1, <2>2, <4>1, <4>2, AnnounceFeed
    <3> QED
      BY <3>5 DEF FeedBehindEngine
  <2>6. WaitingEngineHolds'
    BY <1>a, <2>1 DEF FeedInv, WaitingEngineHolds, TypeOK
  <2>7. FirstEventIsInTree'
    <3>1. k # 1
      BY <1>a, <2>0 DEF TypeOK
    <3> QED
      BY <1>a, <2>1, <2>2, <3>1, AnnounceFeed DEF FeedInv, FirstEventIsInTree
  <2>8. Accounted'
    <3>1. ASSUME NEW r \in Processes, NEW j \in 1..MaxSteps
          PROVE  /\ fate'[r][j] = "none" <=> j > steps'[r]
                 /\ fate'[r][j] = "held" <=> j = 1 /\ listener'[r] \in InFlight
                 /\ fate'[r][j] \in {"sent", "blank"}
                       <=> \E i \in DOMAIN feed'[r] : feed'[r][i] = j
      <4>1. CASE r = p /\ j = k
        <5>1. fate'[p][k] \notin {"none", "held"}
          BY <1>a, <2>1, <2>2, AnnounceFeed
        <5>2. k # 1 /\ ~ (k > steps'[p])
          BY <1>a, <2>0, <2>1 DEF TypeOK
        <5>3. \A i \in DOMAIN feed[p] : feed[p][i] # k
          BY <1>a, <2>0, <2>3 DEF TypeOK
        <5>4. (\E i \in DOMAIN feed'[p] : feed'[p][i] = k)
                 <=> fate'[p][k] \in {"sent", "blank"}
          <6>1. CASE feed'[p] = feed[p] /\ fate'[p][k] \notin {"sent", "blank"}
            BY <6>1, <5>3
          <6>2. CASE /\ fate'[p][k] \in {"sent", "blank"}
                     /\ DOMAIN feed'[p] = DOMAIN feed[p] \cup {Len(feed[p]) + 1}
                     /\ feed'[p][Len(feed[p]) + 1] = k
            BY <6>2
          <6> QED
            BY <1>a, <2>1, <2>2, <6>1, <6>2, AnnounceFeed
        <5> QED
          BY <4>1, <5>1, <5>2, <5>4
      <4>2. CASE ~ (r = p /\ j = k)
        <5>1. fate'[r][j] = fate[r][j]
          BY <4>2, <1>a, <2>1, <2>2, AnnounceFeed
        <5>2. j > steps'[r] <=> j > steps[r]
          BY <4>2, <1>a, <2>0, <2>1 DEF TypeOK
        <5>3. (\E i \in DOMAIN feed'[r] : feed'[r][i] = j)
                 <=> (\E i \in DOMAIN feed[r] : feed[r][i] = j)
          BY <4>2, <1>a, <2>1, <2>2, AnnounceFeed
        <5> QED
          BY <5>1, <5>2, <5>3, <2>1 DEF FeedInv, Accounted
      <4> QED
        BY <4>1, <4>2
    <3> QED
      BY <3>1 DEF Accounted
  <2> QED
    BY <2>4, <2>5, <2>6, <2>7, <2>8 DEF FeedInv
<1>3. ASSUME NEW p \in Processes,
             TreeWritten(p) \/ TreeRefused(p) \/ DatabaseFault(p)
      PROVE  FeedInv'
  <2>1. /\ UNCHANGED <<feed, fate, steps>>
        /\ \A r \in Processes :
              listener[r] \in InFlight <=> listener'[r] \in InFlight
    BY <1>3, <1>a DEF TreeWritten, TreeRefused, DatabaseFault, TypeOK
  <2>2. QED
    BY <2>1, <1>b, FeedUntouched
<1>4. ASSUME NEW p \in Processes, ListenerResumes(p)
      PROVE  FeedInv'
  <2>1. /\ listener[p] = "written" /\ steps' = steps /\ tree' = tree
        /\ listener' = [listener EXCEPT ![p] = "settled"]
        /\ Announce(p, 1) /\ 1 \in 1..MaxSteps
    BY <1>4 DEF ListenerResumes, treeVars
  <2>2. steps[p] >= 1 /\ tree[p] # NoRow
    BY <1>a, <2>1 DEF TreeInv, IdleIsNew, RowsFollowListener, TypeOK
  <2>3. \A i \in DOMAIN feed[p] : feed[p][i] \in Nat /\ feed[p][i] # 1
    BY <1>a, <2>1 DEF FeedInv, FeedBehindEngine, TypeOK
  <2>4. EngineAwaits => DOMAIN feed[p] = {}
    <3>1. SUFFICES ASSUME EngineAwaits, NEW i \in DOMAIN feed[p]
                   PROVE  FALSE
      OBVIOUS
    <3>2. feed[p][i] \in 1..MaxSteps
      BY <1>a DEF TypeOK
    <3>3. steps[p] = 1 /\ feed[p][i] <= steps[p]
      BY <3>1, <2>1 DEF FeedInv, WaitingEngineHolds, FeedBehindEngine
    <3> QED
      BY <2>3, <3>2, <3>3
  <2>5. OnlyFirstIsLate'
    <3>1. MayFollow(p, 1)
      BY <2>3, <2>4 DEF MayFollow
    <3> QED
      BY <1>a, <2>1, <3>1, OrderKept DEF FeedInv
  <2>6. FeedBehindEngine'
    <3>1. ASSUME NEW r \in Processes, NEW i \in DOMAIN feed'[r]
          PROVE  /\ feed'[r][i] <= steps'[r]
                 /\ listener'[r] \in InFlight => feed'[r][i] # 1
      <4>1. CASE i \in DOMAIN feed[r] /\ feed'[r][i] = feed[r][i]
        <5>1. listener'[r] \in InFlight => listener[r] \in InFlight
          BY <1>a, <2>1 DEF TypeOK
        <5> QED
          BY <4>1, <5>1, <2>1 DEF FeedInv, FeedBehindEngine
      <4>2. CASE r = p /\ feed'[r][i] = 1
        <5>1. listener'[p] \notin InFlight
          BY <1>a, <2>1 DEF TypeOK
        <5> QED
          BY <4>2, <5>1, <2>1, <2>2
      <4> QED
        BY <1>a, <2>1, <4>1, <4>2, AnnounceFeed
    <3> QED
      BY <3>1 DEF FeedBehindEngine
  <2>7. WaitingEngineHolds'
    BY <1>a, <2>1 DEF FeedInv, WaitingEngineHolds, TypeOK
  <2>8. FirstEventIsInTree'
    BY <1>a, <2>1, <2>2, AnnounceFeed DEF FeedInv, FirstEventIsInTree
  <2>9. Accounted'
    <3>1. ASSUME NEW r \in Processes, NEW j \in 1..MaxSteps
          PROVE  /\ fate'[r][j] = "none" <=> j > steps'[r]
                 /\ fate'[r][j] = "held" <=> j = 1 /\ listener'[r] \in InFlight
                 /\ fate'[r][j] \in {"sent", "blank"}
                       <=> \E i \in DOMAIN feed'[r] : feed'[r][i] = j
      <4>1. CASE r = p /\ j = 1
        BY <4>1, <1>a, <2>1, <2>2, <2>3, AnnounceFeed DEF TypeOK
      <4>2. CASE ~ (r = p /\ j = 1)
        <5>1. fate'[r][j] = fate[r][j]
          BY <4>2, <1>a, <2>1, AnnounceFeed
        <5>2. (j = 1 /\ listener'[r] \in InFlight)
                 <=> (j = 1 /\ listener[r] \in InFlight)
          BY <4>2, <1>a, <2>1 DEF TypeOK
        <5>3. (\E i \in DOMAIN feed'[r] : feed'[r][i] = j)
                 <=> (\E i \in DOMAIN feed[r] : feed[r][i] = j)
          BY <4>2, <1>a, <2>1, AnnounceFeed
        <5> QED
          BY <5>1, <5>2, <5>3, <2>1 DEF FeedInv, Accounted
      <4> QED
        BY <4>1, <4>2
    <3> QED
      BY <3>1 DEF Accounted
  <2> QED
    BY <2>5, <2>6, <2>7, <2>8, <2>9 DEF FeedInv
<1>5. ASSUME NEW p \in Processes, ListenerThrows(p)
      PROVE  FeedInv'
  <2>1. /\ listener[p] = "refused" /\ UNCHANGED <<steps, tree, feed>>
        /\ listener' = [listener EXCEPT ![p] = "settled"]
        /\ fate' = [fate EXCEPT ![p][1] = "lost"]
    BY <1>5 DEF ListenerThrows, treeVars
  <2>2. FeedBehindEngine' /\ WaitingEngineHolds'
    BY <1>a, <2>1 DEF FeedInv, FeedBehindEngine, WaitingEngineHolds, TypeOK
  <2>3. FirstEventIsInTree' /\ OnlyFirstIsLate'
    BY <2>1 DEF FeedInv, FirstEventIsInTree, OnlyFirstIsLate
  <2>4. Accounted'
    <3>1. steps[p] >= 1 /\ \A i \in DOMAIN feed[p] : feed[p][i] # 1
      BY <1>a, <2>1 DEF TreeInv, IdleIsNew, FeedInv, FeedBehindEngine, TypeOK
    <3> QED
      BY <1>a, <2>1, <3>1 DEF FeedInv, Accounted, TypeOK
  <2> QED
    BY <2>2, <2>3, <2>4 DEF FeedInv
<1>6. CASE Crash
  <2>1. /\ UNCHANGED <<steps, feed>>
        /\ listener' = [p \in Processes |->
                          IF listener[p] \in InFlight THEN "settled"
                          ELSE listener[p]]
        /\ fate' = [p \in Processes |->
                      IF listener[p] \in InFlight
                      THEN [fate[p] EXCEPT ![1] = "lost"] ELSE fate[p]]
    BY <1>6 DEF Crash
  <2>2. FeedBehindEngine' /\ WaitingEngineHolds'
    BY <1>a, <2>1 DEF FeedInv, FeedBehindEngine, WaitingEngineHolds, TypeOK
  <2>3. FirstEventIsInTree' /\ OnlyFirstIsLate'
    BY <1>b, <2>1 DEF FeedInv, FirstEventIsInTree, OnlyFirstIsLate
  <2>4. Accounted'
    <3>1. \A p \in Processes : listener[p] \in InFlight =>
             steps[p] >= 1 /\ \A i \in DOMAIN feed[p] : feed[p][i] # 1
      BY <1>a DEF TreeInv, IdleIsNew, FeedInv, FeedBehindEngine, TypeOK
    <3> QED
      BY <1>a, <2>1, <3>1 DEF FeedInv, Accounted, TypeOK
  <2> QED
    BY <2>2, <2>3, <2>4 DEF FeedInv
<1>7. CASE BrokerStep
  BY <1>7, <1>b, FeedUntouched DEF BrokerStep
<1>8. CASE UNCHANGED vars
  BY <1>8, <1>b, FeedUntouched DEF vars
<1> QED
  BY <1>1, <1>2, <1>3, <1>4, <1>5, <1>6, <1>7, <1>8
  DEF Next, Engine, Database, Listener

(***************************************************************************)
(* The events of a process reach the client in order, except the first     *)
(* one when the engine does not wait; a first event implies a row in the   *)
(* tree; and every created state has exactly one fate, with which the      *)
(* clients' feeds agree.                                                   *)
(***************************************************************************)
THEOREM FeedCorrect ==
    Spec => [](OnlyFirstIsLate /\ FirstEventIsInTree /\ Accounted)
<1>1. Init => TreeInv /\ FeedInv
  <2> SUFFICES ASSUME Init PROVE TreeInv /\ FeedInv
    OBVIOUS
  <2>1. TreeInv
    BY InitTree
  <2>2. FeedInv
    BY ListenerAssumption
    DEF Init, FeedInv, FeedBehindEngine, WaitingEngineHolds,
        FirstEventIsInTree, OnlyFirstIsLate, Accounted, InFlight
  <2> QED
    BY <2>1, <2>2
<1>2. TreeInv /\ FeedInv /\ TypeOK' /\ [Next]_vars => TreeInv' /\ FeedInv'
  BY TreeStep, FeedStep
<1>3. FeedInv => OnlyFirstIsLate /\ FirstEventIsInTree /\ Accounted
  BY DEF FeedInv
<1>4. QED
  BY <1>1, <1>2, <1>3, TypeCorrect, PTL DEF Spec

(***************************************************************************)
(* The MQTT client is there before the first process is created, so only a *)
(* server without one drops an event.                                      *)
(***************************************************************************)
NoneDropped == \A p \in Processes : \A k \in 1..MaxSteps : fate[p][k] # "dropped"

MqttInv ==
    /\ at = "boot" /\ faults = 0 =>
          NoneDropped /\ \A p \in Processes : listener[p] = "idle"
    /\ EarlyMqttEventsKept

LEMMA MqttClientKept ==
    ASSUME BrokerTypeOK, (ConnectStep \/ ChannelClosed), at # "boot"
    PROVE  client'["MQTT"] = client["MQTT"] /\ at' # "boot"
  BY DEF BrokerTypeOK, ConnectStep, StartConnect, AmqpProgress, AmqpConnected,
         AmqpFailed, KafkaConnected, KafkaFailed, ChannelClosed, Proceed,
         AfterAmqp, Awaits, Brokers

LEMMA MqttAnnouncement ==
    ASSUME StateBroker = "MQTT", "dropped" \in Announcement
    PROVE  client["MQTT"] = "none"
  BY DEF Announcement, publishMessage, PublishMqtt, StatePayload

LEMMA MqttStep ==
    TypeOK /\ MqttInv /\ [Next]_vars => MqttInv'
<1>1. SUFFICES ASSUME TypeOK, MqttInv, [Next]_vars
               PROVE  MqttInv'
  OBVIOUS
<1>2. ASSUME NEW p \in Processes, NEW k \in 1..MaxSteps, Announce(p, k),
             UNCHANGED <<at, client, faults>>, at = "boot" => faults # 0
      PROVE  MqttInv'
  <2>1. \A q \in Processes : \A j \in 1..MaxSteps :
           fate'[q][j] = fate[q][j] \/ fate'[q][j] \in Announcement
    BY <1>1, <1>2 DEF Announce, TypeOK
  <2>2. QED
    BY <1>1, <1>2, <2>1, MqttAnnouncement DEF MqttInv, EarlyMqttEventsKept
<1>3. ASSUME UNCHANGED <<at, client, faults>>, at = "boot" => faults # 0,
             \A q \in Processes : \A j \in 1..MaxSteps :
                fate'[q][j] = fate[q][j] \/ fate'[q][j] # "dropped"
      PROVE  MqttInv'
  BY <1>1, <1>3 DEF MqttInv, EarlyMqttEventsKept
<1>4. ASSUME faults' = faults + 1
      PROVE  MqttInv'
  BY <1>1, <1>4 DEF MqttInv, EarlyMqttEventsKept, TypeOK
<1>5. ASSUME NEW p \in Processes, Engine(p)
      PROVE  MqttInv'
  <2>1. CASE \E q \in Processes \cup {NoParent} : CreateProcess(p, q)
    <3>1. /\ at # "boot" /\ UNCHANGED <<at, client, faults>>
          /\ fate' = [fate EXCEPT ![p][1] = "held"]
      BY <2>1 DEF CreateProcess, Notifying, brokerVars
    <3>2. \A q \in Processes : \A j \in 1..MaxSteps :
             fate'[q][j] = fate[q][j] \/ fate'[q][j] # "dropped"
      BY <1>1, <3>1 DEF TypeOK
    <3>3. QED
      BY <1>3, <3>1, <3>2
  <2>2. CASE CreateState(p)
    <3>1. PICK k \in 1..MaxSteps : k = steps[p] + 1
      <4>1. steps[p] \in 1..(MaxSteps - 1) /\ MaxSteps \in Nat
        BY <2>2, ListenerAssumption DEF CreateState
      <4>2. steps[p] + 1 \in 1..MaxSteps
        BY <4>1
      <4>3. QED
        BY <4>2
    <3>2. Announce(p, k) /\ at # "boot" /\ UNCHANGED <<at, client, faults>>
      BY <2>2, <3>1 DEF CreateState, Notifying, brokerVars
    <3>3. QED
      BY <1>2, <3>2
  <2>3. QED
    BY <1>5, <2>1, <2>2 DEF Engine
<1>6. ASSUME NEW p \in Processes, listener[p] # "idle"
      PROVE  at = "boot" => faults # 0
  BY <1>1, <1>6 DEF MqttInv
<1>7. ASSUME NEW p \in Processes, Database(p)
      PROVE  MqttInv'
  <2>1. /\ listener[p] # "idle" /\ UNCHANGED <<at, client, faults>> /\ fate' = fate
    BY <1>7 DEF Database, TreeWritten, TreeRefused, brokerVars
  <2>2. QED
    BY <1>3, <1>6, <2>1
<1>8. ASSUME NEW p \in Processes, Listener(p)
      PROVE  MqttInv'
  <2>1. listener[p] # "idle" /\ UNCHANGED <<at, client, faults>>
    BY <1>8 DEF Listener, ListenerResumes, ListenerThrows, brokerVars
  <2>2. CASE ListenerResumes(p)
    <3>1. 1 \in 1..MaxSteps /\ Announce(p, 1)
      BY <2>2, ListenerAssumption DEF ListenerResumes
    <3>2. QED
      BY <1>2, <1>6, <2>1, <3>1
  <2>3. CASE ListenerThrows(p)
    <3>1. \A q \in Processes : \A j \in 1..MaxSteps :
             fate'[q][j] = fate[q][j] \/ fate'[q][j] # "dropped"
      BY <1>1, <2>3 DEF TypeOK, ListenerThrows
    <3>2. QED
      BY <1>3, <1>6, <2>1, <3>1
  <2>4. QED
    BY <1>8, <2>2, <2>3 DEF Listener
<1>9. CASE BrokerStep
  <2>1. /\ UNCHANGED <<listener, fate, faults>> /\ (ConnectStep \/ ChannelClosed)
        /\ BrokerTypeOK
    BY <1>1, <1>9 DEF BrokerStep, TypeOK
  <2>2. CASE at # "boot"
    BY <1>1, <2>1, <2>2, MqttClientKept DEF MqttInv, EarlyMqttEventsKept
  <2>3. CASE at = "boot"
    BY <1>1, <2>1, <2>3 DEF MqttInv, NoneDropped, EarlyMqttEventsKept
  <2>4. QED
    BY <2>2, <2>3
<1>10. CASE UNCHANGED vars
  BY <1>1, <1>10 DEF vars, brokerVars, MqttInv, NoneDropped, EarlyMqttEventsKept
<1>11. QED
  BY <1>1, <1>4, <1>5, <1>7, <1>8, <1>9, <1>10
  DEF Next, DatabaseFault, Crash

(***************************************************************************)
(* No event disappears without its fate saying so, and none for want of an *)
(* MQTT client that is there (app.js:90-96).                               *)
(***************************************************************************)
THEOREM EventsAccountedFor == Spec => []EventsAccounted
<1>1. Init => MqttInv
  BY DEF Init, MqttInv, NoneDropped, EarlyMqttEventsKept
<1>2. Accounted /\ MqttInv => EventsAccounted
  BY DEF EventsAccounted, MqttInv
<1>3. QED
  BY <1>1, <1>2, MqttStep, FeedCorrect, TypeCorrect, PTL DEF Spec

\* A subscriber that hears of the first state of a process finds it in the tree
\* (engineListener.js:28-49).
THEOREM FirstEventFound == Spec => []FirstEventIsInTree
  BY FeedCorrect, PTL

\* Without failures, a process the tree misses overtook its parent, or its
\* parent is missing in turn (engineListener.js:16-41).
THEOREM MissingExplained == Spec => []MissingOnlyByOvertaking
  BY TreeCorrect, PTL

(***************************************************************************)
(* The listener, with its tree, its races, its failures and its brokers,   *)
(* implements the feed that StateFeed promises to subscribers.             *)
(***************************************************************************)
THEOREM FeedRefined == Spec => FeedImplemented
<1> USE DEF InFlight
<1>1. Init => Feed!FeedInit
  BY DEF Init, Feed!FeedInit
<1>2. TypeOK /\ TreeInv /\ [Next]_vars => [Feed!FeedNext]_(Feed!feedVars)
  <2> SUFFICES ASSUME TypeOK, TreeInv, [Next]_vars
               PROVE  Feed!FeedNext \/ UNCHANGED Feed!feedVars
    OBVIOUS
  <2> DEFINE Held == {p \in Processes : listener[p] \in InFlight}
  <2>1. ASSUME NEW p \in Processes, NEW q \in Processes \cup {NoParent},
               CreateProcess(p, q)
        PROVE  Feed!First(p)
    <3>1. Held' = Held \cup {p}
      BY <2>1 DEF CreateProcess, TypeOK
    <3> QED
      BY <2>1, <3>1 DEF CreateProcess, Feed!First
  <2>2. ASSUME NEW p \in Processes, CreateState(p)
        PROVE  Feed!Later(p)
    <3>1. Held' = Held /\ (EngineAwaits => p \notin Held)
      BY <2>2 DEF CreateState, EngineFree
    <3> QED
      BY <2>2, <3>1 DEF CreateState, Announce, Feed!Later
  <2>3. ASSUME NEW p \in Processes,
               TreeWritten(p) \/ TreeRefused(p) \/ DatabaseFault(p)
        PROVE  UNCHANGED Feed!feedVars
    <3>1. Held' = Held
      BY <2>3 DEF TreeWritten, TreeRefused, DatabaseFault, TypeOK
    <3> QED
      BY <2>3, <3>1
      DEF TreeWritten, TreeRefused, DatabaseFault, Feed!feedVars
  <2>4. ASSUME NEW p \in Processes, Listener(p)
        PROVE  Feed!Release(p)
    <3>1. p \in Held /\ Held' = Held \ {p}
      BY <2>4 DEF Listener, ListenerResumes, ListenerThrows, TypeOK
    <3> QED
      BY <2>4, <3>1
      DEF Listener, ListenerResumes, ListenerThrows, Announce, Feed!Release
  <2>5. CASE BrokerStep
    BY <2>5 DEF BrokerStep, Feed!feedVars
  <2>6. CASE Crash
    <3>1. Held' = {}
      BY <2>6 DEF Crash
    <3> QED
      BY <2>6, <3>1 DEF Crash, Feed!Forget, Feed!FeedNext
  <2>7. CASE UNCHANGED vars
    BY <2>7 DEF vars, Feed!feedVars
  <2> QED
    BY <2>1, <2>2, <2>3, <2>4, <2>5, <2>6, <2>7
    DEF Next, Engine, Database, Feed!FeedNext
<1>3. QED
  BY <1>1, <1>2, InitTree, TreeStep, TypeCorrect, PTL
  DEF Spec, FeedImplemented, Feed!FeedSpec
=============================================================================
