------------------------ MODULE ActivityControlProofs ------------------------
(***************************************************************************)
(* Theorems about ActivityControl, for any managers, processes and number  *)
(* of requests, whatever the engine does to a manager and however often    *)
(* the server stops.                                                       *)
(*                                                                         *)
(* The inductive invariant says of each manager what its announcements     *)
(* have told, and of each request which process it calls the engine with   *)
(* and what it has read.                                                   *)
(***************************************************************************)
EXTENDS ActivityControl, TLAPS

-----------------------------------------------------------------------------
(* The broker clients *)

(***************************************************************************)
(* A message ends in one of the outcomes, whatever broker is named.        *)
(***************************************************************************)
LEMMA PublishOutcome ==
    ASSUME NEW payload, NEW broker
    PROVE  publishMessage(payload, broker) \subseteq Outcome
  BY DEF publishMessage, PublishMqtt, PublishAmqp, PublishKafka, Outcome

(***************************************************************************)
(* The broker steps keep the types of the broker's variables.              *)
(***************************************************************************)
LEMMA BrokerType == BrokerTypeOK /\ (ConnectStep \/ ChannelClosed) => BrokerTypeOK'
<1> SUFFICES ASSUME BrokerTypeOK, ConnectStep \/ ChannelClosed
             PROVE  BrokerTypeOK'
  OBVIOUS
<1> USE DEF BrokerTypeOK, Awaits, ClientState, Brokers
<1>1. ASSUME NEW next \in Awaits, NEW clients \in [Brokers -> ClientState],
             Proceed(next, clients)
      PROVE  BrokerTypeOK'
  BY <1>1 DEF Proceed
<1>2. AfterAmqp \in Awaits /\ AfterMqtt \in Awaits
  BY DEF AfterAmqp, AfterMqtt
<1>3. CASE StartConnect
  <2>1. PICK m \in {"ready", "none"} :
             Proceed(AfterMqtt, [client EXCEPT !["MQTT"] = m])
    BY <1>3 DEF StartConnect
  <2>2. QED
    BY <2>1, <1>1, <1>2
<1>4. CASE AmqpProgress
  BY <1>4, <1>1 DEF AmqpProgress
<1>5. CASE AmqpConnected
  BY <1>5, <1>1, <1>2 DEF AmqpConnected
<1>6. CASE AmqpFailed
  BY <1>6, <1>1, <1>2 DEF AmqpFailed
<1>7. CASE KafkaConnected
  BY <1>7, <1>1 DEF KafkaConnected
<1>8. CASE KafkaFailed
  BY <1>8, <1>1 DEF KafkaFailed
<1>9. CASE ChannelClosed
  BY <1>9 DEF ChannelClosed
<1> QED
  BY <1>3, <1>4, <1>5, <1>6, <1>7, <1>8, <1>9 DEF ConnectStep

(***************************************************************************)
(* A server that has not started, or that stopped, has no client.          *)
(***************************************************************************)
LEMMA BrokerInitType == BrokerInit => BrokerTypeOK
  BY DEF BrokerInit, BrokerTypeOK, Awaits, ClientState

LEMMA BrokerStopType ==
    ASSUME at' = "boot", client' = [b \in Brokers |-> "none"]
    PROVE  BrokerTypeOK'
  BY DEF BrokerTypeOK, Awaits, ClientState

(***************************************************************************)
(* The client of MQTT is set when connect() starts and never again.        *)
(***************************************************************************)
LEMMA MqttClientKept ==
    ASSUME BrokerTypeOK, ConnectStep \/ ChannelClosed, at # "boot"
    PROVE  client'["MQTT"] = client["MQTT"] /\ at' # "boot"
  BY DEF BrokerTypeOK, ConnectStep, StartConnect, AmqpProgress, AmqpConnected,
         AmqpFailed, KafkaConnected, KafkaFailed, ChannelClosed, Proceed,
         AfterAmqp, Awaits, Brokers

-----------------------------------------------------------------------------
(* The managers *)

Addressees(m) == {"process"} \cup Audience[m]

Told(log) == {log[k].topic : k \in DOMAIN log}

\* Every message of the log tells of that manager.
Tells(log, activities, status) ==
    \A j \in DOMAIN log : log[j].activities = activities /\ log[j].status = status

Distinct(log) == \A j, k \in DOMAIN log : log[j].topic = log[k].topic => j = k

\* The messages of a log that tell of a manager as it is created.
Births(log) == {k \in DOMAIN log : log[k].activities = 0 /\ log[k].status = "started"}

Ends(log, outcomes) == \A k \in DOMAIN log : log[k].outcome \in outcomes

ManagerInv(m) ==
    IF manager[m].status = "none" THEN announced[m] = <<>> ELSE ToldOfCreation(m)

\* There is no manager before the server has started once.
NoneBeforeStart ==
    at = "boot" /\ faults = 0 => \A m \in Managers : manager[m].status = "none"

RequestInv(r) ==
    /\ req[r].process = Owner[req[r].manager]
    /\ req[r].stage \in {"idle", "fetch", "call"} => req[r].code = 0 /\ req[r].on = {}
    /\ \A m \in req[r].on : Owner[m] = req[r].process
    /\ req[r].op = "commitById" /\ req[r].code = 200 => req[r].on # {}
    /\ At(r, "expire", "background") => manager[req[r].manager].status # "none"

ActivityInv ==
    /\ TypeOK
    /\ NoneBeforeStart
    /\ \A m \in Managers : ManagerInv(m)
    /\ \A r \in Requests : RequestInv(r)

-----------------------------------------------------------------------------
(* Announcements *)

(***************************************************************************)
(* What two logs tell one after the other.                                 *)
(***************************************************************************)
LEMMA Joined ==
    ASSUME NEW s \in Seq(Announcement), NEW t \in Seq(Announcement)
    PROVE  /\ s \o t \in Seq(Announcement)
           /\ Told(s \o t) = Told(s) \cup Told(t)
           /\ \A n, x : Tells(s, n, x) /\ Tells(t, n, x) => Tells(s \o t, n, x)
           /\ \A o : Ends(s, o) /\ Ends(t, o) => Ends(s \o t, o)
           /\ Distinct(s) /\ Distinct(t) /\ Told(s) \cap Told(t) = {} => Distinct(s \o t)
           /\ Births(t) = {} =>
                 Births(s \o t) = Births(s) /\ \A k \in Births(s) : (s \o t)[k] = s[k]
<1> DEFINE u == s \o t
<1>1. /\ u \in Seq(Announcement) /\ DOMAIN u = 1..(Len(s) + Len(t))
      /\ Len(s) \in Nat /\ Len(t) \in Nat
      /\ DOMAIN s = 1..Len(s) /\ DOMAIN t = 1..Len(t)
      /\ \A i \in 1..Len(s) : u[i] = s[i]
      /\ \A i \in 1..Len(t) : u[Len(s) + i] = t[i]
  OBVIOUS
<1> HIDE DEF u
<1>2. \A i \in DOMAIN u :
          \/ i \in DOMAIN s /\ u[i] = s[i]
          \/ i - Len(s) \in DOMAIN t /\ u[i] = t[i - Len(s)] /\ i > Len(s)
  <2>1. SUFFICES ASSUME NEW i \in 1..(Len(s) + Len(t)), i > Len(s)
                 PROVE  i - Len(s) \in 1..Len(t) /\ u[i] = t[i - Len(s)]
    BY <1>1
  <2>2. i - Len(s) \in 1..Len(t) /\ Len(s) + (i - Len(s)) = i
    BY <1>1, <2>1
  <2>3. QED
    BY <1>1, <2>2
<1>3. \A i \in DOMAIN s : i \in DOMAIN u
  BY <1>1
<1>4. \A i \in DOMAIN t : Len(s) + i \in DOMAIN u
  BY <1>1
<1>5. Told(u) = Told(s) \cup Told(t)
  <2>1. Told(u) \subseteq Told(s) \cup Told(t)
    BY <1>2 DEF Told
  <2>2. Told(s) \subseteq Told(u)
    BY <1>1, <1>3 DEF Told
  <2>3. \A i \in DOMAIN t : t[i].topic \in Told(u)
    BY <1>1, <1>4 DEF Told
  <2>4. Told(t) \subseteq Told(u)
    BY <2>3 DEF Told
  <2>5. QED
    BY <2>1, <2>2, <2>4
<1>6. ASSUME NEW n, NEW x, Tells(s, n, x), Tells(t, n, x)
      PROVE  Tells(u, n, x)
  BY <1>2, <1>6 DEF Tells
<1>7. ASSUME Distinct(s), Distinct(t), Told(s) \cap Told(t) = {}
      PROVE  Distinct(u)
  <2>1. SUFFICES ASSUME NEW j \in DOMAIN u, NEW k \in DOMAIN u, u[j].topic = u[k].topic
                 PROVE  j = k
    BY DEF Distinct
  <2>2. CASE j \in DOMAIN s /\ u[j] = s[j] /\ k \in DOMAIN s /\ u[k] = s[k]
    BY <1>7, <2>1, <2>2 DEF Distinct
  <2>3. ASSUME j - Len(s) \in DOMAIN t, u[j] = t[j - Len(s)],
               k - Len(s) \in DOMAIN t, u[k] = t[k - Len(s)]
        PROVE  j = k
    <3>1. j - Len(s) = k - Len(s)
      BY <1>7, <2>1, <2>3 DEF Distinct
    <3>2. QED
      BY <1>1, <3>1
  <2>4. ASSUME NEW v \in DOMAIN s, NEW w \in DOMAIN t
        PROVE  s[v].topic # t[w].topic
    BY <1>7 DEF Told
  <2>5. QED
    BY <1>2, <2>1, <2>2, <2>3, <2>4
<1>8. ASSUME NEW o, Ends(s, o), Ends(t, o)
      PROVE  Ends(u, o)
  BY <1>2, <1>8 DEF Ends
<1>9. ASSUME Births(t) = {}
      PROVE  Births(u) = Births(s) /\ \A k \in Births(s) : u[k] = s[k]
  <2>1. \A k \in DOMAIN t : ~ (t[k].activities = 0 /\ t[k].status = "started")
    BY <1>9 DEF Births
  <2>2. \A k \in Births(s) : u[k] = s[k] /\ k \in Births(u)
    BY <1>1, <1>3 DEF Births
  <2>3. \A k \in Births(u) : k \in Births(s)
    BY <1>2, <2>1 DEF Births
  <2>4. QED
    BY <2>2, <2>3
<1>10. QED
  BY <1>1, <1>5, <1>6, <1>7, <1>8, <1>9 DEF u

LEMMA One ==
    ASSUME NEW x \in Announcement
    PROVE  /\ <<x>> \in Seq(Announcement) /\ Told(<<x>>) = {x.topic}
           /\ Tells(<<x>>, x.activities, x.status) /\ Distinct(<<x>>)
           /\ Ends(<<x>>, {x.outcome})
  BY DEF Told, Tells, Distinct, Ends

LEMMA Nothing ==
    /\ <<>> \in Seq(Announcement) /\ Told(<<>>) = {}
    /\ \A n, x : Tells(<<>>, n, x)
    /\ \A o : Ends(<<>>, o)
    /\ Distinct(<<>>)
  BY DEF Told, Tells, Distinct, Ends

(***************************************************************************)
(* The messages of one change: one for each of the audience of the input,  *)
(* and one for the process.                                                *)
(***************************************************************************)
LEMMA MessagesTell ==
    ASSUME NEW m \in Manager, NEW audience \in SUBSET {"session", "actor"},
           NEW outcome, NEW outcomes \in SUBSET Outcome,
           \A topic \in Topics : outcome[topic] \in outcomes
    PROVE  LET log == Messages(m, audience, outcome)
           IN  /\ log \in Seq(Announcement)
               /\ Told(log) = {"process"} \cup audience
               /\ Tells(log, m.activities, m.status) /\ Distinct(log)
               /\ Ends(log, outcomes)
<1>1. ASSUME NEW topic \in Topics
      PROVE  /\ Message(topic, m, outcome) \in Announcement
             /\ Message(topic, m, outcome).topic = topic
             /\ Message(topic, m, outcome).activities = m.activities
             /\ Message(topic, m, outcome).status = m.status
             /\ Message(topic, m, outcome).outcome \in outcomes
  BY DEF Message, Announcement, Manager
<1> DEFINE Has(log, topics) ==
               /\ log \in Seq(Announcement) /\ Told(log) = topics
               /\ Tells(log, m.activities, m.status) /\ Distinct(log)
               /\ Ends(log, outcomes)
           second == IF "session" \in audience THEN <<Message("session", m, outcome)>> ELSE <<>>
           third == IF "actor" \in audience THEN <<Message("actor", m, outcome)>> ELSE <<>>
<1>2. ASSUME NEW topic \in Topics
      PROVE  Has(<<Message(topic, m, outcome)>>, {topic})
  BY <1>1, One DEF Ends
<1>3. Has(<<>>, {})
  BY Nothing
<1>4. Has(<<Message("process", m, outcome)>>, {"process"})
  BY <1>2 DEF Topics
<1>5. Has(second, {"session"} \cap audience)
  <2>1. CASE "session" \in audience
    BY <2>1, <1>2 DEF Topics
  <2>2. CASE "session" \notin audience
    <3>1. {"session"} \cap audience = {} /\ second = <<>>
      BY <2>2
    <3>2. QED
      BY <3>1, <1>3
  <2>3. QED
    BY <2>1, <2>2
<1>6. Has(third, {"actor"} \cap audience)
  <2>1. CASE "actor" \in audience
    BY <2>1, <1>2 DEF Topics
  <2>2. CASE "actor" \notin audience
    <3>1. {"actor"} \cap audience = {} /\ third = <<>>
      BY <2>2
    <3>2. QED
      BY <3>1, <1>3
  <2>3. QED
    BY <2>1, <2>2
<1> HIDE DEF second, third
<1>7. Has(<<Message("process", m, outcome)>> \o second, {"process"} \cup ({"session"} \cap audience))
  <2>1. {"process"} \cap ({"session"} \cap audience) = {}
    OBVIOUS
  <2>2. QED
    BY <1>4, <1>5, <2>1, Joined
<1>8. Has((<<Message("process", m, outcome)>> \o second) \o third, {"process"} \cup audience)
  <2>1. ({"process"} \cup ({"session"} \cap audience)) \cap ({"actor"} \cap audience) = {}
    OBVIOUS
  <2>2. ({"process"} \cup ({"session"} \cap audience)) \cup ({"actor"} \cap audience)
            = {"process"} \cup audience
    OBVIOUS
  <2>3. QED
    BY <1>6, <1>7, <2>1, <2>2, Joined
<1>9. Messages(m, audience, outcome) = (<<Message("process", m, outcome)>> \o second) \o third
  BY DEF Messages, second, third
<1>10. QED
  BY <1>8, <1>9

(***************************************************************************)
(* Over MQTT the messages of one change have the same end, and only fall   *)
(* to a server without client.                                             *)
(***************************************************************************)
LEMMA MqttAlike ==
    ASSUME ManagerBroker = "MQTT"
    PROVE  \E outcome \in {"sent", "dropped", "ignored"} :
              /\ \A topic : Outcomes(topic) = {outcome}
              /\ outcome = "dropped" => client["MQTT"] = "none"
<1>1. CASE "MQTT" \notin Enabled
  BY <1>1 DEF Outcomes, publishMessage
<1>2. CASE "MQTT" \in Enabled /\ client["MQTT"] = "none"
  BY <1>2 DEF Outcomes, publishMessage, PublishMqtt
<1>3. CASE "MQTT" \in Enabled /\ client["MQTT"] # "none"
  BY <1>3 DEF Outcomes, publishMessage, PublishMqtt, ManagerPayload
<1>4. QED
  BY <1>1, <1>2, <1>3

(***************************************************************************)
(* What has been told of a manager's creation stays so.                    *)
(***************************************************************************)
LEMMA InvKept ==
    ASSUME NEW m \in Managers, ManagerInv(m),
           manager'[m] = manager[m], announced'[m] = announced[m],
           client["MQTT"] = "none" \/ faults > 0
             => client'["MQTT"] = "none" \/ faults' > 0
    PROVE  ManagerInv(m)'
  BY DEF ManagerInv, ToldOfCreation, Creation

(***************************************************************************)
(* A manager is created, or one that is there is changed for good.         *)
(***************************************************************************)
LEMMA WritesKeeps ==
    ASSUME TypeOK, \A n \in Managers : ManagerInv(n),
           NEW m \in Managers, NEW new \in Manager, Writes(m, new),
           new.status # "none", UNCHANGED <<client, faults>>,
           IF manager[m].status = "none"
           THEN new.activities = 0 /\ new.status = "started"
           ELSE new.activities > 0 \/ new.status # "started"
    PROVE  /\ manager' \in [Managers -> Manager]
           /\ announced' \in [Managers -> Seq(Announcement)]
           /\ \A n \in Managers : ManagerInv(n)'
           /\ \A n \in Managers :
                 manager[n].status # "none" => manager'[n].status # "none"
<1> DEFINE log == announced[m]
<1>1. Audience[m] \in SUBSET {"session", "actor"}
  BY ActivityAssumption
<1>2. /\ manager \in [Managers -> Manager]
      /\ announced \in [Managers -> Seq(Announcement)]
      /\ manager' = [manager EXCEPT ![m] = new]
      /\ log \in Seq(Announcement)
  BY DEF TypeOK, Writes
<1>3. /\ manager' \in [Managers -> Manager] /\ manager'[m] = new
      /\ \A n \in Managers : n # m => manager'[n] = manager[n]
  BY <1>2
<1>4. ASSUME NEW sent, announced' = [announced EXCEPT ![m] = @ \o sent],
             sent \in Seq(Announcement), Told(sent) = Addressees(m),
             Tells(sent, new.activities, new.status), Distinct(sent),
             ManagerBroker = "MQTT" =>
                \E outcome \in {"sent", "dropped", "ignored"} :
                    /\ Ends(sent, {outcome})
                    /\ outcome = "dropped" => client["MQTT"] = "none",
             ~ Skipped(new)
      PROVE  announced' \in [Managers -> Seq(Announcement)] /\ ManagerInv(m)'
             /\ \A n \in Managers : n # m => announced'[n] = announced[n]
  <2>1. /\ log \o sent \in Seq(Announcement) /\ announced'[m] = log \o sent
        /\ announced' \in [Managers -> Seq(Announcement)]
        /\ \A n \in Managers : n # m => announced'[n] = announced[n]
    BY <1>2, <1>4, Joined
  <2>2. CASE manager[m].status = "none"
    <3>1. announced'[m] = sent
      BY <1>4, <2>1, <2>2 DEF ManagerInv
    <3>2. Births(sent) = DOMAIN sent
      BY <1>4, <2>2 DEF Births, Tells
    <3>3. Creation(m)' = DOMAIN sent
      BY <3>1, <3>2 DEF Creation, Births
    <3>4. {sent[k].topic : k \in Creation(m)'} = {"process"} \cup Audience[m]
      BY <1>4, <3>3 DEF Told, Addressees
    <3>5. \A j, k \in Creation(m)' : sent[j].topic = sent[k].topic => j = k
      BY <1>4, <3>3 DEF Distinct
    <3>6. ManagerBroker = "MQTT" =>
              \E outcome \in {"sent", "dropped", "ignored"} :
                  /\ \A k \in Creation(m)' : sent[k].outcome = outcome
                  /\ outcome = "dropped" => client'["MQTT"] = "none" \/ faults' > 0
      BY <1>4, <3>3 DEF Ends
    <3>7. ToldOfCreation(m)'
      BY <3>1, <3>3, <3>4, <3>5, <3>6 DEF ToldOfCreation
    <3>8. QED
      BY <1>3, <2>1, <3>7 DEF ManagerInv
  <2>3. CASE manager[m].status # "none"
    <3>1. ~ OnlyOnCreation /\ ToldOfCreation(m)
      BY <1>4, <2>3 DEF Skipped, ManagerInv
    <3>2. Births(sent) = {}
      <4>1. \A k \in DOMAIN sent : sent[k].activities = new.activities
                                  /\ sent[k].status = new.status
        BY <1>4 DEF Tells
      <4>2. ~ (new.activities = 0 /\ new.status = "started")
        BY <2>3
      <4>3. QED
        BY <4>1, <4>2 DEF Births
    <3>3. /\ Births(log \o sent) = Births(log)
          /\ \A k \in Births(log) : (log \o sent)[k] = log[k]
      BY <1>2, <1>4, <3>2, Joined
    <3>4. Creation(m)' = Creation(m)
      BY <2>1, <3>3 DEF Creation, Births
    <3>5. \A k \in Creation(m) : announced'[m][k] = announced[m][k]
      BY <2>1, <3>3 DEF Creation, Births
    <3>6. ToldOfCreation(m)'
      BY <3>1, <3>4, <3>5 DEF ToldOfCreation
    <3>7. QED
      BY <1>3, <2>1, <3>6 DEF ManagerInv
  <2>4. QED
    BY <2>1, <2>2, <2>3
<1>5. announced' \in [Managers -> Seq(Announcement)] /\ ManagerInv(m)'
      /\ \A n \in Managers : n # m => announced'[n] = announced[n]
  <2>1. CASE Skipped(new)
    <3>1. announced' = announced /\ manager[m].status # "none" /\ ToldOfCreation(m)
      <4>1. announced' = announced
        BY <2>1 DEF Writes
      <4>2. manager[m].status # "none"
        BY <2>1 DEF Skipped
      <4>3. QED
        BY <4>1, <4>2 DEF ManagerInv
    <3>2. ToldOfCreation(m)'
      BY <3>1 DEF ToldOfCreation, Creation
    <3>3. QED
      BY <1>2, <1>3, <3>1, <3>2 DEF ManagerInv
  <2>2. CASE ~ Skipped(new)
    <3>1. PICK p \in Outcomes("process"), s \in Outcomes("session"),
               a \in Outcomes("actor") :
            announced' = [announced EXCEPT ![m] = @ \o
                  Messages(new, Audience[m],
                           [process |-> p, session |-> s, actor |-> a])]
      BY <2>2 DEF Writes
    <3>2. PICK outcome : outcome = [process |-> p, session |-> s, actor |-> a]
      OBVIOUS
    <3>3. p \in Outcome /\ s \in Outcome /\ a \in Outcome
      BY PublishOutcome DEF Outcomes
    <3>4. \A topic \in Topics : outcome[topic] \in {p, s, a}
      BY <3>2 DEF Topics
    <3>5. PICK sent : sent = Messages(new, Audience[m], outcome)
      OBVIOUS
    <3>6. /\ sent \in Seq(Announcement) /\ Told(sent) = {"process"} \cup Audience[m]
          /\ Tells(sent, new.activities, new.status) /\ Distinct(sent)
          /\ Ends(sent, {p, s, a})
      <4>1. {p, s, a} \in SUBSET Outcome
        BY <3>3
      <4>2. QED
        BY <1>1, <3>4, <3>5, <4>1, MessagesTell
    <3>7. ManagerBroker = "MQTT" =>
             \E o \in {"sent", "dropped", "ignored"} :
                 Ends(sent, {o}) /\ (o = "dropped" => client["MQTT"] = "none")
      <4>1. SUFFICES ASSUME ManagerBroker = "MQTT"
                     PROVE  \E o \in {"sent", "dropped", "ignored"} :
                               Ends(sent, {o}) /\ (o = "dropped" => client["MQTT"] = "none")
        OBVIOUS
      <4>2. PICK o \in {"sent", "dropped", "ignored"} :
                /\ \A topic : Outcomes(topic) = {o}
                /\ o = "dropped" => client["MQTT"] = "none"
        BY <4>1, MqttAlike
      <4>3. p = o /\ s = o /\ a = o
        BY <4>2
      <4>4. {p, s, a} = {o}
        BY <4>3
      <4>5. QED
        BY <3>6, <4>2, <4>4
    <3>8. announced' = [announced EXCEPT ![m] = @ \o sent]
      BY <3>1, <3>2, <3>5
    <3>9. Told(sent) = Addressees(m)
      BY <3>6 DEF Addressees
    <3>10. QED
      BY <1>4, <2>2, <3>6, <3>7, <3>8, <3>9
  <2>3. QED
    BY <2>1, <2>2
<1>6. \A n \in Managers : ManagerInv(n)'
  <2>1. \A n \in Managers : n # m => ManagerInv(n)'
    BY <1>3, <1>5, InvKept
  <2>2. QED
    BY <1>5, <2>1
<1>7. QED
  BY <1>3, <1>5, <1>6

-----------------------------------------------------------------------------
(* Requests *)

OthersKept(r) == \A s \in Requests : s # r => req'[s] = req[s]

\* The records Answers, AnswersOn and Receive put in the place of q.
Answered(q, code) == [q EXCEPT !.stage = "answered", !.code = code]

Asking(q, op, m, stage) ==
    [q EXCEPT !.op = op, !.manager = m, !.process = Owner[m], !.stage = stage]

\* A request with another value in one field is a request.
LEMMA OpField ==
    ASSUME NEW q \in Request, NEW x \in Operations
    PROVE  [q EXCEPT !.op = x] \in Request
  BY SMTT(60) DEF Request

LEMMA ManagerField ==
    ASSUME NEW q \in Request, NEW x \in Managers
    PROVE  [q EXCEPT !.manager = x] \in Request
  BY SMTT(60) DEF Request

LEMMA ProcessField ==
    ASSUME NEW q \in Request, NEW x \in Processes
    PROVE  [q EXCEPT !.process = x] \in Request
  BY SMTT(60) DEF Request

LEMMA StageField ==
    ASSUME NEW q \in Request, NEW x \in Stages
    PROVE  [q EXCEPT !.stage = x] \in Request
  BY SMTT(60) DEF Request

LEMMA OnField ==
    ASSUME NEW q \in Request, NEW x \in SUBSET Managers
    PROVE  [q EXCEPT !.on = x] \in Request
  BY SMTT(60) DEF Request

LEMMA AnsweredIs ==
    ASSUME NEW q \in Request, NEW code \in {0, 200, 202, 400, 404, 409, 422, 500}
    PROVE  Answered(q, code) \in Request
<1>1. PICK stage \in Stages : stage = "answered"
  BY DEF Stages
<1>2. PICK q1 \in Request : q1 = [q EXCEPT !.stage = stage]
  BY StageField
<1>3. [q1 EXCEPT !.code = code] \in Request
  BY SMTT(60) DEF Request
<1>4. Answered(q, code) = [q1 EXCEPT !.code = code]
  BY <1>1, <1>2 DEF Request, Answered
<1>5. QED
  BY <1>3, <1>4

LEMMA AskingIs ==
    ASSUME NEW q \in Request, NEW op \in Operations, NEW m \in Managers,
           NEW stage \in Stages
    PROVE  Asking(q, op, m, stage) \in Request
<1>1. PICK q1 \in Request : q1 = [q EXCEPT !.op = op, !.manager = m]
  <2>1. PICK q0 \in Request : q0 = [q EXCEPT !.op = op]
    BY OpField
  <2>2. [q0 EXCEPT !.manager = m] \in Request
    BY ManagerField
  <2>3. QED
    BY <2>1, <2>2 DEF Request
<1>2. Owner[m] \in Processes
  BY ActivityAssumption
<1>3. PICK q2 \in Request : q2 = [q1 EXCEPT !.process = Owner[m]]
  BY <1>2, ProcessField
<1>4. [q2 EXCEPT !.stage = stage] \in Request
  BY StageField
<1>5. Asking(q, op, m, stage) = [q2 EXCEPT !.stage = stage]
  BY <1>1, <1>3 DEF Request, Asking
<1>6. QED
  BY <1>4, <1>5

LEMMA AnswersDoes ==
    ASSUME TypeOK, NEW r \in Requests,
           NEW code \in {0, 200, 202, 400, 404, 409, 422, 500}, Answers(r, code)
    PROVE  /\ req' \in [Requests -> Request] /\ OthersKept(r)
           /\ req'[r].stage = "answered" /\ req'[r].code = code
           /\ req'[r].op = req[r].op /\ req'[r].manager = req[r].manager
           /\ req'[r].process = req[r].process /\ req'[r].on = req[r].on
<1>1. req[r] \in Request /\ req \in [Requests -> Request]
  BY DEF TypeOK
<1>2. req'[r] = Answered(req[r], code)
  BY <1>1 DEF Answers, Answered
<1>3. req'[r] \in Request
  BY <1>1, <1>2, AnsweredIs
<1>4. req' \in [Requests -> Request] /\ OthersKept(r)
  BY <1>1, <1>3 DEF Answers, OthersKept
<1>5. QED
  BY <1>1, <1>2, <1>4 DEF Request, Answered

LEMMA AnswersOnDoes ==
    ASSUME TypeOK, NEW r \in Requests, NEW m \in Managers,
           NEW code \in {200, 202, 400, 404, 422, 500}, AnswersOn(r, m, code)
    PROVE  /\ req' \in [Requests -> Request] /\ OthersKept(r)
           /\ req'[r].stage = "answered" /\ req'[r].code = code
           /\ req'[r].op = req[r].op /\ req'[r].manager = req[r].manager
           /\ req'[r].process = req[r].process /\ req'[r].on = {m}
<1>1. req[r] \in Request /\ req \in [Requests -> Request]
  BY DEF TypeOK
<1>3. req'[r] = [req[r] EXCEPT !.stage = "answered", !.code = code, !.on = {m}]
  BY <1>1 DEF AnswersOn
<1>4. req'[r] \in Request
  <2>1. code \in {0, 200, 202, 400, 404, 409, 422, 500}
    OBVIOUS
  <2>2. PICK q \in Request : q = Answered(req[r], code)
    BY <1>1, <2>1, AnsweredIs
  <2>3. [q EXCEPT !.on = {m}] \in Request
    BY OnField
  <2>4. req'[r] = [q EXCEPT !.on = {m}]
    BY <1>1, <1>3, <2>2 DEF Request, Answered
  <2>5. QED
    BY <2>3, <2>4
<1>5. req' \in [Requests -> Request] /\ OthersKept(r)
  BY <1>1, <1>4 DEF AnswersOn, OthersKept
<1>6. QED
  BY <1>1, <1>3, <1>5 DEF Request

(***************************************************************************)
(* A step of r, or of the engine, as far as r keeps its part: no manager   *)
(* goes back to not being created.                                         *)
(***************************************************************************)
LEMMA RequestKept ==
    ASSUME TypeOK, NEW s \in Requests, req'[s] = req[s], RequestInv(s),
           \A n \in Managers : manager[n].status # "none" => manager'[n].status # "none"
    PROVE  RequestInv(s)'
<1>1. req[s].manager \in Managers
  BY DEF TypeOK, Request
<1>2. QED
  BY <1>1 DEF RequestInv, At

LEMMA QuietStep ==
    ASSUME ActivityInv, NEW r \in Requests,
           UNCHANGED <<at, client, manager, announced, faults>>,
           req' \in [Requests -> Request], OthersKept(r), RequestInv(r)'
    PROVE  ActivityInv'
<1>1. TypeOK /\ TypeOK'
  BY DEF ActivityInv, TypeOK, BrokerTypeOK
<1>2. \A m \in Managers : ManagerInv(m)'
  BY InvKept DEF ActivityInv
<1>3. \A s \in Requests : RequestInv(s)'
  BY <1>1, RequestKept DEF ActivityInv, OthersKept
<1>4. NoneBeforeStart'
  BY DEF ActivityInv, NoneBeforeStart
<1>5. QED
  BY <1>1, <1>2, <1>3, <1>4 DEF ActivityInv

LEMMA WritingStep ==
    ASSUME ActivityInv, NEW m \in Managers, NEW new \in Manager, Writes(m, new),
           UNCHANGED <<at, client, faults>>, at # "boot" \/ manager[m].status # "none",
           new.status # "none",
           IF manager[m].status = "none"
           THEN new.activities = 0 /\ new.status = "started"
           ELSE new.activities > 0 \/ new.status # "started",
           req' \in [Requests -> Request],
           \A s \in Requests : req'[s] = req[s] \/ RequestInv(s)'
    PROVE  ActivityInv'
<1>1. /\ TypeOK
      /\ manager' \in [Managers -> Manager]
      /\ announced' \in [Managers -> Seq(Announcement)]
      /\ \A n \in Managers : ManagerInv(n)'
      /\ \A n \in Managers : manager[n].status # "none" => manager'[n].status # "none"
  BY WritesKeeps DEF ActivityInv
<1>2. TypeOK'
  BY <1>1 DEF TypeOK, BrokerTypeOK
<1>3. \A s \in Requests : RequestInv(s)'
  BY <1>1, RequestKept DEF ActivityInv
<1>4. NoneBeforeStart'
  BY DEF ActivityInv, NoneBeforeStart
<1>5. QED
  BY <1>1, <1>2, <1>3, <1>4 DEF ActivityInv

-----------------------------------------------------------------------------
(* Steps *)

LEMMA InitActivity == Init => ActivityInv
<1>1. SUFFICES ASSUME Init PROVE ActivityInv
  OBVIOUS
<1>2. BrokerTypeOK /\ faults \in 0..MaxFaults
  BY <1>1, BrokerInitType, ActivityAssumption DEF Init
<1>3. \A m \in Managers : manager[m] \in Manager /\ manager[m].status = "none"
                          /\ announced[m] = <<>>
  BY <1>1 DEF Init, Manager, ManagerStatus
<1>4. manager \in [Managers -> Manager] /\ announced \in [Managers -> Seq(Announcement)]
  BY <1>1, <1>3, Nothing DEF Init
<1>5. PICK m \in Managers :
          req = [r \in Requests |->
                   [op |-> "commit", manager |-> m, process |-> Owner[m],
                    stage |-> "idle", on |-> {}, code |-> 0]]
  BY <1>1 DEF Init
<1>6. Owner[m] \in Processes
  BY ActivityAssumption
<1>7. req \in [Requests -> Request]
  BY <1>5, <1>6 DEF Request, Operations, Stages, ManagerStatus
<1>8. \A r \in Requests : RequestInv(r)
  BY <1>5 DEF RequestInv, At
<1>9. \A n \in Managers : ManagerInv(n)
  BY <1>3, Nothing DEF ManagerInv
<1>10. NoneBeforeStart
  BY <1>3 DEF NoneBeforeStart
<1>11. QED
  BY <1>2, <1>4, <1>7, <1>8, <1>9, <1>10 DEF ActivityInv, TypeOK

LEMMA EngineStep ==
    ASSUME ActivityInv, NEW m \in Managers, ManagerCreated(m) \/ ManagerEnds(m)
    PROVE  ActivityInv'
<1>1. req \in [Requests -> Request] /\ manager[m] \in Manager
  BY DEF ActivityInv, TypeOK
<1>2. CASE ManagerCreated(m)
  <2>1. PICK new \in Manager : new = [status |-> "started", activities |-> 0]
    BY DEF Manager, ManagerStatus
  <2>2. /\ Writes(m, new) /\ manager[m].status = "none" /\ req' = req /\ at # "boot"
        /\ UNCHANGED <<at, client, faults>>
    BY <1>2, <2>1 DEF ManagerCreated, brokerVars
  <2>3. QED
    BY <1>1, <2>1, <2>2, WritingStep
<1>3. CASE ManagerEnds(m)
  <2>1. PICK s \in {"completed", "interrupted"} :
            Writes(m, [manager[m] EXCEPT !.status = s])
    BY <1>3 DEF ManagerEnds
  <2>2. PICK new \in Manager : new = [manager[m] EXCEPT !.status = s]
    BY <1>1 DEF Manager, ManagerStatus
  <2>3. /\ Writes(m, new) /\ manager[m].status = "started" /\ req' = req /\ at # "boot"
        /\ UNCHANGED <<at, client, faults>> /\ new.status = s
    BY <1>1, <1>3, <2>1, <2>2 DEF ManagerEnds, brokerVars, Manager
  <2>4. QED
    BY <1>1, <2>3, WritingStep
<1>4. QED
  BY <1>2, <1>3

LEMMA ReceiveStep ==
    ASSUME ActivityInv, NEW r \in Requests, NEW op \in Operations, NEW m \in Managers,
           Receive(r, op, m)
    PROVE  ActivityInv'
<1>1. req[r] \in Request /\ req \in [Requests -> Request]
  BY DEF ActivityInv, TypeOK
<1>2. PICK stage \in {"fetch", "call"} :
          stage = IF op \in {"commitById", "expire"} THEN "fetch" ELSE "call"
  OBVIOUS
<1>3. req' = [req EXCEPT ![r] = Asking(req[r], op, m, stage)]
  BY <1>1, <1>2 DEF Receive, Asking
<1>4. Asking(req[r], op, m, stage) \in Request
  BY <1>1, AskingIs DEF Stages
<1>5. req' \in [Requests -> Request] /\ OthersKept(r)
  BY <1>1, <1>3, <1>4 DEF OthersKept
<1>6. /\ req'[r].stage = stage /\ req'[r].manager = m /\ req'[r].process = Owner[m]
      /\ req'[r].code = req[r].code /\ req'[r].on = req[r].on
  BY <1>1, <1>3 DEF Asking, Request
<1>7. req[r].stage = "idle" /\ RequestInv(r)
  BY DEF Receive, ActivityInv
<1>8. RequestInv(r)'
  BY <1>6, <1>7 DEF RequestInv, At
<1>9. QED
  BY <1>5, <1>8, QuietStep DEF Receive, brokerVars

LEMMA ReadFailsStep ==
    ASSUME ActivityInv, NEW r \in Requests, ReadFails(r)
    PROVE  ActivityInv'
<1>1. TypeOK /\ RequestInv(r) /\ req[r].stage = "fetch" /\ Answers(r, 500)
  BY DEF ActivityInv, ReadFails
<1>2. /\ req' \in [Requests -> Request] /\ OthersKept(r)
      /\ req'[r].stage = "answered" /\ req'[r].code = 500
      /\ req'[r].op = req[r].op /\ req'[r].manager = req[r].manager
      /\ req'[r].process = req[r].process /\ req'[r].on = req[r].on
  BY <1>1, AnswersDoes
<1>3. RequestInv(r)'
  BY <1>1, <1>2 DEF RequestInv, At
<1>4. QED
  BY <1>2, <1>3, QuietStep DEF ReadFails, brokerVars

LEMMA ByIdFetchedStep ==
    ASSUME ActivityInv, NEW r \in Requests, ByIdFetched(r)
    PROVE  ActivityInv'
<1>1. /\ TypeOK /\ RequestInv(r) /\ At(r, "commitById", "fetch")
      /\ req[r] \in Request /\ req \in [Requests -> Request]
      /\ UNCHANGED <<at, client, manager, announced, faults>>
  BY DEF ActivityInv, ByIdFetched, TypeOK, brokerVars
<1>2. CASE Answers(r, 404)
  <2>1. /\ req' \in [Requests -> Request] /\ OthersKept(r)
        /\ req'[r].stage = "answered" /\ req'[r].code = 404
        /\ req'[r].op = req[r].op /\ req'[r].manager = req[r].manager
        /\ req'[r].process = req[r].process /\ req'[r].on = req[r].on
    BY <1>1, <1>2, AnswersDoes
  <2>2. RequestInv(r)'
    BY <1>1, <2>1 DEF RequestInv, At
  <2>3. QED
    BY <1>1, <2>1, <2>2, QuietStep
<1>3. CASE req' = [req EXCEPT ![r].stage = "call", ![r].process = Owner[req[r].manager]]
  <2>1. PICK p \in Processes : p = Owner[req[r].manager]
    BY <1>1, ActivityAssumption DEF Request
  <2>2. req'[r] = [req[r] EXCEPT !.stage = "call", !.process = p]
    BY <1>1, <1>3, <2>1
  <2>3. req'[r] \in Request
    <3>0. "call" \in Stages
      BY DEF Stages
    <3>1. PICK q \in Request : q = [req[r] EXCEPT !.stage = "call"]
      BY <1>1, <3>0, StageField
    <3>2. [q EXCEPT !.process = p] \in Request
      BY ProcessField
    <3>3. QED
      BY <1>1, <2>2, <3>1, <3>2 DEF Request
  <2>4. req' \in [Requests -> Request] /\ OthersKept(r)
    BY <1>1, <1>3, <2>3 DEF OthersKept
  <2>5. RequestInv(r)'
    BY <1>1, <2>1, <2>2 DEF RequestInv, At, Request
  <2>6. QED
    BY <1>1, <2>4, <2>5, QuietStep
<1>4. QED
  BY <1>2, <1>3 DEF ByIdFetched

\* An answer without a change by the engine, of a request that had called it.
LEMMA RefusedStep ==
    ASSUME ActivityInv, NEW r \in Requests, req[r].stage = "call",
           NEW code \in {400, 404, 422, 500}, Answers(r, code),
           UNCHANGED <<at, client, manager, announced, faults>>
    PROVE  ActivityInv'
<1>1. TypeOK /\ RequestInv(r) /\ code \in {0, 200, 202, 400, 404, 409, 422, 500}
  BY DEF ActivityInv
<1>2. /\ req' \in [Requests -> Request] /\ OthersKept(r)
      /\ req'[r].stage = "answered" /\ req'[r].code = code
      /\ req'[r].op = req[r].op /\ req'[r].manager = req[r].manager
      /\ req'[r].process = req[r].process /\ req'[r].on = req[r].on
  BY <1>1, AnswersDoes
<1>3. RequestInv(r)'
  BY <1>1, <1>2 DEF RequestInv, At
<1>4. QED
  BY <1>2, <1>3, QuietStep

\* The engine changed a manager of the process it was called with.
LEMMA CarriedOutStep ==
    ASSUME ActivityInv, NEW r \in Requests, req[r].stage \in {"call", "background"},
           NEW code \in {200, 202, 400, 404, 422, 500},
           NEW m \in Managers, NEW new \in Manager,
           AnswersOn(r, m, code), Writes(m, new), Owner[m] = req[r].process,
           req[r].op = "expire" => req[r].stage = "background",
           manager[m].status # "none", new.status # "none",
           new.activities > 0 \/ new.status # "started",
           UNCHANGED <<at, client, faults>>
    PROVE  ActivityInv'
<1>1. TypeOK /\ RequestInv(r)
  BY DEF ActivityInv
<1>2. /\ req' \in [Requests -> Request] /\ OthersKept(r)
      /\ req'[r].stage = "answered" /\ req'[r].code = code
      /\ req'[r].op = req[r].op /\ req'[r].manager = req[r].manager
      /\ req'[r].process = req[r].process /\ req'[r].on = {m}
  BY <1>1, AnswersOnDoes
<1>3. RequestInv(r)'
  BY <1>1, <1>2 DEF RequestInv, At
<1>4. \A s \in Requests : req'[s] = req[s] \/ RequestInv(s)'
  BY <1>2, <1>3 DEF OthersKept
<1>5. QED
  BY <1>2, <1>4, WritingStep

LEMMA CommitReturnsStep ==
    ASSUME ActivityInv, NEW r \in Requests, CommitReturns(r)
    PROVE  ActivityInv'
<1>1. /\ req[r].stage = "call" /\ req[r].op # "expire"
      /\ UNCHANGED <<at, client, faults>>
  BY DEF CommitReturns, At, brokerVars
<1>2. ASSUME NEW m \in Started(req[r].process),
             Writes(m, [manager[m] EXCEPT !.activities = @ + 1]),
             NEW code \in {200, 400, 404, 500}, AnswersOn(r, m, code)
      PROVE  ActivityInv'
  <2>1. /\ m \in Managers /\ Owner[m] = req[r].process
        /\ manager[m].status = "started" /\ manager[m] \in Manager
    BY <1>2 DEF Started, ActivityInv, TypeOK
  <2>5. PICK n \in Nat : n = manager[m].activities + 1
    BY <2>1 DEF Manager
  <2>2. PICK new \in Manager : new = [manager[m] EXCEPT !.activities = n]
    BY <2>1 DEF Manager
  <2>3. new.status = "started" /\ new.activities > 0 /\ Writes(m, new)
    <3>1. n > 0
      BY <2>1, <2>5 DEF Manager
    <3>2. QED
      BY <1>2, <2>1, <2>5, <2>2, <3>1 DEF Manager
  <2>4. QED
    BY <1>1, <1>2, <2>1, <2>3, CarriedOutStep
<1>3. ASSUME NEW code \in {400, 404, 500}, Answers(r, code), UNCHANGED <<manager, announced>>
      PROVE  ActivityInv'
  BY <1>1, <1>3, RefusedStep
<1>4. QED
  BY <1>2, <1>3 DEF CommitReturns

LEMMA PushReturnsStep ==
    ASSUME ActivityInv, NEW r \in Requests, PushReturns(r)
    PROVE  ActivityInv'
<1>1. /\ req[r].stage = "call" /\ req[r].op # "expire"
      /\ UNCHANGED <<at, client, faults>>
  BY DEF PushReturns, At, brokerVars
<1>2. ASSUME NEW m \in Started(req[r].process),
             Writes(m, [manager[m] EXCEPT !.status = "completed"]),
             NEW code \in {202, 404, 500}, AnswersOn(r, m, code)
      PROVE  ActivityInv'
  <2>1. /\ m \in Managers /\ Owner[m] = req[r].process
        /\ manager[m].status = "started" /\ manager[m] \in Manager
    BY <1>2 DEF Started, ActivityInv, TypeOK
  <2>2. PICK new \in Manager : new = [manager[m] EXCEPT !.status = "completed"]
    BY <2>1 DEF Manager, ManagerStatus
  <2>3. new.status = "completed" /\ Writes(m, new)
    BY <1>2, <2>1, <2>2 DEF Manager
  <2>4. QED
    BY <1>1, <1>2, <2>1, <2>3, CarriedOutStep
<1>3. ASSUME NEW code \in {404, 500}, Answers(r, code), UNCHANGED <<manager, announced>>
      PROVE  ActivityInv'
  BY <1>1, <1>3, RefusedStep
<1>4. QED
  BY <1>2, <1>3 DEF PushReturns

LEMMA SubmitReturnsStep ==
    ASSUME ActivityInv, NEW r \in Requests, SubmitReturns(r)
    PROVE  ActivityInv'
<1> DEFINE m == req[r].manager
<1>1. /\ req[r].stage = "call" /\ req[r].op # "expire"
      /\ UNCHANGED <<at, client, faults>>
  BY DEF SubmitReturns, At, brokerVars
<1>2. ASSUME manager[m].status = "started",
             Writes(m, [status |-> "completed",
                        activities |-> manager[m].activities + 1]),
             NEW code \in {202, 400, 404, 422, 500}, AnswersOn(r, m, code)
      PROVE  ActivityInv'
  <2>1. m \in Managers /\ manager[m] \in Manager /\ Owner[m] = req[r].process
    BY DEF ActivityInv, TypeOK, Request, RequestInv
  <2>5. PICK n \in Nat : n = manager[m].activities + 1
    BY <2>1 DEF Manager
  <2>2. PICK new \in Manager : new = [status |-> "completed", activities |-> n]
    BY <2>1 DEF Manager, ManagerStatus
  <2>3. new.status = "completed" /\ Writes(m, new)
    BY <1>2, <2>5, <2>2
  <2>4. QED
    BY <1>1, <1>2, <2>1, <2>3, CarriedOutStep
<1>3. ASSUME NEW code \in {400, 404, 422, 500}, Answers(r, code),
             UNCHANGED <<manager, announced>>
      PROVE  ActivityInv'
  BY <1>1, <1>3, RefusedStep
<1>4. QED
  BY <1>2, <1>3 DEF SubmitReturns

LEMMA ExpireFetchedStep ==
    ASSUME ActivityInv, NEW r \in Requests, ExpireFetched(r)
    PROVE  ActivityInv'
<1> DEFINE status == manager[req[r].manager].status
<1>1. /\ TypeOK /\ RequestInv(r) /\ req[r].stage = "fetch" /\ req[r].op = "expire"
      /\ req[r] \in Request /\ req \in [Requests -> Request]
      /\ status \in ManagerStatus
      /\ UNCHANGED <<at, client, manager, announced, faults>>
  BY DEF ActivityInv, ExpireFetched, TypeOK, brokerVars, At, Request, Manager
<1>2. ASSUME NEW code \in {404, 409}, Answers(r, code)
      PROVE  ActivityInv'
  <2>1. /\ req' \in [Requests -> Request] /\ OthersKept(r)
        /\ req'[r].stage = "answered" /\ req'[r].code = code
        /\ req'[r].op = req[r].op /\ req'[r].manager = req[r].manager
        /\ req'[r].process = req[r].process /\ req'[r].on = req[r].on
    BY <1>1, <1>2, AnswersDoes
  <2>2. RequestInv(r)'
    BY <1>1, <2>1 DEF RequestInv, At
  <2>3. QED
    BY <1>1, <2>1, <2>2, QuietStep
<1>3. ASSUME status \notin unexpirable \cup {"none"},
             req' = [req EXCEPT ![r].stage = "background",
                                ![r].code = 200]
      PROVE  ActivityInv'
  <2>1. status = "started"
    BY <1>1, <1>3 DEF unexpirable, ManagerStatus
  <2>2. req'[r] = [req[r] EXCEPT !.stage = "background", !.code = 200]
    BY <1>1, <1>3, <2>1
  <2>3. req'[r] \in Request
    <3>0. PICK stage \in Stages : stage = "background"
      BY DEF Stages
    <3>1. PICK q1 \in Request : q1 = [req[r] EXCEPT !.stage = stage]
      BY <1>1, StageField
    <3>2. PICK q2 \in Request : q2 = [q1 EXCEPT !.code = 200]
      <4>1. PICK code \in {0, 200, 202, 400, 404, 409, 422, 500} : code = 200
        OBVIOUS
      <4>2. [q1 EXCEPT !.code = code] \in Request
        BY SMTT(60) DEF Request
      <4>3. QED
        BY <4>1, <4>2
    <3>3. QED
      BY <1>1, <2>2, <3>0, <3>1, <3>2 DEF Request
  <2>4. req' \in [Requests -> Request] /\ OthersKept(r)
    BY <1>1, <1>3, <2>3 DEF OthersKept
  <2>5. RequestInv(r)'
    BY <1>1, <2>1, <2>2 DEF RequestInv, At, Request
  <2>6. QED
    BY <1>1, <2>4, <2>5, QuietStep
<1>4. QED
  BY <1>2, <1>3 DEF ExpireFetched

LEMMA ExpireReturnsStep ==
    ASSUME ActivityInv, NEW r \in Requests, ExpireReturns(r)
    PROVE  ActivityInv'
<1> DEFINE m == req[r].manager
<1>1. /\ TypeOK /\ RequestInv(r) /\ At(r, "expire", "background")
      /\ req[r] \in Request /\ req \in [Requests -> Request]
      /\ UNCHANGED <<at, client, faults>>
  BY DEF ActivityInv, ExpireReturns, TypeOK, brokerVars
<1>2. m \in Managers /\ manager[m] \in Manager
  BY <1>1 DEF TypeOK, Request
<1>3. CASE Writes(m, [manager[m] EXCEPT !.status = "interrupted"]) /\ AnswersOn(r, m, 200)
  <2>1. PICK new \in Manager : new = [manager[m] EXCEPT !.status = "interrupted"]
    BY <1>2 DEF Manager, ManagerStatus
  <2>2. new.status = "interrupted" /\ Writes(m, new)
    BY <1>2, <1>3, <2>1 DEF Manager
  <2>3. Owner[m] = req[r].process /\ manager[m].status # "none"
    BY <1>1 DEF RequestInv
  <2>4. QED
    BY <1>1, <1>2, <1>3, <2>2, <2>3, CarriedOutStep DEF At
<1>4. CASE req' = [req EXCEPT ![r].stage = "answered"] /\ UNCHANGED <<manager, announced>>
  <2>1. req'[r] = [req[r] EXCEPT !.stage = "answered"]
    BY <1>1, <1>4
  <2>2. req'[r] \in Request
    <3>1. "answered" \in Stages
      BY DEF Stages
    <3>2. QED
      BY <1>1, <2>1, <3>1, StageField
  <2>3. req' \in [Requests -> Request] /\ OthersKept(r)
    BY <1>1, <1>4, <2>2 DEF OthersKept
  <2>4. RequestInv(r)'
    BY <1>1, <2>1 DEF RequestInv, At, Request
  <2>5. QED
    BY <1>1, <1>4, <2>3, <2>4, QuietStep
<1>5. QED
  BY <1>3, <1>4 DEF ExpireReturns

LEMMA CrashStep == ASSUME ActivityInv, Crash PROVE ActivityInv'
<1>1. /\ TypeOK /\ req \in [Requests -> Request]
      /\ UNCHANGED <<manager, announced>>
      /\ faults' = faults + 1 /\ faults < MaxFaults
  BY DEF ActivityInv, Crash, TypeOK
<1>2. faults' \in 0..MaxFaults
  BY <1>1, ActivityAssumption DEF TypeOK
<1>3. \A r \in Requests :
          /\ req'[r] \in Request
          /\ req'[r] = req[r] \/ req'[r] = [req[r] EXCEPT !.stage = "cut"]
  <2>1. "cut" \in Stages /\ \A r \in Requests : req[r] \in Request
    BY <1>1 DEF ActivityInv, TypeOK, Stages
  <2>2. \A r \in Requests : req'[r] = req[r] \/ req'[r] = [req[r] EXCEPT !.stage = "cut"]
    BY <1>1 DEF Crash
  <2>3. QED
    BY <2>1, <2>2, StageField
<1>4. req' \in [Requests -> Request]
  BY <1>3 DEF Crash
<1>5. \A r \in Requests : RequestInv(r)'
  <2>1. SUFFICES ASSUME NEW r \in Requests PROVE RequestInv(r)'
    OBVIOUS
  <2>2. RequestInv(r) /\ req[r] \in Request
    BY <1>1 DEF ActivityInv
  <2>3. CASE req'[r] = req[r]
    BY <1>1, <2>2, <2>3 DEF RequestInv, At
  <2>4. CASE req'[r] = [req[r] EXCEPT !.stage = "cut"]
    BY <1>1, <2>2, <2>4 DEF RequestInv, At, Request
  <2>5. QED
    BY <1>3, <2>3, <2>4
<1>6. faults' > 0
  BY <1>1 DEF ActivityInv, TypeOK
<1>7. \A m \in Managers : ManagerInv(m)'
  BY <1>1, <1>6, InvKept DEF ActivityInv
<1>8. BrokerTypeOK'
  BY BrokerStopType DEF Crash
<1>9. QED
  BY <1>1, <1>2, <1>4, <1>5, <1>6, <1>7, <1>8 DEF ActivityInv, TypeOK, NoneBeforeStart

LEMMA UnmovedStep ==
    ASSUME ActivityInv, BrokerTypeOK', UNCHANGED <<manager, announced, req, faults>>,
           at # "boot" => at' # "boot" /\ client'["MQTT"] = client["MQTT"]
    PROVE  ActivityInv'
<1>1. TypeOK'
  BY DEF ActivityInv, TypeOK
<1>2. \A m \in Managers : ManagerInv(m)'
  <2>1. SUFFICES ASSUME NEW m \in Managers PROVE ManagerInv(m)'
    OBVIOUS
  <2>2. ManagerInv(m) /\ faults \in Nat
    BY ActivityAssumption DEF ActivityInv, TypeOK
  <2>3. CASE at # "boot" \/ faults # 0
    BY <2>2, <2>3, InvKept
  <2>4. CASE at = "boot" /\ faults = 0
    BY <2>2, <2>4 DEF ActivityInv, NoneBeforeStart, ManagerInv
  <2>5. QED
    BY <2>3, <2>4
<1>3. \A r \in Requests : RequestInv(r)'
  BY DEF ActivityInv, RequestInv, At
<1>4. NoneBeforeStart'
  BY DEF ActivityInv, NoneBeforeStart
<1>5. QED
  BY <1>1, <1>2, <1>3, <1>4 DEF ActivityInv

LEMMA ActivityStep == ActivityInv /\ [Next]_vars => ActivityInv'
<1>1. SUFFICES ASSUME ActivityInv, [Next]_vars PROVE ActivityInv'
  OBVIOUS
<1>2. CASE UNCHANGED vars
  <2>1. /\ BrokerTypeOK' /\ UNCHANGED <<manager, announced, req, faults>>
        /\ at' = at /\ client' = client
    BY <1>1, <1>2 DEF vars, ActivityInv, TypeOK, BrokerTypeOK
  <2>2. QED
    BY <1>1, <2>1, UnmovedStep
<1>3. CASE BrokerStep
  <2>1. /\ BrokerTypeOK' /\ UNCHANGED <<manager, announced, req, faults>>
        /\ at # "boot" => at' # "boot" /\ client'["MQTT"] = client["MQTT"]
    BY <1>1, <1>3, BrokerType, MqttClientKept DEF BrokerStep, ActivityInv, TypeOK
  <2>2. QED
    BY <1>1, <2>1, UnmovedStep
<1>4. CASE Crash
  BY <1>1, <1>4, CrashStep
<1>5. CASE \E m \in Managers : ManagerCreated(m) \/ ManagerEnds(m)
  BY <1>1, <1>5, EngineStep
<1>6. ASSUME NEW r \in Requests,
             \/ \E op \in Operations, m \in Managers : Receive(r, op, m)
             \/ Handler(r) \/ ReadFails(r)
      PROVE  ActivityInv'
  <2>1. CASE \E op \in Operations, m \in Managers : Receive(r, op, m)
    BY <1>1, <2>1, ReceiveStep
  <2>2. CASE ReadFails(r)
    BY <1>1, <2>2, ReadFailsStep
  <2>3. CASE Handler(r)
    BY <1>1, <2>3, ByIdFetchedStep, CommitReturnsStep, PushReturnsStep,
       SubmitReturnsStep, ExpireFetchedStep, ExpireReturnsStep DEF Handler
  <2>4. QED
    BY <1>6, <2>1, <2>2, <2>3
<1>7. QED
  BY <1>1, <1>2, <1>3, <1>4, <1>5, <1>6 DEF Next

LEMMA ActivityInvariant == Spec => []ActivityInv
  BY InitActivity, ActivityStep, PTL DEF Spec

-----------------------------------------------------------------------------
(* The theorems *)

\* Managers, announcements and requests keep their types for any number of
\* them (activity.js, engineListener.js).
THEOREM ActivityTypeCorrect == Spec => []TypeOK
  BY ActivityInvariant, PTL DEF ActivityInv

\* Nobody is left out of the creation of a manager, nobody hears of it twice,
\* and over MQTT nobody is told what another is not (engineListener.js:47-82).
THEOREM CreationsAreTold == Spec => []CreationTold
<1>1. ActivityInv => CreationTold
  BY DEF CreationTold, ActivityInv, ManagerInv
<1>2. QED
  BY <1>1, ActivityInvariant, PTL

\* A commit by manager id reaches a manager of that one's process
\* (cockpit/activityManager.js:6-38).
THEOREM CommitsStayInProcess == Spec => []CommitStaysInProcess
<1>1. ActivityInv => CommitStaysInProcess
  BY DEF CommitStaysInProcess, ActivityInv, RequestInv
<1>2. QED
  BY <1>1, ActivityInvariant, PTL
=============================================================================
