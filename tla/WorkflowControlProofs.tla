------------------------ MODULE WorkflowControlProofs ------------------------
(***************************************************************************)
(* Theorems about WorkflowControl, for any names, ids, number of requests  *)
(* and bounds, whatever the engine answers and whichever brokers are       *)
(* enabled.                                                                *)
(*                                                                         *)
(* The inductive invariant says of the table that the versions of a name   *)
(* that are left only go up and that of the rows with one id all but the   *)
(* last are deleted, of the events which save sent them, and of each       *)
(* request what it has read or done by the await it is at and what its     *)
(* reply told.  Rows and events are only added, so what was told stays     *)
(* true.                                                                   *)
(***************************************************************************)
EXTENDS WorkflowControl, WellFoundedInduction, FiniteSetTheorems, TLAPS

-----------------------------------------------------------------------------
(* The broker clients *)

(***************************************************************************)
(* A message ends in one of the outcomes, whatever broker is named.        *)
(***************************************************************************)
LEMMA PublishOutcome ==
    ASSUME NEW payload, NEW broker
    PROVE  publishMessage(payload, broker) \subseteq Outcome
  BY DEF publishMessage, PublishMqtt, PublishAmqp, PublishKafka, Outcome

(***************************************************************************)
(* The broker steps keep the types of the broker's variables.              *)
(***************************************************************************)
LEMMA BrokerType == BrokerTypeOK /\ (ConnectStep \/ ChannelClosed) => BrokerTypeOK'
<1> SUFFICES ASSUME BrokerTypeOK, ConnectStep \/ ChannelClosed
             PROVE  BrokerTypeOK'
  OBVIOUS
<1> USE DEF BrokerTypeOK, Awaits, ClientState, Brokers
<1>1. ASSUME NEW next \in Awaits, NEW clients \in [Brokers -> ClientState],
             Proceed(next, clients)
      PROVE  BrokerTypeOK'
  BY <1>1 DEF Proceed
<1>2. AfterAmqp \in Awaits /\ AfterMqtt \in Awaits
  BY DEF AfterAmqp, AfterMqtt
<1>3. CASE StartConnect
  <2>1. PICK m \in {"ready", "none"} :
             Proceed(AfterMqtt, [client EXCEPT !["MQTT"] = m])
    BY <1>3 DEF StartConnect
  <2>2. QED
    BY <2>1, <1>1, <1>2
<1>4. CASE AmqpProgress
  BY <1>4, <1>1 DEF AmqpProgress
<1>5. CASE AmqpConnected
  BY <1>5, <1>1, <1>2 DEF AmqpConnected
<1>6. CASE AmqpFailed
  BY <1>6, <1>1, <1>2 DEF AmqpFailed
<1>7. CASE KafkaConnected
  BY <1>7, <1>1 DEF KafkaConnected
<1>8. CASE KafkaFailed
  BY <1>8, <1>1 DEF KafkaFailed
<1>9. CASE ChannelClosed
  BY <1>9 DEF ChannelClosed
<1> QED
  BY <1>3, <1>4, <1>5, <1>6, <1>7, <1>8, <1>9 DEF ConnectStep

(***************************************************************************)
(* A server that has not started, or that stopped, has no client.          *)
(***************************************************************************)
LEMMA BrokerInitType == BrokerInit => BrokerTypeOK
  BY DEF BrokerInit, BrokerTypeOK, Awaits, ClientState

LEMMA BrokerStopType ==
    ASSUME at' = "boot", client' = [b \in Brokers |-> "none"]
    PROVE  BrokerTypeOK'
  BY DEF BrokerTypeOK, Awaits, ClientState

-----------------------------------------------------------------------------
(* The workflows *)

(***************************************************************************)
(* The invariant.                                                          *)
(***************************************************************************)
RowsInv ==
    /\ \A i, j \in DOMAIN rows :
          i < j /\ rows[i].name = rows[j].name /\ ~ rows[i].deleted /\ ~ rows[j].deleted
             => rows[i].version < rows[j].version
    /\ \A i \in DOMAIN rows : rows[i].deleted => rows[i].processes = 0
    /\ \A i \in DOMAIN rows : rows[i].id \in OwnIds \cup 1..i
    /\ \A i, j \in DOMAIN rows : i < j /\ rows[i].id = rows[j].id => rows[i].deleted

\* The workflow i was saved under the id of m, and m deleted before.
Replaces(i, m) ==
    /\ m \in DOMAIN rows /\ rows[m].deleted
    /\ i > m /\ rows[i].id = rows[m].id

\* The event k is that of the save r.
SentBy(k, r) ==
    /\ r \in Requests
    /\ req[r].op = "save" /\ req[r].code = 201 /\ req[r].made # 0
    /\ events[k].row \in DOMAIN rows
    /\ events[k].row = req[r].made \/ Replaces(events[k].row, req[r].made)

EventsInv ==
    /\ \A k \in DOMAIN events : events[k].of = "saved" => SentBy(k, events[k].by)
    /\ \A j, k \in DOMAIN events :
          events[j].of = "saved" /\ events[k].of = "saved" /\ events[j].by = events[k].by
             => j = k

\* The row a delete has deleted, 0 for none.
Gone(q) == IF q.op = "delete" THEN q.made ELSE 0

PairsInv ==
    \A r, s \in Requests :
        r # s /\ Gone(req[r]) # 0 => Gone(req[r]) # Gone(req[s])

\* Row i was the latest of the name among the first n.
LatestOf(i, name, n) ==
    /\ i \in 1..n /\ rows[i].name = name
    /\ \A j \in DOMAIN rows :
          j <= n /\ rows[j].name = name /\ ~ rows[j].deleted
             => rows[j].version <= rows[i].version

\* Row i was the last with the id among the first n.
LastOf(i, id, n) ==
    /\ i \in 1..n /\ rows[i].id = id
    /\ \A j \in DOMAIN rows : j <= n /\ rows[j].id = id => j <= i

SaveInv(r) ==
    /\ req[r].stage = "refetch" => req[r].made # 0
    /\ req[r].code = 201 =>
          \E k \in DOMAIN events : events[k].of = "saved" /\ events[k].by = r
    /\ req[r].stage = "answered" /\ req[r].made # 0 =>
          /\ req[r].code # 400
          /\ req[r].code = 500 =>
                req[r].odd \/ faults > 0 \/ rows[req[r].made].deleted

DeleteInv(r) ==
    /\ req[r].stage = "fetch" => req[r].row = 0
    /\ req[r].row # 0 => rows[req[r].row].id = req[r].id
    /\ req[r].code = 204 => req[r].made # 0
    /\ req[r].made # 0 => rows[req[r].made].deleted /\ rows[req[r].made].id = req[r].id
    /\ req[r].code = 404 /\ req[r].row # 0 => rows[req[r].row].deleted
    /\ req[r].code = 422 \/ (req[r].code = 500 /\ faults = 0) => Referenced(req[r].id) # {}

\* How the process's workflow m stands to the one that was read, row.
Known(op, row, seen, m) ==
    \/ m = row
    \/ op # "create" /\ m > seen
    \/ /\ row \in DOMAIN rows /\ rows[row].deleted
       /\ op = "create" => m > seen /\ rows[m].id = rows[row].id

CreateInv(r) ==
    /\ req[r].stage = "call" =>
          IF req[r].op = "create" THEN LastOf(req[r].row, req[r].id, req[r].seen)
          ELSE LatestOf(req[r].row, req[r].name, req[r].seen)
    /\ req[r].code = 201 => req[r].made # 0
    /\ req[r].made # 0 => Known(req[r].op, req[r].row, req[r].seen, req[r].made)

Creating == {"create", "createByName", "start"}

\* The awaits each operation has.
StageInv(r) ==
    /\ req[r].stage \in {"validate", "save", "envs", "refetch"} => req[r].op = "save"
    /\ req[r].stage = "list" => req[r].op = "delete"
    /\ req[r].stage = "fetch" => req[r].op \in Creating \cup {"delete"}
    /\ req[r].stage = "call" => req[r].op \in Creating \cup {"delete"}
    /\ req[r].stage = "beacon" => req[r].op = "beacon"
    /\ req[r].stage \in Running =>
          req[r].op = "start" /\ req[r].code = 201 /\ req[r].made # 0
    /\ req[r].stage \in Serving \cup {"idle"} => req[r].code = 0
    /\ req[r].stage \in (Serving \cup {"idle"}) \ {"envs", "refetch"} => req[r].made = 0
    /\ req[r].stage = "idle" => req[r].row = 0 /\ req[r].asked = <<>>
    /\ req[r].made # 0 => req[r].op \in Creating \cup {"save", "delete"}

BoundsInv(r) ==
    /\ req[r].row \in 0..Len(rows) /\ req[r].seen \in 0..Len(rows)
    /\ req[r].made \in 0..Len(rows)
    /\ req[r].id \in {0} \cup OwnIds \cup 1..Len(rows)

RequestInv(r) ==
    /\ BoundsInv(r)
    /\ StageInv(r)
    /\ req[r].op = "save" => SaveInv(r)
    /\ req[r].op = "delete" => DeleteInv(r)
    /\ req[r].op \in Creating => CreateInv(r)

WorkflowInv ==
    /\ TypeOK /\ RowsInv /\ EventsInv /\ PairsInv
    /\ \A r \in Requests : RequestInv(r)

-----------------------------------------------------------------------------
(* The latest workflow of a name, and the last of an id *)

LEMMA LeastOf ==
    ASSUME NEW S \in SUBSET Nat, S # {}
    PROVE  \E x \in S : \A y \in S : x <= y
<1>1. PICK x \in S : \A y \in S : ~ (<<y, x>> \in OpToRel(<, Nat))
  BY NatLessThanWellFounded, WFMin
<1>2. \A y \in S : ~ (y < x)
  BY <1>1 DEF OpToRel
<1>3. QED
  BY <1>2

LEMMA RowsAre ==
    ASSUME rows \in Seq(Row)
    PROVE  /\ Len(rows) \in Nat /\ DOMAIN rows = 1..Len(rows)
           /\ \A i \in 1..Len(rows) :
                 /\ rows[i] \in Row /\ rows[i].name \in Names
                 /\ rows[i].id \in Nat /\ rows[i].id # 0
                 /\ rows[i].version \in Nat /\ rows[i].version > 0
                 /\ rows[i].deleted \in BOOLEAN /\ rows[i].processes \in Nat
<1>1. Len(rows) \in Nat /\ DOMAIN rows = 1..Len(rows)
  OBVIOUS
<1>2. \A i \in 1..Len(rows) : rows[i] \in Row
  OBVIOUS
<1>3. QED
  BY <1>1, <1>2 DEF Row

LEMMA GreatestVersion ==
    ASSUME rows \in Seq(Row), RowsInv, NEW name, Saved(name) # {}
    PROVE  \E i \in Saved(name) : \A j \in Saved(name) : rows[j].version <= rows[i].version
<1> DEFINE back == {Len(rows) - i : i \in Saved(name)}
<1>1. /\ Len(rows) \in Nat /\ DOMAIN rows = 1..Len(rows)
      /\ \A i \in 1..Len(rows) : rows[i].version \in Nat
  BY RowsAre
<1>2. \A i \in Saved(name) : i \in 1..Len(rows) /\ rows[i].name = name /\ ~ rows[i].deleted
  BY <1>1 DEF Saved
<1>3. back \in SUBSET Nat /\ back # {}
  BY <1>1, <1>2
<1>4. PICK x \in back : \A y \in back : x <= y
  BY <1>3, LeastOf
<1>5. PICK i \in Saved(name) : x = Len(rows) - i
  BY <1>4
<1>6. \A j \in Saved(name) : j <= i
  <2>1. SUFFICES ASSUME NEW j \in Saved(name) PROVE j <= i
    OBVIOUS
  <2>2. x <= Len(rows) - j
    BY <1>4, <2>1
  <2>3. QED
    BY <1>1, <1>2, <1>5, <2>2
<1>7. \A j \in Saved(name) : rows[j].version <= rows[i].version
  <2>1. SUFFICES ASSUME NEW j \in Saved(name), j # i
                 PROVE  rows[j].version <= rows[i].version
    BY <1>1, <1>2
  <2>2. j < i
    BY <1>1, <1>2, <1>6, <2>1
  <2>3. rows[j].version < rows[i].version
    BY <1>1, <1>2, <2>2 DEF RowsInv
  <2>4. QED
    BY <1>1, <1>2, <2>3
<1>8. QED
  BY <1>7

LEMMA LatestIs ==
    ASSUME rows \in Seq(Row), RowsInv, NEW name, Saved(name) # {}
    PROVE  /\ Latest(name) \in Saved(name)
           /\ Latest(name) \in 1..Len(rows)
           /\ rows[Latest(name)].name = name
           /\ \A j \in Saved(name) : rows[j].version <= rows[Latest(name)].version
<1>1. /\ Latest(name) \in Saved(name)
      /\ \A j \in Saved(name) : rows[j].version <= rows[Latest(name)].version
  BY GreatestVersion DEF Latest
<1>2. QED
  BY <1>1, RowsAre DEF Saved

\* A row is deleted or the later of two has the higher version.
LEMMA SameVersionSameRow ==
    ASSUME rows \in Seq(Row), RowsInv, NEW name, NEW i \in Saved(name), NEW j \in Saved(name),
           rows[i].version = rows[j].version
    PROVE  i = j
<1>1. /\ Len(rows) \in Nat /\ i \in 1..Len(rows) /\ j \in 1..Len(rows)
      /\ rows[i].version \in Nat /\ rows[j].version \in Nat
      /\ DOMAIN rows = 1..Len(rows)
  BY RowsAre DEF Saved
<1>2. ~ (i < j) /\ ~ (j < i)
  BY <1>1 DEF RowsInv, Saved
<1>3. QED
  BY <1>1, <1>2

\* The workflow of an id is the last that was saved under it.
LEMMA LiveIsLast ==
    ASSUME rows \in Seq(Row), RowsInv, NEW id, NEW i \in Live(id)
    PROVE  /\ i \in 1..Len(rows) /\ rows[i].id = id /\ ~ rows[i].deleted
           /\ \A j \in DOMAIN rows : rows[j].id = id /\ j # i => j < i /\ rows[j].deleted
<1>1. Len(rows) \in Nat /\ DOMAIN rows = 1..Len(rows)
  BY RowsAre
<1>2. i \in 1..Len(rows) /\ rows[i].id = id /\ ~ rows[i].deleted
  BY <1>1 DEF Live
<1>3. ASSUME NEW j \in DOMAIN rows, rows[j].id = id, j # i
      PROVE  j < i /\ rows[j].deleted
  <2>1. ~ (i < j)
    BY <1>1, <1>2, <1>3 DEF RowsInv
  <2>2. j < i
    BY <1>1, <1>2, <1>3, <2>1
  <2>3. QED
    BY <1>1, <1>2, <1>3, <2>2 DEF RowsInv
<1>4. QED
  BY <1>2, <1>3

\* The id of the next workflow is one no workflow has, or one whose workflows
\* are all deleted.
LEMMA NewIdIs ==
    ASSUME WorkflowInv, NEW r \in Requests, Len(rows) < MaxRows, Live(req[r].id) = {}
    PROVE  /\ NewId(r) \in Nat \ {0}
           /\ NewId(r) \in OwnIds \cup 1..(Len(rows) + 1)
           /\ \A j \in DOMAIN rows : rows[j].id = NewId(r) => rows[j].deleted
<1>1. /\ rows \in Seq(Row) /\ req[r] \in Request /\ RowsInv
      /\ req[r].id \in {0} \cup OwnIds \cup 1..Len(rows)
  BY DEF WorkflowInv, TypeOK, RequestInv, BoundsInv
<1>2. Len(rows) \in Nat /\ DOMAIN rows = 1..Len(rows)
  BY <1>1, RowsAre
<1>3. \A id \in OwnIds : id \in Nat /\ id > MaxRows
  BY WorkflowAssumption
<1>4. CASE req[r].id = 0
  <2>1. NewId(r) = Len(rows) + 1
    BY <1>4 DEF NewId
  <2>2. Len(rows) + 1 \notin OwnIds
    BY <1>2, <1>3, WorkflowAssumption
  <2>3. \A j \in DOMAIN rows : rows[j].id # Len(rows) + 1
    <3>1. \A j \in DOMAIN rows : rows[j].id \in OwnIds \cup 1..j
      BY <1>1 DEF RowsInv
    <3>2. QED
      BY <1>2, <2>2, <3>1
  <2>4. QED
    BY <1>2, <2>1, <2>3
<1>5. CASE req[r].id # 0
  <2>1. NewId(r) = req[r].id /\ NewId(r) \in OwnIds \cup 1..Len(rows)
    BY <1>1, <1>5 DEF NewId
  <2>2. NewId(r) \in Nat \ {0}
    BY <1>2, <1>3, <1>5, <2>1
  <2>3. \A j \in DOMAIN rows : rows[j].id = NewId(r) => rows[j].deleted
    BY <2>1 DEF Live
  <2>4. QED
    BY <1>2, <2>1, <2>2, <2>3
<1>6. QED
  BY <1>4, <1>5

-----------------------------------------------------------------------------
(* What the handlers put in the place of a request *)

LEMMA Fields ==
    ASSUME NEW q \in Request
    PROVE  /\ \A x \in Operations : [q EXCEPT !.op = x] \in Request
           /\ \A x \in Names : [q EXCEPT !.name = x] \in Request
           /\ \A x \in Nat : [q EXCEPT !.id = x] \in Request
           /\ \A x \in BOOLEAN : [q EXCEPT !.odd = x] \in Request
           /\ \A x \in Nat : [q EXCEPT !.row = x] \in Request
           /\ \A x \in Nat : [q EXCEPT !.seen = x] \in Request
           /\ \A x \in Nat : [q EXCEPT !.made = x] \in Request
           /\ \A x \in Seq(Outcome) : [q EXCEPT !.asked = x] \in Request
           /\ \A x \in Stages : [q EXCEPT !.stage = x] \in Request
           /\ \A x \in Codes : [q EXCEPT !.code = x] \in Request
<1>1. \A x \in Operations : [q EXCEPT !.op = x] \in Request
  BY DEF Request
<1>2. \A x \in Names : [q EXCEPT !.name = x] \in Request
  BY DEF Request
<1>3. \A x \in Nat : [q EXCEPT !.id = x] \in Request
  BY DEF Request
<1>4. \A x \in BOOLEAN : [q EXCEPT !.odd = x] \in Request
  BY DEF Request
<1>5. \A x \in Nat : [q EXCEPT !.row = x] \in Request
  BY DEF Request
<1>6. \A x \in Nat : [q EXCEPT !.seen = x] \in Request
  BY DEF Request
<1>7. \A x \in Nat : [q EXCEPT !.made = x] \in Request
  BY DEF Request
<1>8. \A x \in Seq(Outcome) : [q EXCEPT !.asked = x] \in Request
  BY DEF Request
<1>9. \A x \in Stages : [q EXCEPT !.stage = x] \in Request
  BY DEF Request
<1>10. \A x \in Codes : [q EXCEPT !.code = x] \in Request
  BY DEF Request
<1>11. QED
  BY <1>1, <1>2, <1>3, <1>4, <1>5, <1>6, <1>7, <1>8, <1>9, <1>10

\* What p and q ask is the same.
SameAsk(p, q) == p.op = q.op /\ p.name = q.name /\ p.id = q.id /\ p.odd = q.odd

\* p and q differ at most in stage and code.
SameButReply(p, q) ==
    /\ SameAsk(p, q) /\ p.row = q.row /\ p.seen = q.seen
    /\ p.made = q.made /\ p.asked = q.asked

Answered(q, code) == [q EXCEPT !.stage = "answered", !.code = code]

Staged(q, stage) == [q EXCEPT !.stage = stage]

Moved(q, stage, i, n) == [q EXCEPT !.stage = stage, !.row = i, !.seen = n]

Asking(q, op, name, id, odd, stage) ==
    [q EXCEPT !.op = op, !.name = name, !.id = id, !.odd = odd, !.stage = stage]

Making(q, i, stage, code) == [q EXCEPT !.made = i, !.stage = stage, !.code = code]

LEMMA AnsweredIs ==
    ASSUME NEW q \in Request, NEW code \in Codes
    PROVE  /\ Answered(q, code) \in Request /\ SameButReply(Answered(q, code), q)
           /\ Answered(q, code).stage = "answered" /\ Answered(q, code).code = code
<1>1. PICK stage \in Stages : stage = "answered"
  BY DEF Stages
<1>2. PICK q1 \in Request : q1 = [q EXCEPT !.stage = stage]
  BY Fields
<1>3. [q1 EXCEPT !.code = code] \in Request
  BY Fields
<1>4. Answered(q, code) = [q1 EXCEPT !.code = code]
  BY <1>1, <1>2 DEF Request, Answered
<1>5. QED
  BY <1>1, <1>2, <1>3, <1>4 DEF Request, SameButReply, SameAsk

LEMMA StagedIs ==
    ASSUME NEW q \in Request, NEW stage \in Stages
    PROVE  /\ Staged(q, stage) \in Request /\ SameButReply(Staged(q, stage), q)
           /\ Staged(q, stage).stage = stage /\ Staged(q, stage).code = q.code
<1>1. Staged(q, stage) \in Request
  BY Fields DEF Staged
<1>2. QED
  BY <1>1 DEF Request, Staged, SameButReply, SameAsk

LEMMA MovedIs ==
    ASSUME NEW q \in Request, NEW stage \in Stages, NEW i \in Nat, NEW n \in Nat
    PROVE  LET p == Moved(q, stage, i, n)
           IN  /\ p \in Request /\ p.stage = stage /\ p.row = i /\ p.seen = n
               /\ SameAsk(p, q) /\ p.made = q.made
               /\ p.asked = q.asked /\ p.code = q.code
<1>1. PICK q1 \in Request : q1 = [q EXCEPT !.stage = stage]
  BY Fields
<1>2. PICK q2 \in Request : q2 = [q1 EXCEPT !.row = i]
  BY Fields
<1>3. [q2 EXCEPT !.seen = n] \in Request
  BY Fields
<1>4. Moved(q, stage, i, n) = [q2 EXCEPT !.seen = n]
  BY <1>1, <1>2 DEF Request, Moved
<1>5. QED
  BY <1>1, <1>2, <1>3, <1>4 DEF Request, SameAsk

LEMMA AskingIs ==
    ASSUME NEW q \in Request, NEW op \in Operations, NEW name \in Names,
           NEW id \in Nat, NEW odd \in BOOLEAN, NEW stage \in Stages
    PROVE  LET p == Asking(q, op, name, id, odd, stage)
           IN  /\ p \in Request /\ p.op = op /\ p.name = name /\ p.id = id
               /\ p.odd = odd /\ p.stage = stage /\ p.row = q.row /\ p.seen = q.seen
               /\ p.made = q.made /\ p.asked = q.asked /\ p.code = q.code
<1>1. PICK q1 \in Request : q1 = [q EXCEPT !.op = op]
  BY Fields
<1>2. PICK q2 \in Request : q2 = [q1 EXCEPT !.name = name]
  BY Fields
<1>3. PICK q3 \in Request : q3 = [q2 EXCEPT !.id = id]
  BY Fields
<1>4. PICK q4 \in Request : q4 = [q3 EXCEPT !.odd = odd]
  BY Fields
<1>5. [q4 EXCEPT !.stage = stage] \in Request
  BY Fields
<1>6. Asking(q, op, name, id, odd, stage) = [q4 EXCEPT !.stage = stage]
  BY <1>1, <1>2, <1>3, <1>4 DEF Request, Asking
<1>7. QED
  BY <1>1, <1>2, <1>3, <1>4, <1>5, <1>6 DEF Request

LEMMA MakingIs ==
    ASSUME NEW q \in Request, NEW i \in Nat, NEW stage \in Stages, NEW code \in Codes
    PROVE  LET p == Making(q, i, stage, code)
           IN  /\ p \in Request /\ p.made = i /\ p.code = code /\ p.stage = stage
               /\ SameAsk(p, q) /\ p.row = q.row /\ p.seen = q.seen /\ p.asked = q.asked
<1>1. PICK q1 \in Request : q1 = [q EXCEPT !.made = i]
  BY Fields
<1>2. PICK q2 \in Request : q2 = [q1 EXCEPT !.stage = stage]
  BY Fields
<1>3. [q2 EXCEPT !.code = code] \in Request
  BY Fields
<1>4. Making(q, i, stage, code) = [q2 EXCEPT !.code = code]
  BY <1>1, <1>2 DEF Request, Making
<1>5. QED
  BY <1>1, <1>2, <1>3, <1>4 DEF Request, SameAsk

Told(q, asked, stage, code) ==
    [q EXCEPT !.asked = asked, !.stage = stage, !.code = code]

LEMMA ToldIs ==
    ASSUME NEW q \in Request, NEW asked \in Seq(Outcome), NEW stage \in Stages,
           NEW code \in Codes
    PROVE  LET p == Told(q, asked, stage, code)
           IN  /\ p \in Request /\ p.asked = asked /\ p.stage = stage /\ p.code = code
               /\ SameAsk(p, q) /\ p.row = q.row /\ p.seen = q.seen /\ p.made = q.made
<1>1. PICK q1 \in Request : q1 = [q EXCEPT !.asked = asked]
  BY Fields
<1>2. PICK q2 \in Request : q2 = [q1 EXCEPT !.stage = stage]
  BY Fields
<1>3. [q2 EXCEPT !.code = code] \in Request
  BY Fields
<1>4. Told(q, asked, stage, code) = [q2 EXCEPT !.code = code]
  BY <1>1, <1>2 DEF Request, Told
<1>5. QED
  BY <1>1, <1>2, <1>3, <1>4 DEF Request, SameAsk

-----------------------------------------------------------------------------
(* What stays true *)

\* Rows keep their id, name and version, are deleted for good and gain
\* processes.
RowsGrow ==
    /\ Len(rows') >= Len(rows)
    /\ \A i \in 1..Len(rows) :
          /\ rows'[i].id = rows[i].id /\ rows'[i].name = rows[i].name
          /\ rows'[i].version = rows[i].version
          /\ rows[i].deleted => rows'[i].deleted
          /\ rows'[i].processes >= rows[i].processes

\* Events are only appended.
EventsGrow ==
    /\ Len(events') >= Len(events)
    /\ \A k \in 1..Len(events) : events'[k] = events[k]

CutOff(s) ==
    /\ req[s].stage \in Serving \cup Running
    /\ req'[s] = [req[s] EXCEPT !.stage = "cut"]

Grow ==
    /\ rows \in Seq(Row) /\ rows' \in Seq(Row) /\ RowsGrow
    /\ events \in Seq(Event) /\ events' \in Seq(Event) /\ EventsGrow
    /\ faults \in Nat /\ faults' \in Nat /\ faults' >= faults

LEMMA GrowIs ==
    ASSUME Grow
    PROVE  /\ Len(rows) \in Nat /\ Len(rows') \in Nat /\ Len(rows') >= Len(rows)
           /\ DOMAIN rows = 1..Len(rows) /\ DOMAIN rows' = 1..Len(rows')
           /\ Len(events) \in Nat /\ Len(events') \in Nat /\ Len(events') >= Len(events)
           /\ DOMAIN events = 1..Len(events) /\ DOMAIN events' = 1..Len(events')
           /\ \A k \in DOMAIN events : k \in DOMAIN events' /\ events'[k] = events[k]
           /\ \A i \in 1..Len(rows) :
                 /\ i \in 1..Len(rows')
                 /\ rows[i].processes \in Nat /\ rows'[i].processes \in Nat
                 /\ rows[i].version \in Nat
                 /\ rows'[i].id = rows[i].id
                 /\ rows'[i].name = rows[i].name /\ rows'[i].version = rows[i].version
                 /\ rows[i].deleted => rows'[i].deleted
                 /\ rows'[i].processes >= rows[i].processes
<1>1. /\ Len(rows) \in Nat /\ DOMAIN rows = 1..Len(rows)
      /\ \A i \in 1..Len(rows) : rows[i].processes \in Nat /\ rows[i].version \in Nat
  BY RowsAre DEF Grow
<1>2. Len(rows') \in Nat /\ DOMAIN rows' = 1..Len(rows')
  BY DEF Grow
<1>3. \A i \in 1..Len(rows') : rows'[i].processes \in Nat
  <2>1. \A i \in 1..Len(rows') : rows'[i] \in Row
    BY DEF Grow
  <2>2. QED
    BY <2>1 DEF Row
<1>4. /\ Len(events) \in Nat /\ Len(events') \in Nat
      /\ DOMAIN events = 1..Len(events) /\ DOMAIN events' = 1..Len(events')
  BY DEF Grow
<1>5. Len(rows') >= Len(rows) /\ Len(events') >= Len(events)
  BY DEF Grow, RowsGrow, EventsGrow
<1>6. \A i \in 1..Len(rows) : i \in 1..Len(rows')
  BY <1>1, <1>2, <1>5
<1>7. \A k \in DOMAIN events : k \in DOMAIN events' /\ events'[k] = events[k]
  BY <1>4, <1>5 DEF Grow, EventsGrow
<1>8. QED
  BY <1>1, <1>2, <1>3, <1>4, <1>5, <1>6, <1>7 DEF Grow, RowsGrow

LEMMA LatestKept ==
    ASSUME Grow, NEW i, NEW name, NEW n \in 0..Len(rows), LatestOf(i, name, n)
    PROVE  LatestOf(i, name, n)'
<1>1. i \in 1..Len(rows)
  BY GrowIs DEF LatestOf
<1>2. rows'[i].name = name /\ rows'[i].version = rows[i].version
  BY <1>1, GrowIs DEF LatestOf
<1>3. ASSUME NEW j \in DOMAIN rows', j <= n, rows'[j].name = name, ~ rows'[j].deleted
      PROVE  rows'[j].version <= rows'[i].version
  <2>1. j \in 1..Len(rows)
    BY <1>3, GrowIs
  <2>2. rows[j].name = name /\ ~ rows[j].deleted /\ rows'[j].version = rows[j].version
    BY <1>3, <2>1, GrowIs
  <2>3. rows[j].version <= rows[i].version
    BY <1>3, <2>1, <2>2, GrowIs DEF LatestOf
  <2>4. QED
    BY <1>2, <2>2, <2>3
<1>4. QED
  BY <1>2, <1>3 DEF LatestOf

LEMMA LastKept ==
    ASSUME Grow, NEW i, NEW id, NEW n \in 0..Len(rows), LastOf(i, id, n)
    PROVE  LastOf(i, id, n)'
<1>1. i \in 1..Len(rows) /\ rows'[i].id = id
  BY GrowIs DEF LastOf
<1>2. ASSUME NEW j \in DOMAIN rows', j <= n, rows'[j].id = id
      PROVE  j <= i
  BY <1>2, GrowIs DEF LastOf
<1>3. QED
  BY <1>1, <1>2 DEF LastOf

LEMMA ReplacesKept ==
    ASSUME Grow, NEW i \in DOMAIN rows, NEW m, Replaces(i, m)
    PROVE  Replaces(i, m)'
  BY GrowIs DEF Replaces

LEMMA KnownKept ==
    ASSUME Grow, NEW op, NEW row \in 0..Len(rows), NEW seen, NEW m \in 1..Len(rows),
           Known(op, row, seen, m)
    PROVE  Known(op, row, seen, m)'
  BY GrowIs DEF Known

LEMMA ReferencedKept ==
    ASSUME Grow, NEW id, Referenced(id) # {}
    PROVE  Referenced(id)' # {}
<1>1. PICK i \in DOMAIN rows : rows[i].id = id /\ rows[i].processes > 0
  BY DEF Referenced
<1>2. i \in DOMAIN rows' /\ rows'[i].id = id /\ rows'[i].processes > 0
  BY <1>1, GrowIs
<1>3. QED
  BY <1>2 DEF Referenced

LEMMA BoundsKept ==
    ASSUME Grow, NEW s \in Requests, BoundsInv(s),
           req'[s].row = req[s].row, req'[s].seen = req[s].seen,
           req'[s].made = req[s].made, req'[s].id = req[s].id
    PROVE  BoundsInv(s)'
  BY GrowIs DEF BoundsInv

LEMMA RequestKept ==
    ASSUME Grow, NEW s \in Requests, req[s] \in Request, RequestInv(s),
           req'[s] = req[s] \/ CutOff(s)
    PROVE  RequestInv(s)'
<1>1. /\ SameButReply(req'[s], req[s]) /\ req'[s].code = req[s].code
      /\ req'[s].stage = req[s].stage \/ req'[s].stage = "cut"
  BY DEF CutOff, Request, SameButReply, SameAsk
<1>2. BoundsInv(s) /\ BoundsInv(s)'
  BY <1>1, BoundsKept DEF RequestInv, SameButReply, SameAsk
<1>3. StageInv(s)'
  BY <1>1 DEF RequestInv, StageInv, Serving, Running, SameButReply, SameAsk
<1>4. \A i \in 0..Len(rows) : i # 0 =>
         /\ i \in 1..Len(rows) /\ rows'[i].id = rows[i].id
         /\ rows[i].deleted => rows'[i].deleted
  BY GrowIs
<1>5. /\ req[s].row # 0 => rows'[req[s].row].id = rows[req[s].row].id
      /\ req[s].row # 0 /\ rows[req[s].row].deleted => rows'[req[s].row].deleted
      /\ req[s].made # 0 => rows'[req[s].made].id = rows[req[s].made].id
      /\ req[s].made # 0 /\ rows[req[s].made].deleted => rows'[req[s].made].deleted
  BY <1>2, <1>4 DEF BoundsInv
<1>6. (faults' = 0 => faults = 0) /\ (faults > 0 => faults' > 0)
  BY DEF Grow
<1>7. ASSUME req[s].op = "save"
      PROVE  SaveInv(s)'
  <2>1. SaveInv(s)
    BY <1>7 DEF RequestInv
  <2>2. req'[s].code = 201 =>
            \E k \in DOMAIN events' : events'[k].of = "saved" /\ events'[k].by = s
    BY <2>1, <1>1, GrowIs DEF SaveInv
  <2>3. QED
    BY <2>1, <2>2, <1>1, <1>5, <1>6 DEF SaveInv, SameButReply, SameAsk
<1>8. ASSUME req[s].op = "delete"
      PROVE  DeleteInv(s)'
  <2>1. DeleteInv(s)
    BY <1>8 DEF RequestInv
  <2>2. Referenced(req[s].id) # {} => Referenced(req[s].id)' # {}
    <3>1. PICK id : id = req[s].id /\ id = req'[s].id
      BY <1>1 DEF SameButReply, SameAsk
    <3>2. Referenced(id) # {} => Referenced(id)' # {}
      BY ReferencedKept
    <3>3. QED
      BY <3>1, <3>2 DEF Referenced
  <2>3. QED
    BY <2>1, <2>2, <1>1, <1>5, <1>6 DEF DeleteInv, SameButReply, SameAsk
<1>9. ASSUME req[s].op \in Creating
      PROVE  CreateInv(s)'
  <2>1. CreateInv(s)
    BY <1>9 DEF RequestInv
  <2>2. req[s].stage = "call" =>
            IF req[s].op = "create" THEN LastOf(req[s].row, req[s].id, req[s].seen)'
            ELSE LatestOf(req[s].row, req[s].name, req[s].seen)'
    <3>1. \A i, name : \A n \in 0..Len(rows) : LatestOf(i, name, n) => LatestOf(i, name, n)'
      BY LatestKept
    <3>2. \A i, id : \A n \in 0..Len(rows) : LastOf(i, id, n) => LastOf(i, id, n)'
      BY LastKept
    <3>3. QED
      BY <2>1, <3>1, <3>2, <1>1, <1>2 DEF CreateInv, BoundsInv, SameButReply, SameAsk
  <2>3. req[s].made # 0 => Known(req[s].op, req[s].row, req[s].seen, req[s].made)'
    <3>1. \A op, seen : \A row \in 0..Len(rows) : \A m \in 1..Len(rows) :
             Known(op, row, seen, m) => Known(op, row, seen, m)'
      BY KnownKept
    <3>2. req[s].made # 0 => req[s].made \in 1..Len(rows)
      BY <1>2, <1>4 DEF BoundsInv
    <3>3. req[s].row \in 0..Len(rows)
      BY <1>2 DEF BoundsInv
    <3>4. SUFFICES ASSUME req[s].made # 0
                   PROVE  Known(req[s].op, req[s].row, req[s].seen, req[s].made)'
      OBVIOUS
    <3>5. Known(req[s].op, req[s].row, req[s].seen, req[s].made)
      BY <2>1, <3>4 DEF CreateInv
    <3>6. PICK op, row, seen, m :
             /\ op = req[s].op /\ row = req[s].row /\ seen = req[s].seen /\ m = req[s].made
             /\ op = req'[s].op /\ row = req'[s].row /\ seen = req'[s].seen
             /\ m = req'[s].made
      BY <1>1 DEF SameButReply, SameAsk
    <3>7. Known(op, row, seen, m)'
      BY <3>1, <3>2, <3>3, <3>4, <3>5, <3>6
    <3>8. QED
      BY <3>6, <3>7 DEF Known
  <2>4. QED
    BY <2>1, <2>2, <2>3, <1>1 DEF CreateInv, SameButReply, SameAsk, LastOf, LatestOf, Known
<1>10. QED
  BY <1>1, <1>2, <1>3, <1>7, <1>8, <1>9 DEF RequestInv, SameButReply, SameAsk

\* The reply of a request that acts is not out yet, unless it has started a
\* process that runs.
CodeKept(r) ==
    \/ req[r].code = 0
    \/ req[r].op = "start" /\ req'[r].op = "start" /\ req'[r].code = req[r].code

\* A row r deletes is one nobody else has deleted.
OwnRows(r) ==
    \/ Gone(req'[r]) \in {0, Gone(req[r])}
    \/ Gone(req'[r]) \in DOMAIN rows /\ ~ rows[Gone(req'[r])].deleted

\* An event of a saved workflow is that of r, which is answered with it.
OwnEvents(r) ==
    \A k \in DOMAIN events' : k > Len(events) /\ events'[k].of = "saved" =>
        /\ k = Len(events) + 1 /\ events'[k].by = r
        /\ req[r].code = 0 /\ SentBy(k, r)'

Step(r) ==
    /\ BrokerTypeOK' /\ Grow /\ RowsInv'
    /\ faults' \in 0..MaxFaults
    /\ req' \in [Requests -> Request]
    /\ \A s \in Requests : s # r => req'[s] = req[s] \/ CutOff(s)
    /\ CodeKept(r) /\ OwnRows(r) /\ OwnEvents(r)

LEMMA StepKeepsEvents ==
    ASSUME WorkflowInv, NEW r \in Requests, Step(r)
    PROVE  EventsInv'
<1>1. Grow /\ OwnEvents(r) /\ CodeKept(r) /\ req \in [Requests -> Request]
  BY DEF Step, WorkflowInv, TypeOK
<1>2. \A s \in Requests : s # r =>
          req'[s].op = req[s].op /\ req'[s].code = req[s].code /\ req'[s].made = req[s].made
  BY <1>1 DEF Step, CutOff, Request
<1>3. \A k \in 1..Len(events) : events'[k] = events[k] /\ k \in DOMAIN events
  BY <1>1, GrowIs
<1>4. ASSUME NEW k \in 1..Len(events), events[k].of = "saved"
      PROVE  events[k].by # r /\ SentBy(k, events[k].by)'
  <2>0. PICK s : s = events[k].by
    OBVIOUS
  <2>1. SentBy(k, s)
    BY <1>3, <1>4, <2>0 DEF WorkflowInv, EventsInv
  <2>2. s # r
    BY <1>1, <2>1 DEF CodeKept, SentBy
  <2>3. /\ s \in Requests /\ req'[s].op = "save" /\ req'[s].code = 201
        /\ req'[s].made = req[s].made /\ req[s].made # 0
        /\ events'[k] = events[k] /\ events[k].row \in DOMAIN rows
    BY <1>2, <1>3, <2>1, <2>2 DEF SentBy
  <2>4. events[k].row \in DOMAIN rows'
    BY <1>1, <2>3, GrowIs
  <2>5. PICK i, m : i = events[k].row /\ m = req[s].made
    OBVIOUS
  <2>6. Replaces(i, m) => Replaces(i, m)'
    BY <1>1, <2>3, <2>5, ReplacesKept
  <2>7. i = m \/ Replaces(i, m)'
    BY <2>1, <2>5, <2>6 DEF SentBy
  <2>8. SentBy(k, s)'
    BY <2>3, <2>4, <2>5, <2>7 DEF SentBy, Replaces
  <2>9. QED
    BY <2>0, <2>2, <2>3, <2>8 DEF SentBy, Replaces
<1>5. \A k \in DOMAIN events' : k \in 1..Len(events) \/ k > Len(events)
  BY <1>1, GrowIs
<1>6. ASSUME NEW k \in DOMAIN events', events'[k].of = "saved"
      PROVE  SentBy(k, events[k].by)'
  <2>1. CASE k \in 1..Len(events)
    BY <1>3, <1>4, <1>6, <2>1 DEF SentBy, Replaces
  <2>2. CASE k > Len(events)
    BY <1>1, <1>6, <2>2 DEF OwnEvents, SentBy, Replaces
  <2>3. QED
    BY <1>5, <2>1, <2>2
<1>7. ASSUME NEW j \in 1..Len(events), NEW k \in DOMAIN events', k > Len(events),
             events'[j].of = "saved", events'[k].of = "saved"
      PROVE  events'[j].by # events'[k].by
  BY <1>1, <1>3, <1>4, <1>7 DEF OwnEvents
<1>8. ASSUME NEW j \in DOMAIN events', NEW k \in DOMAIN events',
             events'[j].of = "saved", events'[k].of = "saved",
             events'[j].by = events'[k].by
      PROVE  j = k
  <2>1. CASE j \in 1..Len(events) /\ k \in 1..Len(events)
    BY <1>3, <1>8, <2>1 DEF WorkflowInv, EventsInv
  <2>2. CASE j > Len(events) /\ k > Len(events)
    BY <1>1, <1>8, <2>2 DEF OwnEvents
  <2>3. QED
    BY <1>5, <1>7, <1>8, <2>1, <2>2
<1>9. QED
  BY <1>6, <1>8 DEF EventsInv

LEMMA StepKeepsPairs ==
    ASSUME WorkflowInv, NEW r \in Requests, Step(r)
    PROVE  PairsInv'
<1>1. Grow /\ OwnRows(r) /\ req \in [Requests -> Request] /\ req' \in [Requests -> Request]
  BY DEF Step, WorkflowInv, TypeOK
<1>2. \A s \in Requests : s # r => Gone(req'[s]) = Gone(req[s])
  <2>1. \A s \in Requests : s # r => req'[s].op = req[s].op /\ req'[s].made = req[s].made
    BY <1>1 DEF Step, CutOff, Request
  <2>2. QED
    BY <2>1 DEF Gone
<1>3. \A s \in Requests : Gone(req[s]) # 0 => rows[Gone(req[s])].deleted
  BY DEF WorkflowInv, RequestInv, DeleteInv, Gone
<1>4. ASSUME NEW s \in Requests, s # r
      PROVE  Gone(req'[r]) # 0 => Gone(req'[r]) # Gone(req[s])
  <2>1. Gone(req[r]) # 0 => Gone(req[r]) # Gone(req[s])
    BY <1>4 DEF WorkflowInv, PairsInv
  <2>2. QED
    BY <2>1, <1>1, <1>3 DEF OwnRows
<1>5. ASSUME NEW t \in Requests, NEW s \in Requests, t # s, Gone(req'[t]) # 0
      PROVE  Gone(req'[t]) # Gone(req'[s])
  <2>1. CASE t # r /\ s # r
    BY <1>2, <1>5, <2>1 DEF WorkflowInv, PairsInv
  <2>2. CASE t = r
    BY <1>2, <1>4, <1>5, <2>2
  <2>3. CASE s = r
    BY <1>2, <1>4, <1>5, <2>3
  <2>4. QED
    BY <2>1, <2>2, <2>3
<1>6. QED
  BY <1>5 DEF PairsInv, Gone

(***************************************************************************)
(* A step of r keeps the invariant when r keeps its part.                  *)
(***************************************************************************)
LEMMA StepKeeps ==
    ASSUME WorkflowInv, NEW r \in Requests, Step(r), RequestInv(r)'
    PROVE  WorkflowInv'
<1>1. TypeOK'
  BY DEF Step, Grow, TypeOK
<1>2. ASSUME NEW s \in Requests
      PROVE  RequestInv(s)'
  <2>1. CASE s = r
    BY <2>1
  <2>2. CASE s # r
    <3>1. Grow /\ req[s] \in Request /\ RequestInv(s) /\ (req'[s] = req[s] \/ CutOff(s))
      BY <2>2 DEF Step, WorkflowInv, TypeOK
    <3>2. QED
      BY <3>1, RequestKept
  <2>3. QED
    BY <2>1, <2>2
<1>3. QED
  BY <1>1, <1>2, StepKeepsEvents, StepKeepsPairs DEF WorkflowInv, Step

-----------------------------------------------------------------------------
(* Kinds of steps *)

OthersKept(r) == \A s \in Requests : s # r => req'[s] = req[s]

LEMMA AnswersDoes ==
    ASSUME TypeOK, NEW r \in Requests, NEW code \in Codes, Answers(r, code)
    PROVE  /\ req' \in [Requests -> Request] /\ OthersKept(r)
           /\ SameButReply(req'[r], req[r])
           /\ req'[r].stage = "answered" /\ req'[r].code = code
<1>1. req[r] \in Request /\ req \in [Requests -> Request]
  BY DEF TypeOK
<1>2. req' = [req EXCEPT ![r] = Answered(req[r], code)]
  BY <1>1 DEF Answers, Answered
<1>3. /\ Answered(req[r], code) \in Request
      /\ SameButReply(Answered(req[r], code), req[r])
      /\ Answered(req[r], code).stage = "answered"
      /\ Answered(req[r], code).code = code
  BY <1>1, AnsweredIs
<1>4. QED
  BY <1>1, <1>2, <1>3 DEF OthersKept

LEMMA GoesOnDoes ==
    ASSUME TypeOK, NEW r \in Requests, NEW stage \in Stages, GoesOn(r, stage)
    PROVE  /\ req' \in [Requests -> Request] /\ OthersKept(r)
           /\ SameButReply(req'[r], req[r])
           /\ req'[r].stage = stage /\ req'[r].code = req[r].code
<1>1. req[r] \in Request /\ req \in [Requests -> Request]
  BY DEF TypeOK
<1>2. req' = [req EXCEPT ![r] = Staged(req[r], stage)]
  BY <1>1 DEF GoesOn, Staged
<1>3. /\ Staged(req[r], stage) \in Request /\ SameButReply(Staged(req[r], stage), req[r])
      /\ Staged(req[r], stage).stage = stage /\ Staged(req[r], stage).code = req[r].code
  BY <1>1, StagedIs
<1>4. QED
  BY <1>1, <1>2, <1>3 DEF OthersKept

LEMMA FindsDoes ==
    ASSUME TypeOK, NEW r \in Requests, NEW stage \in Stages, NEW i \in Nat,
           Finds(r, stage, i)
    PROVE  /\ req' \in [Requests -> Request] /\ OthersKept(r)
           /\ req'[r].stage = stage /\ req'[r].row = i /\ req'[r].seen = Len(rows)
           /\ SameAsk(req'[r], req[r])
           /\ req'[r].made = req[r].made /\ req'[r].asked = req[r].asked
           /\ req'[r].code = req[r].code
<1>1. req[r] \in Request /\ req \in [Requests -> Request]
  BY DEF TypeOK
<1>2. PICK n \in Nat : n = Len(rows)
  BY RowsAre DEF TypeOK
<1>3. req' = [req EXCEPT ![r] = Moved(req[r], stage, i, n)]
  BY <1>1, <1>2 DEF Finds, Moved
<1>4. LET p == Moved(req[r], stage, i, n)
      IN  /\ p \in Request /\ p.stage = stage /\ p.row = i /\ p.seen = n
          /\ SameAsk(p, req[r]) /\ p.made = req[r].made
          /\ p.asked = req[r].asked /\ p.code = req[r].code
  BY <1>1, MovedIs
<1>5. QED
  BY <1>1, <1>2, <1>3, <1>4 DEF OthersKept

LEMMA DoesDoes ==
    ASSUME TypeOK, NEW r \in Requests, NEW i \in Nat, NEW stage \in Stages,
           NEW code \in Codes, Does(r, i, stage, code)
    PROVE  /\ req' \in [Requests -> Request] /\ OthersKept(r)
           /\ req'[r].made = i /\ req'[r].stage = stage /\ req'[r].code = code
           /\ SameAsk(req'[r], req[r]) /\ req'[r].row = req[r].row
           /\ req'[r].seen = req[r].seen /\ req'[r].asked = req[r].asked
<1>1. req[r] \in Request /\ req \in [Requests -> Request]
  BY DEF TypeOK
<1>2. req' = [req EXCEPT ![r] = Making(req[r], i, stage, code)]
  BY <1>1 DEF Does, Making
<1>3. LET p == Making(req[r], i, stage, code)
      IN  /\ p \in Request /\ p.made = i /\ p.code = code /\ p.stage = stage
          /\ SameAsk(p, req[r]) /\ p.row = req[r].row /\ p.seen = req[r].seen
          /\ p.asked = req[r].asked
  BY <1>1, MakingIs
<1>4. QED
  BY <1>1, <1>2, <1>3 DEF OthersKept

\* Nothing but r and the rows change.
LEMMA ChangingStep ==
    ASSUME WorkflowInv, NEW r \in Requests, UNCHANGED <<at, client, events>>,
           faults' \in 0..MaxFaults, faults' >= faults,
           rows' \in Seq(Row), RowsGrow, RowsInv',
           req' \in [Requests -> Request], OthersKept(r),
           CodeKept(r), OwnRows(r), RequestInv(r)'
    PROVE  WorkflowInv'
<1>1. BrokerTypeOK'
  BY DEF WorkflowInv, TypeOK, BrokerTypeOK
<1>2. Grow
  <2>1. rows \in Seq(Row) /\ events \in Seq(Event) /\ faults \in 0..MaxFaults
    BY DEF WorkflowInv, TypeOK
  <2>2. EventsGrow
    BY <2>1 DEF EventsGrow
  <2>3. QED
    BY <2>1, <2>2, WorkflowAssumption DEF Grow
<1>3. OwnEvents(r)
  <2>1. \A k \in DOMAIN events' : ~ (k > Len(events))
    BY <1>2, GrowIs
  <2>2. QED
    BY <2>1 DEF OwnEvents
<1>4. Step(r)
  BY <1>1, <1>2, <1>3 DEF Step, OthersKept
<1>5. QED
  BY <1>4, StepKeeps

LEMMA RowsStay ==
    ASSUME rows \in Seq(Row), RowsInv, rows' = rows
    PROVE  rows' \in Seq(Row) /\ RowsGrow /\ RowsInv'
<1>1. RowsInv'
  BY DEF RowsInv
<1>2. RowsGrow
  BY RowsAre DEF RowsGrow
<1>3. QED
  BY <1>1, <1>2

\* Nothing but r changes.
LEMMA QuietStep ==
    ASSUME WorkflowInv, NEW r \in Requests, UNCHANGED <<at, client, rows, events>>,
           faults' \in 0..MaxFaults, faults' >= faults,
           req' \in [Requests -> Request], OthersKept(r),
           CodeKept(r), OwnRows(r), RequestInv(r)'
    PROVE  WorkflowInv'
<1>1. rows' \in Seq(Row) /\ RowsGrow /\ RowsInv'
  BY RowsStay DEF WorkflowInv, TypeOK
<1>2. QED
  BY <1>1, ChangingStep

\* What holds of a request that is served and of the rows.
LEMMA Served ==
    ASSUME WorkflowInv, NEW r \in Requests
    PROVE  /\ TypeOK /\ req[r] \in Request /\ req \in [Requests -> Request]
           /\ RequestInv(r) /\ StageInv(r) /\ BoundsInv(r)
           /\ req[r].row \in 0..Len(rows) /\ req[r].seen \in 0..Len(rows)
           /\ req[r].made \in 0..Len(rows)
           /\ Len(rows) \in Nat /\ DOMAIN rows = 1..Len(rows)
           /\ rows \in Seq(Row) /\ RowsInv
           /\ faults \in 0..MaxFaults /\ faults \in Nat /\ faults >= faults
  BY RowsAre, WorkflowAssumption DEF WorkflowInv, TypeOK, RequestInv, BoundsInv

(***************************************************************************)
(* An answer that changes nothing else.                                    *)
(***************************************************************************)
LEMMA AnswerStep ==
    ASSUME WorkflowInv, NEW r \in Requests, NEW code \in {200, 400, 404, 422, 500},
           Answers(r, code), UNCHANGED <<at, client, rows, events>>,
           faults' \in 0..MaxFaults, faults' >= faults,
           req[r].stage \in Serving,
           req[r].op = "save" /\ req[r].made # 0 =>
              /\ code # 400
              /\ code = 500 => req[r].odd \/ faults' > 0 \/ rows[req[r].made].deleted,
           req[r].op = "delete" /\ code = 404 /\ req[r].row # 0 =>
              rows[req[r].row].deleted,
           req[r].op = "delete" /\ (code = 422 \/ (code = 500 /\ faults' = 0)) =>
              Referenced(req[r].id) # {}
    PROVE  WorkflowInv'
<1>1. /\ TypeOK /\ RequestInv(r) /\ StageInv(r) /\ BoundsInv(r)
  BY Served
<1>2. code \in Codes
  BY DEF Codes
<1>3. /\ req' \in [Requests -> Request] /\ OthersKept(r)
      /\ SameButReply(req'[r], req[r])
      /\ req'[r].stage = "answered" /\ req'[r].code = code
  BY <1>1, <1>2, AnswersDoes
<1>4. req[r].code = 0
  BY <1>1 DEF StageInv
<1>5. StageInv(r)'
  BY <1>1, <1>3, <1>4 DEF StageInv, SameButReply, SameAsk, Serving, Running
<1>6. req[r].op = "save" => SaveInv(r)'
  BY <1>1, <1>3 DEF SaveInv, SameButReply, SameAsk
<1>7. req[r].op = "delete" => DeleteInv(r)'
  <2>1. Referenced(req[r].id) # {} => Referenced(req[r].id)' # {}
    BY <1>3 DEF Referenced, SameButReply, SameAsk
  <2>2. SUFFICES ASSUME req[r].op = "delete" PROVE DeleteInv(r)'
    OBVIOUS
  <2>3. DeleteInv(r)
    BY <1>1, <2>2 DEF RequestInv
  <2>4. QED
    BY <1>1, <1>3, <1>4, <2>1, <2>2, <2>3 DEF DeleteInv, SameButReply, SameAsk
<1>8. req[r].op \in Creating => CreateInv(r)'
  <2>1. SUFFICES ASSUME req[r].op \in Creating PROVE CreateInv(r)'
    OBVIOUS
  <2>2. CreateInv(r)
    BY <1>1, <2>1 DEF RequestInv
  <2>3. QED
    BY <1>3, <2>2 DEF CreateInv, SameButReply, SameAsk, Known
<1>9. BoundsInv(r)'
  BY <1>1, <1>3 DEF BoundsInv, SameButReply, SameAsk
<1>10. RequestInv(r)'
  BY <1>3, <1>5, <1>6, <1>7, <1>8, <1>9 DEF RequestInv, SameButReply, SameAsk
<1>11. CodeKept(r) /\ OwnRows(r)
  BY <1>3, <1>4 DEF CodeKept, OwnRows, SameButReply, SameAsk, Gone
<1>12. QED
  BY <1>3, <1>10, <1>11, QuietStep

(***************************************************************************)
(* On to the next await.                                                   *)
(***************************************************************************)
LEMMA MoveStep ==
    ASSUME WorkflowInv, NEW r \in Requests, NEW stage \in {"save", "envs", "refetch", "call"},
           GoesOn(r, stage), UNCHANGED <<at, client, rows, events, faults>>,
           req[r].stage \in Serving,
           stage # "call" => req[r].op = "save",
           stage = "call" => req[r].op = "delete" /\ req[r].made = 0,
           stage = "save" => req[r].made = 0,
           stage = "refetch" => req[r].made # 0
    PROVE  WorkflowInv'
<1>1. /\ TypeOK /\ RequestInv(r) /\ StageInv(r) /\ BoundsInv(r)
      /\ faults \in 0..MaxFaults /\ faults >= faults
  BY Served
<1>2. stage \in Stages
  BY DEF Stages
<1>3. /\ req' \in [Requests -> Request] /\ OthersKept(r)
      /\ SameButReply(req'[r], req[r])
      /\ req'[r].stage = stage /\ req'[r].code = req[r].code
  BY <1>1, <1>2, GoesOnDoes
<1>4. req[r].code = 0
  BY <1>1 DEF StageInv
<1>5. StageInv(r)'
  BY <1>1, <1>3, <1>4 DEF StageInv, SameButReply, SameAsk, Serving, Running
<1>6. req[r].op = "save" => SaveInv(r)'
  BY <1>3, <1>4 DEF SaveInv, SameButReply, SameAsk
<1>7. req[r].op = "delete" => DeleteInv(r)'
  <2>1. SUFFICES ASSUME req[r].op = "delete" PROVE DeleteInv(r)'
    OBVIOUS
  <2>2. DeleteInv(r)
    BY <1>1, <2>1 DEF RequestInv
  <2>3. QED
    BY <1>3, <1>4, <2>2 DEF DeleteInv, SameButReply, SameAsk
<1>8. req[r].op \notin Creating /\ req[r].op \in {"save", "delete"}
  BY DEF Creating
<1>9. BoundsInv(r)'
  BY <1>1, <1>3 DEF BoundsInv, SameButReply, SameAsk
<1>10. RequestInv(r)'
  BY <1>3, <1>5, <1>6, <1>7, <1>8, <1>9 DEF RequestInv, SameButReply, SameAsk
<1>11. CodeKept(r) /\ OwnRows(r)
  BY <1>3, <1>4 DEF CodeKept, OwnRows, SameButReply, SameAsk, Gone
<1>12. QED
  BY <1>1, <1>3, <1>10, <1>11, QuietStep

(***************************************************************************)
(* On to the next await with the workflow that was found.                  *)
(***************************************************************************)
LEMMA FindStep ==
    ASSUME WorkflowInv, NEW r \in Requests, NEW stage \in {"list", "call"},
           NEW i \in 1..Len(rows),
           Finds(r, stage, i), UNCHANGED <<at, client, rows, events, faults>>,
           req[r].stage = "fetch",
           stage = "list" => req[r].op = "delete" /\ rows[i].id = req[r].id,
           stage = "call" => req[r].op \in Creating,
           stage = "call" =>
              IF req[r].op = "create" THEN LastOf(i, req[r].id, Len(rows))
              ELSE LatestOf(i, req[r].name, Len(rows))
    PROVE  WorkflowInv'
<1>1. /\ TypeOK /\ RequestInv(r) /\ StageInv(r) /\ BoundsInv(r) /\ i \in Nat /\ i # 0
      /\ Len(rows) \in Nat /\ faults \in 0..MaxFaults /\ faults >= faults
  BY Served
<1>2. stage \in Stages
  BY DEF Stages
<1>3. /\ req' \in [Requests -> Request] /\ OthersKept(r)
      /\ req'[r].stage = stage /\ req'[r].row = i /\ req'[r].seen = Len(rows)
      /\ SameAsk(req'[r], req[r])
      /\ req'[r].made = req[r].made /\ req'[r].asked = req[r].asked
      /\ req'[r].code = req[r].code
  BY <1>1, <1>2, FindsDoes
<1>4. req[r].code = 0 /\ req[r].made = 0
  BY <1>1 DEF StageInv, Serving
<1>5. StageInv(r)'
  BY <1>3, <1>4 DEF StageInv, Serving, Running, SameAsk
<1>6. req[r].op # "save"
  BY DEF Creating
<1>7. req[r].op = "delete" => DeleteInv(r)'
  BY <1>3, <1>4 DEF DeleteInv, Creating, SameAsk
<1>8. ASSUME req[r].op \in Creating PROVE CreateInv(r)'
  <2>1. stage = "call"
    BY <1>8 DEF Creating
  <2>2. PICK name, id, n :
            /\ name = req[r].name /\ name = req'[r].name
            /\ id = req[r].id /\ id = req'[r].id
            /\ n = Len(rows) /\ n = req'[r].seen
    BY <1>3 DEF SameAsk
  <2>3. IF req[r].op = "create" THEN LastOf(i, id, n)' ELSE LatestOf(i, name, n)'
    BY <2>1, <2>2 DEF LastOf, LatestOf
  <2>4. QED
    BY <1>3, <1>4, <2>1, <2>2, <2>3 DEF CreateInv, SameAsk, LastOf, LatestOf
<1>9. BoundsInv(r)'
  BY <1>1, <1>3 DEF BoundsInv, SameAsk
<1>10. RequestInv(r)'
  BY <1>3, <1>5, <1>6, <1>7, <1>8, <1>9 DEF RequestInv, SameAsk
<1>11. CodeKept(r) /\ OwnRows(r)
  BY <1>3, <1>4 DEF CodeKept, OwnRows, SameAsk, Gone
<1>12. QED
  BY <1>1, <1>3, <1>10, <1>11, QuietStep

-----------------------------------------------------------------------------
(* The steps that leave rows and events alone *)

LEMMA InitWorkflow == Init => WorkflowInv
<1>1. SUFFICES ASSUME Init PROVE WorkflowInv
  OBVIOUS
<1>2. BrokerTypeOK /\ faults \in 0..MaxFaults
  BY <1>1, BrokerInitType, WorkflowAssumption DEF Init
<1>3. rows = <<>> /\ events = <<>> /\ Len(rows) = 0 /\ DOMAIN rows = {} /\ DOMAIN events = {}
  BY <1>1 DEF Init
<1>4. PICK n \in Names : n = (CHOOSE x \in Names : TRUE)
  BY WorkflowAssumption
<1>5. <<>> \in Seq(Outcome)
  OBVIOUS
<1>6. req = [r \in Requests |->
                [op |-> "save", name |-> n, id |-> 0, odd |-> FALSE, row |-> 0,
                 seen |-> 0, made |-> 0, asked |-> <<>>, stage |-> "idle", code |-> 0]]
  BY <1>1, <1>4 DEF Init
<1>7. req \in [Requests -> Request]
  BY <1>5, <1>6 DEF Request, Operations, Stages, Codes
<1>8. TypeOK
  BY <1>2, <1>3, <1>7 DEF TypeOK
<1>9. RowsInv /\ EventsInv
  BY <1>3 DEF RowsInv, EventsInv
<1>10. PairsInv
  BY <1>6 DEF PairsInv, Gone
<1>11. \A r \in Requests : RequestInv(r)
  BY <1>3, <1>6 DEF RequestInv, BoundsInv, StageInv, SaveInv, Serving, Running, Creating
<1>12. QED
  BY <1>8, <1>9, <1>10, <1>11 DEF WorkflowInv

LEMMA ReceiveStep ==
    ASSUME WorkflowInv, NEW r \in Requests, NEW op \in Operations, NEW name \in Names,
           NEW id \in Ids, NEW odd \in BOOLEAN, Receive(r, op, name, id, odd)
    PROVE  WorkflowInv'
<1>1. /\ req[r] \in Request /\ req \in [Requests -> Request] /\ TypeOK
      /\ RequestInv(r) /\ StageInv(r) /\ BoundsInv(r)
      /\ Len(rows) \in Nat /\ DOMAIN rows = 1..Len(rows) /\ RowsInv
      /\ faults \in 0..MaxFaults /\ faults >= faults
  BY Served
<1>2. req[r].stage = "idle"
  BY DEF Receive
<1>3. req[r].code = 0 /\ req[r].made = 0 /\ req[r].row = 0
  BY <1>1, <1>2 DEF StageInv, Serving
<1>4. PICK stage \in Stages :
          stage = CASE op = "save" -> "validate" [] op = "beacon" -> "beacon"
                    [] OTHER -> "fetch"
  BY DEF Stages
<1>5. id \in {0} \cup OwnIds \cup 1..Len(rows) /\ id \in Nat
  <2>1. \A i \in DOMAIN rows : rows[i].id \in OwnIds \cup 1..i
    BY <1>1 DEF RowsInv
  <2>2. \A i \in DOMAIN rows : 1..i \subseteq 1..Len(rows)
    BY <1>1
  <2>3. id \in {0} \cup OwnIds \cup 1..Len(rows)
    BY <2>1, <2>2 DEF Ids
  <2>4. QED
    BY <1>1, <2>3, WorkflowAssumption
<1>6. req' = [req EXCEPT ![r] = Asking(req[r], op, name, id, odd, stage)]
  BY <1>1, <1>4 DEF Receive, Asking
<1>7. LET p == Asking(req[r], op, name, id, odd, stage)
      IN  /\ p \in Request /\ p.op = op /\ p.name = name /\ p.id = id
          /\ p.odd = odd /\ p.stage = stage /\ p.row = req[r].row /\ p.seen = req[r].seen
          /\ p.made = req[r].made /\ p.asked = req[r].asked /\ p.code = req[r].code
  BY <1>1, <1>5, AskingIs
<1>8. /\ req' \in [Requests -> Request] /\ OthersKept(r)
      /\ req'[r].op = op /\ req'[r].id = id /\ req'[r].row = 0
      /\ req'[r].stage = stage /\ req'[r].seen = req[r].seen
      /\ req'[r].made = 0 /\ req'[r].code = 0
  BY <1>1, <1>3, <1>6, <1>7 DEF OthersKept
<1>9. UNCHANGED <<at, client, rows, events, faults>>
  BY DEF Receive, brokerVars
<1>10. /\ op = "save" => stage = "validate"
       /\ op = "beacon" => stage = "beacon"
       /\ op \notin {"save", "beacon"} => stage = "fetch"
  BY <1>4
<1>11. StageInv(r)'
  BY <1>8, <1>10 DEF StageInv, Serving, Running, Creating, Operations
<1>12. op = "save" => SaveInv(r)'
  BY <1>8, <1>10 DEF SaveInv
<1>13. op = "delete" => DeleteInv(r)'
  BY <1>8, <1>10 DEF DeleteInv
<1>14. op \in Creating => CreateInv(r)'
  BY <1>8, <1>10 DEF CreateInv, Creating
<1>15. BoundsInv(r)'
  BY <1>1, <1>5, <1>8, <1>9 DEF BoundsInv
<1>16. RequestInv(r)'
  BY <1>8, <1>11, <1>12, <1>13, <1>14, <1>15 DEF RequestInv
<1>17. CodeKept(r) /\ OwnRows(r)
  BY <1>3, <1>8 DEF CodeKept, OwnRows, Gone
<1>18. QED
  BY <1>1, <1>8, <1>9, <1>16, <1>17, QuietStep

LEMMA FaultIs ==
    ASSUME WorkflowInv, Fault
    PROVE  faults' \in 0..MaxFaults /\ faults' >= faults /\ faults' > 0
<1>1. faults \in 0..MaxFaults /\ faults' = faults + 1 /\ faults < MaxFaults
  BY DEF Fault, WorkflowInv, TypeOK
<1>2. QED
  BY <1>1, WorkflowAssumption

LEMMA ReadFailsStep ==
    ASSUME WorkflowInv, NEW r \in Requests, ReadFails(r)
    PROVE  WorkflowInv'
<1>1. /\ req[r].stage \in Serving /\ Answers(r, 500)
      /\ UNCHANGED <<at, client, rows, events>> /\ Fault
  BY DEF ReadFails, brokerVars, Serving
<1>2. faults' \in 0..MaxFaults /\ faults' >= faults /\ faults' > 0
  BY <1>1, FaultIs
<1>3. QED
  BY <1>1, <1>2, AnswerStep

LEMMA ValidatedStep ==
    ASSUME WorkflowInv, NEW r \in Requests, Validated(r)
    PROVE  WorkflowInv'
<1>1. /\ req[r].op = "save" /\ req[r].stage = "validate" /\ req[r].stage \in Serving
      /\ UNCHANGED <<at, client, rows, events, faults>>
      /\ Answers(r, 400) \/ GoesOn(r, "save")
  BY DEF Validated, At, brokerVars, Serving
<1>2. req[r].made = 0 /\ faults \in 0..MaxFaults /\ faults >= faults
  BY <1>1, Served DEF StageInv, Serving
<1>3. CASE Answers(r, 400)
  BY <1>1, <1>2, <1>3, AnswerStep
<1>4. CASE GoesOn(r, "save")
  BY <1>1, <1>2, <1>4, MoveStep
<1>5. QED
  BY <1>1, <1>3, <1>4

LEMMA EnvironmentValidatedStep ==
    ASSUME WorkflowInv, NEW r \in Requests, EnvironmentValidated(r)
    PROVE  WorkflowInv'
<1>1. /\ req[r].op = "save" /\ req[r].stage = "envs" /\ req[r].stage \in Serving
      /\ UNCHANGED <<at, client, rows, events, faults>>
      /\ \/ req[r].odd /\ Answers(r, 500)
         \/ ~ req[r].odd /\ req[r].made = 0 /\ Answers(r, 400)
         \/ ~ req[r].odd /\ req[r].made # 0 /\ GoesOn(r, "refetch")
  BY DEF EnvironmentValidated, At, brokerVars, Serving
<1>2. faults \in 0..MaxFaults /\ faults >= faults
  BY Served
<1>3. CASE req[r].odd /\ Answers(r, 500)
  BY <1>1, <1>2, <1>3, AnswerStep
<1>4. CASE req[r].made = 0 /\ Answers(r, 400)
  BY <1>1, <1>2, <1>4, AnswerStep
<1>5. CASE req[r].made # 0 /\ GoesOn(r, "refetch")
  BY <1>1, <1>2, <1>5, MoveStep
<1>6. QED
  BY <1>1, <1>3, <1>4, <1>5

LEMMA DeleteFetchedStep ==
    ASSUME WorkflowInv, NEW r \in Requests, DeleteFetched(r)
    PROVE  WorkflowInv'
<1>1. /\ req[r].op = "delete" /\ req[r].stage = "fetch" /\ req[r].stage \in Serving
      /\ UNCHANGED <<at, client, rows, events, faults>>
      /\ \/ \E i \in Live(req[r].id) : Finds(r, "list", i)
         \/ Live(req[r].id) = {} /\ Answers(r, 404)
  BY DEF DeleteFetched, At, brokerVars, Serving
<1>2. /\ faults \in 0..MaxFaults /\ faults >= faults /\ RequestInv(r)
      /\ DOMAIN rows = 1..Len(rows)
  BY Served
<1>3. ASSUME NEW i \in Live(req[r].id), Finds(r, "list", i)
      PROVE  WorkflowInv'
  <2>1. i \in 1..Len(rows) /\ rows[i].id = req[r].id
    BY <1>2, <1>3 DEF Live
  <2>2. QED
    BY <1>1, <1>3, <2>1, FindStep
<1>4. ASSUME Answers(r, 404) PROVE WorkflowInv'
  <2>1. req[r].row = 0
    BY <1>1, <1>2 DEF RequestInv, DeleteInv
  <2>2. QED
    BY <1>1, <1>2, <1>4, <2>1, AnswerStep
<1>5. QED
  BY <1>1, <1>3, <1>4

LEMMA DeleteListedStep ==
    ASSUME WorkflowInv, NEW r \in Requests, DeleteListed(r)
    PROVE  WorkflowInv'
<1>1. /\ req[r].op = "delete" /\ req[r].stage = "list" /\ req[r].stage \in Serving
      /\ UNCHANGED <<at, client, rows, events, faults>>
      /\ IF Referenced(req[r].id) # {} THEN Answers(r, 422) ELSE GoesOn(r, "call")
  BY DEF DeleteListed, At, brokerVars, Serving
<1>2. faults \in 0..MaxFaults /\ faults >= faults /\ req[r].made = 0
  BY <1>1, Served DEF StageInv, Serving
<1>3. CASE Referenced(req[r].id) # {}
  BY <1>1, <1>2, <1>3, AnswerStep
<1>4. CASE Referenced(req[r].id) = {}
  BY <1>1, <1>2, <1>4, MoveStep
<1>5. QED
  BY <1>3, <1>4

LEMMA CreateFetchedStep ==
    ASSUME WorkflowInv, NEW r \in Requests, CreateFetched(r)
    PROVE  WorkflowInv'
<1>1. /\ req[r].op = "create" /\ req[r].stage = "fetch" /\ req[r].stage \in Serving
      /\ UNCHANGED <<at, client, rows, events, faults>>
      /\ \/ \E i \in Live(req[r].id) : Finds(r, "call", i)
         \/ Live(req[r].id) = {} /\ Answers(r, 404)
  BY DEF CreateFetched, At, brokerVars, Serving
<1>2. /\ faults \in 0..MaxFaults /\ faults >= faults /\ rows \in Seq(Row) /\ RowsInv
      /\ DOMAIN rows = 1..Len(rows) /\ Len(rows) \in Nat
  BY Served
<1>3. ASSUME NEW i \in Live(req[r].id), Finds(r, "call", i)
      PROVE  WorkflowInv'
  <2>1. LastOf(i, req[r].id, Len(rows)) /\ i \in 1..Len(rows)
    BY <1>2, LiveIsLast DEF LastOf
  <2>2. QED
    BY <1>1, <1>3, <2>1, FindStep DEF Creating
<1>4. ASSUME Answers(r, 404) PROVE WorkflowInv'
  BY <1>1, <1>2, <1>4, AnswerStep
<1>5. QED
  BY <1>1, <1>3, <1>4

LEMMA NameFetchedStep ==
    ASSUME WorkflowInv, NEW r \in Requests, NameFetched(r)
    PROVE  WorkflowInv'
<1> DEFINE name == req[r].name
<1>1. /\ req[r].op \in {"createByName", "start"} /\ req[r].stage = "fetch"
      /\ req[r].stage \in Serving
      /\ UNCHANGED <<at, client, rows, events, faults>>
      /\ IF Saved(name) = {} THEN Answers(r, 404) ELSE Finds(r, "call", Latest(name))
  BY DEF NameFetched, At, brokerVars, Serving
<1>2. /\ faults \in 0..MaxFaults /\ faults >= faults
      /\ DOMAIN rows = 1..Len(rows) /\ rows \in Seq(Row) /\ RowsInv
  BY Served
<1>3. CASE Saved(name) = {}
  BY <1>1, <1>2, <1>3, AnswerStep
<1>4. CASE Saved(name) # {}
  <2>1. PICK i \in 1..Len(rows) : i = Latest(name)
    BY <1>2, <1>4, LatestIs
  <2>2. /\ rows[i].name = name
        /\ \A j \in Saved(name) : rows[j].version <= rows[i].version
    BY <1>2, <1>4, <2>1, LatestIs
  <2>3. LatestOf(i, name, Len(rows))
    BY <2>1, <2>2 DEF LatestOf, Saved
  <2>4. Finds(r, "call", i)
    BY <1>1, <1>4, <2>1
  <2>5. QED
    BY <1>1, <2>3, <2>4, FindStep DEF Creating
<1>5. QED
  BY <1>3, <1>4

-----------------------------------------------------------------------------
(* The steps that change a row *)

LEMMA RowAdded ==
    ASSUME rows \in Seq(Row), RowsInv, NEW row \in Row, rows' = Append(rows, row),
           row.deleted = FALSE,
           \A j \in DOMAIN rows : rows[j].name = row.name /\ ~ rows[j].deleted
              => rows[j].version < row.version,
           row.id \in OwnIds \cup 1..(Len(rows) + 1),
           \A j \in DOMAIN rows : rows[j].id = row.id => rows[j].deleted
    PROVE  /\ rows' \in Seq(Row) /\ RowsGrow /\ RowsInv'
           /\ Len(rows') = Len(rows) + 1
<1>1. /\ Len(rows) \in Nat /\ DOMAIN rows = 1..Len(rows)
      /\ \A i \in 1..Len(rows) : rows[i].processes \in Nat
  BY RowsAre
<1>2. /\ rows' \in Seq(Row) /\ Len(rows') = Len(rows) + 1
      /\ DOMAIN rows' = 1..(Len(rows) + 1)
      /\ \A i \in 1..Len(rows) : rows'[i] = rows[i]
      /\ rows'[Len(rows) + 1] = row
  BY <1>1
<1>3. RowsGrow
  BY <1>1, <1>2 DEF RowsGrow
<1>4. \A i \in DOMAIN rows' :
          (i \in DOMAIN rows /\ rows'[i] = rows[i]) \/ (i = Len(rows) + 1 /\ rows'[i] = row)
  BY <1>1, <1>2
<1>5. \A i, j \in DOMAIN rows' : i < j =>
         /\ i \in DOMAIN rows /\ rows'[i] = rows[i]
         /\ (j \in DOMAIN rows /\ rows'[j] = rows[j]) \/ rows'[j] = row
  BY <1>1, <1>2, <1>4
<1>6. ASSUME NEW i \in DOMAIN rows', NEW j \in DOMAIN rows', i < j,
             rows'[i].name = rows'[j].name, ~ rows'[i].deleted, ~ rows'[j].deleted
      PROVE  rows'[i].version < rows'[j].version
  BY <1>5, <1>6 DEF RowsInv
<1>7. \A i \in DOMAIN rows' : rows'[i].deleted => rows'[i].processes = 0
  BY <1>4 DEF RowsInv
<1>8. \A i \in DOMAIN rows' : rows'[i].id \in OwnIds \cup 1..i
  BY <1>4 DEF RowsInv
<1>9. ASSUME NEW i \in DOMAIN rows', NEW j \in DOMAIN rows', i < j,
             rows'[i].id = rows'[j].id
      PROVE  rows'[i].deleted
  BY <1>5, <1>9 DEF RowsInv
<1>10. QED
  BY <1>2, <1>3, <1>6, <1>7, <1>8, <1>9 DEF RowsInv

LEMMA RowChanged ==
    ASSUME rows \in Seq(Row), RowsInv, NEW i \in DOMAIN rows, NEW row \in Row,
           rows' = [rows EXCEPT ![i] = row], row.id = rows[i].id,
           row.name = rows[i].name, row.version = rows[i].version,
           rows[i].deleted => row.deleted, row.processes >= rows[i].processes,
           row.deleted => row.processes = 0
    PROVE  /\ rows' \in Seq(Row) /\ RowsGrow /\ RowsInv'
           /\ Len(rows') = Len(rows) /\ rows'[i] = row
<1>1. /\ Len(rows) \in Nat /\ DOMAIN rows = 1..Len(rows)
      /\ \A j \in 1..Len(rows) : rows[j].processes \in Nat
  BY RowsAre
<1>2. /\ rows' \in Seq(Row) /\ Len(rows') = Len(rows)
      /\ DOMAIN rows' = 1..Len(rows) /\ rows'[i] = row
      /\ \A j \in 1..Len(rows) : j # i => rows'[j] = rows[j]
  BY <1>1
<1>3. RowsGrow
  BY <1>1, <1>2 DEF RowsGrow
<1>4. \A j \in DOMAIN rows' :
          /\ j \in DOMAIN rows /\ rows'[j].id = rows[j].id
          /\ rows'[j].name = rows[j].name /\ rows'[j].version = rows[j].version
          /\ rows[j].deleted => rows'[j].deleted
          /\ rows'[j].deleted => rows'[j].processes = 0
  BY <1>1, <1>2 DEF RowsInv
<1>5. RowsInv'
  BY <1>4 DEF RowsInv
<1>6. QED
  BY <1>2, <1>3, <1>5

\* What the engine stores.
LEMMA StoresIs ==
    ASSUME WorkflowInv, NEW r \in Requests, Stores(r)
    PROVE  /\ rows' \in Seq(Row) /\ RowsGrow /\ RowsInv'
           /\ Len(rows') = Len(rows) + 1
<1> DEFINE name == req[r].name
<1>1. /\ rows \in Seq(Row) /\ RowsInv /\ Len(rows) \in Nat /\ DOMAIN rows = 1..Len(rows)
      /\ req[r] \in Request
  BY Served
<1>2. \A j \in DOMAIN rows : rows[j].version \in Nat
  BY <1>1, RowsAre
<1>3. PICK v \in Nat \ {0} :
          /\ v = NextVersion(name)
          /\ \A j \in Saved(name) : rows[j].version < v
  <2>1. CASE Saved(name) = {}
    BY <2>1 DEF NextVersion
  <2>2. CASE Saved(name) # {}
    <3>1. /\ Latest(name) \in Saved(name)
          /\ \A j \in Saved(name) : rows[j].version <= rows[Latest(name)].version
      BY <1>1, <2>2, LatestIs
    <3>2. rows[Latest(name)].version \in Nat /\ \A j \in Saved(name) : rows[j].version \in Nat
      BY <3>1, <1>2 DEF Saved
    <3>3. NextVersion(name) = rows[Latest(name)].version + 1
      BY <2>2 DEF NextVersion
    <3>4. NextVersion(name) \in Nat \ {0}
      BY <3>2, <3>3
    <3>5. \A j \in Saved(name) : rows[j].version < NextVersion(name)
      BY <3>1, <3>2, <3>3
    <3>6. QED
      BY <3>4, <3>5
  <2>3. QED
    BY <2>1, <2>2
<1>4. name \in Names
  BY <1>1 DEF Request
<1>5. PICK id \in Nat \ {0} :
         /\ id = NewId(r) /\ id \in OwnIds \cup 1..(Len(rows) + 1)
         /\ \A j \in DOMAIN rows : rows[j].id = id => rows[j].deleted
  BY NewIdIs DEF Stores
<1>6. PICK row \in Row :
          row = [id |-> id, name |-> name, version |-> v, deleted |-> FALSE,
                 processes |-> 0]
  BY <1>4 DEF Row
<1>7. /\ row.name = name /\ row.version = v /\ row.deleted = FALSE /\ row.id = id
      /\ rows' = Append(rows, row)
  BY <1>3, <1>5, <1>6 DEF Stores
<1>8. \A j \in DOMAIN rows : rows[j].name = row.name /\ ~ rows[j].deleted
          => rows[j].version < row.version
  BY <1>3, <1>7 DEF Saved
<1>9. QED
  BY <1>1, <1>5, <1>7, <1>8, RowAdded

LEMMA SaveReturnsStep ==
    ASSUME WorkflowInv, NEW r \in Requests, SaveReturns(r)
    PROVE  WorkflowInv'
<1>1. /\ req[r].op = "save" /\ req[r].stage = "save" /\ req[r].stage \in Serving
      /\ UNCHANGED <<at, client, events>>
  BY DEF SaveReturns, At, brokerVars, Serving
<1>2. /\ TypeOK /\ req[r] \in Request /\ RequestInv(r) /\ StageInv(r) /\ BoundsInv(r)
      /\ rows \in Seq(Row) /\ RowsInv /\ Len(rows) \in Nat
      /\ faults \in 0..MaxFaults /\ faults >= faults
  BY Served
<1>3. req[r].code = 0 /\ req[r].made = 0
  BY <1>1, <1>2 DEF StageInv
<1>4. CASE GoesOn(r, "envs") /\ UNCHANGED <<rows, faults>>
  BY <1>1, <1>2, <1>4, MoveStep
<1>5. CASE Answers(r, 500) /\ UNCHANGED <<rows, faults>>
  BY <1>1, <1>2, <1>3, <1>5, AnswerStep
<1>6. ASSUME Stores(r), NEW stage \in {"envs", "answered"}, NEW code \in {0, 500},
             Does(r, Len(rows) + 1, stage, code),
             faults' \in 0..MaxFaults, faults' >= faults,
             stage = "envs" => code = 0,
             code = 500 => faults' > 0
      PROVE  WorkflowInv'
  <2>1. rows' \in Seq(Row) /\ RowsGrow /\ RowsInv' /\ Len(rows') = Len(rows) + 1
    BY <1>6, StoresIs
  <2>2. PICK i \in Nat : i = Len(rows) + 1
    BY <1>2
  <2>3. stage \in Stages /\ code \in Codes
    BY DEF Stages, Codes
  <2>4. /\ req' \in [Requests -> Request] /\ OthersKept(r)
        /\ req'[r].made = i /\ req'[r].stage = stage /\ req'[r].code = code
        /\ SameAsk(req'[r], req[r]) /\ req'[r].row = req[r].row
        /\ req'[r].seen = req[r].seen
    BY <1>2, <1>6, <2>2, <2>3, DoesDoes
  <2>5. StageInv(r)'
    BY <1>1, <1>6, <2>4 DEF StageInv, SameAsk, Serving, Running
  <2>6. SaveInv(r)'
    BY <1>6, <2>4 DEF SaveInv
  <2>7. BoundsInv(r)'
    BY <1>2, <2>1, <2>2, <2>4 DEF BoundsInv, SameAsk
  <2>8. RequestInv(r)'
    BY <1>1, <2>4, <2>5, <2>6, <2>7 DEF RequestInv, SameAsk, Creating
  <2>9. CodeKept(r) /\ OwnRows(r)
    BY <1>1, <1>3, <2>4 DEF CodeKept, OwnRows, Gone, SameAsk
  <2>10. QED
    BY <1>1, <1>6, <2>1, <2>4, <2>8, <2>9, ChangingStep
<1>7. CASE Stores(r) /\ Does(r, Len(rows) + 1, "envs", 0) /\ UNCHANGED faults
  BY <1>2, <1>6, <1>7
<1>8. CASE Stores(r) /\ Does(r, Len(rows) + 1, "answered", 500) /\ Fault
  BY <1>6, <1>8, FaultIs
<1>9. QED
  BY <1>4, <1>5, <1>7, <1>8 DEF SaveReturns

LEMMA DeleteReturnsStep ==
    ASSUME WorkflowInv, NEW r \in Requests, DeleteReturns(r)
    PROVE  WorkflowInv'
<1>1. /\ req[r].op = "delete" /\ req[r].stage = "call" /\ req[r].stage \in Serving
      /\ UNCHANGED <<at, client, events>>
  BY DEF DeleteReturns, At, brokerVars, Serving
<1>2. /\ TypeOK /\ RequestInv(r) /\ StageInv(r) /\ BoundsInv(r)
      /\ req[r].row \in 0..Len(rows)
      /\ rows \in Seq(Row) /\ RowsInv /\ Len(rows) \in Nat /\ DOMAIN rows = 1..Len(rows)
      /\ faults \in 0..MaxFaults /\ faults >= faults
  BY Served
<1>3. req[r].code = 0 /\ req[r].made = 0 /\ DeleteInv(r)
  BY <1>1, <1>2 DEF RequestInv, StageInv
<1>4. CASE Live(req[r].id) = {} /\ Answers(r, 404) /\ UNCHANGED <<rows, faults>>
  <2>1. req[r].row # 0 => rows[req[r].row].deleted
    BY <1>2, <1>3, <1>4 DEF DeleteInv, Live
  <2>2. QED
    BY <1>1, <1>2, <1>3, <1>4, <2>1, AnswerStep
<1>5. ASSUME NEW i \in Live(req[r].id), ~ Unreferenced(i), Answers(r, 500),
             UNCHANGED <<rows, faults>>
      PROVE  WorkflowInv'
  <2>1. Referenced(req[r].id) # {}
    <3>1. i \in DOMAIN rows /\ rows[i].id = req[r].id /\ rows[i].processes \in Nat
      BY <1>2, <1>5, RowsAre DEF Live
    <3>2. rows[i].processes > 0
      BY <1>5, <3>1 DEF Unreferenced
    <3>3. QED
      BY <3>1, <3>2 DEF Referenced
  <2>2. /\ Answers(r, 500) /\ UNCHANGED <<at, client, rows, events>>
        /\ faults' \in 0..MaxFaults /\ faults' >= faults
        /\ req[r].op # "save" /\ req[r].stage \in Serving
    BY <1>1, <1>2, <1>5
  <2>3. QED
    BY <2>1, <2>2, AnswerStep
<1>6. CASE Answers(r, 500) /\ Fault /\ UNCHANGED rows
  <2>1. faults' \in 0..MaxFaults /\ faults' >= faults /\ faults' > 0
    BY <1>6, FaultIs
  <2>2. QED
    BY <1>1, <1>6, <2>1, AnswerStep
<1>7. ASSUME NEW i \in Live(req[r].id), Unreferenced(i), Deleted(i),
             NEW code \in {204, 500}, Does(r, i, "answered", code),
             faults' \in 0..MaxFaults, faults' >= faults, code = 500 => faults' > 0
      PROVE  WorkflowInv'
  <2>1. /\ i \in DOMAIN rows /\ i \in Nat /\ i # 0 /\ rows[i] \in Row
        /\ rows[i].id = req[r].id /\ ~ rows[i].deleted /\ rows[i].processes = 0
    BY <1>2, <1>7, RowsAre DEF Live, Unreferenced
  <2>2. PICK row \in Row : row = [rows[i] EXCEPT !.deleted = TRUE]
    BY <2>1 DEF Row
  <2>3. /\ row.name = rows[i].name /\ row.version = rows[i].version
        /\ row.id = rows[i].id /\ row.deleted = TRUE /\ row.processes = 0
        /\ rows' = [rows EXCEPT ![i] = row]
    BY <1>7, <2>1, <2>2 DEF Deleted, Row
  <2>4. /\ rows' \in Seq(Row) /\ RowsGrow /\ RowsInv' /\ Len(rows') = Len(rows)
        /\ rows'[i] = row
    <3>1. /\ rows[i].deleted => row.deleted
          /\ row.processes >= rows[i].processes
          /\ row.deleted => row.processes = 0
      BY <2>1, <2>3
    <3>2. QED
      BY <1>2, <2>1, <2>3, <3>1, RowChanged
  <2>5. code \in Codes /\ "answered" \in Stages
    BY DEF Codes, Stages
  <2>6. /\ req' \in [Requests -> Request] /\ OthersKept(r)
        /\ req'[r].made = i /\ req'[r].stage = "answered" /\ req'[r].code = code
        /\ SameAsk(req'[r], req[r]) /\ req'[r].row = req[r].row
        /\ req'[r].seen = req[r].seen
    BY <1>2, <1>7, <2>1, <2>5, DoesDoes
  <2>7. StageInv(r)'
    BY <1>1, <2>6 DEF StageInv, SameAsk, Serving, Running
  <2>8. DeleteInv(r)'
    <3>1. req[r].row # 0 => rows'[req[r].row].id = rows[req[r].row].id
      BY <1>2, <2>4 DEF RowsGrow
    <3>2. QED
      BY <1>3, <1>7, <2>1, <2>3, <2>4, <2>6, <3>1 DEF DeleteInv, SameAsk
  <2>9. BoundsInv(r)'
    BY <1>2, <2>1, <2>4, <2>6 DEF BoundsInv, SameAsk
  <2>10. RequestInv(r)'
    BY <1>1, <2>6, <2>7, <2>8, <2>9 DEF RequestInv, SameAsk, Creating
  <2>11. CodeKept(r) /\ OwnRows(r)
    BY <1>1, <1>3, <2>1, <2>6 DEF CodeKept, OwnRows, Gone, SameAsk
  <2>12. QED
    BY <1>1, <1>7, <2>4, <2>6, <2>10, <2>11, ChangingStep
<1>8. ASSUME NEW i \in Live(req[r].id), Unreferenced(i), Deleted(i),
             \/ Does(r, i, "answered", 204) /\ UNCHANGED faults
             \/ Does(r, i, "answered", 500) /\ Fault
      PROVE  WorkflowInv'
  BY <1>2, <1>7, <1>8, FaultIs
<1>9. QED
  BY <1>4, <1>5, <1>6, <1>8 DEF DeleteReturns

\* The workflow a process is made of, beside the one that was read.
LEMMA ChosenIsKnown ==
    ASSUME WorkflowInv, NEW r \in Requests, req[r].op \in Creating,
           req[r].stage = "call", NEW i \in Chosen(r)
    PROVE  /\ i \in DOMAIN rows /\ ~ rows[i].deleted
           /\ Known(req[r].op, req[r].row, req[r].seen, i)
<1> DEFINE j == req[r].row  name == req[r].name  id == req[r].id
<1>1. /\ rows \in Seq(Row) /\ RowsInv /\ Len(rows) \in Nat /\ DOMAIN rows = 1..Len(rows)
      /\ CreateInv(r) /\ req[r].seen \in 0..Len(rows)
  BY Served DEF RequestInv
<1>2. CASE req[r].op = "create"
  <2>1. i \in Live(id) /\ i \in DOMAIN rows /\ ~ rows[i].deleted /\ rows[i].id = id
    BY <1>2 DEF Chosen, Live
  <2>2. LastOf(j, id, req[r].seen)
    BY <1>1, <1>2 DEF CreateInv
  <2>3. j \in DOMAIN rows /\ rows[j].id = id
    BY <1>1, <2>2 DEF LastOf
  <2>4. CASE i = j
    BY <2>1, <2>4 DEF Known
  <2>5. CASE i # j
    <3>1. j < i /\ rows[j].deleted
      BY <1>1, <2>1, <2>3, <2>5, LiveIsLast
    <3>2. i > req[r].seen
      BY <1>1, <2>1, <2>2, <3>1 DEF LastOf
    <3>3. QED
      BY <1>2, <2>1, <2>3, <3>1, <3>2 DEF Known
  <2>6. QED
    BY <2>4, <2>5
<1>3. CASE req[r].op # "create"
  <2>1. i \in Saved(name) /\ i = Latest(name) /\ Saved(name) # {}
    BY <1>1, <1>3, LatestIs DEF Chosen
  <2>2. LatestOf(j, name, req[r].seen)
    BY <1>1, <1>3 DEF CreateInv
  <2>3. j \in DOMAIN rows /\ rows[j].name = name /\ i \in DOMAIN rows /\ ~ rows[i].deleted
    BY <1>1, <2>1, <2>2 DEF LatestOf, Saved
  <2>4. CASE rows[j].deleted
    BY <1>3, <2>3, <2>4 DEF Known
  <2>5. CASE ~ rows[j].deleted /\ i <= req[r].seen
    <3>1. j \in Saved(name)
      BY <2>3, <2>5 DEF Saved
    <3>2. rows[i].version <= rows[j].version
      BY <2>1, <2>2, <2>5 DEF LatestOf, Saved
    <3>3. rows[j].version <= rows[i].version
      BY <1>1, <2>1, <3>1, LatestIs
    <3>4. rows[i].version \in Nat /\ rows[j].version \in Nat
      BY <1>1, <2>3, RowsAre
    <3>5. i = j
      BY <1>1, <2>1, <3>1, <3>2, <3>3, <3>4, SameVersionSameRow
    <3>6. QED
      BY <2>3, <3>5 DEF Known
  <2>6. CASE i > req[r].seen
    BY <1>3, <2>3, <2>6 DEF Known
  <2>7. i <= req[r].seen \/ i > req[r].seen
    BY <1>1, <2>3
  <2>8. QED
    BY <2>4, <2>5, <2>6, <2>7
<1>4. QED
  BY <1>2, <1>3

\* The workflow i has one more process.
More(i) == rows' = [rows EXCEPT ![i].processes = @ + 1]

LEMMA CreateReturnsStep ==
    ASSUME WorkflowInv, NEW r \in Requests, CreateReturns(r)
    PROVE  WorkflowInv'
<1>1. /\ req[r].op \in Creating /\ req[r].stage = "call" /\ req[r].stage \in Serving
      /\ UNCHANGED <<at, client, events>>
  BY DEF CreateReturns, brokerVars, Serving, Creating
<1>2. /\ TypeOK /\ req[r] \in Request /\ RequestInv(r) /\ StageInv(r) /\ BoundsInv(r)
      /\ req[r].row \in 0..Len(rows)
      /\ rows \in Seq(Row) /\ RowsInv /\ Len(rows) \in Nat /\ DOMAIN rows = 1..Len(rows)
      /\ faults \in 0..MaxFaults /\ faults >= faults
  BY Served
<1>3. req[r].code = 0 /\ req[r].made = 0
  BY <1>1, <1>2 DEF StageInv
<1>4. ASSUME NEW code \in {404, 500}, Answers(r, code), UNCHANGED <<rows, faults>>
      PROVE  WorkflowInv'
  BY <1>1, <1>2, <1>4, AnswerStep DEF Creating
<1>5. ASSUME NEW i \in Chosen(r), More(i),
             NEW stage \in {"background", "answered"}, NEW code \in {201, 404, 500},
             Does(r, i, stage, code),
             faults' \in 0..MaxFaults, faults' >= faults,
             stage = "background" => req[r].op = "start" /\ code = 201
      PROVE  WorkflowInv'
  <2>1. /\ i \in DOMAIN rows /\ ~ rows[i].deleted /\ i \in Nat /\ i # 0
        /\ Known(req[r].op, req[r].row, req[r].seen, i)
        /\ rows[i] \in Row /\ rows[i].processes \in Nat
    BY <1>1, <1>2, <1>5, ChosenIsKnown, RowsAre
  <2>2. PICK n \in Nat : n = rows[i].processes + 1
    BY <2>1
  <2>3. PICK row \in Row : row = [rows[i] EXCEPT !.processes = n]
    BY <2>1 DEF Row
  <2>4. /\ row.name = rows[i].name /\ row.version = rows[i].version
        /\ row.id = rows[i].id /\ row.deleted = rows[i].deleted /\ row.processes = n
    BY <2>1, <2>3 DEF Row
  <2>5. rows' = [rows EXCEPT ![i] = row] /\ n >= rows[i].processes
    BY <1>5, <2>1, <2>2, <2>3 DEF More
  <2>6. rows' \in Seq(Row) /\ RowsGrow /\ RowsInv' /\ Len(rows') = Len(rows)
    BY <1>2, <2>1, <2>4, <2>5, RowChanged
  <2>7. stage \in Stages /\ code \in Codes
    BY DEF Stages, Codes
  <2>8. /\ req' \in [Requests -> Request] /\ OthersKept(r)
        /\ req'[r].made = i /\ req'[r].stage = stage /\ req'[r].code = code
        /\ SameAsk(req'[r], req[r]) /\ req'[r].row = req[r].row
        /\ req'[r].seen = req[r].seen
    BY <1>2, <1>5, <2>1, <2>7, DoesDoes
  <2>9. StageInv(r)'
    BY <1>1, <1>5, <2>1, <2>8 DEF StageInv, SameAsk, Serving, Running, Creating
  <2>10. CreateInv(r)'
    <3>1. Grow
      BY <1>1, <1>2, <1>5, <2>6, WorkflowAssumption
      DEF Grow, TypeOK, EventsGrow
    <3>2. PICK op, row0, seen, m :
             /\ op = req[r].op /\ row0 = req[r].row /\ seen = req[r].seen /\ m = i
             /\ op = req'[r].op /\ row0 = req'[r].row /\ seen = req'[r].seen
             /\ m = req'[r].made
      BY <2>8 DEF SameAsk
    <3>3. Known(op, row0, seen, m)'
      BY <1>2, <2>1, <3>1, <3>2, KnownKept
    <3>4. req'[r].stage # "call" /\ req'[r].made # 0
      BY <2>1, <2>8
    <3>5. QED
      BY <3>2, <3>3, <3>4 DEF CreateInv, Known
  <2>11. BoundsInv(r)'
    BY <1>2, <2>1, <2>6, <2>8 DEF BoundsInv, SameAsk
  <2>12. RequestInv(r)'
    BY <1>1, <2>8, <2>9, <2>10, <2>11 DEF RequestInv, SameAsk, Creating
  <2>13. CodeKept(r) /\ OwnRows(r)
    BY <1>1, <1>3, <2>8 DEF CodeKept, OwnRows, Gone, SameAsk, Creating
  <2>14. QED
    BY <1>1, <1>5, <2>6, <2>8, <2>12, <2>13, ChangingStep
<1>6. ASSUME NEW i \in Chosen(r), Created(r, i)
      PROVE  WorkflowInv'
  <2>1. More(i)
    BY <1>6 DEF Created, More
  <2>2. CASE /\ Does(r, i, IF req[r].op = "start" THEN "background" ELSE "answered", 201)
             /\ UNCHANGED faults
    <3>1. CASE req[r].op = "start"
      BY <1>2, <1>5, <2>1, <2>2, <3>1
    <3>2. CASE req[r].op # "start"
      BY <1>2, <1>5, <2>1, <2>2, <3>2
    <3>3. QED
      BY <3>1, <3>2
  <2>3. ASSUME NEW code \in {404, 500}, Does(r, i, "answered", code), Fault
        PROVE  WorkflowInv'
    BY <1>5, <2>1, <2>3, FaultIs
  <2>4. QED
    BY <1>6, <2>2, <2>3 DEF Created
<1>7. QED
  BY <1>4, <1>6 DEF CreateReturns

-----------------------------------------------------------------------------
(* The steps that send an event, and the promises nobody awaits *)

LEMMA OpenStep ==
    ASSUME WorkflowInv, NEW r \in Requests, rows' = rows, faults' = faults,
           BrokerTypeOK', events' \in Seq(Event), EventsGrow, OwnEvents(r),
           req' \in [Requests -> Request],
           \A s \in Requests : s # r => req'[s] = req[s] \/ CutOff(s),
           CodeKept(r), OwnRows(r), RequestInv(r)'
    PROVE  WorkflowInv'
<1>1. RowsInv' /\ faults' \in 0..MaxFaults
  BY DEF WorkflowInv, TypeOK, RowsInv
<1>2. Grow
  <2>1. rows \in Seq(Row) /\ events \in Seq(Event) /\ faults \in 0..MaxFaults
    BY DEF WorkflowInv, TypeOK
  <2>2. RowsGrow
    BY <2>1, RowsAre DEF RowsGrow
  <2>3. QED
    BY <2>1, <2>2, WorkflowAssumption DEF Grow
<1>3. Step(r)
  BY <1>1, <1>2 DEF Step
<1>4. QED
  BY <1>3, StepKeeps

LEMMA EventAdded ==
    ASSUME events \in Seq(Event), NEW e \in Event, events' = Append(events, e)
    PROVE  /\ events' \in Seq(Event) /\ EventsGrow /\ Len(events) + 1 \in DOMAIN events'
           /\ events'[Len(events) + 1] = e
           /\ \A k \in DOMAIN events' : k > Len(events) => k = Len(events) + 1
<1>1. Len(events) \in Nat
  OBVIOUS
<1>2. /\ events' \in Seq(Event) /\ Len(events') = Len(events) + 1
      /\ DOMAIN events' = 1..(Len(events) + 1)
      /\ events'[Len(events) + 1] = e
      /\ \A k \in 1..Len(events) : events'[k] = events[k]
  BY <1>1
<1>3. QED
  BY <1>1, <1>2 DEF EventsGrow

LEMMA NoEvent ==
    ASSUME WorkflowInv, events' = events, NEW r \in Requests
    PROVE  events' \in Seq(Event) /\ EventsGrow /\ OwnEvents(r)
<1>1. events \in Seq(Event) /\ Len(events) \in Nat /\ DOMAIN events = 1..Len(events)
  BY DEF WorkflowInv, TypeOK
<1>2. \A k \in DOMAIN events' : ~ (k > Len(events))
  BY <1>1
<1>3. QED
  BY <1>1, <1>2 DEF EventsGrow, OwnEvents

LEMMA UnhandledDoes ==
    ASSUME TypeOK, NEW r \in Requests, NEW done \in Request, Unhandled(r, done)
    PROVE  /\ BrokerTypeOK' /\ req' \in [Requests -> Request]
           /\ \A s \in Requests : s # r => req'[s] = req[s] \/ CutOff(s)
           /\ SameButReply(req'[r], done) /\ req'[r].code = done.code
           /\ req'[r].stage \in {done.stage, "cut"}
<1>1. req \in [Requests -> Request]
  BY DEF TypeOK
<1>2. CASE req' = [req EXCEPT ![r] = done] /\ UNCHANGED brokerVars
  BY <1>1, <1>2 DEF TypeOK, BrokerTypeOK, brokerVars, SameButReply, SameAsk
<1>3. ASSUME NEW last \in {done.stage, "cut"},
             req' = [s \in Requests |->
                       IF s = r THEN [done EXCEPT !.stage = last]
                       ELSE IF req[s].stage \in Serving \cup Running
                       THEN [req[s] EXCEPT !.stage = "cut"]
                       ELSE req[s]],
             at' = "boot", client' = [b \in Brokers |-> "none"]
      PROVE  /\ BrokerTypeOK' /\ req' \in [Requests -> Request]
             /\ \A s \in Requests : s # r => req'[s] = req[s] \/ CutOff(s)
             /\ SameButReply(req'[r], done) /\ req'[r].code = done.code
             /\ req'[r].stage \in {done.stage, "cut"}
  <2>1. BrokerTypeOK'
    BY <1>3, BrokerStopType
  <2>2. last \in Stages /\ "cut" \in Stages
    BY DEF Request, Stages
  <2>3. req'[r] = Staged(done, last)
    BY <1>3 DEF Staged
  <2>4. /\ Staged(done, last) \in Request /\ SameButReply(Staged(done, last), done)
        /\ Staged(done, last).stage = last /\ Staged(done, last).code = done.code
    BY <2>2, StagedIs
  <2>5. ASSUME NEW s \in Requests, s # r
        PROVE  req'[s] \in Request /\ (req'[s] = req[s] \/ CutOff(s))
    <3>1. CASE req[s].stage \in Serving \cup Running
      <4>1. req'[s] = [req[s] EXCEPT !.stage = "cut"]
        BY <1>3, <2>5, <3>1
      <4>2. req'[s] \in Request
        BY <1>1, <2>2, <4>1, Fields
      <4>3. QED
        BY <3>1, <4>1, <4>2 DEF CutOff
    <3>2. CASE req[s].stage \notin Serving \cup Running
      BY <1>1, <1>3, <2>5, <3>2
    <3>3. QED
      BY <3>1, <3>2
  <2>6. req' \in [Requests -> Request]
    <3>1. \A s \in Requests : req'[s] \in Request
      BY <2>3, <2>4, <2>5
    <3>2. QED
      BY <1>3, <3>1
  <2>7. QED
    BY <1>3, <2>1, <2>3, <2>4, <2>5, <2>6
<1>4. QED
  BY <1>2, <1>3 DEF Unhandled

\* The workflow that has the id a save has saved is its own or has replaced it.
LEMMA OfSavedIdIs ==
    ASSUME WorkflowInv, NEW r \in Requests, req[r].made # 0
    PROVE  /\ \A i \in OfSavedId(r) :
                 /\ i \in DOMAIN rows /\ i \in Nat \ {0}
                 /\ i = req[r].made \/ Replaces(i, req[r].made)
           /\ OfSavedId(r) = {} => rows[req[r].made].deleted
<1> DEFINE m == req[r].made  id == rows[req[r].made].id
<1>1. /\ rows \in Seq(Row) /\ RowsInv /\ Len(rows) \in Nat /\ DOMAIN rows = 1..Len(rows)
      /\ m \in DOMAIN rows
  BY Served
<1>2. ASSUME NEW i \in OfSavedId(r)
      PROVE  /\ i \in DOMAIN rows /\ i \in Nat \ {0}
             /\ i = m \/ Replaces(i, m)
  <2>1. i \in Live(id)
    BY <1>2 DEF OfSavedId
  <2>2. /\ i \in 1..Len(rows) /\ rows[i].id = id
        /\ m # i => m < i /\ rows[m].deleted
    BY <1>1, <2>1, LiveIsLast
  <2>3. QED
    BY <1>1, <2>2 DEF Replaces
<1>3. OfSavedId(r) = {} => rows[m].deleted
  BY <1>1 DEF OfSavedId, Live
<1>4. QED
  BY <1>2, <1>3

LEMMA RefetchedStep ==
    ASSUME WorkflowInv, NEW r \in Requests, Refetched(r)
    PROVE  WorkflowInv'
<1>1. /\ req[r].op = "save" /\ req[r].stage = "refetch" /\ req[r].stage \in Serving
      /\ rows' = rows /\ faults' = faults
  BY DEF Refetched, At, Serving
<1>2. /\ TypeOK /\ req[r] \in Request /\ req \in [Requests -> Request]
      /\ RequestInv(r) /\ StageInv(r) /\ BoundsInv(r) /\ DOMAIN rows = 1..Len(rows)
      /\ rows \in Seq(Row)
  BY Served
<1>3. req[r].made # 0 /\ req[r].code = 0
  BY <1>1, <1>2 DEF RequestInv, SaveInv, StageInv
<1>4. ASSUME NEW code \in {201, 500},
             SameButReply(req'[r], Answered(req[r], code)), req'[r].code = code,
             req'[r].stage \in {"answered", "cut"},
             code = 201 => \E k \in DOMAIN events' :
                              events'[k].of = "saved" /\ events'[k].by = r,
             code = 500 => rows[req[r].made].deleted
      PROVE  /\ RequestInv(r)' /\ CodeKept(r) /\ OwnRows(r)
             /\ SameButReply(req'[r], req[r])
  <2>1. code \in Codes
    BY DEF Codes
  <2>2. SameButReply(req'[r], req[r])
    BY <1>2, <1>4, <2>1, AnsweredIs DEF SameButReply, SameAsk
  <2>3. StageInv(r)'
    BY <1>1, <1>3, <1>4, <2>2 DEF StageInv, SameButReply, SameAsk, Serving, Running
  <2>4. SaveInv(r)'
    BY <1>1, <1>3, <1>4, <2>2 DEF SaveInv, SameButReply, SameAsk
  <2>5. BoundsInv(r)'
    BY <1>1, <1>2, <2>2 DEF BoundsInv, SameButReply, SameAsk
  <2>6. RequestInv(r)'
    BY <1>1, <2>2, <2>3, <2>4, <2>5 DEF RequestInv, SameButReply, SameAsk, Creating
  <2>7. CodeKept(r) /\ OwnRows(r)
    BY <1>1, <1>3, <2>2 DEF CodeKept, OwnRows, SameButReply, SameAsk, Gone
  <2>8. QED
    BY <2>2, <2>6, <2>7
<1>5. CASE OfSavedId(r) = {} /\ Vanished(r)
  <2>1. rows[req[r].made].deleted
    BY <1>3, <1>5, OfSavedIdIs
  <2>2. PICK done \in Request : done = Answered(req[r], 500)
    BY <1>2, AnsweredIs DEF Codes
  <2>3. done.stage = "answered" /\ done.code = 500
    BY <1>2, <2>2, AnsweredIs DEF Codes
  <2>4. Unhandled(r, done) /\ events' = events
    BY <1>5, <2>2 DEF Vanished, Answered
  <2>5. /\ BrokerTypeOK' /\ req' \in [Requests -> Request]
        /\ \A s \in Requests : s # r => req'[s] = req[s] \/ CutOff(s)
        /\ SameButReply(req'[r], done) /\ req'[r].code = done.code
        /\ req'[r].stage \in {done.stage, "cut"}
    BY <1>2, <2>4, UnhandledDoes
  <2>6. RequestInv(r)' /\ CodeKept(r) /\ OwnRows(r)
    BY <1>4, <2>1, <2>2, <2>3, <2>5
  <2>7. events' \in Seq(Event) /\ EventsGrow /\ OwnEvents(r)
    BY <2>4, NoEvent
  <2>8. QED
    BY <1>1, <2>5, <2>6, <2>7, OpenStep
<1>6. ASSUME NEW i \in OfSavedId(r), Announces(r, i)
      PROVE  WorkflowInv'
  <2>1. /\ i \in DOMAIN rows /\ i \in Nat \ {0}
        /\ i = req[r].made \/ Replaces(i, req[r].made)
    BY <1>3, <1>6, OfSavedIdIs
  <2>2. PICK outcome \in Announcement :
            /\ events' = Append(events, [of |-> "saved", by |-> r, row |-> i,
                                        outcome |-> outcome])
            /\ IF outcome = "rejected" THEN Unhandled(r, Answered(req[r], 201))
               ELSE req' = [req EXCEPT ![r] = Answered(req[r], 201)] /\ UNCHANGED brokerVars
    BY <1>6 DEF Announces, Answered
  <2>3. PICK e \in Event : e = [of |-> "saved", by |-> r, row |-> i, outcome |-> outcome]
    BY <2>1, PublishOutcome DEF Event, Announcement
  <2>4. PICK done \in Request : done = Answered(req[r], 201)
    BY <1>2, AnsweredIs DEF Codes
  <2>5. /\ done.stage = "answered" /\ done.code = 201 /\ SameButReply(done, req[r])
    BY <1>2, <2>4, AnsweredIs DEF Codes
  <2>6. /\ events' = Append(events, e)
        /\ IF outcome = "rejected" THEN Unhandled(r, done)
           ELSE req' = [req EXCEPT ![r] = done] /\ UNCHANGED brokerVars
    BY <2>2, <2>3, <2>4
  <2>7. /\ events' \in Seq(Event) /\ EventsGrow /\ Len(events) + 1 \in DOMAIN events'
        /\ events'[Len(events) + 1] = e
        /\ \A k \in DOMAIN events' : k > Len(events) => k = Len(events) + 1
    BY <1>2, <2>6, EventAdded DEF TypeOK
  <2>8. e.of = "saved" /\ e.row = i /\ e.by = r
    BY <2>3
  <2>9. /\ BrokerTypeOK' /\ req' \in [Requests -> Request]
        /\ \A s \in Requests : s # r => req'[s] = req[s] \/ CutOff(s)
        /\ SameButReply(req'[r], done) /\ req'[r].code = done.code
        /\ req'[r].stage \in {done.stage, "cut"}
    <3>1. CASE outcome = "rejected"
      BY <1>2, <2>6, <3>1, UnhandledDoes
    <3>2. CASE outcome # "rejected"
      <4>1. req' = [req EXCEPT ![r] = done] /\ UNCHANGED brokerVars
        BY <2>6, <3>2
      <4>2. BrokerTypeOK'
        BY <1>2, <4>1 DEF TypeOK, BrokerTypeOK, brokerVars
      <4>3. /\ req' \in [Requests -> Request] /\ req'[r] = done
            /\ \A s \in Requests : s # r => req'[s] = req[s]
        BY <1>2, <4>1
      <4>4. SameButReply(req'[r], done)
        BY <4>3 DEF SameButReply, SameAsk
      <4>5. QED
        BY <4>2, <4>3, <4>4
    <3>3. QED
      BY <3>1, <3>2
  <2>10. RequestInv(r)' /\ CodeKept(r) /\ OwnRows(r) /\ SameButReply(req'[r], req[r])
    BY <1>4, <2>4, <2>5, <2>7, <2>8, <2>9
  <2>11. OwnEvents(r)
    <3>1. /\ req'[r].op = "save" /\ req'[r].code = 201 /\ req'[r].made = req[r].made
      BY <1>1, <2>5, <2>9, <2>10 DEF SameButReply, SameAsk
    <3>2. PICK m : m = req[r].made /\ m = req'[r].made
      BY <3>1
    <3>3. i = m \/ Replaces(i, m)'
      BY <1>1, <2>1, <3>2 DEF Replaces
    <3>4. ASSUME NEW k \in DOMAIN events', k > Len(events)
          PROVE  k = Len(events) + 1 /\ events'[k].by = r /\ SentBy(k, r)'
      <4>1. k = Len(events) + 1 /\ events'[k] = e
        BY <2>7, <3>4
      <4>2. QED
        BY <1>1, <1>3, <2>1, <2>8, <3>1, <3>2, <3>3, <4>1 DEF SentBy, Replaces
    <3>5. QED
      BY <1>3, <3>4 DEF OwnEvents
  <2>12. QED
    BY <1>1, <2>7, <2>9, <2>10, <2>11, OpenStep
<1>7. QED
  BY <1>5, <1>6 DEF Refetched

\* A process that was started runs on, or its run has ended.
LEMMA RunKept ==
    ASSUME WorkflowInv, NEW r \in Requests, Runs(r), rows' = rows,
           req'[r].stage \in {"notified", "answered", "rejected", "cut"},
           SameButReply(req'[r], req[r]), req'[r].code = req[r].code
    PROVE  RequestInv(r)' /\ CodeKept(r) /\ OwnRows(r)
<1>1. /\ RequestInv(r) /\ StageInv(r) /\ BoundsInv(r)
      /\ req[r].op = "start" /\ req[r].stage \in Running
  BY Served DEF Runs
<1>2. req[r].code = 201 /\ req[r].made # 0 /\ CreateInv(r)
  BY <1>1 DEF StageInv, RequestInv, Creating
<1>3. StageInv(r)'
  BY <1>1, <1>2 DEF StageInv, SameButReply, SameAsk, Serving, Running, Creating
<1>4. CreateInv(r)'
  BY <1>2 DEF CreateInv, SameButReply, SameAsk, Known
<1>5. BoundsInv(r)'
  BY <1>1 DEF BoundsInv, SameButReply, SameAsk
<1>6. RequestInv(r)'
  BY <1>1, <1>3, <1>4, <1>5 DEF RequestInv, SameButReply, SameAsk
<1>7. QED
  BY <1>1, <1>2, <1>6 DEF CodeKept, OwnRows, SameButReply, SameAsk, Gone

LEMMA RunStep ==
    ASSUME WorkflowInv, NEW r \in Requests,
           EventNodeRuns(r) \/ RunReturns(r) \/ RunRejects(r)
    PROVE  WorkflowInv'
<1>1. /\ Runs(r) /\ rows' = rows /\ faults' = faults
  BY DEF EventNodeRuns, RunReturns, RunRejects, Runs, At, Running
<1>2. /\ TypeOK /\ req[r] \in Request /\ req \in [Requests -> Request]
      /\ StageInv(r)
  BY Served
<1>3. ASSUME NEW stage \in {"notified", "answered"},
             GoesOn(r, stage), UNCHANGED brokerVars,
             events' \in Seq(Event), EventsGrow, OwnEvents(r)
      PROVE  WorkflowInv'
  <2>1. stage \in Stages
    BY DEF Stages
  <2>2. /\ req' \in [Requests -> Request] /\ OthersKept(r)
        /\ SameButReply(req'[r], req[r]) /\ req'[r].stage = stage
        /\ req'[r].code = req[r].code
    BY <1>2, <1>3, <2>1, GoesOnDoes
  <2>3. RequestInv(r)' /\ CodeKept(r) /\ OwnRows(r)
    BY <1>1, <2>2, RunKept
  <2>4. BrokerTypeOK'
    BY <1>2, <1>3 DEF TypeOK, BrokerTypeOK, brokerVars
  <2>5. QED
    BY <1>1, <1>3, <2>2, <2>3, <2>4, OpenStep DEF OthersKept
<1>4. CASE EventNodeRuns(r)
  <2>1. req[r].made \in Nat \ {0}
    BY <1>1, <1>2 DEF StageInv, Runs, Request
  <2>2. PICK e \in Event :
            events' = Append(events, e) /\ e.of = "node"
    <3>1. \E broker : \E outcome \in publishMessage(WorkflowPayload, broker) :
             events' = Append(events, [of |-> "node", by |-> r, row |-> req[r].made,
                              outcome |-> outcome])
      BY <1>4 DEF EventNodeRuns
    <3>2. PICK broker : \E outcome \in publishMessage(WorkflowPayload, broker) :
             events' = Append(events, [of |-> "node", by |-> r, row |-> req[r].made,
                              outcome |-> outcome])
      BY <3>1
    <3>3. PICK outcome \in Outcome :
             events' = Append(events, [of |-> "node", by |-> r, row |-> req[r].made,
                              outcome |-> outcome])
      BY <3>2, PublishOutcome
    <3>4. QED
      BY <2>1, <3>3 DEF Event
  <2>3. /\ events' \in Seq(Event) /\ EventsGrow
        /\ events'[Len(events) + 1] = e
        /\ \A k \in DOMAIN events' : k > Len(events) => k = Len(events) + 1
    BY <1>2, <2>2, EventAdded DEF TypeOK
  <2>4. OwnEvents(r)
    BY <2>2, <2>3 DEF OwnEvents
  <2>5. QED
    BY <1>3, <1>4, <2>3, <2>4 DEF EventNodeRuns
<1>5. CASE RunReturns(r)
  BY <1>3, <1>5, NoEvent DEF RunReturns
<1>6. CASE RunRejects(r)
  <2>1. PICK done \in Request : done = Staged(req[r], "rejected")
    BY <1>2, StagedIs DEF Stages
  <2>2. SameButReply(done, req[r]) /\ done.stage = "rejected" /\ done.code = req[r].code
    BY <1>2, <2>1, StagedIs DEF Stages
  <2>3. Unhandled(r, done) /\ events' = events
    BY <1>6, <2>1 DEF RunRejects, Staged
  <2>4. /\ BrokerTypeOK' /\ req' \in [Requests -> Request]
        /\ \A s \in Requests : s # r => req'[s] = req[s] \/ CutOff(s)
        /\ SameButReply(req'[r], done) /\ req'[r].code = done.code
        /\ req'[r].stage \in {done.stage, "cut"}
    BY <1>2, <2>3, UnhandledDoes
  <2>5. SameButReply(req'[r], req[r]) /\ req'[r].code = req[r].code
        /\ req'[r].stage \in {"rejected", "cut"}
    BY <2>2, <2>4 DEF SameButReply, SameAsk
  <2>6. RequestInv(r)' /\ CodeKept(r) /\ OwnRows(r)
    BY <1>1, <2>5, RunKept
  <2>7. QED
    BY <1>1, <2>3, <2>4, <2>6, NoEvent, OpenStep
<1>7. QED
  BY <1>4, <1>5, <1>6

\* A beacon has no workflow and no event: only its own record changes.
LEMMA BeaconStep ==
    ASSUME WorkflowInv, NEW r \in Requests, BeaconAsks(r) \/ BeaconReturns(r)
    PROVE  WorkflowInv'
<1>1. /\ req[r].op = "beacon" /\ req[r].stage = "beacon" /\ req[r].stage \in Serving
      /\ UNCHANGED <<at, client, rows, events>> /\ faults' = faults
  BY DEF BeaconAsks, BeaconReturns, Asks, At, Serving, brokerVars
<1>2. /\ TypeOK /\ req[r] \in Request /\ req \in [Requests -> Request]
      /\ RequestInv(r) /\ StageInv(r) /\ BoundsInv(r)
      /\ faults' \in 0..MaxFaults /\ faults' >= faults
  BY <1>1, Served
<1>3. CASE BeaconReturns(r)
  <2>1. PICK code \in {200, 400, 404, 422, 500} : Answers(r, code)
    BY <1>3 DEF BeaconReturns
  <2>2. QED
    BY <1>1, <1>2, <2>1, AnswerStep
<1>4. CASE BeaconAsks(r)
  <2>1. PICK outcome \in Outcome :
            req' = [req EXCEPT ![r].asked = Append(@, outcome),
                      ![r].stage = IF outcome = "rejected" THEN "answered" ELSE @,
                      ![r].code = IF outcome = "rejected" THEN 500 ELSE @]
    BY <1>4, PublishOutcome DEF BeaconAsks
  <2>2. PICK asked \in Seq(Outcome) : asked = Append(req[r].asked, outcome)
    <3>1. req[r].asked \in Seq(Outcome)
      BY <1>2 DEF Request
    <3>2. Append(req[r].asked, outcome) \in Seq(Outcome)
      BY <2>1, <3>1
    <3>3. QED
      BY <3>2
  <2>3. PICK stage \in Stages : stage = IF outcome = "rejected" THEN "answered" ELSE "beacon"
    BY DEF Stages
  <2>4. PICK code \in Codes : code = IF outcome = "rejected" THEN 500 ELSE 0
    BY DEF Codes
  <2>5. req[r].code = 0 /\ req[r].made = 0
    BY <1>1, <1>2 DEF StageInv
  <2>6. req' = [req EXCEPT ![r] = Told(req[r], asked, stage, code)]
    BY <1>1, <1>2, <2>1, <2>2, <2>3, <2>4, <2>5 DEF Told
  <2>7. /\ req' \in [Requests -> Request] /\ OthersKept(r)
        /\ SameAsk(req'[r], req[r]) /\ req'[r].row = req[r].row
        /\ req'[r].seen = req[r].seen
        /\ req'[r].made = 0 /\ req'[r].stage = stage /\ req'[r].code = code
    BY <1>1, <1>2, <2>5, <2>6, ToldIs DEF OthersKept, SameAsk
  <2>8. RequestInv(r)'
    <3>1. StageInv(r)'
      BY <1>1, <2>3, <2>4, <2>7 DEF StageInv, SameAsk, Serving, Running, Creating
    <3>2. BoundsInv(r)'
      BY <1>1, <1>2, <2>5, <2>7 DEF BoundsInv, SameAsk
    <3>3. QED
      BY <1>1, <2>7, <3>1, <3>2 DEF RequestInv, SameAsk, Creating
  <2>9. CodeKept(r) /\ OwnRows(r)
    BY <1>1, <2>5, <2>7 DEF CodeKept, OwnRows, SameAsk, Gone
  <2>10. QED
    BY <1>1, <1>2, <2>7, <2>8, <2>9, QuietStep
<1>5. QED
  BY <1>3, <1>4

\* The brokers connect or close, or nothing changes.
LEMMA OtherStep ==
    ASSUME WorkflowInv, BrokerStep \/ UNCHANGED vars
    PROVE  WorkflowInv'
<1>1. UNCHANGED <<rows, events, req, faults>>
  BY DEF BrokerStep, vars
<1>2. BrokerTypeOK'
  <2>1. CASE BrokerStep
    BY <2>1, BrokerType DEF BrokerStep, WorkflowInv, TypeOK
  <2>2. CASE UNCHANGED vars
    BY <2>2 DEF vars, WorkflowInv, TypeOK, BrokerTypeOK
  <2>3. QED
    BY <2>1, <2>2
<1>3. TypeOK' /\ RowsInv' /\ PairsInv'
  BY <1>1, <1>2 DEF WorkflowInv, TypeOK, RowsInv, PairsInv
<1>4. EventsInv'
  BY <1>1 DEF WorkflowInv, EventsInv, SentBy, Replaces
<1>5. ASSUME NEW r \in Requests PROVE RequestInv(r)'
  <2>1. RequestInv(r)
    BY DEF WorkflowInv
  <2>2. QED
    BY <1>1, <2>1
    DEF RequestInv, BoundsInv, StageInv, SaveInv, DeleteInv, CreateInv, LatestOf, LastOf,
        Known, Referenced
<1>6. QED
  BY <1>3, <1>4, <1>5 DEF WorkflowInv

LEMMA WorkflowStep == WorkflowInv /\ [Next]_vars => WorkflowInv'
<1> SUFFICES ASSUME WorkflowInv, [Next]_vars PROVE WorkflowInv'
  OBVIOUS
<1>1. CASE BrokerStep \/ UNCHANGED vars
  BY <1>1, OtherStep
<1>2. ASSUME NEW r \in Requests, NEW op \in Operations, NEW name \in Names,
             NEW id \in Ids, NEW odd \in BOOLEAN, Receive(r, op, name, id, odd)
      PROVE  WorkflowInv'
  BY <1>2, ReceiveStep
<1>3. ASSUME NEW r \in Requests, ReadFails(r) PROVE WorkflowInv'
  BY <1>3, ReadFailsStep
<1>4. ASSUME NEW r \in Requests, Handler(r) PROVE WorkflowInv'
  <2>1. CASE Validated(r)
    BY <2>1, ValidatedStep
  <2>2. CASE SaveReturns(r)
    BY <2>2, SaveReturnsStep
  <2>3. CASE EnvironmentValidated(r)
    BY <2>3, EnvironmentValidatedStep
  <2>4. CASE Refetched(r)
    BY <2>4, RefetchedStep
  <2>5. CASE DeleteFetched(r)
    BY <2>5, DeleteFetchedStep
  <2>6. CASE DeleteListed(r)
    BY <2>6, DeleteListedStep
  <2>7. CASE DeleteReturns(r)
    BY <2>7, DeleteReturnsStep
  <2>8. CASE CreateFetched(r)
    BY <2>8, CreateFetchedStep
  <2>9. CASE NameFetched(r)
    BY <2>9, NameFetchedStep
  <2>10. CASE CreateReturns(r)
    BY <2>10, CreateReturnsStep
  <2>11. CASE EventNodeRuns(r) \/ RunReturns(r) \/ RunRejects(r)
    BY <2>11, RunStep
  <2>12. CASE BeaconAsks(r) \/ BeaconReturns(r)
    BY <2>12, BeaconStep
  <2>13. QED
    BY <1>4, <2>1, <2>2, <2>3, <2>4, <2>5, <2>6, <2>7, <2>8, <2>9, <2>10, <2>11,
       <2>12 DEF Handler
<1>5. QED
  BY <1>1, <1>2, <1>3, <1>4 DEF Next

LEMMA WorkflowInvariant == Spec => []WorkflowInv
<1>1. Init => WorkflowInv
  BY InitWorkflow
<1>2. WorkflowInv /\ [Next]_vars => WorkflowInv'
  BY WorkflowStep
<1>3. QED
  BY <1>1, <1>2, PTL DEF Spec

-----------------------------------------------------------------------------
(* The theorems *)

\* The state of the handlers has its types: what they read, reply and send is
\* in the ranges the model gives them, in every reachable state.
THEOREM WorkflowTypeCorrect == Spec => []TypeOK
<1>1. WorkflowInv => TypeOK
  BY DEF WorkflowInv
<1>2. QED
  BY <1>1, WorkflowInvariant, PTL

\* No process is left without its workflow: the foreign key refuses what a
\* process that came after the list deleteWorkflow read would orphan
\* (workflow.js:162-171).
THEOREM NoProcessOrphaned == Spec => []NoOrphans
<1>1. WorkflowInv => NoOrphans
  BY DEF WorkflowInv, RowsInv, NoOrphans
<1>2. QED
  BY <1>1, WorkflowInvariant, PTL

\* A delete is refused for a reason that was in the table, unless a call
\* failed, one that did something deleted a workflow of its id, and no two
\* report or have made the same deletion (workflow.js:154-181).
THEOREM DeletesReported == Spec => []DeletesAreExact
<1>1. WorkflowInv => DeletesAreExact
  <2>1. SUFFICES ASSUME WorkflowInv, NEW r \in Requests, req[r].op = "delete"
                 PROVE  /\ DeleteInv(r)
                        /\ req[r].made # 0 =>
                              \A s \in Requests \ {r} :
                                 ~ (req[s].op = "delete" /\ req[s].made = req[r].made)
    BY <2>1 DEF DeletesAreExact, DeleteInv
  <2>2. DeleteInv(r)
    BY <2>1 DEF WorkflowInv, RequestInv
  <2>3. ASSUME NEW s \in Requests \ {r}, req[r].made # 0, req[s].op = "delete",
               req[s].made = req[r].made
        PROVE  FALSE
    BY <2>1, <2>3 DEF WorkflowInv, PairsInv, Gone
  <2>4. QED
    BY <2>2, <2>3
<1>2. QED
  BY <1>1, WorkflowInvariant, PTL

\* A save that is told that it saved has announced one workflow, once, which is
\* its own or one saved under the same id after its own was deleted; a save
\* that is told that it failed has announced none (workflow.js:46-68).
THEOREM SavesAnnounced == Spec => []AnnouncedOnce
<1>1. WorkflowInv => AnnouncedOnce
  <2>1. SUFFICES ASSUME WorkflowInv, NEW r \in Requests, req[r].op = "save"
                 PROVE  LET sent == {k \in DOMAIN events :
                                  events[k].of = "saved" /\ events[k].by = r}
                        IN  /\ \A j, k \in sent : j = k
                            /\ req[r].code = 201 => sent # {}
                            /\ req[r].code \in {400, 500} => sent = {}
                            /\ \A k \in sent :
                                  \/ events[k].row = req[r].made
                                  \/ /\ rows[req[r].made].deleted
                                     /\ events[k].row > req[r].made
                                     /\ rows[events[k].row].id = rows[req[r].made].id
    BY <2>1 DEF AnnouncedOnce
  <2>2. \A j, k \in DOMAIN events :
           events[j].of = "saved" /\ events[j].by = r
              /\ events[k].of = "saved" /\ events[k].by = r => j = k
    BY <2>1 DEF WorkflowInv, EventsInv
  <2>3. req[r].code = 201 =>
           \E k \in DOMAIN events : events[k].of = "saved" /\ events[k].by = r
    BY <2>1 DEF WorkflowInv, RequestInv, SaveInv
  <2>4. ASSUME NEW k \in DOMAIN events, events[k].of = "saved", events[k].by = r
        PROVE  SentBy(k, r)
    BY <2>1, <2>4 DEF WorkflowInv, EventsInv
  <2>5. \A k \in DOMAIN events : events[k].of = "saved" /\ events[k].by = r =>
           req[r].code \notin {400, 500}
    BY <2>4 DEF SentBy
  <2>6. \A k \in DOMAIN events : events[k].of = "saved" /\ events[k].by = r =>
           \/ events[k].row = req[r].made
           \/ /\ rows[req[r].made].deleted
              /\ events[k].row > req[r].made
              /\ rows[events[k].row].id = rows[req[r].made].id
    BY <2>4 DEF SentBy, Replaces
  <2>7. QED
    BY <2>2, <2>3, <2>5, <2>6
<1>2. QED
  BY <1>1, WorkflowInvariant, PTL

\* A save that is told to have failed left a workflow behind only when an
\* extract was no text, a read or an answer failed, or the workflow was deleted
\* before it was fetched again (workflow.js:31-71).
THEOREM FailedSavesClean == Spec => []FailedSavesLeaveNothing
<1>1. WorkflowInv => FailedSavesLeaveNothing
  BY DEF WorkflowInv, RequestInv, SaveInv, FailedSavesLeaveNothing, At
<1>2. QED
  BY <1>1, WorkflowInvariant, PTL

\* The version a 201 reports is that of the process's workflow unless a newer
\* one was saved, or the one read deleted, in between (workflow.js:214-312).
THEOREM VersionExplained == Spec => []ReportedVersionIsKnown
<1>1. WorkflowInv => ReportedVersionIsKnown
  <2>1. SUFFICES ASSUME WorkflowInv, NEW r \in Requests, req[r].op \in Creating,
                        req[r].code = 201
                 PROVE  Known(req[r].op, req[r].row, req[r].seen, req[r].made)
    BY <2>1 DEF ReportedVersionIsKnown, Known, Creating
  <2>2. CreateInv(r)
    BY <2>1 DEF WorkflowInv, RequestInv
  <2>3. QED
    BY <2>1, <2>2 DEF CreateInv
<1>2. QED
  BY <1>1, WorkflowInvariant, PTL

-----------------------------------------------------------------------------
(* Beacons *)

\* A beacon has been asked of the first brokers of Order, and what became of
\* it there is what the brokers can answer to one.
BeaconInv(r) ==
    LET asked == req[r].asked
    IN  req[r].op = "beacon" =>
            /\ Len(asked) <= Len(Order)
            /\ \A i \in 1..Len(asked) :
                  /\ asked[i] = "rejected" =>
                        Order[i] # "MQTT" /\ i = Len(asked) /\ req[r].code = 500
                  /\ asked[i] = "blank" => Order[i] = "AMQP"
                  /\ asked[i] = "ignored" <=> Order[i] \notin Enabled
            /\ req[r].code = 200 => Len(asked) = Len(Order)
            /\ req[r].code = 500 =>
                  \/ Len(Order) = 0
                  \/ Len(asked) > 0 /\ asked[Len(asked)] = "rejected"

BeaconsInv == \A r \in Requests : BeaconInv(r)

LEMMA OrderIs ==
    /\ Order \in Seq(Brokers)
    /\ IsFiniteSet(Named)
    /\ Len(Order) = Cardinality(Named)
<1> DEFINE N1 == IF "MQTT" \in Named THEN {"MQTT"} ELSE {}
           N2 == IF "KAFKA" \in Named THEN N1 \cup {"KAFKA"} ELSE N1
           N3 == IF "AMQP" \in Named THEN N2 \cup {"AMQP"} ELSE N2
<1>1. \A b \in Brokers : /\ IfNamed(b) \in Seq(Brokers)
                         /\ Len(IfNamed(b)) = IF b \in Named THEN 1 ELSE 0
  BY DEF IfNamed
<1>2. "MQTT" \in Brokers /\ "KAFKA" \in Brokers /\ "AMQP" \in Brokers
  BY DEF Brokers
<1>3. \A s, t \in Seq(Brokers) :
         s \o t \in Seq(Brokers) /\ Len(s \o t) = Len(s) + Len(t)
  OBVIOUS
<1>4. /\ Order \in Seq(Brokers)
      /\ Len(Order) = Len(IfNamed("MQTT")) + Len(IfNamed("KAFKA")) + Len(IfNamed("AMQP"))
  <2>1. PICK a \in Seq(Brokers) : a = IfNamed("MQTT")
    BY <1>1, <1>2
  <2>2. PICK b \in Seq(Brokers) : b = IfNamed("KAFKA")
    BY <1>1, <1>2
  <2>3. PICK c \in Seq(Brokers) : c = IfNamed("AMQP")
    BY <1>1, <1>2
  <2>4. a \o b \in Seq(Brokers) /\ Len(a \o b) = Len(a) + Len(b)
    BY <1>3
  <2>5. (a \o b) \o c \in Seq(Brokers) /\ Len((a \o b) \o c) = Len(a) + Len(b) + Len(c)
    BY <1>3, <2>4
  <2>6. Order = (a \o b) \o c
    BY <2>1, <2>2, <2>3 DEF Order
  <2>7. QED
    BY <2>1, <2>2, <2>3, <2>5, <2>6
<1>5. IsFiniteSet(N1) /\ Cardinality(N1) = Len(IfNamed("MQTT")) /\ "KAFKA" \notin N1 /\ "AMQP" \notin N1
  <2>1. IsFiniteSet({}) /\ Cardinality({}) = 0
    BY FS_EmptySet
  <2>2. IsFiniteSet({"MQTT"}) /\ Cardinality({"MQTT"}) = 1
    <3>1. {} \cup {"MQTT"} = {"MQTT"} /\ "MQTT" \notin {}
      OBVIOUS
    <3>2. QED
      BY <2>1, <3>1, FS_AddElement
  <2>3. QED
    BY <1>1, <1>2, <2>1, <2>2
<1>6. /\ IsFiniteSet(N2) /\ "AMQP" \notin N2
      /\ Cardinality(N2) = Len(IfNamed("MQTT")) + Len(IfNamed("KAFKA"))
  <2>1. CASE "KAFKA" \in Named
    <3>1. /\ IsFiniteSet(N1 \cup {"KAFKA"})
          /\ Cardinality(N1 \cup {"KAFKA"}) = Cardinality(N1) + 1
      BY <1>5, FS_AddElement
    <3>2. QED
      BY <1>1, <1>2, <1>5, <2>1, <3>1
  <2>2. CASE "KAFKA" \notin Named
    BY <1>1, <1>2, <1>5, <2>2
  <2>3. QED
    BY <2>1, <2>2
<1>7. /\ IsFiniteSet(N3)
      /\ Cardinality(N3) = Len(IfNamed("MQTT")) + Len(IfNamed("KAFKA")) + Len(IfNamed("AMQP"))
  <2>1. CASE "AMQP" \in Named
    <3>1. /\ IsFiniteSet(N2 \cup {"AMQP"})
          /\ Cardinality(N2 \cup {"AMQP"}) = Cardinality(N2) + 1
      BY <1>6, FS_AddElement
    <3>2. QED
      BY <1>1, <1>2, <1>6, <2>1, <3>1
  <2>2. CASE "AMQP" \notin Named
    <3>1. N3 = N2 /\ Len(IfNamed("AMQP")) = 0
      BY <1>1, <1>2, <2>2
    <3>2. Len(IfNamed("MQTT")) \in Nat /\ Len(IfNamed("KAFKA")) \in Nat
      BY <1>1, <1>2
    <3>3. \A x, y, z \in Nat : z = 0 => x + y = x + y + z
      OBVIOUS
    <3>4. QED
      BY <1>6, <3>1, <3>2, <3>3
  <2>3. QED
    BY <2>1, <2>2
<1>8. Named = N3
  BY WorkflowAssumption DEF Brokers
<1>9. QED
  BY <1>4, <1>7, <1>8

\* What a broker can answer to a beacon.
LEMMA BeaconOutcome ==
    ASSUME NEW b, NEW outcome, outcome \in publishMessage(Beacon(b), b)
    PROVE  /\ outcome = "rejected" => b # "MQTT"
           /\ outcome = "blank" => b = "AMQP"
           /\ outcome = "ignored" <=> b \notin Enabled
<1>1. CASE b \notin Enabled
  BY <1>1 DEF publishMessage
<1>2. CASE b \in Enabled /\ b = "MQTT"
  <2>1. outcome \in PublishMqtt(Beacon(b)) /\ Beacon(b).topic
    BY <1>2 DEF publishMessage, Beacon
  <2>2. outcome \in {"dropped", "sent"}
    BY <2>1 DEF PublishMqtt
  <2>3. QED
    BY <1>2, <2>2
<1>3. CASE b \in Enabled /\ b = "AMQP"
  <2>1. outcome \in PublishAmqp(Beacon(b))
    BY <1>3 DEF publishMessage
  <2>2. outcome # "ignored"
    BY <2>1 DEF PublishAmqp
  <2>3. QED
    BY <1>3, <2>2
<1>4. CASE b \in Enabled /\ b \notin {"MQTT", "AMQP"}
  <2>1. outcome \in PublishKafka(Beacon(b))
    BY <1>4 DEF publishMessage
  <2>2. outcome \notin {"ignored", "blank"}
    BY <2>1 DEF PublishKafka
  <2>3. QED
    BY <1>4, <2>2
<1>5. QED
  BY <1>1, <1>2, <1>3, <1>4

\* r's reply and what its beacon was asked are as before.
SameBeacon(r) ==
    /\ req'[r].op = req[r].op /\ req'[r].asked = req[r].asked
    /\ req'[r].code = req[r].code

NoBeacon(r) == req'[r].op # "beacon" \/ SameBeacon(r)

\* Of the requests only a beacon's own steps change one.
LEMMA HandlerNoBeacon ==
    ASSUME WorkflowInv, NEW r \in Requests,
           ReadFails(r) \/ (Handler(r) /\ ~ BeaconAsks(r) /\ ~ BeaconReturns(r)),
           NEW s \in Requests
    PROVE  NoBeacon(s)
<1>1. /\ TypeOK /\ req[r] \in Request /\ req[s] \in Request
      /\ req \in [Requests -> Request] /\ StageInv(r)
  BY Served
<1>2. ASSUME req[r].op # "beacon", NEW q, q.op = req[r].op,
             req' = [req EXCEPT ![r] = q]
      PROVE  NoBeacon(s)
  BY <1>1, <1>2 DEF NoBeacon, SameBeacon
<1>3. ASSUME req[r].op # "beacon", \E code : Answers(r, code)
      PROVE  NoBeacon(s)
  <2>1. \A code : [req[r] EXCEPT !.stage = "answered", !.code = code].op = req[r].op
    BY <1>1 DEF Request
  <2>2. \E q : q.op = req[r].op /\ req' = [req EXCEPT ![r] = q]
    BY <1>1, <1>3, <2>1 DEF Answers
  <2>3. QED
    BY <1>2, <1>3, <2>2
<1>4. ASSUME req[r].op # "beacon", \E stage : GoesOn(r, stage)
      PROVE  NoBeacon(s)
  <2>1. \A stage : [req[r] EXCEPT !.stage = stage].op = req[r].op
    BY <1>1 DEF Request
  <2>2. \E q : q.op = req[r].op /\ req' = [req EXCEPT ![r] = q]
    BY <1>1, <1>4, <2>1 DEF GoesOn
  <2>3. QED
    BY <1>2, <1>4, <2>2
<1>5. ASSUME req[r].op # "beacon", \E stage, i : Finds(r, stage, i)
      PROVE  NoBeacon(s)
  <2>1. \A stage, i, n : Moved(req[r], stage, i, n).op = req[r].op
    BY <1>1 DEF Request, Moved
  <2>2. PICK stage, i : Finds(r, stage, i)
    BY <1>5
  <2>3. PICK q : q = Moved(req[r], stage, i, Len(rows))
    OBVIOUS
  <2>4. q.op = req[r].op /\ req' = [req EXCEPT ![r] = q]
    BY <1>1, <2>1, <2>2, <2>3 DEF Finds, Moved
  <2>5. QED
    BY <1>2, <1>5, <2>4
<1>6. ASSUME req[r].op # "beacon", \E i, stage, code : Does(r, i, stage, code)
      PROVE  NoBeacon(s)
  <2>1. \A i, stage, code : Making(req[r], i, stage, code).op = req[r].op
    BY <1>1 DEF Request, Making
  <2>2. PICK i, stage, code : Does(r, i, stage, code)
    BY <1>6
  <2>3. PICK q : q = Making(req[r], i, stage, code)
    OBVIOUS
  <2>4. q.op = req[r].op /\ req' = [req EXCEPT ![r] = q]
    BY <1>1, <2>1, <2>2, <2>3 DEF Does, Making
  <2>5. QED
    BY <1>2, <1>6, <2>4
<1>7. ASSUME NEW done \in Request, Unhandled(r, done) \/ req' = [req EXCEPT ![r] = done],
             done.op = req[r].op, req[r].op # "beacon"
      PROVE  NoBeacon(s)
  <2>1. CASE Unhandled(r, done)
    <3>1. /\ s # r => req'[s] = req[s] \/ CutOff(s)
          /\ SameButReply(req'[r], done)
      BY <1>1, <2>1, UnhandledDoes
    <3>2. CutOff(s) => SameBeacon(s)
      BY <1>1 DEF CutOff, SameBeacon, Request
    <3>3. QED
      BY <1>7, <3>1, <3>2 DEF NoBeacon, SameBeacon, SameButReply, SameAsk
  <2>2. QED
    BY <1>2, <1>7, <2>1
<1>8. CASE ReadFails(r)
  <2>1. req[r].op # "beacon" /\ Answers(r, 500)
    BY <1>1, <1>8 DEF ReadFails, StageInv, Creating
  <2>2. QED
    BY <1>3, <2>1
<1>9. CASE Validated(r) \/ SaveReturns(r) \/ EnvironmentValidated(r)
  <2>1. /\ req[r].op # "beacon"
        /\ \/ \E code : Answers(r, code)
           \/ \E stage : GoesOn(r, stage)
           \/ \E i, stage, code : Does(r, i, stage, code)
    BY <1>9 DEF Validated, SaveReturns, EnvironmentValidated, At
  <2>2. QED
    BY <1>3, <1>4, <1>6, <2>1
<1>10. CASE DeleteFetched(r) \/ DeleteListed(r) \/ DeleteReturns(r)
  <2>1. /\ req[r].op # "beacon"
        /\ \/ \E code : Answers(r, code)
           \/ \E stage : GoesOn(r, stage)
           \/ \E stage, i : Finds(r, stage, i)
           \/ \E i, stage, code : Does(r, i, stage, code)
    BY <1>10 DEF DeleteFetched, DeleteListed, DeleteReturns, At
  <2>2. QED
    BY <1>3, <1>4, <1>5, <1>6, <2>1
<1>11. CASE CreateFetched(r) \/ NameFetched(r) \/ CreateReturns(r)
  <2>1. /\ req[r].op # "beacon"
        /\ \/ \E code : Answers(r, code)
           \/ \E stage, i : Finds(r, stage, i)
           \/ \E i, stage, code : Does(r, i, stage, code)
    BY <1>11 DEF CreateFetched, NameFetched, CreateReturns, Created, At
  <2>2. QED
    BY <1>3, <1>5, <1>6, <2>1
<1>12. CASE Refetched(r)
  <2>1. req[r].op = "save"
    BY <1>12 DEF Refetched, At
  <2>2. ASSUME NEW code \in {201, 500}
        PROVE  Answered(req[r], code) \in Request /\ Answered(req[r], code).op = "save"
    <3>1. code \in Codes
      BY <2>2 DEF Codes
    <3>2. QED
      BY <1>1, <2>1, <3>1, AnsweredIs DEF SameButReply, SameAsk
  <2>3. \E code \in {201, 500} :
           \/ Unhandled(r, Answered(req[r], code))
           \/ req' = [req EXCEPT ![r] = Answered(req[r], code)]
    BY <1>12 DEF Refetched, Announces, Vanished, Answered
  <2>4. QED
    BY <1>7, <2>1, <2>2, <2>3
<1>13. CASE EventNodeRuns(r) \/ RunReturns(r)
  <2>1. req[r].op # "beacon" /\ \E stage : GoesOn(r, stage)
    BY <1>13 DEF EventNodeRuns, RunReturns, Runs, At
  <2>2. QED
    BY <1>4, <2>1
<1>14. CASE RunRejects(r)
  <2>1. "rejected" \in Stages /\ req[r].op = "start"
    BY <1>14 DEF RunRejects, Runs, Stages
  <2>2. /\ Staged(req[r], "rejected") \in Request
        /\ Staged(req[r], "rejected").op = "start"
    BY <1>1, <2>1, StagedIs DEF SameButReply, SameAsk
  <2>3. Unhandled(r, Staged(req[r], "rejected"))
    BY <1>14 DEF RunRejects, Staged
  <2>4. QED
    BY <1>7, <2>1, <2>2, <2>3
<1>15. QED
  BY <1>8, <1>9, <1>10, <1>11, <1>12, <1>13, <1>14 DEF Handler

LEMMA BeaconKept ==
    ASSUME NEW s \in Requests, BeaconInv(s), NoBeacon(s)
    PROVE  BeaconInv(s)'
  BY DEF BeaconInv, NoBeacon, SameBeacon, Order, IfNamed

LEMMA ReceiveBeacon ==
    ASSUME WorkflowInv, NEW r \in Requests, NEW op \in Operations, NEW name \in Names,
           NEW id \in Ids, NEW odd \in BOOLEAN, Receive(r, op, name, id, odd)
    PROVE  BeaconInv(r)' /\ \A s \in Requests : s # r => req'[s] = req[s]
<1>1. /\ req[r] \in Request /\ req \in [Requests -> Request] /\ StageInv(r)
      /\ req[r].stage = "idle"
  BY Served DEF Receive
<1>2. req[r].asked = <<>> /\ req[r].code = 0
  BY <1>1 DEF StageInv
<1>3. /\ req'[r].asked = <<>> /\ req'[r].code = 0
      /\ \A s \in Requests : s # r => req'[s] = req[s]
  BY <1>1, <1>2 DEF Receive, Request
<1>4. Len(Order) \in Nat /\ Order' = Order
  BY OrderIs DEF Order, IfNamed
<1>5. Len(<<>>) = 0 /\ 1..0 = {}
  OBVIOUS
<1>6. QED
  BY <1>3, <1>4, <1>5 DEF BeaconInv

LEMMA BeaconReturnsKeeps ==
    ASSUME WorkflowInv, NEW r \in Requests, BeaconInv(r), BeaconReturns(r)
    PROVE  BeaconInv(r)' /\ \A s \in Requests : s # r => req'[s] = req[s]
<1>1. /\ TypeOK /\ req[r] \in Request /\ req \in [Requests -> Request] /\ StageInv(r)
      /\ req[r].op = "beacon" /\ req[r].code = 0
      /\ ~ (Len(req[r].asked) < Len(Order))
  BY Served DEF BeaconReturns, At, StageInv, Serving, Asks
<1>2. PICK code \in {200, 500} :
          Answers(r, code) /\ (code = 500 => Order = <<>>)
  BY DEF BeaconReturns
<1>3. code \in Codes
  BY DEF Codes
<1>4. /\ OthersKept(r) /\ SameButReply(req'[r], req[r]) /\ req'[r].code = code
  BY <1>1, <1>2, <1>3, AnswersDoes
<1>5. Len(req[r].asked) \in Nat /\ Len(Order) \in Nat /\ Order' = Order
  BY <1>1, OrderIs DEF Request, Order, IfNamed
<1>6. \A i \in 1..Len(req[r].asked) : req[r].asked[i] # "rejected"
  BY <1>1 DEF BeaconInv
<1>7. code = 500 => Len(Order) = 0
  BY <1>2
<1>8. Len(req[r].asked) = Len(Order)
  BY <1>1, <1>5 DEF BeaconInv
<1>9. BeaconInv(r)'
  BY <1>1, <1>4, <1>5, <1>6, <1>7, <1>8 DEF BeaconInv, SameButReply, SameAsk
<1>10. QED
  BY <1>4, <1>9 DEF OthersKept

LEMMA BeaconAsksKeeps ==
    ASSUME WorkflowInv, NEW r \in Requests, BeaconInv(r), BeaconAsks(r)
    PROVE  BeaconInv(r)' /\ \A s \in Requests : s # r => req'[s] = req[s]
<1>1. /\ TypeOK /\ req[r] \in Request /\ req \in [Requests -> Request] /\ StageInv(r)
      /\ req[r].op = "beacon" /\ req[r].stage = "beacon" /\ req[r].code = 0
      /\ Len(req[r].asked) < Len(Order)
  BY Served DEF BeaconAsks, At, StageInv, Serving, Asks
<1>2. PICK n \in Nat : n = Len(req[r].asked) + 1
  BY <1>1 DEF Request
<1>3. PICK b : b = Order[n] /\ b = Asked(r)
  BY <1>2 DEF Asked
<1>4. PICK outcome \in Outcome :
          /\ outcome \in publishMessage(Beacon(b), b)
          /\ req' = [req EXCEPT ![r].asked = Append(@, outcome),
                    ![r].stage = IF outcome = "rejected" THEN "answered" ELSE @,
                    ![r].code = IF outcome = "rejected" THEN 500 ELSE @]
  BY <1>3, PublishOutcome DEF BeaconAsks
<1>5. PICK asked \in Seq(Outcome) : asked = Append(req[r].asked, outcome)
  <2>1. req[r].asked \in Seq(Outcome)
    BY <1>1 DEF Request
  <2>2. Append(req[r].asked, outcome) \in Seq(Outcome)
    BY <1>4, <2>1
  <2>3. QED
    BY <2>2
<1>6. /\ Len(asked) = n /\ asked[n] = outcome
      /\ \A i \in 1..(n - 1) : asked[i] = req[r].asked[i]
      /\ n - 1 = Len(req[r].asked)
  <2>1. req[r].asked \in Seq(Outcome)
    BY <1>1 DEF Request
  <2>2. QED
    BY <1>2, <1>4, <1>5, <2>1
<1>7. /\ req'[r].op = "beacon" /\ req'[r].asked = asked
      /\ req'[r].code = IF outcome = "rejected" THEN 500 ELSE 0
      /\ \A s \in Requests : s # r => req'[s] = req[s]
  <2>1. req' = [req EXCEPT ![r].asked = asked,
                  ![r].stage = IF outcome = "rejected" THEN "answered" ELSE @,
                  ![r].code = IF outcome = "rejected" THEN 500 ELSE @]
    BY <1>1, <1>4, <1>5
  <2>2. QED
    BY <1>1, <2>1 DEF Request
<1>8. /\ outcome = "rejected" => b # "MQTT"
      /\ outcome = "blank" => b = "AMQP"
      /\ outcome = "ignored" <=> b \notin Enabled
  BY <1>4, BeaconOutcome
<1>9. Len(Order) \in Nat /\ Order' = Order
  BY OrderIs DEF Order, IfNamed
<1>10. \A i \in 1..(n - 1) :
          /\ asked[i] # "rejected"
          /\ asked[i] = "blank" => Order[i] = "AMQP"
          /\ asked[i] = "ignored" <=> Order[i] \notin Enabled
  BY <1>1, <1>6 DEF BeaconInv
<1>11. \A i \in 1..n :
          /\ asked[i] = "rejected" => Order[i] # "MQTT" /\ i = n /\ outcome = "rejected"
          /\ asked[i] = "blank" => Order[i] = "AMQP"
          /\ asked[i] = "ignored" <=> Order[i] \notin Enabled
  <2>1. \A i \in 1..n : i \in 1..(n - 1) \/ i = n
    BY <1>2
  <2>2. QED
    BY <1>3, <1>6, <1>8, <1>10, <2>1
<1>12. n <= Len(Order) /\ n > 0
  BY <1>1, <1>2, <1>6, <1>9
<1>13. BeaconInv(r)'
  BY <1>6, <1>7, <1>9, <1>11, <1>12 DEF BeaconInv
<1>14. QED
  BY <1>7, <1>13

LEMMA BeaconsStep ==
    WorkflowInv /\ BeaconsInv /\ [Next]_vars => BeaconsInv'
<1>1. SUFFICES ASSUME WorkflowInv, \A r \in Requests : BeaconInv(r), [Next]_vars
               PROVE  \A r \in Requests : BeaconInv(r)'
  BY DEF BeaconsInv
<1>2. ASSUME \A s \in Requests : NoBeacon(s)
      PROVE  \A r \in Requests : BeaconInv(r)'
  BY <1>1, <1>2, BeaconKept
<1>3. ASSUME NEW r \in Requests, BeaconInv(r)',
             \A s \in Requests : s # r => req'[s] = req[s]
      PROVE  \A s \in Requests : BeaconInv(s)'
  <2>1. ASSUME NEW s \in Requests, s # r PROVE BeaconInv(s)'
    <3>1. NoBeacon(s)
      BY <1>3, <2>1 DEF NoBeacon, SameBeacon
    <3>2. QED
      BY <1>1, <3>1, BeaconKept
  <2>2. QED
    BY <1>3, <2>1
<1>4. CASE BrokerStep \/ UNCHANGED vars
  <2>1. \A s \in Requests : NoBeacon(s)
    BY <1>4 DEF BrokerStep, vars, NoBeacon, SameBeacon
  <2>2. QED
    BY <1>2, <2>1
<1>5. ASSUME NEW r \in Requests, NEW op \in Operations, NEW name \in Names,
             NEW id \in Ids, NEW odd \in BOOLEAN, Receive(r, op, name, id, odd)
      PROVE  \A s \in Requests : BeaconInv(s)'
  BY <1>1, <1>3, <1>5, ReceiveBeacon
<1>6. ASSUME NEW r \in Requests, BeaconAsks(r) \/ BeaconReturns(r)
      PROVE  \A s \in Requests : BeaconInv(s)'
  BY <1>1, <1>3, <1>6, BeaconAsksKeeps, BeaconReturnsKeeps
<1>7. ASSUME NEW r \in Requests,
             ReadFails(r) \/ (Handler(r) /\ ~ BeaconAsks(r) /\ ~ BeaconReturns(r))
      PROVE  \A s \in Requests : BeaconInv(s)'
  BY <1>1, <1>2, <1>7, HandlerNoBeacon
<1>8. QED
  BY <1>1, <1>4, <1>5, <1>6, <1>7 DEF Next

\* A beacon that is told as emitted was awaited at every broker with a
\* variable and rejected by none, and one that fails was rejected by the last
\* broker asked (connection.js:19-50).
THEOREM BeaconsTold == Spec => []BeaconTellsWhoWasAsked
<1>1. Init => BeaconsInv
  BY DEF Init, BeaconsInv, BeaconInv
<1>2. WorkflowInv /\ BeaconsInv => BeaconTellsWhoWasAsked
  <2>1. SUFFICES ASSUME WorkflowInv, NEW r \in Requests, BeaconInv(r), req[r].op = "beacon"
                 PROVE  LET asked == req[r].asked
                            Has(outcome) == \E i \in DOMAIN asked : asked[i] = outcome
                        IN  /\ req[r].code = 200 => Len(asked) = Cardinality(Named) /\ ~ Has("rejected")
                            /\ req[r].code = 500 =>
                                  Named = {} \/ (Has("rejected") /\ asked[Len(asked)] = "rejected")
                            /\ \A i \in DOMAIN asked :
                                  /\ asked[i] = "rejected" => Order[i] # "MQTT" /\ i = Len(asked)
                                  /\ asked[i] = "blank" => Order[i] = "AMQP"
                                  /\ asked[i] = "ignored" <=> Order[i] \notin Enabled
    BY <2>1 DEF BeaconTellsWhoWasAsked, BeaconsInv
  <2>2. PICK asked \in Seq(Outcome) : asked = req[r].asked
    BY <2>1, Served DEF Request
  <2>3. DOMAIN asked = 1..Len(asked) /\ Len(asked) \in Nat
    BY <2>2
  <2>4. Len(Order) = Cardinality(Named) /\ (Len(Order) = 0 => Named = {})
    BY OrderIs, FS_EmptySet
  <2>5. req[r].code = 200 =>
            Len(asked) = Cardinality(Named) /\ \A i \in DOMAIN asked : asked[i] # "rejected"
    BY <2>1, <2>2, <2>3, <2>4 DEF BeaconInv
  <2>6. req[r].code = 500 =>
            \/ Named = {}
            \/ Len(asked) \in DOMAIN asked /\ asked[Len(asked)] = "rejected"
    BY <2>1, <2>2, <2>3, <2>4 DEF BeaconInv
  <2>7. \A i \in DOMAIN asked :
            /\ asked[i] = "rejected" => Order[i] # "MQTT" /\ i = Len(asked)
            /\ asked[i] = "blank" => Order[i] = "AMQP"
            /\ asked[i] = "ignored" <=> Order[i] \notin Enabled
    BY <2>1, <2>2, <2>3 DEF BeaconInv
  <2>8. QED
    BY <2>2, <2>5, <2>6, <2>7
<1>3. QED
  BY <1>1, <1>2, BeaconsStep, WorkflowInvariant, PTL DEF Spec

-----------------------------------------------------------------------------
(* The registry that clients see *)

\* Who has been answered was told something.
RepliesInv ==
    \A r \in Requests :
        req[r].op # "beacon" /\ req[r].stage \in {"answered", "rejected"} => req[r].code # 0

AskedNow == [r \in Requests |-> AsksFor(r)]

DidNow == [r \in Requests |-> Did(r)]

ReplyNow == [r \in Requests |-> ReplyTo(r)]

LostNow == {r \in Requests : Lost(r)}

\* The server stops under all requests but r.
OthersCut(r) ==
    \A s \in Requests : s # r =>
        req'[s] = IF req[s].stage \in Serving \cup Running
                  THEN [req[s] EXCEPT !.stage = "cut"] ELSE req[s]

(***************************************************************************)
(* A step of r changes what the registry knows of r alone.                 *)
(***************************************************************************)
LEMMA Views ==
    ASSUME WorkflowInv, NEW r \in Requests, OthersKept(r) \/ OthersCut(r)
    PROVE  /\ AskedNow' = [AskedNow EXCEPT ![r] = AsksFor(r)']
           /\ DidNow' = [DidNow EXCEPT ![r] = Did(r)']
           /\ ReplyNow' = [ReplyNow EXCEPT ![r] = ReplyTo(r)']
<1>1. ASSUME NEW s \in Requests, s # r
      PROVE  AsksFor(s)' = AsksFor(s) /\ Did(s)' = Did(s) /\ ReplyTo(s)' = ReplyTo(s)
  <2>1. req[s] \in Request
    BY DEF WorkflowInv, TypeOK
  <2>2. CASE req'[s] = req[s]
    BY <2>2 DEF AsksFor, Did, ReplyTo, Concerns
  <2>3. CASE req[s].stage # "idle" /\ req'[s] = [req[s] EXCEPT !.stage = "cut"]
    <3>1. /\ req'[s].op = req[s].op /\ req'[s].name = req[s].name /\ req'[s].id = req[s].id
          /\ req'[s].made = req[s].made /\ req'[s].code = req[s].code
          /\ req'[s].stage = "cut"
      BY <2>1, <2>3 DEF Request
    <3> QED
      BY <2>3, <3>1 DEF AsksFor, Did, ReplyTo, Concerns
  <2> QED
    BY <1>1, <2>2, <2>3 DEF OthersKept, OthersCut, Serving, Running
<1>2. /\ AskedNow' = [s \in Requests |-> AsksFor(s)']
      /\ DidNow' = [s \in Requests |-> Did(s)']
      /\ ReplyNow' = [s \in Requests |-> ReplyTo(s)']
  BY DEF AskedNow, DidNow, ReplyNow
<1>3. AskedNow' = [AskedNow EXCEPT ![r] = AsksFor(r)']
  BY <1>1, <1>2 DEF AskedNow
<1>4. DidNow' = [DidNow EXCEPT ![r] = Did(r)']
  BY <1>1, <1>2 DEF DidNow
<1>5. ReplyNow' = [ReplyNow EXCEPT ![r] = ReplyTo(r)']
  BY <1>1, <1>2 DEF ReplyNow
<1> QED
  BY <1>3, <1>4, <1>5

\* The requests the registry has still to answer are those that are served.
LEMMA OpenIs ==
    ASSUME WorkflowInv, RepliesInv, NEW r \in Requests
    PROVE  Registry!Open(r) <=> req[r].stage \in Serving /\ req[r].op # "beacon"
<1>1. req[r] \in Request /\ StageInv(r)
  BY Served
<1>2. req[r].op \in Operations /\ req[r].stage \in Stages
  BY <1>1 DEF Request
<1>3. AsksFor(r) # [op |-> "none"] <=> Concerns(r)
  <2>1. Concerns(r) => AsksFor(r).op = req[r].op
    BY DEF AsksFor
  <2>2. req[r].op # "none"
    BY <1>2 DEF Operations
  <2>3. [op |-> "none"].op = "none"
    OBVIOUS
  <2>4. ~ Concerns(r) => AsksFor(r) = [op |-> "none"]
    BY DEF AsksFor
  <2> QED
    BY <2>1, <2>2, <2>3, <2>4
<1>4. Registry!Open(r) <=> Concerns(r) /\ ReplyTo(r) = 0 /\ ~ Lost(r)
  BY <1>3 DEF Registry!Open, Registry!NoRequest
<1>5. Registry!Open(r) <=> Concerns(r) /\ req[r].code = 0 /\ req[r].stage # "cut"
  BY <1>4 DEF ReplyTo, Lost
<1>6. req[r].stage \in Running => req[r].code # 0
  BY <1>1 DEF StageInv
<1>7. req[r].stage \in Serving => req[r].code = 0
  BY <1>1 DEF StageInv
<1>8. req[r].op # "beacon" /\ req[r].stage \in {"answered", "rejected"} => req[r].code # 0
  BY DEF RepliesInv
<1> QED
  BY <1>2, <1>5, <1>6, <1>7, <1>8 DEF Concerns, Stages, Serving, Running

LEMMA MayStopIs ==
    ASSUME WorkflowInv, RepliesInv, NEW r \in Requests, OthersKept(r) \/ OthersCut(r),
           ~ Lost(r), ~ Lost(r)'
    PROVE  Registry!MayStop({r})
<1>1. CASE OthersKept(r)
  <2>1. \A s \in Requests : Lost(s)' <=> Lost(s)
    BY <1>1 DEF OthersKept, Lost, Concerns
  <2>2. LostNow' = LostNow
    BY <2>1 DEF LostNow
  <2> QED
    BY <2>2 DEF Registry!MayStop, LostNow
<1>2. CASE OthersCut(r)
  <2>1. ASSUME NEW s \in Requests, s # r
        PROVE  Lost(s)' <=> Lost(s) \/ Registry!Open(s)
    <3>1. /\ req[s] \in Request /\ StageInv(s)
          /\ Registry!Open(s) <=> req[s].stage \in Serving /\ req[s].op # "beacon"
      BY Served, OpenIs
    <3>2. CASE req[s].stage \in Serving \cup Running
      <4>1. /\ req'[s].stage = "cut" /\ req'[s].op = req[s].op
            /\ req'[s].code = req[s].code
        BY <1>2, <2>1, <3>1, <3>2 DEF OthersCut, Request
      <4>2. req[s].stage \in Running => req[s].code # 0
        BY <3>1 DEF StageInv
      <4>3. req[s].stage \in Serving => req[s].code = 0
        BY <3>1 DEF StageInv
      <4> QED
        BY <3>1, <3>2, <4>1, <4>2, <4>3 DEF Lost, Concerns, Serving, Running
    <3>3. CASE req[s].stage \notin Serving \cup Running
      <4>1. req'[s] = req[s]
        BY <1>2, <2>1, <3>3 DEF OthersCut
      <4> QED
        BY <3>1, <3>3, <4>1 DEF Lost, Concerns
    <3> QED
      BY <3>2, <3>3
  <2>2. LostNow' = LostNow \cup {s \in Requests \ {r} : Registry!Open(s)}
    BY <2>1 DEF LostNow
  <2> QED
    BY <2>2 DEF Registry!MayStop, LostNow
<1> QED
  BY <1>1, <1>2

LEMMA UnhandledCuts ==
    ASSUME TypeOK, NEW r \in Requests, NEW done, Unhandled(r, done)
    PROVE  OthersKept(r) \/ OthersCut(r)
  BY DEF Unhandled, OthersKept, OthersCut, TypeOK

(***************************************************************************)
(* A step between two awaits is none of the registry.                      *)
(***************************************************************************)
LEMMA MoveIsNoStep ==
    ASSUME WorkflowInv, NEW r \in Requests, OthersKept(r), rows' = rows,
           faults' = faults,
           Announced' = Announced, AsksFor(r)' = AsksFor(r), Did(r)' = Did(r),
           ReplyTo(r)' = ReplyTo(r), Lost(r)' <=> Lost(r)
    PROVE  UNCHANGED Registry!registryVars
<1>1. /\ AskedNow' = [AskedNow EXCEPT ![r] = AsksFor(r)']
      /\ DidNow' = [DidNow EXCEPT ![r] = Did(r)']
      /\ ReplyNow' = [ReplyNow EXCEPT ![r] = ReplyTo(r)']
  BY Views
<1>2. AskedNow' = AskedNow /\ DidNow' = DidNow /\ ReplyNow' = ReplyNow
  BY <1>1 DEF AskedNow, DidNow, ReplyNow
<1>3. \A s \in Requests : Lost(s)' <=> Lost(s)
  BY DEF OthersKept, Lost, Concerns
<1>4. LostNow' = LostNow
  BY <1>3 DEF LostNow
<1> QED
  BY <1>2, <1>4 DEF Registry!registryVars, AskedNow, DidNow, ReplyNow, LostNow

\* On to another await.
LEMMA OnIsNoStep ==
    ASSUME WorkflowInv, NEW r \in Requests, req[r].stage \in Serving, OthersKept(r),
           SameAsk(req'[r], req[r]), req'[r].made = req[r].made,
           req'[r].code = req[r].code, req'[r].stage \in Serving,
           UNCHANGED <<rows, events, faults>>
    PROVE  UNCHANGED Registry!registryVars
<1>1. Concerns(r)' <=> Concerns(r)
  BY DEF Concerns, Serving, SameAsk
<1>2. AsksFor(r)' = AsksFor(r) /\ Did(r)' = Did(r)
  BY <1>1 DEF AsksFor, Did, SameAsk
<1>3. ReplyTo(r)' = ReplyTo(r) /\ Lost(r)' = Lost(r)
  BY <1>1 DEF ReplyTo, Lost, Serving
<1>4. Announced' = Announced
  BY DEF Announced
<1> QED
  BY <1>2, <1>3, <1>4, MoveIsNoStep

LEMMA GoesOnIsNoStep ==
    ASSUME WorkflowInv, NEW r \in Requests, NEW stage \in Serving,
           req[r].stage \in Serving, GoesOn(r, stage), UNCHANGED <<rows, events, faults>>
    PROVE  UNCHANGED Registry!registryVars
<1>1. TypeOK /\ stage \in Stages
  BY Served DEF Stages, Serving
<1>2. /\ OthersKept(r) /\ SameButReply(req'[r], req[r])
      /\ req'[r].stage = stage /\ req'[r].code = req[r].code
  BY <1>1, GoesOnDoes
<1> QED
  BY <1>2, OnIsNoStep DEF SameButReply

LEMMA FindsIsNoStep ==
    ASSUME WorkflowInv, NEW r \in Requests, NEW stage \in Serving, NEW i \in Nat,
           req[r].stage \in Serving, Finds(r, stage, i), UNCHANGED <<rows, events, faults>>
    PROVE  UNCHANGED Registry!registryVars
<1>1. TypeOK /\ stage \in Stages
  BY Served DEF Stages, Serving
<1>2. /\ OthersKept(r) /\ SameAsk(req'[r], req[r]) /\ req'[r].made = req[r].made
      /\ req'[r].stage = stage /\ req'[r].code = req[r].code
  BY <1>1, FindsDoes
<1> QED
  BY <1>2, OnIsNoStep

(***************************************************************************)
(* What the registry knows of a request that is served.                    *)
(***************************************************************************)
LEMMA ServedViews ==
    ASSUME WorkflowInv, RepliesInv, NEW r \in Requests,
           req[r].stage \in Serving, req[r].op # "beacon"
    PROVE  /\ Registry!Open(r) /\ ~ Lost(r)
           /\ AskedNow[r].op = req[r].op /\ AskedNow[r].name = req[r].name
           /\ AskedNow[r].id = req[r].id
           /\ DidNow[r] = IF req[r].made = 0 THEN Registry!Nothing
                          ELSE [what |-> "saved", row |-> req[r].made]
<1>1. Registry!Open(r)
  BY OpenIs
<1>2. StageInv(r)
  BY Served
<1>3. Concerns(r) /\ ~ Lost(r)
  BY DEF Concerns, Lost, Serving
<1>4. AsksFor(r) = [op |-> req[r].op, name |-> req[r].name, id |-> req[r].id]
  BY <1>3 DEF AsksFor
<1>5. req[r].made = 0 => Did(r) = Registry!Nothing
  BY DEF Did, Registry!Nothing
<1>6. req[r].made # 0 =>
         req[r].op = "save" /\ Did(r) = [what |-> "saved", row |-> req[r].made]
  BY <1>2 DEF StageInv, Did, Done, Serving
<1> QED
  BY <1>1, <1>3, <1>4, <1>5, <1>6 DEF AskedNow, DidNow

\* A request that is answered at the moment it did something.
LEMMA ActViews ==
    ASSUME WorkflowInv, NEW r \in Requests, NEW i \in Nat \ {0},
           req[r].stage \in Serving, req[r].op # "beacon",
           OthersKept(r), SameAsk(req'[r], req[r]), req'[r].made = i,
           req'[r].stage \notin {"idle", "cut"}, events' = events
    PROVE  /\ AskedNow' = AskedNow
           /\ DidNow' = [DidNow EXCEPT ![r] = [what |-> Done(req[r].op), row |-> i]]
           /\ ReplyNow' = [ReplyNow EXCEPT ![r] = req'[r].code]
           /\ LostNow' = LostNow /\ Announced' = Announced
<1>1. Concerns(r) /\ Concerns(r)' /\ ~ Lost(r) /\ ~ Lost(r)'
  BY DEF Concerns, Lost, Serving, SameAsk
<1>2. AsksFor(r)' = AsksFor(r) /\ ReplyTo(r)' = req'[r].code
  BY <1>1 DEF AsksFor, ReplyTo, SameAsk
<1>3. Did(r)' = [what |-> Done(req[r].op), row |-> i]
  BY DEF Did, SameAsk
<1>4. /\ AskedNow' = [AskedNow EXCEPT ![r] = AsksFor(r)']
      /\ DidNow' = [DidNow EXCEPT ![r] = Did(r)']
      /\ ReplyNow' = [ReplyNow EXCEPT ![r] = ReplyTo(r)']
  BY Views
<1>5. AskedNow' = AskedNow
  <2>1. [AskedNow EXCEPT ![r] = AsksFor(r)] = AskedNow
    BY DEF AskedNow
  <2> QED
    BY <1>2, <1>4, <2>1
<1>6. LostNow' = LostNow
  <2>1. \A s \in Requests : Lost(s)' <=> Lost(s)
    BY <1>1 DEF OthersKept, Lost, Concerns
  <2> QED
    BY <2>1 DEF LostNow
<1> QED
  BY <1>2, <1>3, <1>4, <1>5, <1>6 DEF Announced

(***************************************************************************)
(* What the registry knows of the workflows is what the table holds.       *)
(***************************************************************************)
LEMMA Same ==
    ASSUME NEW name, NEW id
    PROVE  /\ Registry!OfId(id) = Live(id)
           /\ Registry!Of(name) = Saved(name)
           /\ Registry!Ids = Ids
  BY DEF Registry!OfId, Live, Registry!Of, Saved, Registry!Ids, Ids

LEMMA LatestIsLatest ==
    ASSUME rows \in Seq(Row), RowsInv, NEW name, Saved(name) # {}
    PROVE  Registry!IsLatest(Latest(name), name)
<1>1. /\ Latest(name) \in Saved(name)
      /\ \A j \in Saved(name) : rows[j].version <= rows[Latest(name)].version
  BY LatestIs
<1>2. Registry!Of(name) = Saved(name)
  BY Same
<1> QED
  BY <1>1, <1>2 DEF Registry!IsLatest

(***************************************************************************)
(* An answer that has no effect.                                           *)
(***************************************************************************)
LEMMA RefuseIs ==
    ASSUME WorkflowInv, RepliesInv, NEW r \in Requests,
           req[r].stage \in Serving, req[r].op # "beacon",
           OthersKept(r) \/ OthersCut(r), rows' = rows, Announced' = Announced,
           faults' \in {faults, faults + 1},
           NEW code \in {400, 404, 422, 500},
           SameButReply(req'[r], req[r]), req'[r].code = code,
           req'[r].stage \in {"answered", "cut"},
           req[r].made # 0 => code = 500,
           req[r].op = "delete" /\ code = 404 => Live(req[r].id) = {},
           req[r].op = "delete" /\ code \in {422, 500} /\ faults' = faults =>
              \E i \in Live(req[r].id) : rows[i].processes > 0
    PROVE  Registry!Refuse(r, code)
<1>1. /\ Registry!Open(r) /\ ~ Lost(r)
      /\ AskedNow[r].op = req[r].op /\ AskedNow[r].id = req[r].id
      /\ DidNow[r] = IF req[r].made = 0 THEN Registry!Nothing
                     ELSE [what |-> "saved", row |-> req[r].made]
  BY ServedViews
<1>2. req[r].code = 0
  BY Served DEF StageInv
<1>3. ~ Lost(r)' /\ (Concerns(r)' <=> Concerns(r)) /\ Concerns(r)
  BY DEF Lost, Concerns, SameButReply, SameAsk, Serving
<1>4. AsksFor(r)' = AsksFor(r) /\ ReplyTo(r)' = code /\ Did(r)' = Did(r)
  BY <1>3 DEF AsksFor, ReplyTo, Did, SameButReply, SameAsk
<1>5. /\ AskedNow' = [AskedNow EXCEPT ![r] = AsksFor(r)']
      /\ DidNow' = [DidNow EXCEPT ![r] = Did(r)']
      /\ ReplyNow' = [ReplyNow EXCEPT ![r] = ReplyTo(r)']
  BY Views
<1>6. AskedNow' = AskedNow
  <2>1. [AskedNow EXCEPT ![r] = AsksFor(r)] = AskedNow
    BY DEF AskedNow
  <2> QED
    BY <1>4, <1>5, <2>1
<1>7. DidNow' = DidNow
  <2>1. [DidNow EXCEPT ![r] = Did(r)] = DidNow
    BY DEF DidNow
  <2> QED
    BY <1>4, <1>5, <2>1
<1>8. ReplyNow' = [ReplyNow EXCEPT ![r] = code]
  BY <1>4, <1>5
<1>9. Registry!MayStop({r})
  BY <1>1, <1>3, MayStopIs
<1>10. DidNow[r] = Registry!Nothing \/ (DidNow[r].what = "saved" /\ code = 500)
  BY <1>1
<1>11. AskedNow[r].op = "delete" =>
          /\ code = 404 => Registry!OfId(AskedNow[r].id) = {}
          /\ code \in {422, 500} /\ faults' = faults =>
                \E i \in Registry!OfId(AskedNow[r].id) : rows[i].processes > 0
  BY <1>1, Same
<1> QED
  BY <1>1, <1>6, <1>7, <1>8, <1>9, <1>10, <1>11
  DEF Registry!Refuse, Registry!Replies, AskedNow, DidNow, ReplyNow

LEMMA AnswerIsRefusal ==
    ASSUME WorkflowInv, RepliesInv, NEW r \in Requests,
           req[r].stage \in Serving, req[r].op # "beacon",
           NEW code \in {400, 404, 422, 500}, Answers(r, code), UNCHANGED <<rows, events>>,
           faults' \in {faults, faults + 1},
           req[r].made # 0 => code = 500,
           req[r].op = "delete" /\ code = 404 => Live(req[r].id) = {},
           req[r].op = "delete" /\ code \in {422, 500} /\ faults' = faults =>
              \E i \in Live(req[r].id) : rows[i].processes > 0
    PROVE  Registry!Refuse(r, code)
<1>1. TypeOK /\ code \in Codes
  BY Served DEF Codes
<1>2. /\ OthersKept(r) /\ SameButReply(req'[r], req[r])
      /\ req'[r].stage = "answered" /\ req'[r].code = code
  BY <1>1, AnswersDoes
<1>3. Announced' = Announced
  BY DEF Announced
<1> QED
  BY <1>2, <1>3, RefuseIs

LEMMA FaultGrows ==
    ASSUME WorkflowInv, Fault
    PROVE  faults' = faults + 1 /\ faults' # faults
<1>1. faults \in Nat
  BY Served, WorkflowAssumption DEF WorkflowInv, TypeOK
<1> QED
  BY <1>1 DEF Fault

(***************************************************************************)
(* The steps of every request.                                             *)
(***************************************************************************)
LEMMA ReceiveDoes ==
    ASSUME WorkflowInv, NEW r \in Requests, NEW op \in Operations, NEW name \in Names,
           NEW id \in Ids, NEW odd \in BOOLEAN, Receive(r, op, name, id, odd)
    PROVE  /\ OthersKept(r) /\ req'[r].op = op /\ req'[r].name = name /\ req'[r].id = id
           /\ req'[r].made = 0 /\ req'[r].code = 0 /\ req'[r].stage \in Serving
           /\ req[r].stage = "idle" /\ req[r].code = 0 /\ req[r].made = 0
<1>1. /\ req[r] \in Request /\ req \in [Requests -> Request]
      /\ StageInv(r) /\ rows \in Seq(Row)
  BY Served
<1>2. req[r].stage = "idle"
  BY DEF Receive
<1>3. req[r].code = 0 /\ req[r].made = 0
  BY <1>1, <1>2 DEF StageInv, Serving
<1>4. id \in Nat
  <2>1. \A i \in DOMAIN rows : rows[i].id \in Nat
    BY <1>1, RowsAre
  <2> QED
    BY <2>1, WorkflowAssumption DEF Ids
<1>5. PICK stage \in Serving :
          stage = CASE op = "save" -> "validate" [] op = "beacon" -> "beacon"
                    [] OTHER -> "fetch"
  BY DEF Serving
<1>6. stage \in Stages
  BY DEF Serving, Stages
<1>7. req' = [req EXCEPT ![r] = Asking(req[r], op, name, id, odd, stage)]
  BY <1>1, <1>5 DEF Receive, Asking
<1>8. LET p == Asking(req[r], op, name, id, odd, stage)
      IN  /\ p.op = op /\ p.name = name /\ p.id = id /\ p.stage = stage
          /\ p.made = req[r].made /\ p.code = req[r].code
  BY <1>1, <1>4, <1>6, AskingIs
<1> QED
  BY <1>1, <1>2, <1>3, <1>7, <1>8 DEF OthersKept

LEMMA ReceiveAsks ==
    ASSUME WorkflowInv, RepliesInv, NEW r \in Requests, NEW op \in Operations,
           NEW name \in Names, NEW id \in Ids, NEW odd \in BOOLEAN,
           Receive(r, op, name, id, odd)
    PROVE  \/ op # "beacon" /\ Registry!Ask(r, op, name, id)
           \/ UNCHANGED Registry!registryVars
<1>1. /\ OthersKept(r) /\ req'[r].op = op /\ req'[r].name = name /\ req'[r].id = id
      /\ req'[r].made = 0 /\ req'[r].code = 0 /\ req'[r].stage \in Serving
      /\ req[r].stage = "idle" /\ req[r].code = 0 /\ req[r].made = 0
  BY ReceiveDoes
<1>2. UNCHANGED <<rows, events, faults>>
  BY DEF Receive
<1>3. Announced' = Announced
  BY <1>2 DEF Announced
<1>4. ~ Concerns(r) /\ ~ Lost(r) /\ (Concerns(r)' <=> op # "beacon") /\ ~ Lost(r)'
  BY <1>1 DEF Concerns, Lost, Serving
<1>5. /\ AsksFor(r) = Registry!NoRequest /\ ReplyTo(r) = 0 /\ Did(r) = Registry!Nothing
      /\ ReplyTo(r)' = 0 /\ Did(r)' = Registry!Nothing
  BY <1>1, <1>4 DEF AsksFor, ReplyTo, Did, Registry!NoRequest, Registry!Nothing
<1>6. CASE op = "beacon"
  <2>1. AsksFor(r)' = Registry!NoRequest
    BY <1>4, <1>6 DEF AsksFor, Registry!NoRequest
  <2> QED
    BY <1>1, <1>2, <1>3, <1>4, <1>5, <2>1, MoveIsNoStep
<1>7. CASE op # "beacon"
  <2>1. AsksFor(r)' = [op |-> op, name |-> name, id |-> id]
    BY <1>1, <1>4, <1>7 DEF AsksFor
  <2>2. /\ AskedNow' = [AskedNow EXCEPT ![r] = AsksFor(r)']
        /\ DidNow' = [DidNow EXCEPT ![r] = Did(r)']
        /\ ReplyNow' = [ReplyNow EXCEPT ![r] = ReplyTo(r)']
    BY <1>1, Views
  <2>3. DidNow' = DidNow
    <3>1. [DidNow EXCEPT ![r] = Did(r)] = DidNow
      BY DEF DidNow
    <3> QED
      BY <1>5, <2>2, <3>1
  <2>4. ReplyNow' = ReplyNow
    <3>1. [ReplyNow EXCEPT ![r] = ReplyTo(r)] = ReplyNow
      BY DEF ReplyNow
    <3> QED
      BY <1>5, <2>2, <3>1
  <2>5. LostNow' = LostNow
    <3>1. \A s \in Requests : Lost(s)' <=> Lost(s)
      BY <1>1, <1>4 DEF OthersKept, Lost, Concerns
    <3> QED
      BY <3>1 DEF LostNow
  <2>6. AskedNow[r] = Registry!NoRequest
    BY <1>5 DEF AskedNow
  <2>7. AskedNow' = [AskedNow EXCEPT ![r] = [op |-> op, name |-> name, id |-> id]]
    BY <2>1, <2>2
  <2>8. Registry!Ask(r, op, name, id)
    BY <1>2, <1>3, <2>3, <2>4, <2>5, <2>6, <2>7
    DEF Registry!Ask, AskedNow, DidNow, ReplyNow, LostNow
  <2> QED
    BY <1>7, <2>8
<1> QED
  BY <1>6, <1>7

LEMMA ReadFailsIs ==
    ASSUME WorkflowInv, RepliesInv, NEW r \in Requests, ReadFails(r)
    PROVE  Registry!Refuse(r, 500)
<1>1. /\ req[r].stage \in {"envs", "refetch", "fetch", "list"}
      /\ Answers(r, 500) /\ UNCHANGED <<rows, events>> /\ Fault
  BY DEF ReadFails
<1>2. StageInv(r)
  BY Served
<1>3. req[r].op # "beacon" /\ req[r].stage \in Serving
  BY <1>1, <1>2 DEF StageInv, Creating, Serving
<1>4. faults' = faults + 1 /\ faults' # faults
  BY <1>1, FaultGrows
<1> QED
  BY <1>1, <1>3, <1>4, AnswerIsRefusal

(***************************************************************************)
(* The steps of a save.                                                    *)
(***************************************************************************)
LEMMA ValidatedIs ==
    ASSUME WorkflowInv, RepliesInv, NEW r \in Requests, Validated(r)
    PROVE  Registry!Refuse(r, 400) \/ UNCHANGED Registry!registryVars
<1>1. /\ req[r].op = "save" /\ req[r].stage = "validate" /\ req[r].stage \in Serving
      /\ UNCHANGED <<rows, events, faults>>
      /\ Answers(r, 400) \/ GoesOn(r, "save")
  BY DEF Validated, At, Serving
<1>2. req[r].made = 0
  BY <1>1, Served DEF StageInv, Serving
<1>3. CASE Answers(r, 400)
  BY <1>1, <1>2, <1>3, AnswerIsRefusal
<1>4. CASE GoesOn(r, "save")
  BY <1>1, <1>4, GoesOnIsNoStep DEF Serving
<1> QED
  BY <1>1, <1>3, <1>4

LEMMA EnvironmentValidatedIs ==
    ASSUME WorkflowInv, RepliesInv, NEW r \in Requests, EnvironmentValidated(r)
    PROVE  \/ Registry!Refuse(r, 400) \/ Registry!Refuse(r, 500)
           \/ UNCHANGED Registry!registryVars
<1>1. /\ req[r].op = "save" /\ req[r].stage = "envs" /\ req[r].stage \in Serving
      /\ UNCHANGED <<rows, events, faults>>
  BY DEF EnvironmentValidated, At, Serving
<1>2. CASE Answers(r, 500)
  BY <1>1, <1>2, AnswerIsRefusal
<1>3. CASE req[r].made = 0 /\ Answers(r, 400)
  BY <1>1, <1>3, AnswerIsRefusal
<1>4. CASE GoesOn(r, "refetch")
  BY <1>1, <1>4, GoesOnIsNoStep DEF Serving
<1> QED
  BY <1>2, <1>3, <1>4 DEF EnvironmentValidated

SavedAs(id, name) ==
    /\ Registry!OfId(id) = {}
    /\ \/ Registry!Of(name) = {} /\ Registry!Adds(id, name, 1)
       \/ \E i \in Registry!Of(name) :
             /\ Registry!IsLatest(i, name)
             /\ Registry!Adds(id, name, rows[i].version + 1)

\* The registry stores what the engine does.
LEMMA StoresAdds ==
    ASSUME WorkflowInv, NEW r \in Requests, Stores(r),
           NEW id, id = req[r].id, NEW name, name = req[r].name
    PROVE  SavedAs(id, name)
<1>1. rows \in Seq(Row) /\ RowsInv
  BY Served
<1>2. Registry!Of(name) = Saved(name) /\ Registry!OfId(id) = {}
  BY Same DEF Stores
<1>3. Registry!Adds(id, name, NextVersion(name))
  BY DEF Stores, NewId, Registry!Adds
<1>4. CASE Saved(name) = {}
  BY <1>2, <1>3, <1>4 DEF NextVersion, SavedAs
<1>5. CASE Saved(name) # {}
  <2>1. Registry!IsLatest(Latest(name), name) /\ Latest(name) \in Saved(name)
    BY <1>1, <1>5, LatestIs, LatestIsLatest
  <2>2. NextVersion(name) = rows[Latest(name)].version + 1
    BY <1>5 DEF NextVersion
  <2> QED
    BY <1>2, <1>3, <2>1, <2>2 DEF SavedAs
<1> QED
  BY <1>4, <1>5

LEMMA SaveReturnsIs ==
    ASSUME WorkflowInv, RepliesInv, NEW r \in Requests, SaveReturns(r)
    PROVE  \/ Registry!Save(r) \/ Registry!Refuse(r, 500)
           \/ UNCHANGED Registry!registryVars
<1>1. /\ req[r].op = "save" /\ req[r].stage = "save" /\ req[r].stage \in Serving
      /\ events' = events
  BY DEF SaveReturns, At, Serving
<1>2. /\ TypeOK /\ StageInv(r) /\ Len(rows) \in Nat
  BY Served
<1>3. req[r].made = 0
  BY <1>1, <1>2 DEF StageInv, Serving
<1>4. CASE GoesOn(r, "envs") /\ UNCHANGED <<rows, faults>>
  BY <1>1, <1>4, GoesOnIsNoStep DEF Serving
<1>5. CASE Answers(r, 500) /\ UNCHANGED <<rows, faults>>
  BY <1>1, <1>3, <1>5, AnswerIsRefusal
<1>6. ASSUME Stores(r), NEW stage \in {"envs", "answered"}, NEW code \in {0, 500},
             Does(r, Len(rows) + 1, stage, code),
             \/ code = 0 /\ faults' = faults
             \/ code = 500 /\ faults' = faults + 1
      PROVE  Registry!Save(r)
  <2>1. PICK i \in Nat \ {0} : i = Len(rows) + 1
    BY <1>2
  <2>2. /\ OthersKept(r) /\ req'[r].made = i /\ req'[r].stage = stage
        /\ req'[r].code = code /\ SameAsk(req'[r], req[r])
    BY <1>2, <1>6, <2>1, DoesDoes DEF Stages, Codes
  <2>3. /\ AskedNow' = AskedNow
        /\ DidNow' = [DidNow EXCEPT ![r] = [what |-> Done(req[r].op), row |-> i]]
        /\ ReplyNow' = [ReplyNow EXCEPT ![r] = code]
        /\ LostNow' = LostNow /\ Announced' = Announced
    BY <1>1, <2>2, ActViews
  <2>4. DidNow' = [DidNow EXCEPT ![r] = [what |-> "saved", row |-> Len(rows) + 1]]
    BY <1>1, <2>1, <2>3 DEF Done
  <2>5. /\ Registry!Open(r) /\ AskedNow[r].op = "save" /\ AskedNow[r].name = req[r].name
        /\ AskedNow[r].id = req[r].id /\ DidNow[r] = Registry!Nothing
    <3>1. /\ Registry!Open(r) /\ AskedNow[r].op = req[r].op
          /\ AskedNow[r].name = req[r].name /\ AskedNow[r].id = req[r].id
      BY <1>1, ServedViews
    <3>2. DidNow[r] = IF req[r].made = 0 THEN Registry!Nothing
                      ELSE [what |-> "saved", row |-> req[r].made]
      BY <1>1, ServedViews
    <3>3. DidNow[r] = Registry!Nothing
      BY <1>3, <3>2
    <3> QED
      BY <1>1, <3>1, <3>3
  <2>6. PICK id, name : id = AskedNow[r].id /\ name = AskedNow[r].name
    OBVIOUS
  <2>7. SavedAs(id, name)
    BY <1>6, <2>5, <2>6, StoresAdds
  <2>8. Registry!Tells(r, 0, {500})
    BY <1>6, <2>3 DEF Registry!Tells, Registry!Replies, ReplyNow
  <2> QED
    BY <2>3, <2>4, <2>5, <2>6, <2>7, <2>8
    DEF Registry!Save, Registry!Does, SavedAs, AskedNow, DidNow, LostNow
<1>7. CASE Stores(r) /\ Does(r, Len(rows) + 1, "envs", 0) /\ UNCHANGED faults
  BY <1>6, <1>7
<1>8. CASE Stores(r) /\ Does(r, Len(rows) + 1, "answered", 500) /\ Fault
  BY <1>6, <1>8, FaultGrows
<1> QED
  BY <1>4, <1>5, <1>7, <1>8 DEF SaveReturns

\* The event that is sent is one more that is announced.
LEMMA EventAnnounced ==
    ASSUME events \in Seq(Event), NEW e, events' = Append(events, e), e.of = "saved"
    PROVE  Announced' = Announced \cup {<<e.by, e.row>>}
<1>1. Len(events) \in Nat
  OBVIOUS
<1>2. /\ DOMAIN events = 1..Len(events)
      /\ DOMAIN events' = 1..(Len(events) + 1)
      /\ \A k \in 1..Len(events) : events'[k] = events[k]
      /\ events'[Len(events) + 1] = e
  BY <1>1
<1>3. DOMAIN events' = DOMAIN events \cup {Len(events) + 1}
  BY <1>1, <1>2
<1> QED
  BY <1>2, <1>3 DEF Announced

LEMMA RefetchedIs ==
    ASSUME WorkflowInv, RepliesInv, NEW r \in Requests, Refetched(r)
    PROVE  Registry!Announce(r) \/ Registry!Refuse(r, 500)
<1>1. /\ req[r].op = "save" /\ req[r].stage = "refetch" /\ req[r].stage \in Serving
      /\ rows' = rows /\ faults' = faults
  BY DEF Refetched, At, Serving
<1>2. /\ TypeOK /\ req[r] \in Request /\ req \in [Requests -> Request]
      /\ RequestInv(r) /\ StageInv(r)
  BY Served
<1>3. req[r].made # 0 /\ req[r].code = 0
  BY <1>1, <1>2 DEF RequestInv, SaveInv, StageInv
<1>4. CASE OfSavedId(r) = {} /\ Vanished(r)
  <2>1. PICK done \in Request : done = Answered(req[r], 500)
    BY <1>2, AnsweredIs DEF Codes
  <2>2. done.stage = "answered" /\ done.code = 500 /\ SameButReply(done, req[r])
    BY <1>2, <2>1, AnsweredIs DEF Codes
  <2>3. Unhandled(r, done) /\ events' = events
    BY <1>4, <2>1 DEF Vanished, Answered
  <2>4. /\ SameButReply(req'[r], done) /\ req'[r].code = done.code
        /\ req'[r].stage \in {done.stage, "cut"}
    BY <1>2, <2>3, UnhandledDoes
  <2>5. OthersKept(r) \/ OthersCut(r)
    BY <1>2, <2>3, UnhandledCuts
  <2>6. SameButReply(req'[r], req[r]) /\ Announced' = Announced
    BY <2>2, <2>3, <2>4 DEF SameButReply, SameAsk, Announced
  <2> QED
    BY <1>1, <2>2, <2>4, <2>5, <2>6, RefuseIs
<1>5. ASSUME NEW i \in OfSavedId(r), Announces(r, i)
      PROVE  Registry!Announce(r)
  <2>1. PICK outcome \in Announcement :
            /\ events' = Append(events, [of |-> "saved", by |-> r, row |-> i,
                                        outcome |-> outcome])
            /\ \/ Unhandled(r, Answered(req[r], 201))
               \/ req' = [req EXCEPT ![r] = Answered(req[r], 201)]
    BY <1>5 DEF Announces, Answered
  <2>2. PICK e : e = [of |-> "saved", by |-> r, row |-> i, outcome |-> outcome]
    OBVIOUS
  <2>3. PICK done \in Request : done = Answered(req[r], 201)
    BY <1>2, AnsweredIs DEF Codes
  <2>4. done.stage = "answered" /\ done.code = 201 /\ SameButReply(done, req[r])
    BY <1>2, <2>3, AnsweredIs DEF Codes
  <2>5. Unhandled(r, done) \/ req' = [req EXCEPT ![r] = done]
    BY <2>1, <2>3
  <2>6. /\ SameButReply(req'[r], req[r]) /\ req'[r].code = 201
        /\ req'[r].stage \in {"answered", "cut"}
        /\ OthersKept(r) \/ OthersCut(r)
    <3>1. CASE Unhandled(r, done)
      <4>1. /\ SameButReply(req'[r], done) /\ req'[r].code = done.code
            /\ req'[r].stage \in {done.stage, "cut"}
        BY <1>2, <3>1, UnhandledDoes
      <4>2. OthersKept(r) \/ OthersCut(r)
        BY <1>2, <3>1, UnhandledCuts
      <4> QED
        BY <2>4, <4>1, <4>2 DEF SameButReply, SameAsk
    <3>2. CASE req' = [req EXCEPT ![r] = done]
      BY <1>2, <2>4, <3>2 DEF OthersKept
    <3> QED
      BY <2>5, <3>1, <3>2
  <2>7. /\ Registry!Open(r) /\ ~ Lost(r)
        /\ DidNow[r] = [what |-> "saved", row |-> req[r].made]
    BY <1>1, <1>3, ServedViews
  <2>8. ~ Lost(r)' /\ Concerns(r)' /\ Concerns(r)
    BY <1>1, <2>6 DEF Lost, Concerns, SameButReply, SameAsk, Serving
  <2>9. AsksFor(r)' = AsksFor(r) /\ ReplyTo(r)' = 201 /\ Did(r)' = Did(r)
    BY <2>6, <2>8 DEF AsksFor, ReplyTo, Did, SameButReply, SameAsk
  <2>10. /\ AskedNow' = [AskedNow EXCEPT ![r] = AsksFor(r)']
         /\ DidNow' = [DidNow EXCEPT ![r] = Did(r)']
         /\ ReplyNow' = [ReplyNow EXCEPT ![r] = ReplyTo(r)']
    BY <2>6, Views
  <2>11. AskedNow' = AskedNow
    <3>1. [AskedNow EXCEPT ![r] = AsksFor(r)] = AskedNow
      BY DEF AskedNow
    <3> QED
      BY <2>9, <2>10, <3>1
  <2>12. DidNow' = DidNow
    <3>1. [DidNow EXCEPT ![r] = Did(r)] = DidNow
      BY DEF DidNow
    <3> QED
      BY <2>9, <2>10, <3>1
  <2>13. ReplyNow' = [ReplyNow EXCEPT ![r] = 201]
    BY <2>9, <2>10
  <2>14. Registry!MayStop({r})
    BY <2>6, <2>7, <2>8, MayStopIs
  <2>15. Announced' = Announced \cup {<<r, i>>}
    <3>1. e.of = "saved" /\ e.by = r /\ e.row = i /\ events' = Append(events, e)
      BY <2>1, <2>2
    <3>2. events \in Seq(Event)
      BY <1>2 DEF TypeOK
    <3> QED
      BY <3>1, <3>2, EventAnnounced
  <2>16. /\ DidNow[r].what = "saved"
         /\ i \in Registry!OfId(rows[DidNow[r].row].id)
    <3>1. DidNow[r].row = req[r].made
      BY <2>7
    <3>2. i \in Live(rows[req[r].made].id)
      BY <1>5 DEF OfSavedId
    <3> QED
      BY <2>7, <3>1, <3>2, Same
  <2> QED
    BY <1>1, <2>7, <2>11, <2>12, <2>13, <2>14, <2>15, <2>16
    DEF Registry!Announce, Registry!Replies, AskedNow, DidNow, ReplyNow
<1> QED
  BY <1>4, <1>5 DEF Refetched

(***************************************************************************)
(* The steps of a deletion.                                                *)
(***************************************************************************)
LEMMA DeleteFetchedIs ==
    ASSUME WorkflowInv, RepliesInv, NEW r \in Requests, DeleteFetched(r)
    PROVE  Registry!Refuse(r, 404) \/ UNCHANGED Registry!registryVars
<1>1. /\ req[r].op = "delete" /\ req[r].stage = "fetch" /\ req[r].stage \in Serving
      /\ UNCHANGED <<rows, events, faults>>
  BY DEF DeleteFetched, At, Serving
<1>2. req[r].made = 0
  BY <1>1, Served DEF StageInv, Serving
<1>3. ASSUME NEW i \in Live(req[r].id), Finds(r, "list", i)
      PROVE  UNCHANGED Registry!registryVars
  <2>1. i \in Nat
    BY <1>3, Served DEF Live
  <2> QED
    BY <1>1, <1>3, <2>1, FindsIsNoStep DEF Serving
<1>4. CASE Live(req[r].id) = {} /\ Answers(r, 404)
  BY <1>1, <1>2, <1>4, AnswerIsRefusal
<1> QED
  BY <1>3, <1>4 DEF DeleteFetched

LEMMA DeleteListedIs ==
    ASSUME WorkflowInv, RepliesInv, NEW r \in Requests, DeleteListed(r)
    PROVE  Registry!Refuse(r, 422) \/ UNCHANGED Registry!registryVars
<1>1. /\ req[r].op = "delete" /\ req[r].stage = "list" /\ req[r].stage \in Serving
      /\ UNCHANGED <<rows, events, faults>>
  BY DEF DeleteListed, At, Serving
<1>2. req[r].made = 0 /\ rows \in Seq(Row) /\ RowsInv /\ DOMAIN rows = 1..Len(rows)
  BY <1>1, Served DEF StageInv, Serving
<1>3. CASE Referenced(req[r].id) # {} /\ Answers(r, 422)
  <2>1. PICK i \in DOMAIN rows : rows[i].id = req[r].id /\ rows[i].processes > 0
    BY <1>3 DEF Referenced
  <2>2. ~ rows[i].deleted
    BY <1>2, <2>1, RowsAre DEF RowsInv
  <2>3. \E j \in Live(req[r].id) : rows[j].processes > 0
    BY <2>1, <2>2 DEF Live
  <2> QED
    BY <1>1, <1>2, <1>3, <2>3, AnswerIsRefusal
<1>4. CASE GoesOn(r, "call")
  BY <1>1, <1>4, GoesOnIsNoStep DEF Serving
<1> QED
  BY <1>3, <1>4 DEF DeleteListed

LEMMA DeleteReturnsIs ==
    ASSUME WorkflowInv, RepliesInv, NEW r \in Requests, DeleteReturns(r)
    PROVE  \/ Registry!Delete(r)
           \/ Registry!Refuse(r, 404) \/ Registry!Refuse(r, 500)
<1>1. /\ req[r].op = "delete" /\ req[r].stage = "call" /\ req[r].stage \in Serving
      /\ events' = events
  BY DEF DeleteReturns, At, Serving
<1>2. /\ TypeOK /\ StageInv(r) /\ DOMAIN rows = 1..Len(rows) /\ rows \in Seq(Row)
  BY Served
<1>3. req[r].made = 0
  BY <1>1, <1>2 DEF StageInv, Serving
<1>4. CASE Live(req[r].id) = {} /\ Answers(r, 404) /\ UNCHANGED <<rows, faults>>
  BY <1>1, <1>3, <1>4, AnswerIsRefusal
<1>5. ASSUME NEW i \in Live(req[r].id), ~ Unreferenced(i), Answers(r, 500),
             UNCHANGED <<rows, faults>>
      PROVE  Registry!Refuse(r, 500)
  <2>1. rows[i].processes > 0
    BY <1>2, <1>5, RowsAre DEF Live, Unreferenced
  <2>2. \E j \in Live(req[r].id) : rows[j].processes > 0
    BY <2>1
  <2> QED
    BY <1>1, <1>3, <1>5, <2>2, AnswerIsRefusal
<1>6. CASE Answers(r, 500) /\ Fault /\ UNCHANGED rows
  <2>1. faults' = faults + 1 /\ faults' # faults
    BY <1>6, FaultGrows
  <2> QED
    BY <1>1, <1>3, <1>6, <2>1, AnswerIsRefusal
<1>7. ASSUME NEW i \in Live(req[r].id), Unreferenced(i), Deleted(i),
             NEW code \in {204, 500}, Does(r, i, "answered", code),
             \/ code = 204 /\ faults' = faults
             \/ code = 500 /\ faults' = faults + 1
      PROVE  Registry!Delete(r)
  <2>1. i \in DOMAIN rows /\ i \in Nat \ {0} /\ rows[i].processes = 0
    BY <1>2, <1>7 DEF Live, Unreferenced
  <2>2. /\ OthersKept(r) /\ req'[r].made = i /\ req'[r].stage = "answered"
        /\ req'[r].code = code /\ SameAsk(req'[r], req[r])
    BY <1>2, <1>7, <2>1, DoesDoes DEF Stages, Codes
  <2>3. /\ AskedNow' = AskedNow
        /\ DidNow' = [DidNow EXCEPT ![r] = [what |-> Done(req[r].op), row |-> i]]
        /\ ReplyNow' = [ReplyNow EXCEPT ![r] = code]
        /\ LostNow' = LostNow /\ Announced' = Announced
    BY <1>1, <2>1, <2>2, ActViews
  <2>4. DidNow' = [DidNow EXCEPT ![r] = [what |-> "deleted", row |-> i]]
    BY <1>1, <2>3 DEF Done
  <2>5. /\ Registry!Open(r) /\ AskedNow[r].op = "delete" /\ AskedNow[r].id = req[r].id
    BY <1>1, ServedViews
  <2>6. i \in Registry!OfId(AskedNow[r].id)
    BY <1>7, <2>5, Same
  <2>7. Registry!Tells(r, 204, {500})
    BY <1>7, <2>3 DEF Registry!Tells, Registry!Replies, ReplyNow
  <2> QED
    BY <1>7, <2>1, <2>3, <2>4, <2>5, <2>6, <2>7
    DEF Registry!Delete, Registry!Does, AskedNow, DidNow, LostNow, Deleted
<1>8. ASSUME NEW i \in Live(req[r].id), Unreferenced(i), Deleted(i),
             \/ Does(r, i, "answered", 204) /\ UNCHANGED faults
             \/ Does(r, i, "answered", 500) /\ Fault
      PROVE  Registry!Delete(r)
  BY <1>7, <1>8, FaultGrows
<1> QED
  BY <1>4, <1>5, <1>6, <1>8 DEF DeleteReturns

(***************************************************************************)
(* The steps of a creation.                                                *)
(***************************************************************************)
LEMMA CreateFetchedIs ==
    ASSUME WorkflowInv, RepliesInv, NEW r \in Requests, CreateFetched(r)
    PROVE  Registry!Refuse(r, 404) \/ UNCHANGED Registry!registryVars
<1>1. /\ req[r].op = "create" /\ req[r].stage = "fetch" /\ req[r].stage \in Serving
      /\ UNCHANGED <<rows, events, faults>>
  BY DEF CreateFetched, At, Serving
<1>2. req[r].made = 0
  BY <1>1, Served DEF StageInv, Serving
<1>3. ASSUME NEW i \in Live(req[r].id), Finds(r, "call", i)
      PROVE  UNCHANGED Registry!registryVars
  <2>1. i \in Nat
    BY <1>3, Served DEF Live
  <2> QED
    BY <1>1, <1>3, <2>1, FindsIsNoStep DEF Serving
<1>4. CASE Live(req[r].id) = {} /\ Answers(r, 404)
  BY <1>1, <1>2, <1>4, AnswerIsRefusal
<1> QED
  BY <1>3, <1>4 DEF CreateFetched

LEMMA NameFetchedIs ==
    ASSUME WorkflowInv, RepliesInv, NEW r \in Requests, NameFetched(r)
    PROVE  Registry!Refuse(r, 404) \/ UNCHANGED Registry!registryVars
<1>1. /\ req[r].op \in {"createByName", "start"}
      /\ req[r].stage = "fetch" /\ req[r].stage \in Serving
      /\ UNCHANGED <<rows, events, faults>>
  BY DEF NameFetched, At, Serving
<1>2. rows \in Seq(Row) /\ RowsInv /\ req[r].made = 0
  BY <1>1, Served DEF StageInv, Serving
<1>3. CASE Answers(r, 404)
  BY <1>1, <1>2, <1>3, AnswerIsRefusal
<1>4. CASE Saved(req[r].name) # {}
  <2>1. Finds(r, "call", Latest(req[r].name))
    BY <1>4 DEF NameFetched
  <2>2. PICK i \in Nat : i = Latest(req[r].name)
    BY <1>2, <1>4, LatestIs
  <2> QED
    BY <1>1, <2>1, <2>2, FindsIsNoStep DEF Serving
<1> QED
  BY <1>3, <1>4 DEF NameFetched

LEMMA CreateReturnsIs ==
    ASSUME WorkflowInv, RepliesInv, NEW r \in Requests, CreateReturns(r)
    PROVE  \/ Registry!Instantiate(r)
           \/ Registry!Refuse(r, 404) \/ Registry!Refuse(r, 500)
<1>1. /\ req[r].op \in Creating /\ req[r].stage = "call" /\ req[r].stage \in Serving
      /\ events' = events
  BY DEF CreateReturns, Serving, Creating
<1>2. /\ TypeOK /\ StageInv(r) /\ rows \in Seq(Row) /\ RowsInv /\ DOMAIN rows = 1..Len(rows)
  BY Served
<1>3. req[r].made = 0
  BY <1>1, <1>2 DEF StageInv, Serving
<1>4. ASSUME NEW code \in {404, 500}, Answers(r, code), UNCHANGED <<rows, faults>>
      PROVE  Registry!Refuse(r, code)
  BY <1>1, <1>3, <1>4, AnswerIsRefusal DEF Creating
<1>5. ASSUME NEW i \in Chosen(r), More(i),
             NEW stage \in {"background", "answered"}, NEW code \in {201, 404, 500},
             Does(r, i, stage, code),
             \/ code = 201 /\ faults' = faults
             \/ code \in {404, 500} /\ faults' = faults + 1
      PROVE  Registry!Instantiate(r)
  <2>1. i \in DOMAIN rows /\ i \in Nat \ {0}
    BY <1>1, <1>2, <1>5, ChosenIsKnown
  <2>2. /\ OthersKept(r) /\ req'[r].made = i /\ req'[r].stage = stage
        /\ req'[r].code = code /\ SameAsk(req'[r], req[r])
    BY <1>2, <1>5, <2>1, DoesDoes DEF Stages, Codes
  <2>3. /\ AskedNow' = AskedNow
        /\ DidNow' = [DidNow EXCEPT ![r] = [what |-> Done(req[r].op), row |-> i]]
        /\ ReplyNow' = [ReplyNow EXCEPT ![r] = code]
        /\ LostNow' = LostNow /\ Announced' = Announced
    BY <1>1, <2>1, <2>2, ActViews DEF Creating
  <2>4. DidNow' = [DidNow EXCEPT ![r] = [what |-> "made", row |-> i]]
    BY <1>1, <2>3 DEF Done, Creating
  <2>5. /\ Registry!Open(r) /\ AskedNow[r].op = req[r].op
        /\ AskedNow[r].name = req[r].name /\ AskedNow[r].id = req[r].id
    BY <1>1, ServedViews DEF Creating
  <2>6. \/ AskedNow[r].op = "create" /\ i \in Registry!OfId(AskedNow[r].id)
        \/ /\ AskedNow[r].op \in {"createByName", "start"}
           /\ Registry!IsLatest(i, AskedNow[r].name)
    <3>1. CASE req[r].op = "create"
      BY <1>5, <2>5, <3>1, Same DEF Chosen
    <3>2. CASE req[r].op # "create"
      <4>1. Saved(req[r].name) # {} /\ i = Latest(req[r].name)
        BY <1>5, <3>2 DEF Chosen
      <4>2. Registry!IsLatest(i, req[r].name)
        BY <1>2, <4>1, LatestIsLatest
      <4> QED
        BY <1>1, <2>5, <3>2, <4>2 DEF Creating
    <3> QED
      BY <3>1, <3>2
  <2>7. Registry!Tells(r, 201, {404, 500})
    BY <1>5, <2>3 DEF Registry!Tells, Registry!Replies, ReplyNow
  <2> QED
    BY <1>5, <2>1, <2>3, <2>4, <2>5, <2>6, <2>7
    DEF Registry!Instantiate, Registry!Does, AskedNow, DidNow, LostNow, More
<1>6. ASSUME NEW i \in Chosen(r), Created(r, i)
      PROVE  Registry!Instantiate(r)
  <2>1. More(i)
    BY <1>6 DEF Created, More
  <2>2. CASE /\ Does(r, i, IF req[r].op = "start" THEN "background" ELSE "answered", 201)
             /\ UNCHANGED faults
    <3>1. CASE req[r].op = "start"
      BY <1>5, <1>6, <2>1, <2>2, <3>1
    <3>2. CASE req[r].op # "start"
      BY <1>5, <1>6, <2>1, <2>2, <3>2
    <3> QED
      BY <3>1, <3>2
  <2>3. ASSUME NEW code \in {404, 500}, Does(r, i, "answered", code), Fault
        PROVE  Registry!Instantiate(r)
    <3>1. faults' = faults + 1
      BY <2>3, FaultGrows
    <3> QED
      BY <1>5, <1>6, <2>1, <2>3, <3>1
  <2> QED
    BY <1>6, <2>2, <2>3 DEF Created
<1> QED
  BY <1>4, <1>6 DEF CreateReturns

(***************************************************************************)
(* The run of a process that was started concerns the registry only when   *)
(* its rejection stops the server.                                         *)
(***************************************************************************)
LEMMA RunIs ==
    ASSUME WorkflowInv, RepliesInv, NEW r \in Requests,
           EventNodeRuns(r) \/ RunReturns(r) \/ RunRejects(r)
    PROVE  Registry!Stop \/ UNCHANGED Registry!registryVars
<1>1. /\ Runs(r) /\ rows' = rows /\ faults' = faults
  BY DEF EventNodeRuns, RunReturns, RunRejects, Runs, At, Running
<1>2. /\ TypeOK /\ req[r] \in Request /\ req \in [Requests -> Request] /\ StageInv(r)
      /\ req[r].op = "start" /\ req[r].code = 201
  BY <1>1, Served DEF Runs, StageInv
<1>3. ASSUME SameButReply(req'[r], req[r]), req'[r].code = req[r].code, req'[r].stage # "idle"
      PROVE  /\ AsksFor(r)' = AsksFor(r) /\ ReplyTo(r)' = ReplyTo(r)
             /\ Did(r)' = Did(r) /\ ~ Lost(r) /\ ~ Lost(r)'
  <2>1. Concerns(r) /\ Concerns(r)' /\ ~ Lost(r) /\ ~ Lost(r)'
    BY <1>1, <1>2, <1>3 DEF Concerns, Lost, SameButReply, SameAsk, Runs, Running
  <2> QED
    BY <1>2, <1>3, <2>1 DEF AsksFor, ReplyTo, Did, SameButReply, SameAsk
<1>4. ASSUME NEW stage \in {"notified", "answered"},
             GoesOn(r, stage), Announced' = Announced
      PROVE  UNCHANGED Registry!registryVars
  <2>1. stage \in Stages
    BY DEF Stages
  <2>2. /\ OthersKept(r) /\ SameButReply(req'[r], req[r]) /\ req'[r].stage = stage
        /\ req'[r].code = req[r].code
    BY <1>2, <1>4, <2>1, GoesOnDoes
  <2> QED
    BY <1>1, <1>3, <1>4, <2>2, MoveIsNoStep
<1>5. CASE EventNodeRuns(r)
  <2>1. PICK e : events' = Append(events, e) /\ e.of = "node"
    BY <1>5 DEF EventNodeRuns
  <2>2. events \in Seq(Event) /\ Len(events) \in Nat
    BY <1>2 DEF TypeOK
  <2>3. /\ DOMAIN events = 1..Len(events)
        /\ DOMAIN events' = DOMAIN events \cup {Len(events) + 1}
        /\ \A k \in 1..Len(events) : events'[k] = events[k]
        /\ events'[Len(events) + 1] = e
    BY <2>1, <2>2
  <2>4. {k \in DOMAIN events' : events'[k].of = "saved"}
          = {k \in DOMAIN events : events[k].of = "saved"}
    BY <2>1, <2>3
  <2>5. Announced' = Announced
    BY <2>3, <2>4 DEF Announced
  <2> QED
    BY <1>4, <1>5, <2>5 DEF EventNodeRuns
<1>6. CASE RunReturns(r)
  BY <1>4, <1>6 DEF RunReturns, Announced
<1>7. CASE RunRejects(r)
  <2>1. PICK done \in Request : done = Staged(req[r], "rejected")
    BY <1>2, StagedIs DEF Stages
  <2>2. SameButReply(done, req[r]) /\ done.stage = "rejected" /\ done.code = req[r].code
    BY <1>2, <2>1, StagedIs DEF Stages
  <2>3. Unhandled(r, done) /\ events' = events
    BY <1>7, <2>1 DEF RunRejects, Staged
  <2>4. /\ SameButReply(req'[r], req[r]) /\ req'[r].code = req[r].code
        /\ req'[r].stage \in {"rejected", "cut"}
    BY <1>2, <2>2, <2>3, UnhandledDoes DEF SameButReply, SameAsk
  <2>5. OthersKept(r) \/ OthersCut(r)
    BY <1>2, <2>3, UnhandledCuts
  <2>6. /\ AsksFor(r)' = AsksFor(r) /\ ReplyTo(r)' = ReplyTo(r)
        /\ Did(r)' = Did(r) /\ ~ Lost(r) /\ ~ Lost(r)'
    BY <1>3, <2>4
  <2>7. /\ AskedNow' = [AskedNow EXCEPT ![r] = AsksFor(r)']
        /\ DidNow' = [DidNow EXCEPT ![r] = Did(r)']
        /\ ReplyNow' = [ReplyNow EXCEPT ![r] = ReplyTo(r)']
    BY <2>5, Views
  <2>8. AskedNow' = AskedNow /\ DidNow' = DidNow /\ ReplyNow' = ReplyNow
    <3>1. /\ [AskedNow EXCEPT ![r] = AsksFor(r)] = AskedNow
          /\ [DidNow EXCEPT ![r] = Did(r)] = DidNow
          /\ [ReplyNow EXCEPT ![r] = ReplyTo(r)] = ReplyNow
      BY DEF AskedNow, DidNow, ReplyNow
    <3> QED
      BY <2>6, <2>7, <3>1
  <2>9. Registry!MayStop({r})
    BY <2>5, <2>6, MayStopIs
  <2>10. ~ Registry!Open(r)
    BY <1>1, OpenIs DEF Runs, Running, Serving
  <2>11. {q \in Requests \ {r} : Registry!Open(q)} = {q \in Requests \ {} : Registry!Open(q)}
    BY <2>10
  <2>12. Registry!MayStop({})
    BY <2>9, <2>11 DEF Registry!MayStop
  <2>13. Announced' = Announced
    BY <2>3 DEF Announced
  <2>14. Registry!Stop
    BY <1>1, <2>8, <2>12, <2>13 DEF Registry!Stop, AskedNow, DidNow, ReplyNow
  <2> QED
    BY <2>14
<1> QED
  BY <1>5, <1>6, <1>7

\* A beacon is none of the registry's, nor are the brokers.
LEMMA BeaconIs ==
    ASSUME WorkflowInv, NEW r \in Requests, BeaconAsks(r) \/ BeaconReturns(r)
    PROVE  UNCHANGED Registry!registryVars
<1>1. /\ req[r].op = "beacon" /\ req[r].stage = "beacon"
      /\ UNCHANGED <<rows, events, faults>>
  BY DEF BeaconAsks, BeaconReturns, Asks, At
<1>2. /\ req[r] \in Request /\ req \in [Requests -> Request] /\ StageInv(r)
  BY Served
<1>3. req[r].made = 0
  BY <1>1, <1>2 DEF StageInv, Serving
<1>4. OthersKept(r) /\ req'[r].op = "beacon" /\ req'[r].made = 0
  <2>1. CASE BeaconReturns(r)
    BY <1>1, <1>2, <1>3, <2>1 DEF BeaconReturns, Answers, OthersKept, Request
  <2>2. CASE BeaconAsks(r)
    <3>1. PICK asked, stage, code : req' = [req EXCEPT ![r] = Told(req[r], asked, stage, code)]
      <4>1. PICK outcome :
               req' = [req EXCEPT ![r].asked = Append(@, outcome),
                         ![r].stage = IF outcome = "rejected" THEN "answered" ELSE @,
                         ![r].code = IF outcome = "rejected" THEN 500 ELSE @]
        BY <2>2 DEF BeaconAsks
      <4>2. PICK asked, stage, code :
               /\ asked = Append(req[r].asked, outcome)
               /\ stage = IF outcome = "rejected" THEN "answered" ELSE req[r].stage
               /\ code = IF outcome = "rejected" THEN 500 ELSE req[r].code
        OBVIOUS
      <4>3. req' = [req EXCEPT ![r] = Told(req[r], asked, stage, code)]
        BY <1>2, <4>1, <4>2 DEF Told
      <4> QED
        BY <4>3
    <3>2. LET q == Told(req[r], asked, stage, code)
          IN  q.op = req[r].op /\ q.made = req[r].made
      BY <1>2 DEF Told, Request
    <3> QED
      BY <1>1, <1>2, <1>3, <3>1, <3>2 DEF OthersKept
  <2> QED
    BY <2>1, <2>2
<1>5. ~ Concerns(r) /\ ~ Concerns(r)'
  BY <1>1, <1>4 DEF Concerns
<1>6. AsksFor(r)' = AsksFor(r) /\ ReplyTo(r)' = ReplyTo(r) /\ (Lost(r)' <=> Lost(r))
  BY <1>5 DEF AsksFor, ReplyTo, Lost
<1>7. Did(r)' = Did(r)
  BY <1>1, <1>3, <1>4 DEF Did
<1>8. Announced' = Announced
  BY <1>1 DEF Announced
<1> QED
  BY <1>1, <1>4, <1>6, <1>7, <1>8, MoveIsNoStep

LEMMA OtherIs ==
    ASSUME BrokerStep \/ UNCHANGED vars
    PROVE  UNCHANGED Registry!registryVars
<1>1. UNCHANGED <<rows, events, req, faults>>
  BY DEF BrokerStep, vars
<1> QED
  BY <1>1 DEF Registry!registryVars, AsksFor, Did, ReplyTo, Lost, Concerns, Announced

(***************************************************************************)
(* RepliesInv is inductive.                                                *)
(***************************************************************************)
LEMMA RepliesKept ==
    ASSUME RepliesInv, TypeOK, NEW r \in Requests,
           \A s \in Requests : s # r => req'[s] = req[s] \/ CutOff(s),
           req'[r].op # "beacon" /\ req'[r].stage \in {"answered", "rejected"}
              => req'[r].code # 0
    PROVE  RepliesInv'
<1>1. ASSUME NEW s \in Requests, CutOff(s)
      PROVE  req'[s].stage = "cut"
  BY <1>1 DEF CutOff, TypeOK, Request
<1> QED
  BY <1>1 DEF RepliesInv

LEMMA AnswerTells ==
    ASSUME WorkflowInv, RepliesInv, NEW r \in Requests, NEW code \in Codes \ {0},
           Answers(r, code)
    PROVE  RepliesInv'
<1>1. TypeOK
  BY Served
<1>2. OthersKept(r) /\ req'[r].code = code
  BY <1>1, AnswersDoes
<1> QED
  BY <1>1, <1>2, RepliesKept DEF OthersKept

LEMMA OnTells ==
    ASSUME WorkflowInv, RepliesInv, NEW r \in Requests, OthersKept(r),
           req'[r].stage \in Serving \/ req'[r].code # 0
    PROVE  RepliesInv'
<1>1. TypeOK
  BY Served
<1> QED
  BY <1>1, RepliesKept DEF OthersKept, Serving

LEMMA GoingOnTells ==
    ASSUME WorkflowInv, RepliesInv, NEW r \in Requests, NEW stage \in Serving,
           GoesOn(r, stage)
    PROVE  RepliesInv'
<1>1. TypeOK /\ stage \in Stages
  BY Served DEF Serving, Stages
<1>2. OthersKept(r) /\ req'[r].stage = stage
  BY <1>1, GoesOnDoes
<1> QED
  BY <1>2, OnTells

LEMMA FindingTells ==
    ASSUME WorkflowInv, RepliesInv, NEW r \in Requests, NEW stage \in Serving, NEW i \in Nat,
           Finds(r, stage, i)
    PROVE  RepliesInv'
<1>1. TypeOK /\ stage \in Stages
  BY Served DEF Serving, Stages
<1>2. OthersKept(r) /\ req'[r].stage = stage
  BY <1>1, FindsDoes
<1> QED
  BY <1>2, OnTells

LEMMA DoingTells ==
    ASSUME WorkflowInv, RepliesInv, NEW r \in Requests, NEW i \in Nat, NEW stage \in Stages,
           NEW code \in Codes, Does(r, i, stage, code), stage \in Serving \/ code # 0
    PROVE  RepliesInv'
<1>1. TypeOK
  BY Served
<1>2. OthersKept(r) /\ req'[r].stage = stage /\ req'[r].code = code
  BY <1>1, DoesDoes
<1> QED
  BY <1>2, OnTells

LEMMA RequestTells ==
    ASSUME WorkflowInv, RepliesInv, NEW r \in Requests,
           NEW done \in Request, done.code # 0 \/ done.stage = "notified",
           Unhandled(r, done) \/ req' = [req EXCEPT ![r] = done]
    PROVE  RepliesInv'
<1>1. TypeOK /\ req \in [Requests -> Request]
  BY Served
<1>2. CASE Unhandled(r, done)
  <2>1. /\ \A s \in Requests : s # r => req'[s] = req[s] \/ CutOff(s)
        /\ req'[r].code = done.code /\ req'[r].stage \in {done.stage, "cut"}
    BY <1>1, <1>2, UnhandledDoes
  <2> QED
    BY <1>1, <2>1, RepliesKept
<1>3. CASE req' = [req EXCEPT ![r] = done]
  <2>1. req'[r] = done /\ \A s \in Requests : s # r => req'[s] = req[s]
    BY <1>1, <1>3
  <2> QED
    BY <1>1, <2>1, RepliesKept
<1> QED
  BY <1>2, <1>3

LEMMA HandlerTells ==
    ASSUME WorkflowInv, RepliesInv, NEW r \in Requests, Handler(r) \/ ReadFails(r)
    PROVE  RepliesInv'
<1>1. /\ TypeOK /\ req[r] \in Request /\ req \in [Requests -> Request] /\ StageInv(r)
      /\ Len(rows) \in Nat /\ DOMAIN rows = 1..Len(rows)
      /\ rows \in Seq(Row) /\ RowsInv
  BY Served
<1>2. {400, 404, 422, 500, 201, 204, 200} \subseteq Codes \ {0}
  BY DEF Codes
<1>3. {"save", "envs", "refetch", "list", "call"} \subseteq Serving
  BY DEF Serving
<1>4. {"envs", "answered", "background"} \subseteq Stages
  BY DEF Stages
<1>5. CASE ReadFails(r)
  BY <1>2, <1>5, AnswerTells DEF ReadFails
<1>6. CASE Validated(r)
  BY <1>2, <1>3, <1>6, AnswerTells, GoingOnTells DEF Validated
<1>7. CASE SaveReturns(r)
  <2>1. PICK i \in Nat : i = Len(rows) + 1
    BY <1>1
  <2>2. CASE Answers(r, 500) \/ GoesOn(r, "envs")
    BY <1>2, <1>3, <2>2, AnswerTells, GoingOnTells
  <2>3. CASE Does(r, i, "envs", 0)
    BY <1>3, <1>4, <2>3, DoingTells DEF Codes
  <2>4. CASE Does(r, i, "answered", 500)
    BY <1>2, <1>4, <2>4, DoingTells
  <2> QED
    BY <1>7, <2>1, <2>2, <2>3, <2>4 DEF SaveReturns
<1>8. CASE EnvironmentValidated(r)
  <2>1. Answers(r, 400) \/ Answers(r, 500) \/ GoesOn(r, "refetch")
    BY <1>8 DEF EnvironmentValidated
  <2> QED
    BY <1>2, <1>3, <2>1, AnswerTells, GoingOnTells
<1>9. CASE Refetched(r)
  <2>1. PICK code \in {201, 500} :
            \/ Unhandled(r, Answered(req[r], code))
            \/ req' = [req EXCEPT ![r] = Answered(req[r], code)]
    BY <1>9 DEF Refetched, Announces, Vanished, Answered
  <2>2. Answered(req[r], code) \in Request /\ Answered(req[r], code).code # 0
    <3>1. code \in Codes
      BY <1>2
    <3>2. Answered(req[r], code) \in Request /\ Answered(req[r], code).code = code
      BY <1>1, <3>1, AnsweredIs
    <3> QED
      BY <3>2
  <2> QED
    BY <2>1, <2>2, RequestTells
<1>10. CASE DeleteFetched(r) \/ DeleteListed(r)
  <2>1. \/ \E code \in {404, 422} : Answers(r, code)
        \/ GoesOn(r, "call")
        \/ \E i \in Nat : Finds(r, "list", i)
    BY <1>1, <1>10 DEF DeleteFetched, DeleteListed, Live
  <2> QED
    BY <1>2, <1>3, <2>1, AnswerTells, GoingOnTells, FindingTells
<1>11. CASE DeleteReturns(r)
  <2>1. \/ \E code \in {404, 500} : Answers(r, code)
        \/ \E i \in Nat, code \in {204, 500} : Does(r, i, "answered", code)
    BY <1>1, <1>11 DEF DeleteReturns, Live
  <2> QED
    BY <1>2, <1>4, <2>1, AnswerTells, DoingTells
<1>12. CASE CreateFetched(r) \/ NameFetched(r)
  <2>1. Answers(r, 404) \/ \E i \in Nat : Finds(r, "call", i)
    <3>1. CASE CreateFetched(r)
      BY <1>1, <3>1 DEF CreateFetched, Live
    <3>2. CASE NameFetched(r)
      <4>1. Saved(req[r].name) # {} => Latest(req[r].name) \in Nat
        BY <1>1, LatestIs
      <4> QED
        BY <3>2, <4>1 DEF NameFetched
    <3> QED
      BY <1>12, <3>1, <3>2
  <2> QED
    BY <1>2, <1>3, <2>1, AnswerTells, FindingTells
<1>13. CASE CreateReturns(r)
  <2>1. ASSUME NEW i \in Chosen(r), Created(r, i)
        PROVE  RepliesInv'
    <3>1. i \in Nat
      <4>1. req[r].op \in Creating /\ req[r].stage = "call"
        BY <1>13 DEF CreateReturns, Creating
      <4> QED
        BY <1>1, <2>1, <4>1, ChosenIsKnown
    <3>2. PICK stage \in {"background", "answered"}, code \in {201, 404, 500} :
              Does(r, i, stage, code)
      BY <2>1 DEF Created
    <3> QED
      BY <1>2, <1>4, <3>1, <3>2, DoingTells
  <2>2. ASSUME NEW code \in {404, 500}, Answers(r, code)
        PROVE  RepliesInv'
    BY <1>2, <2>2, AnswerTells
  <2> QED
    BY <1>13, <2>1, <2>2 DEF CreateReturns
<1>14. CASE EventNodeRuns(r) \/ RunReturns(r)
  <2>1. PICK stage \in {"notified", "answered"} : GoesOn(r, stage)
    BY <1>14 DEF EventNodeRuns, RunReturns
  <2>2. req[r].code = 201
    BY <1>1, <1>14 DEF EventNodeRuns, RunReturns, Runs, At, Running, StageInv
  <2>3. OthersKept(r) /\ req'[r].code = 201
    BY <1>1, <2>1, <2>2, GoesOnDoes DEF Stages
  <2> QED
    BY <2>3, OnTells
<1>15. CASE RunRejects(r)
  <2>1. req[r].code = 201 /\ "rejected" \in Stages
    BY <1>1, <1>15 DEF RunRejects, Runs, StageInv, Stages
  <2>2. Staged(req[r], "rejected") \in Request /\ Staged(req[r], "rejected").code # 0
    BY <1>1, <2>1, StagedIs
  <2>3. Unhandled(r, Staged(req[r], "rejected"))
    BY <1>15 DEF RunRejects, Staged
  <2> QED
    BY <2>2, <2>3, RequestTells
<1>16. CASE BeaconAsks(r) \/ BeaconReturns(r)
  <2>1. req[r].op = "beacon"
    BY <1>16 DEF BeaconAsks, BeaconReturns, Asks, At
  <2>2. OthersKept(r) /\ req'[r].op = "beacon"
    <3>1. CASE BeaconReturns(r)
      BY <1>1, <2>1, <3>1 DEF BeaconReturns, Answers, OthersKept, Request
    <3>2. CASE BeaconAsks(r)
      BY <1>1, <2>1, <3>2 DEF BeaconAsks, OthersKept, Request
    <3> QED
      BY <1>16, <3>1, <3>2
  <2> QED
    BY <1>1, <2>2, RepliesKept DEF OthersKept
<1> QED
  BY <1>5, <1>6, <1>7, <1>8, <1>9, <1>10, <1>11, <1>12, <1>13, <1>14, <1>15, <1>16 DEF Handler

LEMMA RepliesInvariant == Spec => []RepliesInv
<1>1. Init => RepliesInv
  <2>1. Init => \A r \in Requests : req[r].stage = "idle"
    BY DEF Init
  <2> QED
    BY <2>1 DEF RepliesInv
<1>2. WorkflowInv /\ RepliesInv /\ [Next]_vars => RepliesInv'
  <2> SUFFICES ASSUME WorkflowInv, RepliesInv, [Next]_vars PROVE RepliesInv'
    OBVIOUS
  <2>1. CASE BrokerStep \/ UNCHANGED vars
    BY <2>1 DEF BrokerStep, vars, RepliesInv
  <2>2. ASSUME NEW r \in Requests, NEW op \in Operations, NEW name \in Names,
               NEW id \in Ids, NEW odd \in BOOLEAN, Receive(r, op, name, id, odd)
        PROVE  RepliesInv'
    BY <2>2, ReceiveDoes, OnTells
  <2>3. ASSUME NEW r \in Requests, Handler(r) \/ ReadFails(r) PROVE RepliesInv'
    BY <2>3, HandlerTells
  <2> QED
    BY <2>1, <2>2, <2>3 DEF Next
<1> QED
  BY <1>1, <1>2, WorkflowInvariant, PTL DEF Spec

-----------------------------------------------------------------------------
(* The registry is implemented *)

LEMMA RegistryStarts == Init => Registry!RegistryInit
<1> SUFFICES ASSUME Init PROVE Registry!RegistryInit
  OBVIOUS
<1>1. /\ rows = <<>> /\ events = <<>> /\ DOMAIN events = {} /\ faults = 0
      /\ \A r \in Requests : /\ req[r].op = "save" /\ req[r].stage = "idle" /\ req[r].code = 0
                             /\ req[r].made = 0
  BY DEF Init
<1>2. ASSUME NEW r \in Requests
      PROVE  /\ AsksFor(r) = Registry!NoRequest /\ Did(r) = Registry!Nothing
             /\ ReplyTo(r) = 0 /\ ~ Lost(r)
  BY <1>1 DEF AsksFor, Did, ReplyTo, Lost, Concerns, Registry!NoRequest, Registry!Nothing
<1>3. Announced = {}
  BY <1>1 DEF Announced
<1>4. LostNow = {}
  BY <1>2 DEF LostNow
<1>5. /\ AskedNow = [r \in Requests |-> Registry!NoRequest]
      /\ DidNow = [r \in Requests |-> Registry!Nothing]
      /\ ReplyNow = [r \in Requests |-> 0]
  BY <1>2 DEF AskedNow, DidNow, ReplyNow
<1> QED
  BY <1>1, <1>3, <1>4, <1>5 DEF Registry!RegistryInit, AskedNow, DidNow, ReplyNow, LostNow

LEMMA HandlerIsRegistry ==
    ASSUME WorkflowInv, RepliesInv, NEW r \in Requests, Handler(r) \/ ReadFails(r)
    PROVE  Registry!RegistryNext \/ UNCHANGED Registry!registryVars
<1>1. ASSUME NEW code \in {400, 404, 422, 500}, Registry!Refuse(r, code)
      PROVE  Registry!RegistryNext
  BY <1>1 DEF Registry!RegistryNext
<1>2. CASE ReadFails(r)
  BY <1>1, <1>2, ReadFailsIs
<1>3. CASE Validated(r)
  BY <1>1, <1>3, ValidatedIs
<1>4. CASE SaveReturns(r)
  BY <1>1, <1>4, SaveReturnsIs DEF Registry!RegistryNext
<1>5. CASE EnvironmentValidated(r)
  BY <1>1, <1>5, EnvironmentValidatedIs
<1>6. CASE Refetched(r)
  BY <1>1, <1>6, RefetchedIs DEF Registry!RegistryNext
<1>7. CASE DeleteFetched(r)
  BY <1>1, <1>7, DeleteFetchedIs
<1>8. CASE DeleteListed(r)
  BY <1>1, <1>8, DeleteListedIs
<1>9. CASE DeleteReturns(r)
  BY <1>1, <1>9, DeleteReturnsIs DEF Registry!RegistryNext
<1>10. CASE CreateFetched(r)
  BY <1>1, <1>10, CreateFetchedIs
<1>11. CASE NameFetched(r)
  BY <1>1, <1>11, NameFetchedIs
<1>12. CASE CreateReturns(r)
  BY <1>1, <1>12, CreateReturnsIs DEF Registry!RegistryNext
<1>13. CASE EventNodeRuns(r) \/ RunReturns(r) \/ RunRejects(r)
  BY <1>13, RunIs DEF Registry!RegistryNext
<1>14. CASE BeaconAsks(r) \/ BeaconReturns(r)
  BY <1>14, BeaconIs
<1> QED
  BY <1>2, <1>3, <1>4, <1>5, <1>6, <1>7, <1>8, <1>9, <1>10, <1>11, <1>12, <1>13, <1>14
  DEF Handler

LEMMA StepIsRegistry ==
    ASSUME WorkflowInv, RepliesInv, [Next]_vars
    PROVE  [Registry!RegistryNext]_(Registry!registryVars)
<1>1. CASE BrokerStep \/ UNCHANGED vars
  BY <1>1, OtherIs
<1>2. ASSUME NEW r \in Requests, NEW op \in Operations, NEW name \in Names,
             NEW id \in Ids, NEW odd \in BOOLEAN, Receive(r, op, name, id, odd)
      PROVE  Registry!RegistryNext \/ UNCHANGED Registry!registryVars
  <2>1. op # "beacon" => op \in {"save", "delete", "create", "createByName", "start"}
    BY DEF Operations
  <2>2. (op # "beacon" /\ Registry!Ask(r, op, name, id)) => Registry!RegistryNext
    BY <2>1, Same DEF Registry!RegistryNext
  <2> QED
    BY <1>2, <2>2, ReceiveAsks
<1>3. ASSUME NEW r \in Requests, Handler(r) \/ ReadFails(r)
      PROVE  Registry!RegistryNext \/ UNCHANGED Registry!registryVars
  BY <1>3, HandlerIsRegistry
<1> QED
  BY <1>1, <1>2, <1>3 DEF Next

\* The handlers of workflows implement the registry: each step between two
\* awaits is one step of the registry or none, for any names, ids, number of
\* requests, brokers and bounds, so that a version is given, a workflow deleted,
\* a process made or an event sent at one moment within its request, whose
\* answer is what it did, or a failure when the answer of the engine was lost or
\* a saved workflow could not be read again (workflow.js:20-68, 154-190, 214-312).
THEOREM RegistryRefined == Spec => RegistryImplemented
<1>1. Init => Registry!RegistryInit
  BY RegistryStarts
<1>2. WorkflowInv /\ RepliesInv /\ [Next]_vars
         => [Registry!RegistryNext]_(Registry!registryVars)
  BY StepIsRegistry
<1> QED
  BY <1>1, <1>2, WorkflowInvariant, RepliesInvariant, PTL
  DEF Spec, RegistryImplemented, Registry!RegistrySpec
=============================================================================
