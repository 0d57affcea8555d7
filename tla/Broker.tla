------------------------------- MODULE Broker -------------------------------
(***************************************************************************)
(* src/src/services/broker: the clients of the three message brokers, the  *)
(* procedure that connects them once at start-up, and publishMessage, the  *)
(* one door through which every notification leaves the server.            *)
(*                                                                         *)
(* The procedure is called by app.startServer and never awaited, so        *)
(* messages are published while it is still running.  Its own awaits are   *)
(* sequential: Kafka is not even contacted before RabbitMQ has answered.   *)
(***************************************************************************)

CONSTANTS
    Enabled     \* the brokers whose variable (MQTT, AMQP, KAFKA) is "true"

Brokers == {"MQTT", "AMQP", "KAFKA"}

ASSUME EnabledAssumption == Enabled \subseteq Brokers

VARIABLES
    at,         \* the await of connect() that is pending, "boot" before it
                \* is called and "done" when it has returned
    client      \* what each broker's module variable (client, channel) holds

brokerVars == <<at, client>>

\* "none": the variable is undefined; "offline": it is set but the client
\* behind it is not connected; "ready": it is set and takes messages.
ClientState == {"none", "offline", "ready"}

Awaits == {"boot", "amqp.connect", "assertQueue", "createChannel",
           "kafka.connect", "done"}

BrokerTypeOK ==
    /\ at \in Awaits
    /\ client \in [Brokers -> ClientState]

BrokerInit ==
    /\ at = "boot"
    /\ client = [b \in Brokers |-> "none"]

-----------------------------------------------------------------------------
(* connect() *)

AfterAmqp == IF "KAFKA" \in Enabled THEN "kafka.connect" ELSE "done"

AfterMqtt == IF "AMQP" \in Enabled THEN "amqp.connect" ELSE AfterAmqp

\* kafka.connect stores the producer before it awaits its connection.
Proceed(next, clients) ==
    /\ at' = next
    /\ client' = IF next = "kafka.connect"
                 THEN [clients EXCEPT !["KAFKA"] = "offline"]
                 ELSE clients

\* startServer calls connect(); mqtt.connect sets its client without waiting
\* for the network (the library queues), unless it throws and is caught.
StartConnect ==
    /\ at = "boot"
    /\ \E m \in IF "MQTT" \in Enabled THEN {"ready", "none"} ELSE {"none"} :
          Proceed(AfterMqtt, [client EXCEPT !["MQTT"] = m])

\* RabbitMQ answers one of the first two awaits of rabbitMQ.connect; the two
\* awaits inside createQueue are one here, "assertQueue".
AmqpProgress ==
    \/ at = "amqp.connect" /\ Proceed("assertQueue", client)
    \/ at = "assertQueue" /\ Proceed("createChannel", client)

\* The third answer is the channel: only now is the module variable set.
AmqpConnected ==
    /\ at = "createChannel"
    /\ Proceed(AfterAmqp, [client EXCEPT !["AMQP"] = "ready"])

\* Mutant of AmqpFailed: the rejection is not caught and ends connect().
AmqpFailedUncaught ==
    /\ at \in {"amqp.connect", "assertQueue", "createChannel"}
    /\ Proceed("done", client)

\* Any of the three awaits rejects: caught and logged, never tried again.
AmqpFailed ==
    /\ at \in {"amqp.connect", "assertQueue", "createChannel"}
    /\ Proceed(AfterAmqp, client)

KafkaConnected ==
    /\ at = "kafka.connect"
    /\ Proceed("done", [client EXCEPT !["KAFKA"] = "ready"])

\* The producer stays in the module variable.
KafkaFailed ==
    /\ at = "kafka.connect"
    /\ Proceed("done", client)

ConnectStep ==
    \/ StartConnect
    \/ AmqpProgress
    \/ AmqpConnected
    \/ AmqpFailed
    \/ KafkaConnected
    \/ KafkaFailed

\* RabbitMQ closes the channel of a running server: nothing in the code hears
\* of it and the variable keeps the closed channel.
ChannelClosed ==
    /\ client["AMQP"] = "ready"
    /\ client' = [client EXCEPT !["AMQP"] = "offline"]
    /\ UNCHANGED at

-----------------------------------------------------------------------------
(* publishMessage(payload, broker) *)

\* What publishMessage and the clients read of a payload: whether it has a
\* topic of its own, and what its context is: an activity manager, a
\* {topic, message} record, or missing.
Payload == [topic : BOOLEAN, context : {"none", "activity", "message"}]

\* "sent": the client took the message with its content; "blank": it took a
\* message without topic or without content; "dropped": no client yet, only a
\* log line; "ignored": the broker is not enabled; "rejected": the call threw.
Outcome == {"sent", "blank", "dropped", "ignored", "rejected"}

PublishMqtt(payload) ==
    IF client["MQTT"] = "none" THEN {"dropped"}
    ELSE IF payload.topic THEN {"sent"} ELSE {"blank"}

PublishAmqp(payload) ==
    CASE client["AMQP"] = "none" -> {"dropped"}
      [] client["AMQP"] = "offline" -> {"rejected"}
      [] OTHER -> IF payload.context = "activity" THEN {"sent"} ELSE {"blank"}

\* The parameter is destructured before anything is tested, and a context
\* that is not {topic, message} has no message to put in a Buffer.  A producer
\* that is connected may still fail to send, which rejects.
PublishKafka(payload) ==
    IF payload.context = "none" THEN {"rejected"}
    ELSE IF client["KAFKA"] = "none" THEN {"dropped"}
    ELSE IF payload.context = "message" /\ client["KAFKA"] = "ready"
         THEN {"sent", "rejected"}
         ELSE {"rejected"}

\* What may come of a call.  broker may be a name publishMessage does not know.
publishMessage(payload, broker) ==
    IF broker \notin Enabled THEN {"ignored"}
    ELSE CASE broker = "MQTT" -> PublishMqtt(payload)
           [] broker = "AMQP" -> PublishAmqp(payload)
           [] OTHER -> PublishKafka(payload)
=============================================================================
