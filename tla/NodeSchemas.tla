----------------------------- MODULE NodeSchemas -----------------------------
(***************************************************************************)
(* The schemas of the custom nodes, src/src/nodes.  Of each node: what its *)
(* spec in a blueprint must be (static get schema) and, where the node     *)
(* checks it again when it runs, what the prepared parameters must be      *)
(* (static validateExecutionData).                                         *)
(***************************************************************************)
EXTENDS JsonSchema

-----------------------------------------------------------------------------
(* static get schema *)

\* What all custom nodes have in common.
NodeRequired == {"id", "name", "next", "type", "lane_id", "parameters"}

NodeFields == [k \in {"id", "name", "next", "type", "category", "lane_id"} |->
                 Typed("string")]

NodeWith(required, parameters) ==
    ObjectWith(required, Plus(NodeFields, [parameters |-> parameters]))

NodeWithInput(input) ==
    NodeWith(NodeRequired, ObjectWith({"input"}, [input |-> input]))

NodeWithOptionalInput(input) ==
    NodeWith(NodeRequired, ObjectWith({}, [input |-> input]))

deepCompareSchema ==
    NodeWith(NodeRequired \cup {"category"},
        ObjectWith({"input"},
            [input |-> ObjectWith({"base", "candidate", "commonKeys"},
                [base |-> ArrayOrObject(Typed("object")),
                 candidate |-> ArrayOrObject(Typed("object")),
                 commonKeys |-> ArrayOrObject(Typed("string")),
                 ignoreKeys |-> ArrayOrObject(Typed("string"))])]))

remapDataSchema ==
    NodeWithInput(ObjectWith({"data", "dictionary"},
        [data |-> ArrayOrObject(Typed("object")), dictionary |-> Typed("object")]))

filterDataSchema ==
    NodeWithInput(ObjectWith({"data", "primary_keys"},
        [data |-> ArrayOrObject(Typed("object")), primary_keys |-> Typed("object")]))

grpcSchema ==
    NodeWithInput(ObjectWith({"server", "payload", "service", "method"},
        [server |-> StringOrObject, service |-> StringOrObject,
         method |-> StringOrObject, payload |-> StringOrObject,
         descriptor |-> Typed("object"), useSsl |-> Typed("boolean"),
         useReflection |-> Typed("boolean")]))

\* Mutant of kafkaPublishSchema: topics and events are expressions only.
kafkaPublishExpressions ==
    NodeWithInput(ObjectWith({"message", "event", "topic"},
        [message |-> Typed("object"), event |-> Typed("object"),
         topic |-> Typed("object")]))

kafkaPublishSchema ==
    NodeWithInput(ObjectWith({"message", "event", "topic"},
        [message |-> Typed("object"), event |-> StringOrObject,
         topic |-> StringOrObject]))

createIndexSchema ==
    NodeWithOptionalInput(ObjectWith({"entity_type", "entity_id"},
        [entity_type |-> StringOrObject, entity_id |-> StringOrObject]))

createUuidSchema ==
    NodeWithOptionalInput(ObjectWith({"type"},
        [type |-> Enum({"uuid", "nanoid"}),
         options |-> ObjectWith({},
            [version |-> Enum({"v1", "v4"}),
             size |-> OneOf(<<Typed("integer"), Typed("object")>>)])]))

findProcessSchema ==
    NodeWithOptionalInput(ObjectWith({"entity_id"},
        [entity_id |-> OneOf(<<Uuid,
            [type |-> {"object"}, properties |-> [k \in {"$ref"} |-> Typed("string")]]>>)]))

tokenizeSchema == NodeWithInput(Typed("object"))

validateSchemaSchema ==
    NodeWithInput(ObjectWith({"schema", "data"},
        [schema |-> Typed("object"), data |-> Typed("object")]))

\* graphQl and basicAuth extend the schema of the engine's system task, of
\* which nothing is known here: only what they add to it.
graphQlParameters ==
    ObjectWith({"request", "input"},
        [request |-> ObjectWith({"baseUrl", "verb"},
            [baseUrl |-> StringOrObject, route |-> StringOrObject,
             verb |-> StringOrObject, headers |-> Typed("object")]),
         input |-> ObjectWith({"action", "operation"},
            [action |-> StringOrObject, operation |-> StringOrObject,
             fields |-> OneOf(<<Typed("array"), Typed("object")>>),
             variables |-> Typed("object")])])

basicAuthParameters ==
    ObjectWith({},
        [request |-> ObjectWith({"verb", "baseUrl", "route", "auth"},
            [verb |-> Typed("string"), baseUrl |-> StringOrObject,
             route |-> StringOrObject,
             auth |-> ObjectWith({"username", "password"},
                [username |-> StringOrObject, password |-> StringOrObject]),
             headers |-> Typed("object")])])

-----------------------------------------------------------------------------
(* static validateExecutionData *)

deepCompareExecution ==
    ObjectWith({"base", "candidate", "commonKeys"},
        [base |-> ArrayOf(Typed("object")), candidate |-> ArrayOf(Typed("object")),
         commonKeys |-> Plus(ArrayOf(Typed("string")), [minItems |-> 1]),
         ignoreKeys |-> ArrayOf(Typed("string"))])

remapDataExecution ==
    ObjectWith({"data", "dictionary"},
        [data |-> ArrayOf(Typed("object")), dictionary |-> Typed("object")])

filterDataExecution ==
    ObjectWith({"data", "primary_keys"},
        [data |-> ArrayOf(Typed("object")), primary_keys |-> Typed("object")])

grpcExecution ==
    ObjectWith({"server", "payload", "service", "method"},
        [server |-> Typed("string"), service |-> Typed("string"),
         method |-> Typed("string"), useSsl |-> Typed("boolean"),
         payload |-> StringOrObject,
         descriptor |-> ObjectWith({"file"}, [file |-> ArrayOf(Typed("object"))]),
         useReflection |-> Typed("boolean")])

kafkaPublishExecution ==
    ObjectWith({"message", "event", "topic"},
        [message |-> Typed("object"), event |-> Typed("string"),
         topic |-> Typed("string")])

=============================================================================
