--------------------------- MODULE BlueprintSchemas ---------------------------
(***************************************************************************)
(* The schemas of src/src/validators: what a saved workflow must look      *)
(* like, what a node of each type and each category must have, and what    *)
(* the bodies of the cockpit's requests must be.                           *)
(***************************************************************************)
EXTENDS JsonSchema

AnyObject == Typed("object")
AnyString == Typed("string")
AnyArray == Typed("array")
Unique(schema) == Plus(schema, [unique |-> TRUE])
NumberOrObject == OneOf(<<Typed("number"), AnyObject>>)
Property(name, schema) == ObjectWith({}, [k \in {name} |-> schema])

-----------------------------------------------------------------------------
(* schemas/workflow.js *)

LaneSchema ==
    Closed(ObjectWith({"id", "name", "rule"},
        [id |-> AnyString, name |-> AnyString,
         rule |-> OneOf(<<AnyArray, ObjectWith({"$js"}, [k \in {"$js"} |-> AnyString])>>)]))

BlueprintNodeSchema ==
    ObjectWith({"id", "name", "type", "lane_id", "next"},
        Plus([k \in {"id", "name", "type", "category", "lane_id"} |-> AnyString],
             [next |-> OneOf(<<AnyObject, AnyString, Typed("null")>>),
              parameters |-> AnyObject]))

SpecSchema ==
    Closed(ObjectWith({"requirements", "prepare", "environment", "lanes", "nodes"},
        [requirements |-> Unique(ArrayOf(AnyString)),
         prepare |-> Unique(ArrayOf(AnyString)),
         environment |-> AnyObject, parameters |-> AnyObject,
         lanes |-> Plus(Unique(ArrayOf(LaneSchema)), [minItems |-> 1]),
         nodes |-> Plus(ArrayOf(BlueprintNodeSchema), [minItems |-> 2])]))

workflowSchema ==
    Closed(ObjectWith({"name", "description", "blueprint_spec"},
        [workflow_id |-> Uuid, name |-> AnyString, description |-> AnyString,
         blueprint_spec |-> SpecSchema]))

-----------------------------------------------------------------------------
(* schemas/nodes.js, by type *)

StartNode ==
    Property("parameters", ObjectWith({},
        [input_schema |-> AnyObject, timeout |-> Typed("integer"),
         duration |-> AnyString]))

SystemTaskNode ==
    ObjectWith({"category", "parameters"},
        [category |-> AnyString, parameters |-> Property("input", AnyObject)])

FinishNode == Property("next", Typed("null"))

FlowNode ==
    ObjectWith({},
        [next |-> Plus(ObjectWith({"default"}, [default |-> AnyString]),
                       [additionalSchema |-> AnyString]),
         parameters |-> Plus(AnyObject, [minProperties |-> 1, maxProperties |-> 1])])

ActivitySchema ==
    ObjectWith({},
        [type |-> Enum({"object"}), properties |-> AnyObject,
         required |-> ArrayOf(AnyString),
         additionalProperties |-> OneOf(<<Typed("boolean"), AnyObject>>)])

UserTaskNode ==
    Property("parameters", ObjectWith({"action"},
        [action |-> AnyString, encrypted_data |-> ArrayOf(AnyString),
         channels |-> ArrayOf(AnyString),
         activity_manager |-> Enum({"commit", "notify"}),
         activity_schema |-> ActivitySchema]))

SubprocessNode ==
    Property("parameters", ObjectWith({"actor_data", "workflow_name"},
        [actor_data |-> AnyObject, workflow_name |-> StringOrObject,
         valid_response |-> AnyString, input |-> AnyObject]))

\* Mutant of ScriptTaskNode: a script may have no args.
ScriptWithoutArgs ==
    Property("parameters", ObjectWith({"script"},
        [script |-> ObjectWith({"function"},
            [function |-> AnyString, args |-> AnyObject])]))

ScriptTaskNode ==
    Property("parameters", ObjectWith({"script"},
        [script |-> ObjectWith({"function", "args"},
            [function |-> AnyString, args |-> AnyObject])]))

nodeSchema ==
    [start |-> StartNode, systemtask |-> SystemTaskNode, finish |-> FinishNode,
     flow |-> FlowNode, usertask |-> UserTaskNode, subprocess |-> SubprocessNode,
     scripttask |-> ScriptTaskNode]

-----------------------------------------------------------------------------
(* schemas/nodes.js, the parameters of a system task by category *)

HttpParameters ==
    ObjectWith({},
        [request |-> ObjectWith({"url", "verb"},
            [url |-> StringOrObject,
             verb |-> Enum({"GET", "POST", "PUT", "PATCH", "DELETE", "HEAD"}),
             header |-> AnyObject, timeout |-> NumberOrObject,
             max_content_length |-> NumberOrObject]),
         valid_response_codes |-> AnyArray])

TimerParameters ==
    ObjectWith({"input"}, [timeout |-> NumberOrObject, input |-> AnyObject])

StartProcessParameters ==
    ObjectWith({"workflow_name", "actor_data"},
        [workflow_name |-> StringOrObject, actor_data |-> AnyObject])

AbortProcessParameters == ObjectWith({"process_id"}, [process_id |-> Uuid])

categorySchema ==
    [settobag |-> AnyObject, http |-> HttpParameters, timer |-> TimerParameters,
     startprocess |-> StartProcessParameters, abortprocess |-> AbortProcessParameters]
=============================================================================
