------------------------------ MODULE Blueprints ------------------------------
(***************************************************************************)
(* What becomes of a blueprint that a request brings: the validators in    *)
(* the order of the routes (src/src/validators/workflow.js), what a save   *)
(* can come to, and the validation and comparison the cockpit offers       *)
(* (src/src/services/compareBlueprints.js).                                *)
(*                                                                         *)
(* POST /workflows runs all of the validators; POST                        *)
(* /cockpit/workflows/validate and /compare run the schema only.  Whether  *)
(* the engine, a library, takes a blueprint is its own choice.             *)
(***************************************************************************)
EXTENDS BlueprintSchemas, SampleBlueprints, SequencesExt

CONSTANTS
    Lower,          \* the texts that are not in lower case, in lower case
    Characters,     \* the characters of each text that is not a single one
    Rank,           \* the order of the ids as texts
    Bodies,         \* bound: the bodies of each route
    Current         \* bound: the workflows of the name that may be stored

Routes == {"save", "validate", "compare"}

\* No two ids are in one place of the order.
ASSUME RankAssumption == Rank \in [DOMAIN Rank -> Nat] /\ IsInjective(Rank)

\* Are the nodes and lanes of a blueprint lists, as JSON has them?
IsListed(part) == part.array \in Seq(ToSet(part.array))

\* The bodies and the stored workflows are JSON.
ASSUME ListsAssumption ==
    /\ \A r \in Routes : \A b \in Bodies[r] : Valid(workflowSchema, b) =>
          /\ IsListed(b.object.blueprint_spec.object.nodes)
          /\ IsListed(b.object.blueprint_spec.object.lanes)
    /\ \A c \in Current : \A s \in c : IsListed(s.nodes) /\ IsListed(s.lanes)

\* Every id that a comparison meets has its place.
IsRanked(part) == \A i \in DOMAIN part.array : part.array[i].object.id.string \in DOMAIN Rank

ASSUME IdsAssumption ==
    /\ \A b \in Bodies["compare"] : Valid(workflowSchema, b) =>
          /\ IsRanked(b.object.blueprint_spec.object.nodes)
          /\ IsRanked(b.object.blueprint_spec.object.lanes)
    /\ \A c \in Current : \A s \in c : IsRanked(s.nodes) /\ IsRanked(s.lanes)

VARIABLES
    route,
    body,
    current,    \* for a comparison, the specs of the workflow of that name
    at,         \* the step of the route that is next
    reply,
    saved

vars == <<route, body, current, at, reply, saved>>

request == <<route, body, current>>

Init ==
    /\ route \in Routes
    /\ body \in Bodies[route]
    /\ current \in IF route = "compare" THEN Current ELSE {{}}
    /\ at = "schema"
    /\ reply = [code |-> 0, message |-> "none"]
    /\ saved = FALSE

Answers(code, message) ==
    /\ reply' = [code |-> code, message |-> message]
    /\ at' = "answered"

Proceeds(step) == at' = step /\ UNCHANGED reply

-----------------------------------------------------------------------------
(* The blueprint of the body, once the schema has accepted it *)

spec == body.object.blueprint_spec.object
nodes == spec.nodes.array
lanes == spec.lanes.array

Has(value, field) == IsObject(value) /\ field \in DOMAIN value.object
Field(value, field) == value.object[field]
Id(item) == Field(item, "id").string
Ids(items) == [i \in DOMAIN items |-> Id(items[i])]
Falsy(value) == value \in {Null, Str("")}

lower(text) == IF text \in DOMAIN Lower THEN Lower[text] ELSE text

Type(node) == lower(Field(node, "type").string)

\* validateBodyWithSchema(workflowSchema)
CheckSchema ==
    /\ at = "schema"
    /\ IF Valid(workflowSchema, body)
       THEN Proceeds(IF route = "save" THEN "connections" ELSE "controller")
       ELSE Answers(400, "Invalid Request Body")
    /\ UNCHANGED <<request, saved>>

-----------------------------------------------------------------------------
(* validateConnections *)

\* Object.values: of a text, its characters.
Values(next) ==
    IF IsObject(next) THEN {next.object[k] : k \in DOMAIN next.object}
    ELSE {Str(c) : c \in IF next.string \in DOMAIN Characters
                         THEN Characters[next.string] ELSE {next.string} \ {""}}

\* Mutant of NextIsKnown: the next node of a Flow is looked at like any other.
NextOfFlowIgnored(node) ==
    LET next == Field(node, "next")
    IN  \/ Type(node) = "flow"
        \/ Falsy(next) \/ \E other \in ToSet(nodes) : next = Field(other, "id")

NextIsKnown(node) ==
    LET next == Field(node, "next")
        known == {Field(other, "id") : other \in ToSet(nodes)}
    IN  IF Type(node) = "flow" THEN Values(next) \subseteq known
        ELSE Falsy(next) \/ next \in known

Connected(node) ==
    /\ Cardinality({i \in DOMAIN nodes : Id(nodes[i]) = Id(node)}) = 1
    /\ Field(node, "lane_id") \in {Field(lane, "id") : lane \in ToSet(lanes)}
    /\ NextIsKnown(node)

\* Object.values(null) throws, and nothing catches it before Koa does.
FlowHasNoNext ==
    \E node \in ToSet(nodes) : Type(node) = "flow" /\ Field(node, "next") = Null

CheckConnections ==
    /\ at = "connections"
    /\ IF FlowHasNoNext THEN Answers(500, "Internal Server Error")
       ELSE IF /\ \A node \in ToSet(nodes) : Connected(node)
               /\ IsInjective(Ids(lanes))
            THEN Proceeds("nodes")
            ELSE Answers(400, "Invalid Connections")
    /\ UNCHANGED <<request, saved>>

-----------------------------------------------------------------------------
(* validateNodes *)

Category(node) == IF Has(node, "category") THEN lower(Field(node, "category").string) ELSE ""

\* A type or a category that has no schema is not looked at.
TypeIsValid(node) ==
    Type(node) \in DOMAIN nodeSchema => Valid(nodeSchema[Type(node)], node)

ParametersAreValid(node) ==
    Type(node) = "systemtask" /\ Category(node) \in DOMAIN categorySchema =>
        /\ Has(node, "parameters")
        /\ Valid(categorySchema[Category(node)], Field(node, "parameters"))

CheckNodes ==
    /\ at = "nodes"
    /\ IF \A node \in ToSet(nodes) : TypeIsValid(node) /\ ParametersAreValid(node)
       THEN Proceeds("controller")
       ELSE Answers(400, "Invalid Node")
    /\ UNCHANGED <<request, saved>>

-----------------------------------------------------------------------------
(* saveWorkflow *)

\* validateNodesExtract: toLowerCase is a method of texts, and null?. asks for
\* none.  Anything else throws.
ExtractsAreTexts ==
    \A node \in ToSet(nodes) : Has(node, "extract") =>
        Field(node, "extract") = Null \/ Is("string", Field(node, "extract"))

\* The engine refuses the blueprint, or is told to save it and may refuse that
\* too.  The warnings are made of what is answered, whatever it is, and the
\* workflow is read again: each of these calls may be rejected, also when the
\* workflow was saved.  What the warnings say is not told apart.
Save ==
    /\ at = "controller" /\ route = "save"
    /\ \/ Answers(400, "Invalid blueprint") /\ UNCHANGED saved
       \/ /\ saved' \in BOOLEAN
          /\ \/ Answers(500, "Failed at")
             \/ /\ ExtractsAreTexts
                /\ IF saved' THEN Answers(201, "saved") ELSE Answers(400, "Failed at")
    /\ UNCHANGED request

-----------------------------------------------------------------------------
(* validateBlueprint and compareBlueprint *)

ValidateBlueprint ==
    /\ at = "controller" /\ route = "validate"
    /\ Answers(400, "Invalid blueprint") \/ Answers(200, "Blueprint is valid")
    /\ UNCHANGED <<request, saved>>

\* Mutant of Ordered: the order of the request is kept.
AsGiven(items) == items

\* sort((a, b) => a.id > b.id ? -1 : 0): the ids descend, and items of one id
\* keep their order, for the sort of the engine only asks what is negative.
Ordered(items) ==
    LET Before(i, j) == \/ Rank[Id(items[i])] > Rank[Id(items[j])]
                        \/ Id(items[i]) = Id(items[j]) /\ i < j
        place(i) == 1 + Cardinality({j \in DOMAIN items : Before(j, i)})
    IN  [n \in DOMAIN items |-> items[CHOOSE i \in DOMAIN items : place(i) = n]]

SamePart(part, one, other) ==
    IF part \in {"nodes", "lanes"}
    THEN Ordered(one[part].array) = Ordered(other[part].array)
    ELSE one[part] = other[part]

Parts == {"nodes", "lanes", "prepare", "environment", "requirements"}

\* The error of a read that fails is told like one of the blueprint.
Compare ==
    /\ at = "controller" /\ route = "compare"
    /\ \/ Answers(400, "Invalid blueprint")
       \/ IF current = {} THEN Answers(404, "No workflow with this name")
          ELSE LET stored == CHOOSE s \in current : TRUE
                   changed == {p \in Parts : ~SamePart(p, stored, spec)}
               IN  IF changed = {} THEN Answers(200, "No changes found")
                   ELSE /\ reply' = [code |-> 202, message |-> "Changes found",
                                     changed |-> changed]
                        /\ at' = "answered"
    /\ UNCHANGED <<request, saved>>

Next == CheckSchema \/ CheckConnections \/ CheckNodes \/ Save \/ ValidateBlueprint \/ Compare

Spec == Init /\ [][Next]_vars

-----------------------------------------------------------------------------
(* Properties *)

\* What is saved is closed: no two nodes and no two lanes share an id, every
\* node is in a lane of the blueprint, every node it goes on to is in the
\* blueprint, a Flow says where it goes by default, and only a node that is
\* no Flow may go nowhere, a Finish always.  No validator asks for all of this
\* (validators/workflow.js:13-160, schemas/nodes.js:28-51).
AcceptedIsClosed ==
    saved =>
        LET ids == {Field(node, "id") : node \in ToSet(nodes)}
        IN  /\ Cardinality(ids) = Len(nodes)
            /\ Cardinality({Field(lane, "id") : lane \in ToSet(lanes)}) = Len(lanes)
            /\ \A node \in ToSet(nodes) :
                  LET next == Field(node, "next")
                  IN  /\ \E lane \in ToSet(lanes) : Field(lane, "id") = Field(node, "lane_id")
                      /\ CASE Type(node) = "flow" ->
                                /\ Has(next, "default")
                                /\ \A k \in DOMAIN next.object : next.object[k] \in ids
                           [] Type(node) = "finish" -> Is("null", next)
                           [] OTHER -> Falsy(next) \/ next \in ids

\* Where the requests that bring the blueprints of the repository end.
Judgements == [
    accepted |-> {basicStartFinish, singleUserTask, timerProcess, notifyUserTask,
                  customNode, invalidWrongNode, pizza1_blueprint, pizza2_blueprint,
                  test_schemas_blueprint, test_subprocess_parent, test_subprocess_child},
    body |-> {scriptNode, invalidDuplicatedLane},
    connections |-> {invalidMissingNode, invalidMissingLane, invalidDuplicatedNode},
    node |-> {test_workflow_blueprint}]

\* The samples are refused for what their names say, but invalidWrongNode is
\* not: no type is unknown to the validators.  What the seeds write to the
\* database without them they would accept too, but for test_workflow, whose
\* ScriptTask has no args (tests/workflow.test.js:62-127,
\* db/seeds/seed-test-workflow.js:8-60, schemas/nodes.js:111-129).
SamplesAreJudged ==
    route = "save" /\ at = "answered" =>
        LET Brings(blueprints) == body \in {Workflow(b) : b \in blueprints}
        IN  /\ Brings(Judgements.body) => reply.message = "Invalid Request Body"
            /\ Brings(Judgements.connections) => reply.message = "Invalid Connections"
            /\ Brings(Judgements.node) => reply.message = "Invalid Node"
            /\ Brings(Judgements.accepted) => saved \/ reply.message \in {"Invalid blueprint", "Failed at"}

\* A comparison finds no changes in exactly the blueprints that are the stored
\* one up to the order of nodes and lanes, and tells the parts that differ;
\* what differs in parameters alone it does not see.  An id that occurs twice in
\* either may make a change of an order (compareBlueprints.js:12-54).
ComparisonIsExact ==
    route = "compare" /\ reply.code \in {200, 202} =>
        LET stored == CHOOSE s \in current : TRUE
            SameItems(part) == ToSet(stored[part].array) = ToSet(spec[part].array)
            Same(part) == IF part \in {"nodes", "lanes"} THEN SameItems(part)
                          ELSE stored[part] = spec[part]
            told == IF reply.code = 200 THEN {} ELSE reply.changed
        IN  /\ {p \in Parts : ~Same(p)} \subseteq told
            /\ \A p \in told : Same(p) =>
                  /\ p \in {"nodes", "lanes"}
                  /\ \E s \in {stored, spec} : ~IsInjective(Ids(s[p].array))
=============================================================================
