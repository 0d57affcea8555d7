----------------------------- MODULE CustomNodes -----------------------------
(***************************************************************************)
(* One run of a custom node by the engine: its own check of the prepared   *)
(* parameters, what it computes, and the servers it calls, any of which    *)
(* may fail.  The engine takes a result as the state of a running process, *)
(* whatever its status, and what is thrown as an error.                    *)
(***************************************************************************)
EXTENDS NodeData

CONSTANTS
    KafkaVariable,      \* the variable KAFKA of the server: "unset" or a text
    Inputs              \* bound: the prepared parameters of each category

\* As JSON has them, lists are sequences and objects have so many keys.
IsFinite(value) ==
    /\ IsArray(value) => value.array \in Seq(ToSet(value.array))
    /\ IsObject(value) => IsFiniteSet(DOMAIN value.object)

ASSUME InputsAssumption ==
    \A c \in DOMAIN Inputs : \A parameters \in Inputs[c] : IsObject(parameters) =>
        \A k \in DOMAIN parameters.object :
            LET value == parameters.object[k]
            IN  /\ IsFinite(value)
                /\ IsObject(value) => \A l \in DOMAIN value.object : IsFinite(value.object[l])

\* Bound: items are as deep as Pick and Matches look, and without lists, of
\* which _.matches would compare a part.
IsShallow(item) ==
    LET IsDeep(value) == IsObject(value) \/ IsArray(value)
    IN  \A k \in DOMAIN item.object :
            /\ ~IsArray(item.object[k])
            /\ IsObject(item.object[k]) =>
                  \A l \in DOMAIN item.object[k].object : ~IsDeep(item.object[k].object[l])

\* Bound: no key of a list is in a name with dots, of which _.pick would make a
\* list, and such names lead through no text.
PathsAreKeys(item, names) == \A name \in names \cap DOMAIN Dotted :
    /\ ToSet(Dotted[name]) \cap (ToSet(Index) \cup {"length"}) = {}
    /\ ~Is("string", Property(item, Dotted[name][1]))

ASSUME ItemsAssumption ==
    "deepCompare" \in DOMAIN Inputs =>
        \A parameters \in Inputs["deepCompare"] : Valid(deepCompareExecution, parameters) =>
            \A k \in {"base", "candidate"} :
                \A item \in ToSet(parameters.object[k].array) :
                    /\ IsShallow(item)
                    /\ PathsAreKeys(item, Names(parameters.object.commonKeys)
                                            \cup IgnoredIn(parameters.object))

ASSUME RemapAssumption ==
    "remapData" \in DOMAIN Inputs =>
        \A parameters \in Inputs["remapData"] : Valid(remapDataExecution, parameters) =>
            parameters.object.dictionary \in DOMAIN Depth

VARIABLES
    category,
    data,       \* the prepared parameters
    order,      \* the order of the keys of data.primary_keys, for filterData
    at,         \* the await of the run that is pending
    called,     \* the calls made
    failed,     \* has one of them failed?
    outcome

vars == <<category, data, order, at, called, failed, outcome>>

input == <<category, data, order>>

AlwaysRegistered ==
    {"createIndex", "findProcess", "tokenize", "validateSchema", "createUuid",
     "basicAuth", "remapData", "filterData", "deepCompare", "grpc", "graphQl"}

\* setCustomNodes: any text registers kafkaPublish, "false" as well.
Registered ==
    AlwaysRegistered \cup (IF KafkaVariable = "unset" THEN {} ELSE {"kafkaPublish"})

\* Only "true" makes the server connect to Kafka, and it may not have done so
\* yet: what the node may find in the client's variable.
KafkaClient == IF KafkaVariable = "true" THEN {"none", "set"} ELSE {"none"}

Running == [end |-> "running"]

Init ==
    /\ category \in Registered \cap DOMAIN Inputs
    /\ data \in Inputs[category]
    /\ order \in IF category = "filterData" /\ IsObject(Property(data, "primary_keys"))
                 THEN SetToSeqs(DOMAIN Property(data, "primary_keys").object)
                 ELSE {<<>>}
    /\ at = "prepared"
    /\ called = {}
    /\ failed = FALSE
    /\ outcome = Running

Starting(c) == category = c /\ at = "prepared"

Ends(result) ==
    /\ at' = "done"
    /\ outcome' = result
    /\ UNCHANGED input

Awaits(call) ==
    /\ at' = call
    /\ called' = called \cup {call}
    /\ UNCHANGED <<input, failed, outcome>>

-----------------------------------------------------------------------------
(* Nodes that call nothing *)

RunDeepCompare ==
    /\ Starting("deepCompare")
    /\ Ends(deepCompare(data))
    /\ UNCHANGED <<called, failed>>

RunRemapData ==
    /\ Starting("remapData")
    /\ Ends(remapData(data))
    /\ UNCHANGED <<called, failed>>

RunFilterData ==
    /\ Starting("filterData")
    /\ Ends(filterData(data, order))
    /\ UNCHANGED <<called, failed>>

\* The version of an uuid is looked up in a table of two functions.
RunCreateUuid ==
    /\ Starting("createUuid")
    /\ LET options == Property(data, "options")
           version == Property(options, "version")
       IN  Ends(IF Property(data, "type") = Str("nanoid") THEN Ran("none", Str("nanoid"))
                ELSE CASE version \in {Undefined, Null, Str("")} -> Ran("none", Str("v1"))
                       [] version \in {Str("v1"), Str("v4")} -> Ran("none", version)
                       [] OTHER -> Throws)
    /\ UNCHANGED <<called, failed>>

Falsy == {Undefined, Null, Str(""), Num(0), Bool(FALSE)}

\* What is missing of a session is made up, and the token's dates are set
\* (_run of tokenize, createJWTToken).
Tokenized(payload) ==
    LET made == [session_id |-> Str("random"), actor_id |-> Str("random"),
                 claims |-> Arr(<<>>)]
        dates == [iat |-> Num(0), exp |-> Num(1)]
        given == {k \in DOMAIN payload.object :
                    k \in DOMAIN made => payload.object[k] \notin Falsy}
    IN  Obj(Plus(dates, Plus(Restrict(payload.object, given), made)))

\* The signing of the token may throw.
RunTokenize ==
    /\ Starting("tokenize")
    /\ Ends(Throws) \/ Ends(Ran("none", Tokenized(data)))
    /\ UNCHANGED <<called, failed>>

\* ajv may refuse to compile the schema; data that is invalid is a result.
RunValidateSchema ==
    /\ Starting("validateSchema")
    /\ \E verdict \in BOOLEAN : Ends(Ran("none", Bool(verdict))) \/ Ends(Throws)
    /\ UNCHANGED <<called, failed>>

-----------------------------------------------------------------------------
(* Nodes that call another server *)

\* The definition is loaded, the service and the method looked up in it, and
\* the method is called; any of the first three may throw.
GrpcCalls ==
    \/ Awaits("call")
    \/ Ends(Throws) /\ failed' = TRUE /\ UNCHANGED called

\* _run of grpc up to its first await.
GrpcStarts ==
    /\ Starting("grpc")
    /\ IF ~Valid(grpcExecution, data) THEN Ends(Throws) /\ UNCHANGED <<called, failed>>
       ELSE IF Property(data, "useReflection") = Bool(TRUE) THEN Awaits("reflection")
       ELSE GrpcCalls

GrpcReflected == category = "grpc" /\ at = "reflection" /\ GrpcCalls

\* _run of graphQl, which knows two actions; building the query may throw.
GraphQlStarts ==
    /\ Starting("graphQl")
    /\ \/ /\ Property(Property(data, "input"), "action") \in {Str("query"), Str("mutation")}
          /\ Property(data, "request") \notin {Undefined, Null}
          /\ Awaits("call")
       \/ Ends(Throws) /\ UNCHANGED <<called, failed>>

\* run of createIndex, _run of findProcess and basicAuth, which check nothing.
CallStarts ==
    /\ at = "prepared"
    /\ category \in {"createIndex", "findProcess", "basicAuth"}
    /\ Awaits("call")

\* _run of kafkaPublish.  Without a client publishMessage returns undefined,
\* and the node goes on as if the message had been published.
KafkaPublishStarts ==
    /\ Starting("kafkaPublish")
    /\ IF ~Valid(kafkaPublishExecution, data)
       THEN Ends(Throws) /\ UNCHANGED <<called, failed>>
       ELSE \E client \in KafkaClient :
               IF client = "none"
               THEN Ends(Ran("none", Undefined)) /\ UNCHANGED <<called, failed>>
               ELSE Awaits("call")

\* The server answers.  graphQl takes any HTTP status for an answer.
CallReturns ==
    /\ at = "call"
    /\ \/ Ends(Ran("success", Str("answer"))) /\ failed' = failed
       \/ category = "graphQl" /\ Ends(Ran("http error", Str("answer"))) /\ failed' = TRUE
    /\ UNCHANGED called

\* Mutant of CallFails: createIndex goes on when the index is not written.
CallFailsSilently ==
    /\ at \in {"reflection", "call"}
    /\ Ends(IF category = "createIndex" THEN Ran("none", Undefined) ELSE Throws)
    /\ failed' = TRUE
    /\ UNCHANGED called

\* The call fails: createIndex makes an error state of it, the others throw.
CallFails ==
    /\ at \in {"reflection", "call"}
    /\ Ends(IF category = "createIndex" THEN [end |-> "error state"] ELSE Throws)
    /\ failed' = TRUE
    /\ UNCHANGED called

Next ==
    \/ RunDeepCompare \/ RunRemapData \/ RunFilterData
    \/ RunCreateUuid \/ RunTokenize \/ RunValidateSchema
    \/ GrpcStarts \/ GrpcReflected \/ GraphQlStarts
    \/ CallStarts \/ KafkaPublishStarts
    \/ CallReturns \/ CallFails

Spec == Init /\ [][Next]_vars

-----------------------------------------------------------------------------
(* Properties *)

Done(c) == category = c /\ at = "done"

Given(name) == data.object[name].array

\* Two items that differ in what is not ignored and agree in all of the keys.
Conflicting(items, keys, ignored) == \E i, j \in DOMAIN items :
    /\ Omit(items[i], ignored) # Omit(items[j], ignored)
    /\ Pick(Omit(items[i], ignored), keys) = Pick(Omit(items[j], ignored), keys)

\* deepCompare tells of every item of base once what became of it, and of
\* every item of candidate that none of them accounts for.  When all items
\* have the keys, as numbers in fields of their own, the four lists are those
\* of the two sets; and the comparison is refused only when one list is in
\* conflict with itself (deepCompareNode.js:119-219).
ComparePartition ==
    Done("deepCompare") /\ Valid(deepCompareExecution, data) =>
        LET keys == Names(data.object.commonKeys)
            ignored == IgnoredIn(data.object)
            Items(name) == {Omit(item, ignored) : item \in ToSet(Given(name))}
            base == Items("base")
            candidate == Items("candidate")
            Keys(items) == {Pick(item, keys) : item \in items}
            flat == \A item \in base \cup candidate : \A k \in keys :
                       Is("integer", Property(item, k))
            list(name) == outcome.data.object[name].array
        IN  IF \/ Conflicting(Given("base"), keys, ignored)
               \/ Conflicting(Given("candidate"), keys, ignored)
            THEN outcome.status = "error"
            ELSE /\ outcome.status = "none"
                 /\ Len(list("onlyAtBase")) + Len(list("unchanged"))
                      + Len(list("changed")) = Cardinality(base)
                 /\ Len(list("onlyAtCandidate")) =
                      Cardinality({c \in candidate : \A key \in Keys(base) : ~Matches(c, key)})
                 /\ flat =>
                      /\ ToSet(list("unchanged")) = Keys(base \cap candidate)
                      /\ ToSet(list("changed")) = (Keys(base) \cap Keys(candidate))
                                                    \ Keys(base \cap candidate)
                      /\ ToSet(list("onlyAtBase")) = Keys(base) \ Keys(candidate)
                      /\ ToSet(list("onlyAtCandidate")) = Keys(candidate) \ Keys(base)

\* The entry of an object or a list.
Held(value, key) ==
    IF Nests(value) /\ key \in DOMAIN Fields(value) THEN Fields(value)[key] ELSE Undefined

\* What is at a path of objects and lists, not of the letters of a text.
Place(value, path) ==
    LET reached[n \in 0..Len(path)] ==
          IF n = 0 THEN value ELSE Held(reached[n - 1], path[n])
    IN  reached[Len(path)]

\* The places in a dictionary, at any depth, that hold no object or list.
Leaves(dictionary) ==
    LET keys == UNION {DOMAIN Fields(d) : d \in DOMAIN Depth}
    IN  {path \in BoundedSeq(keys, Depth[dictionary] + 1) :
            /\ Place(dictionary, path) # Undefined
            /\ ~Nests(Place(dictionary, path))}

\* What the dictionary asks of the item for the place at path: the value at the
\* path that it names, and the empty name for itself.
Asked(item, dictionary, path) ==
    LET name == Place(dictionary, path)
    IN  IF name = Str("") THEN name
        ELSE IF Is("string", name) THEN Lookup(item, name.string)
        ELSE Undefined

\* remapData succeeds only if every item has what every place of the dictionary
\* names, and puts each such value at its place; it gives up the items only if
\* the first has nothing at all; and it throws on a null in the dictionary and
\* otherwise on nothing it was given (remapDataNode.js:74-126).
RemapAccounted ==
    Done("remapData") /\ Valid(remapDataExecution, data) =>
        LET items == Given("data")
            dictionary == data.object.dictionary
            complete == \A i \in DOMAIN items : \A path \in Leaves(dictionary) :
                           Asked(items[i], dictionary, path) # Undefined
        IN  IF items # <<>> /\ \E path \in Leaves(dictionary) : Place(dictionary, path) = Null
            THEN outcome = Throws
            ELSE /\ outcome.status = "success" <=> complete
                 /\ outcome.status = "error" =>
                      /\ outcome.data = Arr(<<>>)
                      /\ \A path \in Leaves(dictionary) :
                            Asked(items[1], dictionary, path) = Undefined
                 /\ outcome.status # "error" =>
                      \A i \in DOMAIN items : \A path \in Leaves(dictionary) :
                          Place(outcome.data.array[i], path) = Asked(items[i], dictionary, path)

\* How often x is in s.
Count(s, x) == Cardinality({i \in DOMAIN s : s[i] = x})

\* filterData puts every item in one list, as often as it is given: that of the
\* first class that asks for what the item has.  It throws only when an item gets
\* as far as a class that is no list, or an alternative that is null, both of
\* which its own check accepts (filterDataNode.js:60-111).
FilterPartition ==
    Done("filterData") /\ Valid(filterDataExecution, data) =>
        LET items == Given("data")
            classes == data.object.primary_keys.object
            Fits(item, c) ==
                IsArray(classes[c]) /\ \E i \in DOMAIN classes[c].array :
                    /\ Satisfies(item, classes[c].array[i])
                    /\ \A j \in 1..i : classes[c].array[j] # Null
            Breaks(item, c) ==
                \/ ~IsArray(classes[c])
                \/ Contains(classes[c].array, Null) /\ ~Fits(item, c)
            Stops(item) == \E i \in DOMAIN order :
                Breaks(item, order[i]) /\ \A j \in 1..i-1 : ~Fits(item, order[j])
            lists == outcome.data.object
        IN  IF \E item \in ToSet(items) : Stops(item) THEN outcome = Throws
            ELSE /\ \A item \in ToSet(items) : \E c \in DOMAIN lists :
                       /\ Count(lists[c].array, item) = Count(items, item)
                       /\ \A d \in DOMAIN lists \ {c} : item \notin ToSet(lists[d].array)
                 /\ \A c \in DOMAIN lists : ToSet(lists[c].array) \subseteq ToSet(items)
                 /\ \A i \in DOMAIN order : \A item \in ToSet(lists[order[i]].array) :
                       /\ Fits(item, order[i]) \/ order[i] = "unsorted"
                       /\ \A j \in 1..i-1 : ~Fits(item, order[j])

Execution == [deepCompare |-> deepCompareExecution, remapData |-> remapDataExecution,
              filterData |-> filterDataExecution, grpc |-> grpcExecution,
              kafkaPublish |-> kafkaPublishExecution]

Schema == [deepCompare |-> deepCompareSchema, remapData |-> remapDataSchema,
           filterData |-> filterDataSchema, grpc |-> grpcSchema,
           kafkaPublish |-> kafkaPublishSchema]

\* The node's own check of its parameters fails.
Refused == category \in DOMAIN Execution /\ ~Valid(Execution[category], data)

\* The first item has nothing of what a dictionary without others in it names.
NothingFound ==
    LET dictionary == data.object.dictionary
    IN  /\ Given("data") # <<>> /\ DOMAIN Fields(dictionary) # {}
        /\ \A k \in DOMAIN Fields(dictionary) :
              /\ ~Nests(Fields(dictionary)[k])
              /\ Asked(Given("data")[1], dictionary, <<k>>) = Undefined

InConflict(name) ==
    Conflicting(Given(name), Names(data.object.commonKeys), IgnoredIn(data.object))

\* The run cannot do what it is for.
Failing ==
    \/ Refused
    \/ failed
    \/ category = "deepCompare" /\ \E name \in {"base", "candidate"} : InConflict(name)
    \/ category = "remapData" /\ NothingFound

\* No server is called with parameters the node's own check refuses.  A failure
\* ends the run with an exception, but for createIndex, which makes an error
\* state of it, and for deepCompare, remapData (remapDataNode.js:122-135) and
\* graphQl, which tell it as the status of a process that goes on; and such a
\* status is told of failures only.  Kafka alone is an exception: without a
\* client its message is lost and the run goes on.
FailuresShow ==
    /\ Refused => called = {}
    /\ at = "done" /\ Failing =>
          \/ outcome.end = "throws"
          \/ outcome.end = "error state" /\ category = "createIndex"
          \/ outcome = Ran("error", Arr(<<>>)) /\ category \in {"deepCompare", "remapData"}
          \/ outcome = Ran("http error", Str("answer")) /\ category = "graphQl"
    /\ outcome.end = "data" /\ outcome.status \in {"error", "http error"} => Failing
    /\ outcome = Ran("none", Undefined) => category = "kafkaPublish" /\ called = {}

\* A node of a blueprint whose parameters are given as they are.
NodeOf(parameters) ==
    Obj(Plus([k \in DOMAIN NodeFields |-> Str("any")],
             [parameters |-> Obj([input |-> parameters])]))

\* Whatever a node accepts when it runs can be saved, as it is, in a blueprint:
\* the two schemas of each node were written apart from each other.
RunnableIsSavable ==
    category \in DOMAIN Execution /\ Valid(Execution[category], data) =>
        Valid(Schema[category], NodeOf(data))
=============================================================================
