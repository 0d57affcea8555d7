---------------------------- MODULE MCCustomNodes ----------------------------
(* Bounded inputs of CustomNodes. *)
EXTENDS CustomNodes

ASSUME SchemasAreSixDeep ==
    SixDeep({Execution[c] : c \in DOMAIN Execution} \cup {Schema[c] : c \in DOMAIN Schema})

MCIndex == <<"0", "1">>

MCLetters == "pq" :> <<"p", "q">>

MCDotted == "y.z" :> <<"y", "z">> @@ "k.a" :> <<"k", "a">> @@ "y.1" :> <<"y", "1">>

Lists(values) == {Arr(s) : s \in BoundedSeq(values, 2)}

One == Num(1)
Two == Num(2)

\* Items with and without the key, with an object for it, and with its path for a
\* name.
Compared == {With([k |-> k, v |-> v]) : k \in Optional({One, Obj([a |-> One])}),
                                         v \in {One, Two}}
            \cup {Obj([k |-> Obj([a |-> One, b |-> One])]), Obj([k |-> Two]),
                  Obj("k.a" :> One)}

Comparisons ==
    {With([base |-> b, candidate |-> c, commonKeys |-> keys, ignoreKeys |-> ignore]) :
        b, c \in Lists(Compared),
        keys \in {Arr(<<>>), Arr(<<Str("k")>>), Arr(<<Str("k.a")>>)},
        ignore \in Optional({Arr(<<Str("v")>>), Arr(<<Str("k.a")>>)})}
    \cup {Obj([base |-> Null, candidate |-> Arr(<<>>)])}

Entries == {Str("x"), Str("y.z"), Str(""), Str("none"), Null, One}

Inner == {Obj([c |-> e]) : e \in Entries} \cup {Arr(<<Str("x"), Str("y.1")>>)}

Innermost == {Obj([c |-> Obj([a |-> Str("x"), b |-> e])]) : e \in {Str("y.z"), Str("none"), Null}}

Dictionaries ==
    {With([a |-> a, b |-> b]) :
        a \in Optional(Entries), b \in Optional(Entries \cup Inner \cup Innermost)}

Holding(d) == {Fields(d)[k] : k \in {k \in DOMAIN Fields(d) : Nests(Fields(d)[k])}}

MCDepth ==
    [d \in Dictionaries \cup Inner \cup Innermost \cup UNION {Holding(d) : d \in Innermost} |->
        IF Holding(d) = {} THEN 0
        ELSE IF UNION {Holding(e) : e \in Holding(d)} = {} THEN 1 ELSE 2]

Remapped == {Obj([x |-> One, y |-> Obj([z |-> Two])]), Obj([x |-> Null]),
             Obj("y.z" :> Two), Obj([y |-> One]), Obj([y |-> Arr(<<One, Two>>)]),
             Obj([x |-> One, y |-> Str("pq")])}

Remappings ==
    {With([data |-> d, dictionary |-> e]) :
        d \in Lists(Remapped) \cup Optional({Null}), e \in Dictionaries}

Alternatives == {Obj([t |-> One]), Obj([u |-> One]), Null, Obj([t |-> Obj([w |-> One])]),
                 Arr(<<One>>), Str("pq")}

Classes == Lists(Alternatives) \cup {Str("")}

Filtered == {Obj([t |-> One, u |-> One]), Obj([t |-> Two, u |-> One]),
             Obj([t |-> Obj([w |-> One])]), Obj("0" :> One)}

Filters ==
    {Obj([data |-> d, primary_keys |-> With([c |-> c, unsorted |-> e])]) :
        d \in Lists(Filtered), c \in Classes, e \in Optional(Classes)}
    \cup {Obj([data |-> Arr(<<>>), primary_keys |-> Null])}

Text == {Str("text"), Obj([a |-> One])}

Calls ==
    {With([server |-> s, service |-> Str("text"), method |-> m, payload |-> p,
           useReflection |-> r]) :
        s, m, p \in Text \cup {Null}, r \in Optional({Bool(TRUE), Bool(FALSE)})}

Publications ==
    {With([message |-> m, event |-> e, topic |-> t]) :
        m \in Optional(Text), e, t \in Optional(Text)}

MCInputs ==
    [deepCompare |-> Comparisons, remapData |-> Remappings, filterData |-> Filters,
     grpc |-> Calls, kafkaPublish |-> Publications,
     createUuid |-> {With([type |-> t, options |-> With([version |-> v])]) :
                       t \in {Str("uuid"), Str("nanoid")},
                       v \in Optional({Str("v1"), Str("v4"), Str("v3")})},
     tokenize |-> {With([actor_id |-> a, claims |-> c]) :
                     a \in Optional({Str("actor"), Str(""), Null}),
                     c \in Optional({Arr(<<Str("claim")>>)})},
     validateSchema |-> {Obj([schema |-> Obj([type |-> Str("object")])])},
     createIndex |-> {Obj([entity_type |-> Str("any"), entity_id |-> Str("any")])},
     findProcess |-> {Obj([entity_id |-> Str("uuid-1")])},
     graphQl |-> {With([input |-> Obj([action |-> Str(a)]), request |-> r]) :
                    a \in {"query", "drop"}, r \in Optional({Obj([verb |-> Str("post")]), Null})},
     basicAuth |-> {Obj([any |-> One])}]
=============================================================================
