----------------------------- MODULE MCBlueprints -----------------------------
(* Bounded inputs of Blueprints. *)
EXTENDS Blueprints

ASSUME SchemasAreSixDeep ==
    SixDeep({workflowSchema} \cup {nodeSchema[t] : t \in DOMAIN nodeSchema}
              \cup {categorySchema[c] : c \in DOMAIN categorySchema})

MCLower ==
    [Start |-> "start", Finish |-> "finish", Flow |-> "flow", UserTask |-> "usertask",
     userTask |-> "usertask", SystemTask |-> "systemtask", systemTask |-> "systemtask",
     ScriptTask |-> "scripttask", SubProcess |-> "subprocess", subProcess |-> "subprocess",
     wrongNode |-> "wrongnode", CustomTask |-> "customtask", HTTP |-> "http",
     Timer |-> "timer", setToBag |-> "settobag", SetToBag |-> "settobag",
     startProcess |-> "startprocess", abortProcess |-> "abortprocess", Out |-> "out"]

MCCharacters == "23" :> {"2", "3"}

MCRank == ("1" :> 1) @@ ("10" :> 2) @@ ("2" :> 3) @@ ("3" :> 4)

Samples == UNION {Judgements[j] : j \in DOMAIN Judgements}

-----------------------------------------------------------------------------
(* Saves *)

Nexts == {Str("3"), Str("9"), Str(""), Str("23"), Null, Num(3), Empty,
          Obj([default |-> Str("3")]), Obj([yes |-> Str("3")]),
          Obj([default |-> Str("3"), yes |-> Str("9")]),
          Obj([default |-> Str("3"), yes |-> Str("1")]), Obj([default |-> Null])}

MiddleNodes ==
    {With([id |-> Str(id), name |-> Whatever, type |-> Str(type), lane_id |-> Str(lane),
           next |-> next, parameters |-> parameters]) :
        id \in {"1", "2"}, type \in {"Flow", "Finish", "wrongNode", "UserTask"},
        lane \in {"1", "2"}, next \in Nexts,
        parameters \in Optional({Empty, Obj([action |-> Whatever])})}

Tasks ==
    [UserTask |->
        {With([action |-> Whatever, activity_manager |-> m, channels |-> c,
               activity_schema |-> s]) :
            m \in Optional({Str("commit"), Str("other")}),
            c \in Optional({Arr(<<Whatever>>), Arr(<<Null>>)}),
            s \in Optional({Obj([type |-> Str("array")]),
                            Obj([additionalProperties |-> Bool(TRUE)])})},
     SubProcess |->
        {With([actor_data |-> a, workflow_name |-> w]) :
            a \in Optional({Empty}), w \in Optional({Whatever, Empty, Null})},
     ScriptTask |->
        {Obj([script |-> With([function |-> f, args |-> a])]) :
            f \in Optional({Whatever, Empty}), a \in Optional({Empty})}]

Categories ==
    [http |-> {Obj([request |-> With([url |-> u, verb |-> v, timeout |-> t])]) :
                 u \in Optional({Whatever, Empty}), v \in {Str("HEAD"), Str("head")},
                 t \in Optional({Num(1), Empty, Whatever})},
     timer |-> {With([input |-> i, timeout |-> t]) :
                 i \in Optional({Empty}), t \in Optional({Num(1), Empty, Whatever})},
     startProcess |-> {With([workflow_name |-> w, actor_data |-> a]) :
                         w \in Optional({Whatever, Empty, Num(1)}), a \in Optional({Empty})},
     abortProcess |-> {With([process_id |-> p]) :
                         p \in Optional({Str("uuid-1"), Whatever})},
     Out |-> {Empty}]

TaskNodes ==
    UNION {{Node("2", type, Str("3"), "1", [parameters |-> p]) : p \in Tasks[type]} :
             type \in DOMAIN Tasks}
    \cup UNION {{Node("2", "SystemTask", Str("3"), "1",
                      [parameters |-> p, category |-> Str(c)]) : p \in Categories[c]} :
                  c \in DOMAIN Categories}
    \cup {Node("2", "SystemTask", Str("3"), "1", [parameters |-> Empty])}

Triple(middle) == <<Start, middle, Finish("3")>>

Connections ==
    {OneLane(Triple(node)) : node \in MiddleNodes \cup TaskNodes}
    \cup {SpecOf(Triple(UserTask("2", "3", "1")), l) : l \in
            {<<Lane("2")>>, <<Lane("1"), Lane("2")>>, <<>>,
             <<Lane("1"), Obj([Lane("1").object EXCEPT !.name = Str("again")])>>}}

Extracting ==
    {OneLane(Triple(Node("2", "UserTask", Str("3"), "1",
                         [extract |-> x, parameters |-> Obj([action |-> Whatever])]))) :
        x \in {Str("out"), Str("Out"), Null, Bool(TRUE)}}

-----------------------------------------------------------------------------
(* Comparisons *)

Pool == {Start, UserTask("2", "3", "1"), Finish("10")}

Arrangements == SetToSeqs(Pool) \cup SetToSeqs((Pool \ {Start}) \cup {UserTask("1", "3", "1")})

Again == Obj([Lane("2").object EXCEPT !.name = Str("again")])

LaneLists == {<<Lane("1"), Lane("2")>>, <<Lane("2"), Lane("1")>>,
              <<Lane("2"), Again>>, <<Again, Lane("2")>>, <<Lane("2")>>}

Compared ==
    {[SpecOf(n, l) EXCEPT !.prepare = Arr(p), !.environment = e] @@ parameters :
        n \in Arrangements, l \in LaneLists, p \in {<<>>, <<Whatever>>},
        e \in {Empty, Obj([DB |-> Whatever])},
        parameters \in {[k \in {} |-> k], [parameters |-> Empty]}}

MCCurrent ==
    {{}} \cup {{SpecOf(n, l)} : n \in {<<Start, UserTask("2", "3", "1"), Finish("10")>>,
                                       <<Finish("10"), Start, UserTask("2", "3", "1")>>},
                                l \in {<<Lane("1"), Lane("2")>>, <<Lane("2")>>}}

MCBodies ==
    [save |-> {Workflow(s) : s \in Samples \cup Connections \cup Extracting},
     validate |-> {Workflow(s) : s \in Samples},
     compare |-> {Workflow(s) : s \in Compared}]
=============================================================================
