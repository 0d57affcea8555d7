--------------------------- MODULE SampleBlueprints ---------------------------
(***************************************************************************)
(* The blueprints the repository has: the samples its tests save through   *)
(* the routes (src/src/samples/workflows.js) and those its seeds write to  *)
(* the database directly (src/db/seeds/blueprints).  Names, rules of lanes *)
(* and values the validators do not look at are "any".                     *)
(***************************************************************************)
EXTENDS JsonSchema

Empty == Obj([k \in {} |-> k])

Whatever == Str("any")

\* rest: what a node has besides what all nodes have.
Node(id, type, next, lane, rest) ==
    Obj(Plus([id |-> Str(id), type |-> Str(type), name |-> Whatever, next |-> next,
              lane_id |-> Str(lane)], rest))

Parameters(fields) == [parameters |-> Obj(fields)]

Start == Node("1", "Start", Str("2"), "1", Parameters([input_schema |-> Empty]))

Finish(id) == Node(id, "Finish", Null, "1", [k \in {} |-> k])

UserTask(id, next, lane) ==
    Node(id, "UserTask", Str(next), lane, Parameters([action |-> Whatever, input |-> Empty]))

SystemTask(id, category, next, lane, fields) ==
    Node(id, "SystemTask", Str(next), lane,
         Plus([category |-> Str(category)], Parameters(fields)))

Setting(id, category, next) == SystemTask(id, category, next, "1", [input |-> Obj([any |-> Whatever])])

Lane(id) == Obj([id |-> Str(id), name |-> Whatever, rule |-> Arr(<<Whatever>>)])

SpecOf(nodes, lanes) ==
    [requirements |-> Arr(<<Str("core")>>), prepare |-> Arr(<<>>),
     nodes |-> Arr(nodes), lanes |-> Arr(lanes), environment |-> Empty]

Workflow(spec) ==
    Obj([name |-> Whatever, description |-> Whatever, blueprint_spec |-> Obj(spec)])

OneLane(nodes) == SpecOf(nodes, <<Lane("1")>>)

-----------------------------------------------------------------------------
(* samples/workflows.js *)

basicStartFinish == OneLane(<<Start, Finish("2")>>)

singleUserTask ==
    [OneLane(<<Start, UserTask("2", "3", "1"), Finish("3")>>) EXCEPT
        !.environment = Obj([KNEX_ENV |-> Str("KNEX_ENV")])]

timerProcess ==
    OneLane(<<Start,
              SystemTask("2", "timer", "3", "1", [input |-> Empty, timeout |-> Num(30)]),
              Finish("3")>>)

notifyUserTask ==
    [OneLane(<<Start,
               Node("2", "UserTask", Str("3"), "1",
                    Parameters([activity_manager |-> Str("notify"), action |-> Whatever,
                                input |-> Empty])),
               UserTask("3", "4", "1"),
               Finish("4")>>) EXCEPT !.requirements = Arr(<<>>)]

customNode ==
    OneLane(<<Start, SystemTask("2", "CustomTask", "3", "1", [input |-> Empty]),
              UserTask("3", "4", "1"), Finish("4")>>)

scriptNode ==
    [OneLane(<<Start,
               Node("2", "ScriptTask", Str("3"), "1",
                    Parameters([input |-> Empty,
                                script |-> Obj([function |-> Arr(<<Whatever>>)])])),
               UserTask("3", "4", "1"),
               Setting("4", "SetToBag", "5"),
               Finish("5")>>) EXCEPT
        !.requirements = Arr(<<Str("core"), Str("test_package")>>),
        !.prepare = Arr(<<Str("do"), Arr(<<Whatever>>), Null>>)]

invalidMissingNode == OneLane(<<Start, Finish("3")>>)

invalidMissingLane ==
    OneLane(<<Start,
              Node("2", "systemTask", Str("3"), "2",
                   [category |-> Str("setToBag"), parameters |-> Empty]),
              Finish("3")>>)

invalidWrongNode ==
    OneLane(<<Start,
              Node("2", "wrongNode", Str("3"), "1",
                   [category |-> Str("setToBag"), parameters |-> Empty]),
              Finish("3")>>)

Repeated ==
    Node("2", "systemTask", Str("3"), "1",
         [category |-> Str("setToBag"), parameters |-> Empty])

invalidDuplicatedNode == OneLane(<<Start, Repeated, Repeated, Finish("3")>>)

invalidDuplicatedLane ==
    SpecOf(<<Start, Repeated, Finish("3")>>, <<Lane("1"), Lane("1")>>)

-----------------------------------------------------------------------------
(* db/seeds/blueprints *)

pizza1_blueprint ==
    OneLane(<<Start,
              Setting("2", "setToBag", "3"),
              Setting("3", "setToBag", "4"),
              SystemTask("4", "Timer", "5", "1", [input |-> Empty, timeout |-> Num(5)]),
              Setting("5", "SetToBag", "6"),
              Setting("6", "setToBag", "7"),
              Finish("7")>>)

Order(id, verb, url, next, lane) ==
    SystemTask(id, "HTTP", next, lane,
        [input |-> Obj([status |-> Whatever]),
         request |-> Obj([url |-> url, verb |-> Str(verb), headers |-> Obj([any |-> Whatever])])])

Mustache == Obj([k \in {"$mustache"} |-> Whatever])

pizza2_order ==
    <<Start, UserTask("2", "3", "1"), Order("3", "POST", Whatever, "4", "1"),
      Setting("4", "SetToBag", "5"), UserTask("5", "6", "2"),
      Order("6", "PUT", Mustache, "7", "2")>>

pizza2_verdict ==
    <<UserTask("7", "8", "3"),
      Node("8", "Flow",
           Obj([yes |-> Str("10"), no |-> Str("9"), default |-> Str("10")]), "1",
           Parameters([input |-> Obj([ok |-> Whatever])])),
      Order("9", "PUT", Mustache, "9A", "2"), Order("10", "PUT", Mustache, "10A", "2"),
      Finish("9A"), Finish("10A")>>

pizza2_lanes == <<Lane("1"), Lane("2"), Lane("3")>>

pizza2_blueprint == SpecOf(pizza2_order \o pizza2_verdict, pizza2_lanes)

\* All nodes are in one lane.
Within(lane, nodes) ==
    SpecOf([i \in DOMAIN nodes |-> Obj([nodes[i].object EXCEPT !.lane_id = Str(lane)])],
           <<Lane(lane)>>)

test_schemas_blueprint ==
    Within("free",
        <<Start,
          Node("2", "userTask", Str("3"), "1",
               Parameters([action |-> Whatever, input |-> Empty,
                           activity_manager |-> Str("commit"),
                           activity_schema |->
                             Obj([type |-> Str("object"), properties |-> Empty,
                                  required |-> Arr(<<Str("qty"), Str("flavors")>>),
                                  additionalProperties |-> Bool(FALSE)])])),
          Order("3", "POST", Whatever, "4", "1"),
          Setting("4", "setToBag", "99"),
          Finish("99")>>)

test_subprocess_child ==
    Within("free",
        <<Start,
          SystemTask("2", "timer", "3", "1", [input |-> Empty, timeout |-> Num(15)]),
          Setting("3", "setToBag", "99"),
          Finish("99")>>)

test_subprocess_parent ==
    Within("free",
        <<Start,
          Setting("2", "setToBag", "3"),
          Node("3", "subProcess", Str("4"), "1",
               Parameters([input |-> Empty, workflow_name |-> Whatever,
                           valid_response |-> Whatever, actor_data |-> Empty])),
          Setting("4", "setToBag", "99"),
          Finish("99")>>)

test_workflow_blueprint ==
    OneLane(<<Start, UserTask("2", "3", "1"), Setting("3", "SetToBag", "4"),
              Node("4", "ScriptTask", Str("5"), "1",
                   Parameters([input |-> Empty,
                               script |-> Obj([package |-> Whatever, type |-> Whatever,
                                               function |-> Whatever])])),
              Setting("5", "SetToBag", "6"), Setting("6", "SetToBag", "7"),
              Node("7", "Flow", Obj([default |-> Str("2"), end |-> Str("8")]), "1",
                   Parameters([input |-> Empty])),
              Finish("8")>>)
=============================================================================
