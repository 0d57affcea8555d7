-------------------------- MODULE BlueprintsProofs --------------------------
(***************************************************************************)
(* What is proved of the blueprints: that what is saved is closed, and     *)
(* that a comparison tells the parts that differ.                          *)
(***************************************************************************)
EXTENDS Blueprints, FunctionTheorems, FiniteSetTheorems, TLAPS

-----------------------------------------------------------------------------
(* The blueprint of a request stays what it is *)

\* No step changes the request or the blueprint in it.
LEMMA RequestIsKept ==
    ASSUME [Next]_vars
    PROVE  /\ route' = route /\ body' = body /\ current' = current
           /\ spec' = spec /\ nodes' = nodes /\ lanes' = lanes
<1>1. UNCHANGED request
  BY DEF Next, vars, request, CheckSchema, CheckConnections, CheckNodes, Save,
         ValidateBlueprint, Compare
<1>2. body' = body
  BY <1>1 DEF request
<1>3. spec' = spec
  BY <1>2 DEF spec
<1> QED
  BY <1>1, <1>3 DEF request, nodes, lanes

-----------------------------------------------------------------------------
(* Schemas *)

\* What a schema of an object asks for, at the levels the schema of a
\* workflow uses.
LEMMA ObjectAsks ==
    ASSUME NEW s, {"type", "required", "properties"} \subseteq DOMAIN s, s.type = {"object"},
           NEW v
    PROVE  LET Asks(Sub(_, _)) ==
                   /\ IsObject(v) /\ s.required \subseteq DOMAIN v.object
                   /\ \A k \in DOMAIN v.object \cap DOMAIN s.properties :
                         Sub(s.properties[k], v.object[k])
           IN  /\ Valid(s, v) => Asks(Valid5)
               /\ Valid5(s, v) => Asks(Valid4)
               /\ Valid3(s, v) => Asks(Valid2)
<1>1. TypeHolds(s, v) => IsObject(v)
  BY DEF TypeHolds, IsObject
<1> USE <1>1 DEF Holds, HasKeyword, ObjectHolds
<1>2. Valid(s, v) =>
        /\ IsObject(v) /\ s.required \subseteq DOMAIN v.object
        /\ \A k \in DOMAIN v.object \cap DOMAIN s.properties :
              Valid5(s.properties[k], v.object[k])
  BY DEF Valid
<1>3. Valid5(s, v) =>
        /\ IsObject(v) /\ s.required \subseteq DOMAIN v.object
        /\ \A k \in DOMAIN v.object \cap DOMAIN s.properties :
              Valid4(s.properties[k], v.object[k])
  BY DEF Valid5
<1>4. Valid3(s, v) =>
        /\ IsObject(v) /\ s.required \subseteq DOMAIN v.object
        /\ \A k \in DOMAIN v.object \cap DOMAIN s.properties :
              Valid2(s.properties[k], v.object[k])
  BY DEF Valid3
<1> QED
  BY <1>2, <1>3, <1>4

\* What a schema of a list asks for.
LEMMA ArrayAsks ==
    ASSUME NEW s, {"type", "items"} \subseteq DOMAIN s, s.type = {"array"},
           NEW v, Valid4(s, v)
    PROVE  IsArray(v) /\ \A i \in DOMAIN v.array : Valid3(s.items, v.array[i])
<1>1. TypeHolds(s, v) => IsArray(v)
  BY DEF TypeHolds, IsArray
<1> QED
  BY <1>1 DEF Valid4, Holds, HasKeyword, ArrayHolds

\* What a schema that is a type asks for.
LEMMA TypeAsks ==
    ASSUME NEW type, type # "number", NEW v, Valid5(Typed(type), v)
    PROVE  Is(type, v)
<1> DEFINE s == Typed(type)
<1>1. DOMAIN s = {"type"} /\ s.type = {type}
  BY DEF Typed, AnyOfTypes
<1> HIDE DEF s
<1>2. TypeHolds(s, v)
  BY <1>1 DEF s, Valid5, Holds, HasKeyword
<1> QED
  BY <1>1, <1>2 DEF TypeHolds

\* Every node of an accepted body says which is next.
LEMMA NodesGoOn ==
    ASSUME Valid(workflowSchema, body)
    PROVE  \A node \in ToSet(nodes) : "next" \in DOMAIN node.object
<1> DEFINE props == [workflow_id |-> Uuid, name |-> AnyString, description |-> AnyString,
                     blueprint_spec |-> SpecSchema]
           parts == [requirements |-> Unique(ArrayOf(AnyString)),
                     prepare |-> Unique(ArrayOf(AnyString)),
                     environment |-> AnyObject, parameters |-> AnyObject,
                     lanes |-> Plus(Unique(ArrayOf(LaneSchema)), [minItems |-> 1]),
                     nodes |-> Plus(ArrayOf(BlueprintNodeSchema), [minItems |-> 2])]
<1>1. /\ {"type", "required", "properties"} \subseteq DOMAIN workflowSchema
      /\ workflowSchema.type = {"object"}
      /\ "blueprint_spec" \in workflowSchema.required
      /\ "blueprint_spec" \in DOMAIN workflowSchema.properties
      /\ workflowSchema.properties["blueprint_spec"] = SpecSchema
  <2>1. workflowSchema = Plus(ObjectWith({"name", "description", "blueprint_spec"}, props),
                              [additional |-> FALSE])
    BY DEF workflowSchema, Closed
  <2>2. "blueprint_spec" \in DOMAIN props /\ props["blueprint_spec"] = SpecSchema
    OBVIOUS
  <2> HIDE DEF props
  <2> QED
    BY <2>1, <2>2 DEF Plus, ObjectWith
<1>2. "blueprint_spec" \in DOMAIN body.object /\ Valid5(SpecSchema, body.object.blueprint_spec)
  BY <1>1, ObjectAsks
<1>3. /\ {"type", "required", "properties"} \subseteq DOMAIN SpecSchema
      /\ SpecSchema.type = {"object"}
      /\ "nodes" \in SpecSchema.required
      /\ "nodes" \in DOMAIN SpecSchema.properties
      /\ SpecSchema.properties["nodes"] =
           Plus(ArrayOf(BlueprintNodeSchema), [minItems |-> 2])
  <2>1. SpecSchema = Plus(ObjectWith({"requirements", "prepare", "environment", "lanes",
                                      "nodes"}, parts), [additional |-> FALSE])
    BY DEF SpecSchema, Closed
  <2>2. /\ "nodes" \in DOMAIN parts
        /\ parts["nodes"] = Plus(ArrayOf(BlueprintNodeSchema), [minItems |-> 2])
    OBVIOUS
  <2> HIDE DEF parts
  <2> QED
    BY <2>1, <2>2 DEF Plus, ObjectWith
<1>4. Valid4(Plus(ArrayOf(BlueprintNodeSchema), [minItems |-> 2]), spec.nodes)
  BY <1>2, <1>3, ObjectAsks DEF spec
<1>5. \A i \in DOMAIN nodes : Valid3(BlueprintNodeSchema, nodes[i])
  <2> DEFINE s == Plus(ArrayOf(BlueprintNodeSchema), [minItems |-> 2])
  <2>1. /\ {"type", "items"} \subseteq DOMAIN s /\ s.type = {"array"}
        /\ s.items = BlueprintNodeSchema
    BY DEF Plus, ArrayOf
  <2> HIDE DEF s
  <2> QED
    BY <1>4, <2>1, ArrayAsks DEF s, nodes
<1>6. /\ {"type", "required", "properties"} \subseteq DOMAIN BlueprintNodeSchema
      /\ BlueprintNodeSchema.type = {"object"}
      /\ "next" \in BlueprintNodeSchema.required
  BY DEF BlueprintNodeSchema, ObjectWith
<1>7. \A i \in DOMAIN nodes : "next" \in DOMAIN nodes[i].object
  BY <1>5, <1>6, ObjectAsks
<1> QED
  BY <1>7 DEF ToSet

-----------------------------------------------------------------------------
(* What is saved is closed *)

\* How far a save has come in the validators.
HasBody == at \in {"connections", "nodes", "controller"} \/ saved
HasConnections == at = "nodes" \/ (at = "controller" /\ route = "save") \/ saved
HasNodes == (at = "controller" /\ route = "save") \/ saved

\* What the validators have asked of the body so far.
AcceptedInv ==
    /\ saved => at = "answered" /\ route = "save"
    /\ at \in {"connections", "nodes"} => route = "save"
    /\ route \in Routes /\ body \in Bodies[route]
    /\ HasBody => Valid(workflowSchema, body)
    /\ HasConnections => (\A node \in ToSet(nodes) : Connected(node)) /\ IsInjective(Ids(lanes))
    /\ HasNodes => \A node \in ToSet(nodes) : TypeIsValid(node)

\* No step breaks AcceptedInv.
LEMMA AcceptedInvInductive == AcceptedInv /\ [Next]_vars => AcceptedInv'
<1> SUFFICES ASSUME AcceptedInv, [Next]_vars
             PROVE  AcceptedInv'
  OBVIOUS
<1> DEFINE connected == (\A node \in ToSet(nodes) : Connected(node)) /\ IsInjective(Ids(lanes))
           valid == Valid(workflowSchema, body)
           typed == \A node \in ToSet(nodes) : TypeIsValid(node)
<1>1. /\ connected' = connected /\ valid' = valid /\ typed' = typed
      /\ route' = route /\ body' = body
  BY RequestIsKept DEF Connected, NextIsKnown, TypeIsValid
<1> DEFINE ok == /\ saved => at = "answered" /\ route = "save"
                 /\ at \in {"connections", "nodes"} => route = "save"
                 /\ route \in Routes /\ body \in Bodies[route]
                 /\ HasBody => valid
                 /\ HasConnections => connected
                 /\ HasNodes => typed
<1>2. ok /\ (ok' => AcceptedInv')
  BY DEF AcceptedInv
<1> HIDE DEF connected, valid, typed
<1> SUFFICES ok'
  BY <1>2
<1> USE <1>1, <1>2 DEF HasBody, HasConnections, HasNodes, Answers, Proceeds, Routes
<1>3. CASE CheckSchema
  BY <1>3 DEF CheckSchema, valid
<1>4. CASE CheckConnections
  BY <1>4 DEF CheckConnections, connected
<1>5. CASE CheckNodes
  BY <1>5 DEF CheckNodes, typed
<1>6. CASE Save
  BY <1>6 DEF Save
<1>7. CASE ValidateBlueprint \/ Compare
  <2>1. at = "controller" /\ route # "save" /\ at' = "answered" /\ saved' = saved
    BY <1>7 DEF ValidateBlueprint, Compare
  <2> QED
    BY <2>1
<1>8. CASE UNCHANGED vars
  BY <1>8 DEF vars
<1> QED
  BY <1>3, <1>4, <1>5, <1>6, <1>7, <1>8 DEF Next

\* Where a node may go on to.
Leads(node) ==
    LET ids == {Field(other, "id") : other \in ToSet(nodes)}
        next == Field(node, "next")
    IN  CASE Type(node) = "flow" ->
               /\ Has(next, "default")
               /\ \A k \in DOMAIN next.object : next.object[k] \in ids
          [] Type(node) = "finish" -> Is("null", next)
          [] OTHER -> Falsy(next) \/ next \in ids

\* The schemas of a Flow and of a Finish, and validateConnections, say where a
\* node goes on to.
LEMMA NodeLeads ==
    ASSUME NEW node, "next" \in DOMAIN node.object, NextIsKnown(node), TypeIsValid(node)
    PROVE  Leads(node)
<1> DEFINE next == Field(node, "next")
           ids == {Field(other, "id") : other \in ToSet(nodes)}
           flowNext == Plus(ObjectWith({"default"}, [default |-> AnyString]),
                            [additionalSchema |-> AnyString])
<1>1. next = node.object["next"]
  BY DEF Field
<1>2. CASE Type(node) = "flow"
  <2>1. Valid(FlowNode, node)
    BY <1>2 DEF TypeIsValid, nodeSchema
  <2>2. /\ {"type", "required", "properties"} \subseteq DOMAIN FlowNode
        /\ FlowNode.type = {"object"}
        /\ "next" \in DOMAIN FlowNode.properties
        /\ FlowNode.properties["next"] = flowNext
    <3> HIDE DEF flowNext
    <3> QED
      BY DEF FlowNode, ObjectWith, flowNext
  <2>3. /\ {"type", "required", "properties"} \subseteq DOMAIN flowNext
        /\ flowNext.type = {"object"} /\ flowNext.required = {"default"}
    BY DEF Plus, ObjectWith
  <2> HIDE DEF flowNext, next
  <2>4. Valid5(flowNext, next)
    BY <1>1, <2>1, <2>2, ObjectAsks
  <2>5. IsObject(next) /\ "default" \in DOMAIN next.object
    BY <2>3, <2>4, ObjectAsks
  <2>6. \A k \in DOMAIN next.object : next.object[k] \in ids
    BY <1>2, <2>5 DEF NextIsKnown, Values, next
  <2> QED
    BY <1>2, <2>5, <2>6 DEF Leads, Has, next
<1>3. CASE Type(node) = "finish"
  <2>1. Valid(FinishNode, node)
    BY <1>3 DEF TypeIsValid, nodeSchema
  <2>2. /\ {"type", "required", "properties"} \subseteq DOMAIN FinishNode
        /\ FinishNode.type = {"object"}
        /\ "next" \in DOMAIN FinishNode.properties
        /\ FinishNode.properties["next"] = Typed("null")
    BY DEF FinishNode, Property, ObjectWith
  <2>3. Is("null", next)
    BY <1>1, <2>1, <2>2, ObjectAsks, TypeAsks
  <2> QED
    BY <1>3, <2>3 DEF Leads
<1>4. CASE Type(node) # "flow" /\ Type(node) # "finish"
  BY <1>4 DEF NextIsKnown, Leads
<1> QED
  BY <1>2, <1>3, <1>4

\* A list whose ids are all different has as many ids as items.
LEMMA IdsAreMany ==
    ASSUME NEW items, NEW n \in Nat, DOMAIN items = 1..n, Len(items) = n, IsInjective(Ids(items))
    PROVE  Cardinality({Field(item, "id") : item \in ToSet(items)}) = Len(items)
<1> DEFINE ids == {Field(item, "id") : item \in ToSet(items)}
           f == [i \in 1..n |-> Field(items[i], "id")]
<1>1. ids = {Field(items[i], "id") : i \in 1..n}
  BY DEF ToSet
<1>2. \A i, j \in 1..n : Field(items[i], "id") = Field(items[j], "id") => i = j
  BY DEF IsInjective, Ids, Id
<1>3. f \in Bijection(1..n, ids)
  <2>1. f \in [1..n -> ids]
    BY <1>1
  <2>2. \A i, j \in 1..n : f[i] = f[j] => i = j
    BY <1>2
  <2>3. \A x \in ids : \E i \in 1..n : f[i] = x
    BY <1>1
  <2> HIDE DEF f, ids
  <2> QED
    BY <2>1, <2>2, <2>3, Fun_IsBij
<1>4. IsFiniteSet(1..n) /\ Cardinality(1..n) = n
  BY FS_Interval
<1> HIDE DEF f, ids
<1>5. Cardinality(1..n) = Cardinality(ids)
  <2>1. ExistsBijection(1..n, ids)
    BY <1>3 DEF ExistsBijection
  <2> QED
    BY <1>4, <2>1, FS_Bijection
<1> QED
  BY <1>4, <1>5 DEF ids

\* Nodes that are connected have an id of their own.
LEMMA ConnectedAreDifferent ==
    ASSUME NEW n \in Nat, DOMAIN nodes = 1..n,
           \A node \in ToSet(nodes) : Connected(node)
    PROVE  IsInjective(Ids(nodes))
<1> SUFFICES ASSUME NEW i \in DOMAIN nodes, NEW j \in DOMAIN nodes, Id(nodes[i]) = Id(nodes[j])
             PROVE  i = j
  BY DEF IsInjective, Ids
<1> DEFINE same == {k \in DOMAIN nodes : Id(nodes[k]) = Id(nodes[i])}
<1>1. Cardinality(same) = 1
  BY DEF Connected, ToSet
<1>2. IsFiniteSet(same)
  <2>1. IsFiniteSet(1..n) /\ same \in SUBSET (1..n)
    BY FS_Interval
  <2> QED
    BY <2>1, FS_Subset
<1>3. i \in same /\ j \in same
  OBVIOUS
<1> HIDE DEF same
<1>4. PICK k : same = {k}
  BY <1>1, <1>2, FS_Singleton
<1> QED
  BY <1>3, <1>4

LEMMA AcceptedIsClosedHolds == AcceptedInv => AcceptedIsClosed
<1> SUFFICES ASSUME AcceptedInv, saved
             PROVE  AcceptedIsClosed
  BY DEF AcceptedIsClosed
<1>1. /\ Valid(workflowSchema, body) /\ body \in Bodies[route] /\ route \in Routes
      /\ \A node \in ToSet(nodes) : Connected(node) /\ TypeIsValid(node)
      /\ IsInjective(Ids(lanes))
  BY DEF AcceptedInv, HasBody, HasConnections, HasNodes
<1>2. nodes \in Seq(ToSet(nodes)) /\ lanes \in Seq(ToSet(lanes))
  BY <1>1, ListsAssumption DEF IsListed, nodes, lanes, spec
<1>3. /\ Len(nodes) \in Nat /\ DOMAIN nodes = 1..Len(nodes)
      /\ Len(lanes) \in Nat /\ DOMAIN lanes = 1..Len(lanes)
  BY <1>2
<1>4. Cardinality({Field(node, "id") : node \in ToSet(nodes)}) = Len(nodes)
  BY <1>1, <1>3, ConnectedAreDifferent, IdsAreMany
<1>5. Cardinality({Field(lane, "id") : lane \in ToSet(lanes)}) = Len(lanes)
  BY <1>1, <1>3, IdsAreMany
<1>6. ASSUME NEW node \in ToSet(nodes)
      PROVE  /\ \E lane \in ToSet(lanes) : Field(lane, "id") = Field(node, "lane_id")
             /\ Leads(node)
  <2>1. Connected(node) /\ TypeIsValid(node) /\ "next" \in DOMAIN node.object
    BY <1>1, NodesGoOn
  <2>2. Leads(node)
    BY <2>1, NodeLeads DEF Connected
  <2> QED
    BY <2>1, <2>2 DEF Connected
<1> QED
  BY <1>4, <1>5, <1>6 DEF AcceptedIsClosed, Leads

(***************************************************************************)
(* Whatever bodies are sent, what is saved is closed: no two nodes and no  *)
(* two lanes share an id, and every lane and next node that is named is in *)
(* the blueprint (AcceptedIsClosed).                                       *)
(***************************************************************************)
THEOREM SavedIsClosed == Spec => []AcceptedIsClosed
<1>1. Init => AcceptedInv
  BY DEF Init, AcceptedInv, HasBody, HasConnections, HasNodes
<1> QED
  BY <1>1, AcceptedInvInductive, AcceptedIsClosedHolds, PTL DEF Spec

-----------------------------------------------------------------------------
(* A comparison tells the parts that differ *)

\* The order of Ordered, and how many items it puts before one.
Before(items, i, j) ==
    \/ Rank[Id(items[i])] > Rank[Id(items[j])]
    \/ Id(items[i]) = Id(items[j]) /\ i < j

Preceding(items, i) == {j \in DOMAIN items : Before(items, j, i)}

\* A list whose ids have their places.
Ranked(items, n) ==
    /\ DOMAIN items = 1..n
    /\ \A i \in 1..n : Id(items[i]) \in DOMAIN Rank

\* Of two places of a list one is before the other.
LEMMA BeforeIsTotal ==
    ASSUME NEW items, NEW n \in Nat, Ranked(items, n),
           NEW i \in 1..n, NEW j \in 1..n, NEW k \in 1..n
    PROVE  /\ ~Before(items, i, i)
           /\ i # j => Before(items, i, j) \/ Before(items, j, i)
           /\ Before(items, k, i) /\ Before(items, i, j) => Before(items, k, j)
<1>1. \A l \in 1..n : Rank[Id(items[l])] \in Nat
  BY RankAssumption DEF Ranked
<1>2. \A l, m \in 1..n : Rank[Id(items[l])] = Rank[Id(items[m])] => Id(items[l]) = Id(items[m])
  BY RankAssumption DEF Ranked, IsInjective
<1> QED
  BY <1>1, <1>2 DEF Before

\* Every item has its place in the order, and every place its item.
LEMMA PlacesAreTaken ==
    ASSUME NEW items, NEW n \in Nat, Ranked(items, n)
    PROVE  /\ \A i \in 1..n : 1 + Cardinality(Preceding(items, i)) \in 1..n
           /\ \A i, j \in 1..n : Cardinality(Preceding(items, i))
                                   = Cardinality(Preceding(items, j)) => i = j
           /\ \A p \in 1..n : \E i \in 1..n : 1 + Cardinality(Preceding(items, i)) = p
<1> DEFINE place == [i \in 1..n |-> 1 + Cardinality(Preceding(items, i))]
<1>1. IsFiniteSet(1..n) /\ Cardinality(1..n) = n
  BY FS_Interval
<1>2. \A i \in 1..n : Preceding(items, i) \in SUBSET (1..n) /\ i \notin Preceding(items, i)
  BY BeforeIsTotal DEF Preceding, Ranked
<1>3. ASSUME NEW i \in 1..n
      PROVE  /\ IsFiniteSet(Preceding(items, i)) /\ Cardinality(Preceding(items, i)) \in Nat
             /\ 1 + Cardinality(Preceding(items, i)) \in 1..n
  <2>1. IsFiniteSet(Preceding(items, i)) /\ Cardinality(Preceding(items, i)) <= n
    BY <1>1, <1>2, FS_Subset
  <2>2. Cardinality(Preceding(items, i)) \in Nat
    BY <2>1, FS_CardinalityType
  <2>3. Cardinality(Preceding(items, i)) # n
    BY <1>1, <1>2, FS_Subset
  <2> QED
    BY <2>1, <2>2, <2>3
<1>4. ASSUME NEW i \in 1..n, NEW j \in 1..n, Before(items, i, j)
      PROVE  Cardinality(Preceding(items, i)) # Cardinality(Preceding(items, j))
  <2>1. Preceding(items, i) \in SUBSET Preceding(items, j)
    BY <1>4, BeforeIsTotal DEF Preceding, Ranked
  <2>2. i \in Preceding(items, j) /\ i \notin Preceding(items, i)
    BY <1>2, <1>4 DEF Preceding, Ranked
  <2> QED
    BY <1>3, <2>1, <2>2, FS_Subset
<1>5. \A i, j \in 1..n : Cardinality(Preceding(items, i)) = Cardinality(Preceding(items, j))
        => i = j
  BY <1>4, BeforeIsTotal
<1>6. place \in [1..n -> 1..n]
  BY <1>3
<1>7. \A i, j \in 1..n : place[i] = place[j] => i = j
  BY <1>3, <1>5
<1>8. place \in Surjection(1..n, 1..n)
  <2> HIDE DEF place
  <2>1. place \in Injection(1..n, 1..n)
    BY <1>6, <1>7, Fun_IsInj
  <2> QED
    BY <1>1, <2>1, FS_Injection
<1>9. \A p \in 1..n : \E i \in 1..n : place[i] = p
  <2> HIDE DEF place
  <2> QED
    BY <1>8 DEF Surjection
<1> QED
  BY <1>3, <1>5, <1>9

(***************************************************************************)
(* Ordered rearranges a list: at each place is the item that has as many   *)
(* before it.                                                              *)
(***************************************************************************)
LEMMA OrderedPlaces ==
    ASSUME NEW items, NEW n \in Nat, Ranked(items, n)
    PROVE  /\ DOMAIN Ordered(items) = 1..n
           /\ \A p \in 1..n : \E i \in 1..n :
                 /\ Ordered(items)[p] = items[i]
                 /\ 1 + Cardinality(Preceding(items, i)) = p
           /\ ToSet(Ordered(items)) = ToSet(items)
<1> DEFINE nth(p) == CHOOSE i \in DOMAIN items : 1 + Cardinality(Preceding(items, i)) = p
<1>1. Ordered(items) = [p \in DOMAIN items |-> items[nth(p)]]
  BY DEF Ordered, Preceding, Before
<1>2. DOMAIN items = 1..n
  BY DEF Ranked
<1>3. ASSUME NEW p \in 1..n
      PROVE  nth(p) \in 1..n /\ 1 + Cardinality(Preceding(items, nth(p))) = p
  BY <1>2, PlacesAreTaken
<1>4. ASSUME NEW i \in 1..n
      PROVE  \E p \in 1..n : nth(p) = i
  <2> DEFINE p == 1 + Cardinality(Preceding(items, i))
  <2>1. p \in 1..n
    BY PlacesAreTaken
  <2>2. nth(p) \in 1..n /\ 1 + Cardinality(Preceding(items, nth(p))) = p
    BY <2>1, <1>3
  <2>3. Cardinality(Preceding(items, nth(p))) = Cardinality(Preceding(items, i))
    <3>1. \A j \in 1..n : Cardinality(Preceding(items, j)) \in Nat
      <4>1. IsFiniteSet(1..n)
        BY FS_Interval
      <4>2. \A j \in 1..n : Preceding(items, j) \in SUBSET (1..n)
        BY <1>2 DEF Preceding
      <4> QED
        BY <4>1, <4>2, FS_Subset, FS_CardinalityType
    <3> QED
      BY <2>2, <3>1
  <2>4. nth(p) = i
    BY <2>2, <2>3, PlacesAreTaken
  <2> QED
    BY <2>1, <2>4
<1> HIDE DEF nth
<1>5. ToSet(Ordered(items)) = ToSet(items)
  BY <1>1, <1>2, <1>3, <1>4 DEF ToSet
<1> QED
  BY <1>1, <1>2, <1>3, <1>5

\* The items of a set that come before one, when no id is there twice.
Above(S, item) == {x \in S : Rank[Id(x)] > Rank[Id(item)]}

\* How many items are before one depends on the set alone.
LEMMA PrecedingIsAbove ==
    ASSUME NEW items, NEW n \in Nat, Ranked(items, n), IsInjective(Ids(items)), NEW i \in 1..n
    PROVE  Cardinality(Preceding(items, i)) = Cardinality(Above(ToSet(items), items[i]))
<1> DEFINE P == Preceding(items, i)
           A == Above(ToSet(items), items[i])
           f == [j \in P |-> items[j]]
<1>1. DOMAIN items = 1..n
  BY DEF Ranked
<1>2. \A j, k \in 1..n : Id(items[j]) = Id(items[k]) => j = k
  BY <1>1 DEF IsInjective, Ids
<1>3. P = {j \in 1..n : Rank[Id(items[j])] > Rank[Id(items[i])]}
  BY <1>1, <1>2 DEF Preceding, Before
<1>4. A = {items[j] : j \in P}
  BY <1>1, <1>3 DEF Above, ToSet
<1>5. \A j, k \in P : items[j] = items[k] => j = k
  BY <1>2, <1>3
<1>6. P \in SUBSET (1..n)
  BY <1>3
<1> HIDE DEF P, A
<1>7. f \in Bijection(P, A)
  <2>1. f \in [P -> A]
    BY <1>4
  <2>2. \A j, k \in P : f[j] = f[k] => j = k
    BY <1>5
  <2>3. \A x \in A : \E j \in P : f[j] = x
    BY <1>4
  <2> HIDE DEF f
  <2> QED
    BY <2>1, <2>2, <2>3, Fun_IsBij
<1>8. IsFiniteSet(P)
  <2>1. IsFiniteSet(1..n)
    BY FS_Interval
  <2> QED
    BY <1>6, <2>1, FS_Subset
<1> HIDE DEF f
<1>9. ExistsBijection(P, A)
  BY <1>7 DEF ExistsBijection
<1>10. Cardinality(A) = Cardinality(P)
  BY <1>8, <1>9, FS_Bijection
<1> QED
  BY <1>10 DEF P, A

(***************************************************************************)
(* Lists of the same items, none with the id of another, are ordered       *)
(* alike.                                                                  *)
(***************************************************************************)
LEMMA OrderedAlike ==
    ASSUME NEW one, NEW n \in Nat, Ranked(one, n), IsInjective(Ids(one)), Len(one) = n,
           NEW other, NEW m \in Nat, Ranked(other, m), IsInjective(Ids(other)), Len(other) = m,
           ToSet(one) = ToSet(other)
    PROVE  Ordered(one) = Ordered(other)
<1> DEFINE S == ToSet(one)
           ids == {Field(item, "id") : item \in S}
<1>1. n = m
  BY IdsAreMany DEF Ranked
<1>2. ASSUME NEW items, Ranked(items, n), IsInjective(Ids(items)), ToSet(items) = S,
             NEW p \in 1..n
      PROVE  Ordered(items)[p] \in S /\ 1 + Cardinality(Above(S, Ordered(items)[p])) = p
  <2>1. PICK i \in 1..n :
             Ordered(items)[p] = items[i] /\ 1 + Cardinality(Preceding(items, i)) = p
    BY <1>2, OrderedPlaces
  <2>2. items[i] \in S
    BY <1>2 DEF ToSet, Ranked
  <2> QED
    BY <1>2, <2>1, <2>2, PrecedingIsAbove
<1>3. ASSUME NEW x \in S, NEW y \in S, Cardinality(Above(S, x)) = Cardinality(Above(S, y))
      PROVE  x = y
  <2>1. PICK i \in 1..n, j \in 1..n : x = one[i] /\ y = one[j]
    BY DEF ToSet, Ranked
  <2>2. Cardinality(Preceding(one, i)) = Cardinality(Preceding(one, j))
    BY <1>3, <2>1, PrecedingIsAbove
  <2> QED
    BY <2>1, <2>2, PlacesAreTaken
<1>4. \A p \in 1..n : Ordered(one)[p] = Ordered(other)[p]
  <2> SUFFICES ASSUME NEW p \in 1..n
               PROVE  Ordered(one)[p] = Ordered(other)[p]
    OBVIOUS
  <2> DEFINE x == Ordered(one)[p]
             y == Ordered(other)[p]
  <2>1. x \in S /\ 1 + Cardinality(Above(S, x)) = p
    BY <1>2
  <2>2. y \in S /\ 1 + Cardinality(Above(S, y)) = p
    BY <1>1, <1>2
  <2>3. \A z \in S : Cardinality(Above(S, z)) \in Nat
    <3>1. IsFiniteSet(S)
      <4>1. S = {one[i] : i \in 1..n}
        BY DEF ToSet, Ranked
      <4> DEFINE f == [i \in 1..n |-> one[i]]
      <4>2. f \in [1..n -> S] /\ \A z \in S : \E i \in 1..n : f[i] = z
        BY <4>1
      <4> HIDE DEF f, S
      <4>3. f \in Surjection(1..n, S)
        BY <4>2, Fun_IsSurj
      <4> QED
        BY <4>3, FS_Interval, FS_Surjection
    <3>2. \A z : Above(S, z) \in SUBSET S
      BY DEF Above
    <3> QED
      BY <3>1, <3>2, FS_Subset, FS_CardinalityType
  <2> HIDE DEF x, y, S
  <2>4. Cardinality(Above(S, x)) = Cardinality(Above(S, y))
    BY <2>1, <2>2, <2>3
  <2> QED
    BY <1>3, <2>1, <2>2, <2>4 DEF x, y
<1>5. /\ DOMAIN Ordered(one) = 1..n /\ DOMAIN Ordered(other) = 1..n
      /\ Ordered(one) = [p \in DOMAIN Ordered(one) |-> Ordered(one)[p]]
      /\ Ordered(other) = [p \in DOMAIN Ordered(other) |-> Ordered(other)[p]]
  <2>1. DOMAIN one = 1..n /\ DOMAIN other = 1..n
    BY <1>1 DEF Ranked
  <2> QED
    BY <2>1 DEF Ordered
<1> QED
  BY <1>4, <1>5

\* The parts of the stored workflow that the comparison finds to differ.
Stored == CHOOSE s \in current : TRUE
Differing == {p \in Parts : ~SamePart(p, Stored, spec)}

\* The schema of the route's body accepts it.
BodyIsValid == Valid(workflowSchema, body)

\* What a comparison answers is what it found.
CompareInv ==
    /\ body \in Bodies[route] /\ route \in Routes
    /\ route = "compare" => current \in Current
    /\ at \in {"connections", "nodes", "controller"} => BodyIsValid
    /\ at # "answered" => reply.code = 0
    /\ route = "compare" /\ reply.code \in {200, 202} =>
          /\ BodyIsValid /\ current # {}
          /\ reply.code = 200 => Differing = {}
          /\ reply.code = 202 => reply.changed = Differing

\* No step breaks CompareInv.
LEMMA CompareInvInductive == CompareInv /\ [Next]_vars => CompareInv'
<1> SUFFICES ASSUME CompareInv, [Next]_vars
             PROVE  CompareInv'
  OBVIOUS
<1>1. /\ route' = route /\ body' = body /\ current' = current
      /\ Differing' = Differing /\ BodyIsValid' = BodyIsValid
  BY RequestIsKept DEF Differing, Stored, SamePart, BodyIsValid
<1>2. ASSUME NEW message, Answers(400, message)
      PROVE  CompareInv'
  <2>1. reply'.code \notin {0, 200, 202} /\ at' = "answered"
    BY <1>2 DEF Answers
  <2> QED
    BY <1>1, <2>1 DEF CompareInv
<1>3. ASSUME NEW step \in {"connections", "nodes", "controller"}, Proceeds(step),
             at # "answered", BodyIsValid
      PROVE  CompareInv'
  BY <1>1, <1>3 DEF CompareInv, Proceeds
<1>4. CASE CheckSchema
  <2>1. \/ BodyIsValid /\ (Proceeds("connections") \/ Proceeds("controller"))
        \/ Answers(400, "Invalid Request Body")
    BY <1>4 DEF CheckSchema, BodyIsValid
  <2>2. at # "answered"
    BY <1>4 DEF CheckSchema
  <2> QED
    BY <1>2, <1>3, <2>1, <2>2
<1>5. CASE CheckConnections
  <2>1. BodyIsValid /\ at # "answered"
    BY <1>5 DEF CheckConnections, CompareInv
  <2>2. CASE Proceeds("nodes")
    BY <1>3, <2>1, <2>2
  <2>3. CASE Answers(400, "Invalid Connections")
    BY <1>2, <2>3
  <2>4. CASE Answers(500, "Internal Server Error")
    <3>1. reply'.code = 500 /\ at' = "answered"
      BY <2>4 DEF Answers
    <3> QED
      BY <1>1, <3>1 DEF CompareInv
  <2> QED
    BY <1>5, <2>2, <2>3, <2>4 DEF CheckConnections
<1>6. CASE CheckNodes
  <2>1. BodyIsValid /\ at # "answered"
    BY <1>6 DEF CheckNodes, CompareInv
  <2>2. CASE Proceeds("controller")
    BY <1>3, <2>1, <2>2
  <2>3. CASE Answers(400, "Invalid Node")
    BY <1>2, <2>3
  <2> QED
    BY <1>6, <2>2, <2>3 DEF CheckNodes
<1>7. CASE Save
  <2>1. \/ Answers(400, "Invalid blueprint") \/ Answers(201, "saved")
        \/ Answers(500, "Failed at") \/ Answers(400, "Failed at")
    BY <1>7 DEF Save
  <2>2. route # "compare"
    BY <1>7 DEF Save
  <2> QED
    BY <1>1, <2>1, <2>2 DEF Answers, CompareInv
<1>8. CASE ValidateBlueprint
  BY <1>1, <1>8 DEF ValidateBlueprint, Answers, CompareInv
<1>9. CASE Compare
  <2>1. BodyIsValid /\ at' = "answered"
    BY <1>9 DEF Compare, Answers, CompareInv
  <2>2. \/ Answers(400, "Invalid blueprint")
        \/ Answers(404, "No workflow with this name")
        \/ current # {} /\ Differing = {} /\ Answers(200, "No changes found")
        \/ /\ current # {}
           /\ reply' = [code |-> 202, message |-> "Changes found", changed |-> Differing]
    BY <1>9 DEF Compare, Differing, Stored
  <2>3. CASE current # {} /\ Differing = {} /\ Answers(200, "No changes found")
    <3>1. reply'.code = 200
      BY <2>3 DEF Answers
    <3>2. current # {} /\ Differing = {}
      BY <2>3
    <3> QED
      BY <1>1, <2>1, <3>1, <3>2 DEF CompareInv
  <2>4. CASE /\ current # {}
             /\ reply' = [code |-> 202, message |-> "Changes found", changed |-> Differing]
    <3>1. current # {} /\ reply'.code = 202 /\ reply'.changed = Differing
      BY <2>4
    <3> QED
      BY <1>1, <2>1, <3>1 DEF CompareInv
  <2>5. CASE Answers(400, "Invalid blueprint")
    BY <1>2, <2>5
  <2>6. CASE Answers(404, "No workflow with this name")
    <3>1. reply'.code = 404
      BY <2>6 DEF Answers
    <3> QED
      BY <1>1, <2>1, <3>1 DEF CompareInv
  <2> QED
    BY <2>2, <2>3, <2>4, <2>5, <2>6
<1>10. CASE UNCHANGED vars
  BY <1>1, <1>10 DEF vars, CompareInv
<1> QED
  BY <1>4, <1>5, <1>6, <1>7, <1>8, <1>9, <1>10 DEF Next

\* A part of a blueprint that is a list, as the comparison needs it.
PartIsRanked(items) == items \in Seq(ToSet(items)) /\ Ranked(items, Len(items))

\* Lists have the same items in the same order of ids only if they have the same
\* items, and if they have, unless an id is there twice.
LEMMA SameOrder ==
    ASSUME NEW one, PartIsRanked(one), NEW other, PartIsRanked(other)
    PROVE  /\ Ordered(one) = Ordered(other) => ToSet(one) = ToSet(other)
           /\ ToSet(one) = ToSet(other) /\ IsInjective(Ids(one)) /\ IsInjective(Ids(other))
                => Ordered(one) = Ordered(other)
<1>1. Len(one) \in Nat /\ Len(other) \in Nat
  BY DEF PartIsRanked
<1>2. ToSet(Ordered(one)) = ToSet(one) /\ ToSet(Ordered(other)) = ToSet(other)
  BY <1>1, OrderedPlaces DEF PartIsRanked
<1>3. ASSUME ToSet(one) = ToSet(other), IsInjective(Ids(one)), IsInjective(Ids(other))
      PROVE  Ordered(one) = Ordered(other)
  BY <1>1, <1>3, OrderedAlike DEF PartIsRanked
<1> QED
  BY <1>2, <1>3

\* The lists that are compared have what the order needs.
LEMMA PartsAreRanked ==
    ASSUME CompareInv, route = "compare", current # {}, BodyIsValid
    PROVE  \A p \in {"nodes", "lanes"} :
              PartIsRanked(Stored[p].array) /\ PartIsRanked(spec[p].array)
<1>1. Stored \in current /\ current \in Current
  BY DEF CompareInv, Stored
<1>2. body \in Bodies["compare"] /\ "compare" \in Routes
  BY DEF CompareInv, Routes
<1>3. /\ IsListed(Stored["nodes"]) /\ IsListed(Stored["lanes"])
      /\ IsRanked(Stored["nodes"]) /\ IsRanked(Stored["lanes"])
  BY <1>1, ListsAssumption, IdsAssumption
<1>4. /\ IsListed(spec["nodes"]) /\ IsListed(spec["lanes"])
      /\ IsRanked(spec["nodes"]) /\ IsRanked(spec["lanes"])
  BY <1>2, ListsAssumption, IdsAssumption DEF BodyIsValid, spec
<1>5. ASSUME NEW part, IsListed(part), IsRanked(part)
      PROVE  PartIsRanked(part.array)
  <2>1. part.array \in Seq(ToSet(part.array))
    BY <1>5 DEF IsListed
  <2>2. DOMAIN part.array = 1..Len(part.array)
    BY <2>1
  <2>3. \A i \in DOMAIN part.array : Id(part.array[i]) \in DOMAIN Rank
    BY <1>5 DEF IsRanked, Id, Field
  <2> QED
    BY <2>1, <2>2, <2>3 DEF PartIsRanked, Ranked
<1> QED
  BY <1>3, <1>4, <1>5

LEMMA ComparisonIsExactHolds == CompareInv => ComparisonIsExact
<1> SUFFICES ASSUME CompareInv, route = "compare", reply.code \in {200, 202}
             PROVE  ComparisonIsExact
  BY DEF ComparisonIsExact
<1> DEFINE told == IF reply.code = 200 THEN {} ELSE reply.changed
           Same(p) == IF p \in {"nodes", "lanes"}
                      THEN ToSet(Stored[p].array) = ToSet(spec[p].array)
                      ELSE Stored[p] = spec[p]
           doubled(p) == \E s \in {Stored, spec} : ~IsInjective(Ids(s[p].array))
<1>1. BodyIsValid /\ current # {} /\ told = Differing
  BY DEF CompareInv
<1>2. ASSUME NEW p \in {"nodes", "lanes"}
      PROVE  /\ SamePart(p, Stored, spec) => Same(p)
             /\ Same(p) /\ ~doubled(p) => SamePart(p, Stored, spec)
  <2>1. PartIsRanked(Stored[p].array) /\ PartIsRanked(spec[p].array)
    BY <1>1, PartsAreRanked
  <2> QED
    BY <2>1, SameOrder DEF SamePart
<1>3. ASSUME NEW p \in Parts, p \notin {"nodes", "lanes"}
      PROVE  SamePart(p, Stored, spec) <=> Same(p)
  BY <1>3 DEF SamePart
<1> HIDE DEF told, Same, doubled
<1>4. {p \in Parts : ~Same(p)} \subseteq told
  BY <1>1, <1>2, <1>3 DEF Differing
<1>5. \A p \in told : Same(p) => p \in {"nodes", "lanes"} /\ doubled(p)
  BY <1>1, <1>2, <1>3 DEF Differing
<1> QED
  BY <1>4, <1>5 DEF ComparisonIsExact, Stored, told, Same, doubled

(***************************************************************************)
(* Whatever is stored and whatever is sent, a comparison tells all of the  *)
(* parts that differ, and of those that do not only a list in which an id  *)
(* is there twice (ComparisonIsExact).                                     *)
(***************************************************************************)
THEOREM ComparisonTellsChanges == Spec => []ComparisonIsExact
<1>1. Init => CompareInv
  BY DEF Init, CompareInv, Routes
<1> QED
  BY <1>1, CompareInvInductive, ComparisonIsExactHolds, PTL DEF Spec
=============================================================================
