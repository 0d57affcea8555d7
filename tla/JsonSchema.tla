------------------------------ MODULE JsonSchema ------------------------------
(***************************************************************************)
(* JSON values, and the part of JSON Schema that the schemas of this       *)
(* repository use, as the ajv library evaluates it.                        *)
(*                                                                         *)
(* A value is a record of one field whose name is its JSON type, so that   *)
(* values of different types can be compared: [string |-> "a"],            *)
(* [object |-> [k |-> v]], [array |-> <<v, w>>], [null |-> TRUE] ...       *)
(* A schema is a record with some of the fields type, enum, oneOf,         *)
(* required, properties, additional, minProperties, maxProperties, items,  *)
(* minItems, unique, format.  The constraints on objects, arrays and       *)
(* strings say nothing of values of another type, as in ajv.               *)
(***************************************************************************)
EXTENDS Naturals, Sequences, FiniteSets

Str(x) == [string |-> x]
Num(x) == [integer |-> x]
Bool(x) == [boolean |-> x]
Null == [null |-> TRUE]
Obj(f) == [object |-> f]
Arr(s) == [array |-> s]

Is(type, value) == DOMAIN value = {type}

IsObject(value) == Is("object", value)
IsArray(value) == Is("array", value)

\* f with the fields of g that it has not got: @@ of TLC, which the provers do
\* not know.
Plus(f, g) == [k \in DOMAIN f \cup DOMAIN g |-> IF k \in DOMAIN f THEN f[k] ELSE g[k]]

\* The values there are of a property that is optional.
Optional(values) == {[absent |-> TRUE]} \cup values

\* The object with the properties of f that are there.
With(f) ==
    Obj([k \in {k \in DOMAIN f : ~Is("absent", f[k])} |-> f[k]])

\* The strings that have the format "uuid".
Uuids == {"uuid-1", "uuid-2"}

-----------------------------------------------------------------------------
(* Schemas *)

AnyOfTypes(types) == [type |-> types]

Typed(type) == AnyOfTypes({type})

Enum(values) == [type |-> {"string"}, enum |-> {Str(v) : v \in values}]

Uuid == [type |-> {"string"}, format |-> "uuid"]

OneOf(schemas) == [oneOf |-> schemas]

ArrayOf(items) == [type |-> {"array"}, items |-> items]

ObjectWith(required, properties) ==
    [type |-> {"object"}, required |-> required, properties |-> properties]

\* additionalProperties: false
Closed(schema) == Plus(schema, [additional |-> FALSE])

\* { oneOf: [{ type: "string" }, { type: "object" }] }, for a value that may
\* be given as an expression of the engine ({ $ref: ... }, { $js: ... }).
StringOrObject == OneOf(<<Typed("string"), Typed("object")>>)

ArrayOrObject(items) == OneOf(<<ArrayOf(items), Typed("object")>>)

-----------------------------------------------------------------------------

HasKeyword(schema, keyword) == keyword \in DOMAIN schema

TypeHolds(schema, value) ==
    \E t \in schema.type : Is(t, value) \/ (t = "number" /\ Is("integer", value))

\* Sub is the verdict on the schemas that this one is made of.
OneOfHolds(schemas, value, Sub(_, _)) ==
    \E i \in DOMAIN schemas :
        /\ Sub(schemas[i], value)
        /\ \A j \in DOMAIN schemas : Sub(schemas[j], value) => j = i

ObjectHolds(schema, fields, Sub(_, _)) ==
    /\ HasKeyword(schema, "required") => schema.required \subseteq DOMAIN fields
    /\ HasKeyword(schema, "properties") =>
          \A k \in DOMAIN fields \cap DOMAIN schema.properties :
              Sub(schema.properties[k], fields[k])
    /\ HasKeyword(schema, "additional") =>
          DOMAIN fields \subseteq DOMAIN schema.properties
    /\ HasKeyword(schema, "additionalSchema") =>
          \A k \in DOMAIN fields \ DOMAIN schema.properties :
              Sub(schema.additionalSchema, fields[k])
    /\ HasKeyword(schema, "minProperties") =>
          Cardinality(DOMAIN fields) >= schema.minProperties
    /\ HasKeyword(schema, "maxProperties") =>
          Cardinality(DOMAIN fields) <= schema.maxProperties

ArrayHolds(schema, items, Sub(_, _)) ==
    /\ HasKeyword(schema, "items") => \A i \in DOMAIN items : Sub(schema.items, items[i])
    /\ HasKeyword(schema, "minItems") => Len(items) >= schema.minItems
    /\ HasKeyword(schema, "unique") =>
          \A i, j \in DOMAIN items : items[i] = items[j] => i = j

Holds(schema, value, Sub(_, _)) ==
    /\ HasKeyword(schema, "type") => TypeHolds(schema, value)
    /\ HasKeyword(schema, "enum") => value \in schema.enum
    /\ HasKeyword(schema, "oneOf") => OneOfHolds(schema.oneOf, value, Sub)
    /\ HasKeyword(schema, "format") /\ Is("string", value) => value.string \in Uuids
    /\ IsObject(value) => ObjectHolds(schema, value.object, Sub)
    /\ IsArray(value) => ArrayHolds(schema, value.array, Sub)

\* ajv.compile(schema)(value), for schemas that are nested up to six deep, as
\* those of this repository are.  By levels, because nothing could be proved of
\* a recursive operator.  Each part of it is a validator of src/, which builds an
\* Ajv, compiles a schema and applies it.
Valid0(schema, value) == Holds(schema, value, LAMBDA s, v : TRUE)
Valid1(schema, value) == Holds(schema, value, Valid0)
Valid2(schema, value) == Holds(schema, value, Valid1)
Valid3(schema, value) == Holds(schema, value, Valid2)
Valid4(schema, value) == Holds(schema, value, Valid3)
Valid5(schema, value) == Holds(schema, value, Valid4)
Valid(schema, value) == Holds(schema, value, Valid5)

SchemasIn(schema) ==
    UNION {CASE keyword = "oneOf" -> {schema.oneOf[i] : i \in DOMAIN schema.oneOf}
             [] keyword = "properties" ->
                    {schema.properties[k] : k \in DOMAIN schema.properties}
             [] keyword \in {"items", "additionalSchema"} -> {schema[keyword]}
             [] OTHER -> {} : keyword \in DOMAIN schema}

\* Are the schemas nested so deep at most?
SixDeep(schemas) ==
    LET at[n \in Nat] == IF n = 0 THEN schemas ELSE UNION {SchemasIn(s) : s \in at[n - 1]}
    IN  at[7] = {}
=============================================================================
