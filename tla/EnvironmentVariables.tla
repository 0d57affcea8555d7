------------------------- MODULE EnvironmentVariables -------------------------
(***************************************************************************)
(* The handlers of src/src/controllers/cockpit/environmentVariable.js.     *)
(* A variable is a row of the table environment_variable, or else one of   *)
(* the server's own environment.  Saving and deleting read the variable    *)
(* first and act on what was read, while other requests change the table.  *)
(***************************************************************************)
EXTENDS Naturals, Sequences

CONSTANTS
    Keys,
    Values,
    NoValue,
    Environ,        \* the server's environment: a value or NoValue by key
    Requests,       \* bound: requests served
    MaxChanges,     \* bound: changes of a row
    MaxFaults       \* bound: calls the database fails

ASSUME EnvironmentAssumption ==
    /\ NoValue \notin Values
    /\ Environ \in [Keys -> Values \cup {NoValue}]
    /\ MaxChanges \in Nat
    /\ MaxFaults \in Nat

VARIABLES
    table,      \* what the row of each key was, oldest first; NoValue: no row
    req,        \* what each request asks and how far its handler is
    faults

vars == <<table, req, faults>>

\* by: the requests that wrote it, as a set of at most one.
Change == [value : Values \cup {NoValue}, by : SUBSET Requests]

Operations == {"save", "get", "delete"}

Stages == {"idle", "fetch", "create", "update", "delete", "answered"}

\* arrival, seen: number of states the row had when the request came and when
\* it was read; told, origin: of the variable in the reply.
Request == [op : Operations, key : Keys, value : Values, stage : Stages,
            arrival : Nat, seen : Nat, code : {0, 200, 201, 204, 404, 500},
            told : Values \cup {NoValue},
            origin : {"none", "table", "environment"}]

TypeOK ==
    /\ table \in [Keys -> Seq(Change)]
    /\ req \in [Requests -> Request]
    /\ faults \in 0..MaxFaults

Init ==
    /\ table = [k \in Keys |-> <<[value |-> NoValue, by |-> {}]>>]
    /\ \E k \in Keys, v \in Values :
          req = [r \in Requests |->
                   [op |-> "get", key |-> k, value |-> v, stage |-> "idle",
                    arrival |-> 0, seen |-> 0, code |-> 0, told |-> NoValue,
                    origin |-> "none"]]
    /\ faults = 0

-----------------------------------------------------------------------------

Stored(k) == table[k][Len(table[k])].value

\* Where cockpit.fetchEnvironmentVariable finds a variable: the table comes
\* before the server's environment.
Origin(k) ==
    IF Stored(k) # NoValue THEN "table"
    ELSE IF Environ[k] # NoValue THEN "environment" ELSE "none"

Found(k) ==
    CASE Origin(k) = "table" -> Stored(k)
      [] Origin(k) = "environment" -> Environ[k]
      [] OTHER -> NoValue

At(r, op, stage) == req[r].op = op /\ req[r].stage = stage

Answers(r, code) ==
    req' = [req EXCEPT ![r].stage = "answered", ![r].code = code]

AnswersWith(r, code, value, origin) ==
    req' = [req EXCEPT ![r].stage = "answered", ![r].code = code,
                       ![r].told = value, ![r].origin = origin]

GoesOn(r, stage) ==
    req' = [req EXCEPT ![r].stage = stage, ![r].seen = Len(table[req[r].key])]

Changes(r, value) ==
    /\ Len(table[req[r].key]) <= MaxChanges
    /\ table' = [table EXCEPT ![req[r].key] =
                   Append(@, [value |-> value, by |-> {r}])]

Receive(r, op, k, v) ==
    /\ req[r].stage = "idle"
    /\ req' = [req EXCEPT ![r] = [@ EXCEPT
                 !.op = op, !.key = k, !.value = v, !.stage = "fetch",
                 !.arrival = Len(table[k])]]
    /\ UNCHANGED <<table, faults>>

\* The call a handler waits for changes the row: createEnvironmentVariable makes
\* one, updateEnvironmentVariable and deleteEnvironmentVariable need one.
TakesEffect(r) ==
    LET held == Stored(req[r].key)
    IN  \/ /\ req[r].stage = "create" /\ held = NoValue
           /\ Changes(r, req[r].value)
        \/ /\ req[r].stage = "update" /\ held # NoValue
           /\ Changes(r, req[r].value)
        \/ /\ req[r].stage = "delete" /\ held # NoValue
           /\ Changes(r, NoValue)

\* Any call is rejected, before or after it took effect: every handler catches
\* it and answers 500.
Fails(r) ==
    /\ faults < MaxFaults
    /\ req[r].stage \in {"fetch", "create", "update", "delete"}
    /\ UNCHANGED table \/ TakesEffect(r)
    /\ Answers(r, 500)
    /\ faults' = faults + 1

-----------------------------------------------------------------------------
(* saveEnvironmentVariable *)

\* Mutant of SaveFetched: where the variable comes from is not looked at.
SaveAnyOrigin(r) ==
    /\ At(r, "save", "fetch")
    /\ GoesOn(r, IF Origin(req[r].key) = "none" THEN "create" ELSE "update")
    /\ UNCHANGED <<table, faults>>

\* A variable of the server's environment gets a row of its own.
SaveFetched(r) ==
    /\ At(r, "save", "fetch")
    /\ GoesOn(r, IF Origin(req[r].key) = "table" THEN "update" ELSE "create")
    /\ UNCHANGED <<table, faults>>

\* key is the primary key: the row another request has created rejects.
SaveCreates(r) ==
    /\ At(r, "save", "create")
    /\ IF Stored(req[r].key) = NoValue
       THEN Changes(r, req[r].value) /\ AnswersWith(r, 201, req[r].value, "table")
       ELSE Answers(r, 500) /\ UNCHANGED table
    /\ UNCHANGED faults

\* When the row is gone the engine updates nothing, and nothing here looks at
\* how many rows it updated.
SaveUpdates(r) ==
    /\ At(r, "save", "update")
    /\ IF Stored(req[r].key) # NoValue
       THEN Changes(r, req[r].value) /\ AnswersWith(r, 200, req[r].value, "table")
       ELSE /\ \/ AnswersWith(r, 200, req[r].value, "table")
               \/ Answers(r, 500)
            /\ UNCHANGED table
    /\ UNCHANGED faults

-----------------------------------------------------------------------------
(* getEnvironmentVariable and deleteEnvironmentVariable *)

GetFetched(r) ==
    /\ At(r, "get", "fetch")
    /\ LET k == req[r].key
       IN  IF Origin(k) = "none" THEN Answers(r, 404)
           ELSE AnswersWith(r, 200, Found(k), Origin(k))
    /\ UNCHANGED <<table, faults>>

\* Mutant of DeleteFetched: the variable is not looked for.
DeleteUnread(r) ==
    /\ At(r, "delete", "fetch")
    /\ GoesOn(r, "delete")
    /\ UNCHANGED <<table, faults>>

DeleteFetched(r) ==
    /\ At(r, "delete", "fetch")
    /\ IF Origin(req[r].key) = "none" THEN Answers(r, 404)
       ELSE GoesOn(r, "delete")
    /\ UNCHANGED <<table, faults>>

\* Whether there was a row to delete is not looked at.
DeleteReturns(r) ==
    /\ At(r, "delete", "delete")
    /\ IF Stored(req[r].key) # NoValue THEN Changes(r, NoValue)
       ELSE UNCHANGED table
    /\ Answers(r, 204)
    /\ UNCHANGED faults

-----------------------------------------------------------------------------

Handler(r) ==
    \/ SaveFetched(r) \/ SaveCreates(r) \/ SaveUpdates(r)
    \/ GetFetched(r)
    \/ DeleteFetched(r) \/ DeleteReturns(r)

Next == \E r \in Requests :
    \/ \E op \in Operations, k \in Keys, v \in Values : Receive(r, op, k, v)
    \/ Handler(r) \/ Fails(r)

Spec == Init /\ [][Next]_vars

-----------------------------------------------------------------------------
(* Properties *)

Written(r, k) == {i \in DOMAIN table[k] : table[k][i].by = {r}}

\* A save stores its value at most once.  201 means that it made the row; 200
\* that it replaced a value, or that the row was deleted between its read and
\* its update.  A 500 may have stored the value, but only when a call failed;
\* without that it stored nothing, because another request changed the row in
\* between (environmentVariable.js:29-46).
SavesTakeEffect ==
    \A r \in Requests : req[r].op = "save" =>
        LET k == req[r].key  mine == Written(r, k)
        IN  /\ \A i, j \in mine : i = j
            /\ req[r].code = 201 =>
                  \E i \in mine : table[k][i - 1].value = NoValue
            /\ req[r].code = 200 =>
                  \/ \E i \in mine : table[k][i - 1].value # NoValue
                  \/ \E i \in DOMAIN table[k] :
                        i > req[r].seen /\ table[k][i].value = NoValue
            /\ req[r].code = 500 /\ faults = 0 =>
                  mine = {} /\ Len(table[k]) > req[r].seen

\* No update is lost: what follows no value is a save that reported a new row,
\* or one whose call failed after it had stored the value, and no other save
\* reports one.
RowsAlternate ==
    \A k \in Keys : \A i \in 2..Len(table[k]) :
        LET before == table[k][i - 1].value
        IN  \A r \in table[k][i].by :
                /\ req[r].code = 500 => faults > 0
                /\ req[r].code = 201 => before = NoValue
                /\ before = NoValue =>
                      req[r].op = "save" /\ req[r].code \in {201, 500}

\* A variable a delete reports gone had no row at some moment while the delete
\* was served.
DeletesTakeEffect ==
    \A r \in Requests : req[r].op = "delete" /\ req[r].code = 204 =>
        LET k == req[r].key
        IN  \E i \in DOMAIN table[k] :
                i >= req[r].arrival /\ table[k][i].value = NoValue

\* What a reply says was written is what was: saves store once, alternate with
\* deletions, and a deletion leaves no row.
WritesTakeEffect == SavesTakeEffect /\ RowsAlternate /\ DeletesTakeEffect

-----------------------------------------------------------------------------
(* The store that clients see *)

Pending(r) == req[r].stage \in {"fetch", "create", "update", "delete"}

\* What a client has sent and been told.
Seen(r) ==
    CASE req[r].stage = "idle" -> [state |-> "idle"]
      [] req[r].stage = "answered" ->
            [state |-> "answered", op |-> req[r].op, key |-> req[r].key,
             value |-> req[r].value, code |-> req[r].code, told |-> req[r].told,
             origin |-> req[r].origin]
      [] OTHER -> [state |-> "asked", op |-> req[r].op, key |-> req[r].key,
                   value |-> req[r].value]

Since(r) ==
    IF Pending(r)
    THEN {table[req[r].key][i].value : i \in (req[r].arrival + 1)..Len(table[req[r].key])}
    ELSE {}

Store == INSTANCE VariableStore WITH
             store <- [k \in Keys |-> Stored(k)],
             asked <- [r \in Requests |-> Seen(r)],
             since <- [r \in Requests |-> Since(r)]

\* To its clients the read and the write of a handler are one: each request is
\* served at one moment between its arrival and its reply, but for a save or a
\* deletion of a key that another request has deleted, or changed, in between
\* (environmentVariable.js:22-118).
StoreImplemented == Store!StoreSpec
=============================================================================
