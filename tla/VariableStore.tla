---------------------------- MODULE VariableStore ----------------------------
(***************************************************************************)
(* What the routes of the environment variables promise their clients,     *)
(* however many requests are served at a time: each request is served at   *)
(* one moment, wholly or not at all, by a store of one value for each key  *)
(* in front of the server's own environment.  A client is told otherwise   *)
(* only of a key that others have changed since its request came.          *)
(***************************************************************************)
EXTENDS Naturals

CONSTANTS Keys, Values, NoValue, Environ, Requests, MaxFaults

VARIABLES
    store,      \* the value of each key; NoValue: none
    asked,      \* what each request asks, and then its reply
    since,      \* values a key was given since the request for it came
    faults      \* requests that failed for no reason

storeVars == <<store, asked, since, faults>>

Idle == [state |-> "idle"]

StoreInit ==
    /\ store = [k \in Keys |-> NoValue]
    /\ asked = [r \in Requests |-> Idle]
    /\ since = [r \in Requests |-> {}]
    /\ faults = 0

Asks(r, op) == asked[r].state = "asked" /\ asked[r].op = op

Told(r, code, value, origin) ==
    asked' = [asked EXCEPT ![r] =
                [state |-> "answered", op |-> @.op, key |-> @.key, value |-> @.value,
                 code |-> code, told |-> value, origin |-> origin]]

Keeps(r) == store' = store /\ since' = [since EXCEPT ![r] = {}]

\* The others learn that their key has changed.
Puts(r, value) ==
    LET k == asked[r].key
    IN  /\ store' = [store EXCEPT ![k] = value]
        /\ since' = [q \in Requests |->
                       IF q = r THEN {}
                       ELSE IF asked[q].state = "asked" /\ asked[q].key = k
                            THEN since[q] \cup {value} ELSE since[q]]

Ask(r, op, k, v) ==
    /\ asked[r].state = "idle"
    /\ asked' = [asked EXCEPT ![r] = [state |-> "asked", op |-> op, key |-> k, value |-> v]]
    /\ UNCHANGED <<store, since, faults>>

Save(r) ==
    /\ Asks(r, "save")
    /\ Puts(r, asked[r].value)
    /\ Told(r, IF store[asked[r].key] = NoValue THEN 201 ELSE 200, asked[r].value, "table")
    /\ UNCHANGED faults

\* As if the save had come just before a deletion.
SaveOvertaken(r) ==
    /\ Asks(r, "save")
    /\ store[asked[r].key] = NoValue /\ NoValue \in since[r]
    /\ Keeps(r) /\ Told(r, 200, asked[r].value, "table")
    /\ UNCHANGED faults

SaveRefused(r) ==
    /\ Asks(r, "save")
    /\ since[r] # {}
    /\ Keeps(r) /\ Told(r, 500, NoValue, "none")
    /\ UNCHANGED faults

Get(r) ==
    /\ Asks(r, "get")
    /\ LET k == asked[r].key
       IN  \/ store[k] # NoValue /\ Told(r, 200, store[k], "table")
           \/ /\ store[k] = NoValue /\ Environ[k] # NoValue
              /\ Told(r, 200, Environ[k], "environment")
           \/ store[k] = NoValue /\ Environ[k] = NoValue /\ Told(r, 404, NoValue, "none")
    /\ Keeps(r)
    /\ UNCHANGED faults

\* A variable of the server's environment is deleted without effect.
Delete(r) ==
    /\ Asks(r, "delete")
    /\ LET k == asked[r].key
       IN  \/ store[k] # NoValue /\ Puts(r, NoValue) /\ Told(r, 204, NoValue, "none")
           \/ /\ store[k] = NoValue /\ Keeps(r)
              /\ Told(r, IF Environ[k] = NoValue THEN 404 ELSE 204, NoValue, "none")
    /\ UNCHANGED faults

\* Another deletion was quicker.
DeleteOvertaken(r) ==
    /\ Asks(r, "delete")
    /\ store[asked[r].key] = NoValue /\ NoValue \in since[r]
    /\ Keeps(r) /\ Told(r, 204, NoValue, "none")
    /\ UNCHANGED faults

\* Who is told of a failure does not know whether the request was served.
Fail(r) ==
    /\ asked[r].state = "asked"
    /\ faults < MaxFaults /\ faults' = faults + 1
    /\ \/ Keeps(r)
       \/ Asks(r, "save") /\ Puts(r, asked[r].value)
       \/ /\ Asks(r, "delete") /\ store[asked[r].key] # NoValue
          /\ Puts(r, NoValue)
    /\ Told(r, 500, NoValue, "none")

Serve(r) ==
    \/ Save(r) \/ SaveOvertaken(r) \/ SaveRefused(r)
    \/ Get(r)
    \/ Delete(r) \/ DeleteOvertaken(r)
    \/ Fail(r)

StoreNext == \E r \in Requests :
    \/ \E op \in {"save", "get", "delete"}, k \in Keys, v \in Values : Ask(r, op, k, v)
    \/ Serve(r)

StoreSpec == StoreInit /\ [][StoreNext]_storeVars
=============================================================================
