--------------------------- MODULE WorkflowRegistry ---------------------------
(***************************************************************************)
(* What the routes of workflows promise, whatever the engine refuses, the  *)
(* database fails and the brokers reject.  A workflow that is saved gets   *)
(* the version after the latest of its name, and its id or one of its own  *)
(* when no workflow has it; one that has a process is not taken away; a    *)
(* process is made of a workflow that is there, of the latest when it is   *)
(* asked for by name; a save announces at most once, and the workflow that *)
(* has the id it saved.  A request does one of these or nothing, before it *)
(* is answered or lost, and a success it is told of is what it did; it is  *)
(* told as failed after it did something only by a fault, but that a save  *)
(* is also when its workflow could not be read again.                      *)
(***************************************************************************)
EXTENDS Naturals, Sequences

CONSTANTS Names, OwnIds, Requests

VARIABLES
    registry,   \* the workflows, oldest first
    asked,      \* what each request asks
    did,        \* what it did, and to which workflow
    reply,      \* what it is answered, 0: nothing yet
    lost,       \* requests a stop of the server has left without an answer
    announced,  \* which request announced which workflow
    faults      \* reads that failed, and answers lost of calls carried out

registryVars == <<registry, asked, did, reply, lost, announced, faults>>

NoRequest == [op |-> "none"]

Nothing == [what |-> "nothing", row |-> 0]

RegistryInit ==
    /\ registry = <<>>
    /\ asked = [r \in Requests |-> NoRequest]
    /\ did = [r \in Requests |-> Nothing]
    /\ reply = [r \in Requests |-> 0]
    /\ lost = {}
    /\ announced = {}
    /\ faults = 0

Open(r) == asked[r] # NoRequest /\ reply[r] = 0 /\ r \notin lost

OfId(id) == {i \in DOMAIN registry : registry[i].id = id /\ ~ registry[i].deleted}

Of(name) == {i \in DOMAIN registry : registry[i].name = name /\ ~ registry[i].deleted}

IsLatest(i, name) ==
    i \in Of(name) /\ \A j \in Of(name) : registry[j].version <= registry[i].version

Replies(r, code) == reply' = [reply EXCEPT ![r] = code]

\* What was done is told, or a failure because the answer was lost.
Tells(r, success, failures) ==
    \/ Replies(r, success) /\ UNCHANGED faults
    \/ \E code \in failures : Replies(r, code) /\ faults' = faults + 1

Does(r, what, i) == did' = [did EXCEPT ![r] = [what |-> what, row |-> i]]

\* The server may stop; who is answered has the answer.
MayStop(answered) == lost' \in {lost, lost \cup {q \in Requests \ answered : Open(q)}}

Ids == {0} \cup OwnIds \cup {registry[i].id : i \in DOMAIN registry}

Ask(r, op, name, id) ==
    /\ asked[r] = NoRequest
    /\ asked' = [asked EXCEPT ![r] = [op |-> op, name |-> name, id |-> id]]
    /\ UNCHANGED <<registry, did, reply, lost, announced, faults>>

\* An id nobody has had when none is asked for.
Adds(id, name, version) ==
    registry' = Append(registry, [id |-> IF id = 0 THEN Len(registry) + 1 ELSE id,
                                  name |-> name, version |-> version,
                                  deleted |-> FALSE, processes |-> 0])

Save(r) ==
    /\ Open(r) /\ asked[r].op = "save" /\ did[r] = Nothing
    /\ OfId(asked[r].id) = {}
    /\ LET name == asked[r].name
       IN  \/ Of(name) = {} /\ Adds(asked[r].id, name, 1)
           \/ \E i \in Of(name) :
                 IsLatest(i, name) /\ Adds(asked[r].id, name, registry[i].version + 1)
    /\ Does(r, "saved", Len(registry) + 1)
    /\ Tells(r, 0, {500})
    /\ UNCHANGED <<asked, lost, announced>>

Announce(r) ==
    /\ Open(r) /\ did[r].what = "saved"
    /\ \E i \in OfId(registry[did[r].row].id) : announced' = announced \cup {<<r, i>>}
    /\ Replies(r, 201) /\ MayStop({r})
    /\ UNCHANGED <<registry, asked, did, faults>>

Delete(r) ==
    /\ Open(r) /\ asked[r].op = "delete"
    /\ \E i \in OfId(asked[r].id) :
          /\ registry[i].processes = 0
          /\ registry' = [registry EXCEPT ![i].deleted = TRUE]
          /\ Does(r, "deleted", i)
    /\ Tells(r, 204, {500})
    /\ UNCHANGED <<asked, lost, announced>>

Instantiate(r) ==
    /\ Open(r)
    /\ \E i \in DOMAIN registry :
          /\ \/ asked[r].op = "create" /\ i \in OfId(asked[r].id)
             \/ asked[r].op \in {"createByName", "start"} /\ IsLatest(i, asked[r].name)
          /\ registry' = [registry EXCEPT ![i].processes = @ + 1]
          /\ Does(r, "made", i)
    /\ Tells(r, 201, {404, 500})
    /\ UNCHANGED <<asked, lost, announced>>

\* A save that could not be fetched again was made and is told as failed.
Refuse(r, code) ==
    /\ Open(r) /\ code \in {400, 404, 422, 500}
    /\ did[r] = Nothing \/ (did[r].what = "saved" /\ code = 500)
    /\ faults' \in {faults, faults + 1}
    /\ asked[r].op = "delete" =>
          /\ code = 404 => OfId(asked[r].id) = {}
          /\ code \in {422, 500} /\ faults' = faults =>
                \E i \in OfId(asked[r].id) : registry[i].processes > 0
    /\ Replies(r, code) /\ MayStop({r})
    /\ UNCHANGED <<registry, asked, did, announced>>

Stop ==
    /\ MayStop({})
    /\ UNCHANGED <<registry, asked, did, reply, announced, faults>>

RegistryNext ==
    \/ \E r \in Requests :
          \/ \E op \in {"save", "delete", "create", "createByName", "start"},
                name \in Names, id \in Ids : Ask(r, op, name, id)
          \/ Save(r) \/ Announce(r)
          \/ Delete(r)
          \/ Instantiate(r)
          \/ \E code \in {400, 404, 422, 500} : Refuse(r, code)
    \/ Stop

RegistrySpec == RegistryInit /\ [][RegistryNext]_registryVars
=============================================================================
