--------------------------- MODULE ProcessControl ---------------------------
(***************************************************************************)
(* The HTTP handlers that act on one process: runProcess, abortProcess,    *)
(* continueProcess, fetchProcess (src/src/controllers/process.js),         *)
(* fetchStateByParameters (src/src/controllers/state.js) and               *)
(* setProcessState, transferProcessState, runPendingProcess, expireProcess *)
(* (src/src/controllers/cockpit/process.js).                               *)
(*                                                                         *)
(* A handler reads the process, tests what it read and then asks the       *)
(* engine to change the process; other handlers and the engine itself run  *)
(* between the two.  The engine (@flowbuild/engine) is a library: it       *)
(* appends states to the history of a process, and nothing in this         *)
(* repository says which requests it refuses, so here it may refuse or     *)
(* carry out any of them.                                                  *)
(***************************************************************************)
EXTENDS Naturals, Sequences

CONSTANTS
    Processes,
    Nodes,          \* ids of blueprint nodes
    NoNode,         \* next_node_id of a final state
    Blueprint,      \* the nodes of each process's blueprint
    Requests,       \* bound: requests served
    MaxStates       \* bound: states of a process

ASSUME ControlAssumption ==
    /\ Processes # {}
    /\ NoNode \notin Nodes
    /\ Blueprint \in [Processes -> SUBSET Nodes]
    /\ MaxStates \in Nat \ {0}

VARIABLES
    history,    \* states of each process, oldest first; empty: no process
    req         \* what each request asks and how far its handler is

vars == <<history, req>>

Statuses == {"unstarted", "running", "waiting", "delegated", "pending",
             "finished", "interrupted", "error", "expired"}

stoppedStatus == {"finished", "interrupted", "error"}

\* The statuses expireProcess answers 409 for.
unexpirable == {"finished", "expired", "running"}

Operations == {"run", "abort", "continue", "fetch", "states",
               "set", "transfer", "resume", "expire"}

\* by: the operation that wrote the state, or "engine"; seen: the number of
\* the state its handler had tested, 0 when it tests none.
State == [status : Statuses, next : Nodes \cup {NoNode},
          by : Operations \cup {"engine"}, seen : Nat]

\* "fetch", "state": the await of the first and of a second read; "call": of
\* the engine; "resuming": answered, but its call still runs; "rejected": that
\* call failed; "cut": the server stopped under it.
Stages == {"idle", "fetch", "state", "call", "resuming",
           "answered", "rejected", "cut"}

Serving == {"fetch", "state", "call"}

\* HTTP status of the reply, 0 while there is none.
Codes == {0, 200, 202, 400, 404, 409, 422, 500}

\* arrival: states the process had when the request came; node: next_node_id
\* of a state to set; told: the current_status in the body of the reply.
Request == [op : Operations, process : Processes, stage : Stages,
            arrival : Nat, seen : Nat, node : Nodes \cup {NoNode},
            code : Codes,
            told : Statuses \cup {"none"}]

TypeOK ==
    /\ history \in [Processes -> Seq(State)]
    /\ req \in [Requests -> Request]

NoRequest ==
    [op |-> "fetch", process |-> CHOOSE p \in Processes : TRUE,
     stage |-> "idle", arrival |-> 0, seen |-> 0, node |-> NoNode,
     code |-> 0, told |-> "none"]

Init ==
    /\ history = [p \in Processes |-> <<>>]
    /\ req = [r \in Requests |-> NoRequest]

-----------------------------------------------------------------------------
(* Helpers *)

Target(r) == req[r].process

Length(p) == Len(history[p])

Found(r) == Length(Target(r)) > 0

\* process._current_status of the process the handler has just read.
Status(r) == history[Target(r)][Length(Target(r))].status

At(r, op, stage) == req[r].op = op /\ req[r].stage = stage

Answers(r, code) ==
    req' = [req EXCEPT ![r].stage = "answered", ![r].code = code]

\* The reply repeats the status that was read.
Refuses(r, code) ==
    req' = [req EXCEPT ![r].stage = "answered", ![r].code = code,
                       ![r].told = Status(r)]

\* On to the next await, keeping what was read; code: 0, or what is replied
\* before the await.
GoesOn(r, stage, node, code) ==
    req' = [req EXCEPT ![r].stage = stage, ![r].node = node,
                       ![r].seen = Length(Target(r)), ![r].code = code]

\* The engine appends a state.
Appends(p, status, next, by, seen) ==
    /\ Length(p) \in 1..(MaxStates - 1)
    /\ history' = [history EXCEPT ![p] =
         Append(@, [status |-> status, next |-> next, by |-> by, seen |-> seen])]

Writes(r, status, next) ==
    Appends(Target(r), status, next, req[r].op, req[r].seen)

-----------------------------------------------------------------------------
(* The engine *)

ProcessCreated(p) ==
    /\ Length(p) = 0
    /\ \E n \in Blueprint[p] :
          history' = [history EXCEPT ![p] = Append(@,
            [status |-> "unstarted", next |-> n, by |-> "engine", seen |-> 0])]
    /\ UNCHANGED req

\* A running process gets to its next stop; a timer, an activity or a
\* delegated service sets a stopped one going again.
EngineMoves(p) ==
    /\ Length(p) > 0
    /\ LET current == history[p][Length(p)]
       IN  \/ /\ current.status = "running"
              /\ \E s \in {"waiting", "delegated"} :
                    Appends(p, s, current.next, "engine", 0)
           \/ /\ current.status = "running"
              /\ \E s \in {"finished", "error"} :
                    Appends(p, s, NoNode, "engine", 0)
           \/ /\ current.status \in {"waiting", "delegated"}
              /\ \E s \in {"running", "expired"} :
                    Appends(p, s, current.next, "engine", 0)
    /\ UNCHANGED req

-----------------------------------------------------------------------------
(* Requests come in *)

\* fetchStateByParameters answers 400 to a query without parameters;
\* continueProcess calls the engine without reading the process.
Receive(r, op, p) ==
    /\ req[r].stage = "idle"
    /\ \E node \in IF op = "set" THEN Nodes ELSE {NoNode} :
       \E first \in CASE op = "continue" -> {"call"}
                      [] op = "states" -> {"fetch", "answered"}
                      [] OTHER -> {"fetch"} :
          req' = [req EXCEPT ![r] =
            [op |-> op, process |-> p, stage |-> first, arrival |-> Length(p),
             seen |-> 0, node |-> node, told |-> "none",
             code |-> IF first = "answered" THEN 400 ELSE 0]]
    /\ UNCHANGED history

\* A read fails: no handler catches it and Koa answers 500.
ReadFails(r) ==
    /\ req[r].stage \in {"fetch", "state"}
    /\ Answers(r, 500)
    /\ UNCHANGED history

-----------------------------------------------------------------------------
(* runProcess and abortProcess *)

\* Mutant of StopTested: the status is not looked at.
StopIgnored(r) ==
    IF ~ Found(r) THEN Answers(r, 404) ELSE GoesOn(r, "call", NoNode, 0)

StopTested(r) ==
    IF ~ Found(r) THEN Answers(r, 404)
    ELSE IF Status(r) \in stoppedStatus THEN Refuses(r, 422)
    ELSE GoesOn(r, "call", NoNode, 0)

RunFetched(r) ==
    /\ At(r, "run", "fetch")
    /\ StopTested(r)
    /\ UNCHANGED history

AbortFetched(r) ==
    /\ At(r, "abort", "fetch")
    /\ StopTested(r)
    /\ UNCHANGED history

\* A falsy result is answered with 404, a rejection with Koa's 500; either
\* may come after the engine has written the state.
RunReturns(r) ==
    /\ At(r, "run", "call")
    /\ \E code \in {200, 404, 500} : Answers(r, code)
    /\ \/ \E n \in Blueprint[Target(r)] : Writes(r, "running", n)
       \/ UNCHANGED history

AbortReturns(r) ==
    /\ At(r, "abort", "call")
    /\ \E code \in {200, 404, 500} : Answers(r, code)
    /\ Writes(r, "interrupted", NoNode) \/ UNCHANGED history

\* continueProcess: only a result with an error is answered with 422.
ContinueReturns(r) ==
    /\ At(r, "continue", "call")
    /\ \E code \in {200, 422, 500} : Answers(r, code)
    /\ \/ \E n \in Blueprint[Target(r)] : Writes(r, "running", n)
       \/ UNCHANGED history

-----------------------------------------------------------------------------
(* fetchProcess and fetchStateByParameters *)

FetchFetched(r) ==
    /\ At(r, "fetch", "fetch")
    /\ IF Found(r) THEN Refuses(r, 200) ELSE Answers(r, 404)
    /\ UNCHANGED history

StatesFetched(r) ==
    /\ At(r, "states", "fetch")
    /\ IF Found(r) THEN GoesOn(r, "state", NoNode, 0) ELSE Answers(r, 404)
    /\ UNCHANGED history

\* The second read is for the states; an empty list is answered 200 as well.
StatesRead(r) ==
    /\ At(r, "states", "state")
    /\ \E code \in {200, 404} : Answers(r, code)
    /\ UNCHANGED history

-----------------------------------------------------------------------------
(* setProcessState and transferProcessState *)

SetFetched(r) ==
    /\ At(r, "set", "fetch")
    /\ IF Found(r) /\ req[r].node \in Blueprint[Target(r)]
       THEN GoesOn(r, "call", req[r].node, 0)
       ELSE Answers(r, 404)
    /\ UNCHANGED history

TransferFetched(r) ==
    /\ At(r, "transfer", "fetch")
    /\ IF Found(r) THEN GoesOn(r, "state", NoNode, 0) ELSE Answers(r, 404)
    /\ UNCHANGED history

\* Mutant of TransferRead: the state's next node is not looked up.
TransferAny(r) ==
    /\ At(r, "transfer", "state")
    /\ \/ Answers(r, 404)
       \/ \E q \in Processes : \E i \in DOMAIN history[q] :
             req' = [req EXCEPT ![r].stage = "call",
                                ![r].node = history[q][i].next]
    /\ UNCHANGED history

\* The state may be one of any process; its next node must be a node of the
\* target's blueprint.
TransferRead(r) ==
    /\ At(r, "transfer", "state")
    /\ \/ Answers(r, 404)
       \/ \E q \in Processes : \E i \in DOMAIN history[q] :
             IF history[q][i].next \in Blueprint[Target(r)]
             THEN req' = [req EXCEPT ![r].stage = "call",
                                     ![r].node = history[q][i].next]
             ELSE Answers(r, 400)
    /\ UNCHANGED history

\* setState: a missing result is dereferenced, so only a state gives 200.
SetReturns(r) ==
    /\ At(r, "set", "call") \/ At(r, "transfer", "call")
    /\ \/ /\ Writes(r, "pending", req[r].node)
          /\ \E code \in {200, 500} : Answers(r, code)
       \/ Answers(r, 500) /\ UNCHANGED history

-----------------------------------------------------------------------------
(* runPendingProcess *)

\* The engine's promise is not awaited: 202 is sent while the call runs.  The
\* 422 does not repeat the status.
ResumeFetched(r) ==
    /\ At(r, "resume", "fetch")
    /\ IF ~ Found(r) THEN Answers(r, 404)
       ELSE IF Status(r) # "pending" THEN Answers(r, 422)
       ELSE GoesOn(r, "resuming", NoNode, 202)
    /\ UNCHANGED history

ResumeReturns(r) ==
    /\ At(r, "resume", "resuming")
    /\ req' = [req EXCEPT ![r].stage = "answered"]
    /\ \/ \E n \in Blueprint[Target(r)] : Writes(r, "running", n)
       \/ UNCHANGED history

\* The try block has been left, so the rejection is unhandled: Node stops the
\* server unless something else in the process listens for it.
ResumeRejects(r) ==
    /\ At(r, "resume", "resuming")
    /\ \E stops \in BOOLEAN :
          req' = [s \in Requests |->
                    IF s = r THEN [req[r] EXCEPT !.stage = "rejected"]
                    ELSE IF stops /\ req[s].stage \in Serving \cup {"resuming"}
                    THEN [req[s] EXCEPT !.stage = "cut"]
                    ELSE req[s]]
    /\ \/ \E n \in Blueprint[Target(r)] : Writes(r, "running", n)
       \/ UNCHANGED history

-----------------------------------------------------------------------------
(* expireProcess *)

\* Mutant of ExpireFetched: a running process is read again until it stops.
ExpireRetries(r) ==
    /\ At(r, "expire", "fetch")
    /\ IF ~ Found(r) THEN Answers(r, 404)
       ELSE IF Status(r) = "running" THEN UNCHANGED req
       ELSE IF Status(r) \in unexpirable THEN Refuses(r, 409)
       ELSE GoesOn(r, "call", NoNode, 0)
    /\ UNCHANGED history

\* Mutant of ExpireFetched: the body repeats the status of the first state.
ExpireTellsFirst(r) ==
    /\ At(r, "expire", "fetch")
    /\ IF ~ Found(r) THEN Answers(r, 404)
       ELSE IF Status(r) \in unexpirable
       THEN req' = [req EXCEPT ![r].stage = "answered", ![r].code = 409,
                               ![r].told = history[Target(r)][1].status]
       ELSE GoesOn(r, "call", NoNode, 0)
    /\ UNCHANGED history

ExpireFetched(r) ==
    /\ At(r, "expire", "fetch")
    /\ IF ~ Found(r) THEN Answers(r, 404)
       ELSE IF Status(r) \in unexpirable THEN Refuses(r, 409)
       ELSE GoesOn(r, "call", NoNode, 0)
    /\ UNCHANGED history

\* Any result is answered with 200, a rejection is caught.
ExpireReturns(r) ==
    /\ At(r, "expire", "call")
    /\ \E code \in {200, 400} : Answers(r, code)
    /\ Writes(r, "expired", NoNode) \/ UNCHANGED history

-----------------------------------------------------------------------------

Handler(r) ==
    \/ RunFetched(r) \/ RunReturns(r)
    \/ AbortFetched(r) \/ AbortReturns(r)
    \/ ContinueReturns(r)
    \/ FetchFetched(r)
    \/ StatesFetched(r) \/ StatesRead(r)
    \/ SetFetched(r) \/ SetReturns(r)
    \/ TransferFetched(r) \/ TransferRead(r)
    \/ ResumeFetched(r) \/ ResumeReturns(r) \/ ResumeRejects(r)
    \/ ExpireFetched(r) \/ ExpireReturns(r)

Next ==
    \/ \E p \in Processes : ProcessCreated(p) \/ EngineMoves(p)
    \/ \E r \in Requests :
          \/ \E op \in Operations, p \in Processes : Receive(r, op, p)
          \/ Handler(r) \/ ReadFails(r)

Spec == Init /\ [][Next]_vars

\* Every read and every call of the engine settles.
FairSpec == Spec /\ \A r \in Requests : WF_vars(Handler(r))

-----------------------------------------------------------------------------
(* Properties *)

\* What each operation's own check excludes.
Excluded(op) ==
    CASE op \in {"run", "abort"} -> {"finished", "interrupted", "error"}
      [] op = "expire" -> {"finished", "expired", "running"}
      [] op = "resume" -> Statuses \ {"pending"}
      [] OTHER -> {}

\* A handler changes a process in a status its check excludes only when the
\* process got there after the check: the reads before runProcess,
\* abortProcess, expireProcess and runPendingProcess are stale, never absent.
OverwritesAreRaces ==
    \A p \in Processes : \A i \in 2..Length(p) :
        history[p][i - 1].status \in Excluded(history[p][i].by)
            => history[p][i].seen < i - 1

\* Whatever is set, transferred, resumed or aborted under it, a process is
\* only ever pending at a node of its own blueprint.
PendingNodeIsKnown ==
    \A p \in Processes : \A i \in DOMAIN history[p] :
        history[p][i].status = "pending" => history[p][i].next \in Blueprint[p]

\* The status a reply reports was the process's at some moment while the
\* request was served, and 404 before a call is only for a process that did
\* not exist when the request came.
RepliesAreCurrent ==
    \A r \in Requests :
        /\ req[r].told # "none" =>
              \E i \in DOMAIN history[Target(r)] :
                  i >= req[r].arrival /\ history[Target(r)][i].status = req[r].told
        /\ req[r].op \in {"fetch", "resume", "expire"} /\ req[r].code = 404
              => req[r].arrival = 0

\* Every request is answered, with the reads and calls of controllers/process.js
\* and cockpit/process.js settled, unless a rejected resume stops the server
\* under it (what a listener's own publication may stop is left out here).
RequestsAnswered ==
    \A r \in Requests :
        req[r].stage \in Serving ~> req[r].code # 0 \/ req[r].stage = "cut"

\* swagger.yml:1073-1105 and the handler's own catch promise 400 for a resume
\* that failed.
ResumeFailureReported ==
    \A r \in Requests : req[r].stage = "rejected" => req[r].code = 400
=============================================================================
