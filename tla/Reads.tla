-------------------------------- MODULE Reads --------------------------------
(***************************************************************************)
(* The handlers that only read, and take more than one await or decide on  *)
(* what they read: fetchActivity (src/src/controllers/activity.js), those  *)
(* of src/src/controllers/state.js, getProcessTree and the lists of        *)
(* processes of a workflow (src/src/controllers/cockpit), fetchWorkflow,   *)
(* buildDiagram and healthCheck.                                           *)
(*                                                                         *)
(* The database moves on between two awaits of a handler, so a reply may   *)
(* be put together from several moments.  Readers change nothing and do    *)
(* not meet each other: one request at a time is enough.  All processes    *)
(* are those of one workflow.                                              *)
(***************************************************************************)
EXTENDS Naturals, Sequences

CONSTANTS
    Processes,
    NoParent,
    Parent,             \* the parent of each process, or NoParent
    MaxReadyTimers,     \* MAX_READY_TIMERS, or NoLimit when it is unset
    NoLimit,
    MaxStates,          \* bound: states of a process
    MaxTimers,          \* bound: timers at a time
    MaxChanges          \* bound: changes of the database under a request

ASSUME ReadsAssumption ==
    /\ Processes # {} /\ NoParent \notin Processes
    /\ Parent \in [Processes -> Processes \cup {NoParent}]
    /\ MaxReadyTimers \in Nat \cup {NoLimit}
    /\ NoLimit \notin Nat
    /\ MaxStates \in Nat /\ MaxTimers \in Nat /\ MaxChanges \in Nat

VARIABLES
    past,       \* the states the database has been in since the request came,
                \* the present one last
    req         \* the request that is served

vars == <<past, req>>

Statuses == {"unstarted", "running", "waiting", "finished", "interrupted"}

\* The statuses in which fetchActivity looks for an activity; "delegated" and
\* "pending" are not told apart from "waiting".
Active == {"running", "waiting"}

\* open: the processes with an activity the actor can see; ready, active:
\* timers that are due and all that are set; workflow: it is saved.
World == [states : [Processes -> Seq(Statuses)], tree : SUBSET Processes,
          open : SUBSET Processes, ready : Nat, active : Nat, workflow : BOOLEAN]

Operations == {"activity", "state", "spec", "execution", "nodeContexts", "tree",
               "processes", "workflow", "diagram", "health"}

StateOperations == {"state", "spec", "execution"}

Stages == {"idle", "first", "second", "third", "answered"}

\* What a reply says.  status: the current_status of its body; of: the status
\* by process, where it is a list; count: a number of timers.
Reply == [code : {0, 200, 204, 400, 404, 409, 500},
          status : Statuses \cup {"none"},
          of : UNION {[P -> Statuses] : P \in SUBSET Processes},
          count : Nat]

\* step: the state asked for is that with this number; due: what remains of
\* the reads that are made at once; verdict: what is known before the last
\* read; failed: a read was not answered.
TypeOK ==
    /\ past \in Seq(World)
    /\ req \in [op : Operations, process : Processes, step : Nat, stage : Stages,
                due : SUBSET Processes, verdict : BOOLEAN, reply : Reply,
                failed : BOOLEAN]

-----------------------------------------------------------------------------
(* The database *)

Now == past[Len(past)]

Length(w, p) == Len(w.states[p])

Status(w, p) == w.states[p][Length(w, p)]

Changes(w) ==
    /\ \/ req.stage = "idle" /\ past' = <<w>>
       \/ /\ req.stage \notin {"idle", "answered"}
          /\ Len(past) <= MaxChanges
          /\ past' = Append(past, w)
    /\ UNCHANGED req

Adds(p, status) ==
    /\ Length(Now, p) < MaxStates
    /\ Changes([Now EXCEPT !.states[p] = Append(@, status),
                  !.open = IF status = "waiting" THEN @ \cup {p} ELSE @])

\* The engine creates and moves a process; a stop need not close its activity.
EngineMoves(p) ==
    \/ /\ Length(Now, p) = 0 /\ Now.workflow
       /\ Parent[p] # NoParent => Length(Now, Parent[p]) > 0
       /\ Adds(p, "unstarted")
    \/ /\ Length(Now, p) > 0
       /\ LET status == Status(Now, p)
          IN  \/ status \in {"unstarted", "waiting"} /\ Adds(p, "running")
              \/ status = "running" /\ Adds(p, "waiting")
              \/ status = "running" /\ Adds(p, "finished")
              \/ status \in Active /\ Adds(p, "interrupted")

\* The listener of the first state of a process.
TreeGrows(p) ==
    /\ Length(Now, p) > 0 /\ p \notin Now.tree
    /\ Parent[p] # NoParent => Parent[p] \in Now.tree
    /\ Changes([Now EXCEPT !.tree = @ \cup {p}])

ActivityCloses(p) ==
    /\ p \in Now.open
    /\ Changes([Now EXCEPT !.open = @ \ {p}])

TimersMove ==
    \/ Now.active < MaxTimers /\ Changes([Now EXCEPT !.active = @ + 1])
    \/ Now.ready < Now.active /\ Changes([Now EXCEPT !.ready = @ + 1])
    \/ Now.ready > 0 /\ Changes([Now EXCEPT !.ready = @ - 1, !.active = @ - 1])

\* process.workflow_id is a foreign key.
WorkflowDeleted ==
    /\ Now.workflow
    /\ \A p \in Processes : Length(Now, p) = 0
    /\ Changes([Now EXCEPT !.workflow = FALSE])

-----------------------------------------------------------------------------
(* Helpers of the handlers *)

Nothing == [code |-> 0, status |-> "none", of |-> [p \in {} |-> "running"], count |-> 0]

Says(code) == [Nothing EXCEPT !.code = code]

SaysStatus(code, status) == [Says(code) EXCEPT !.status = status]

Answers(reply) == req' = [req EXCEPT !.stage = "answered", !.reply = reply]

GoesOn(stage) == req' = [req EXCEPT !.stage = stage]

At(op, stage) == req.op = op /\ req.stage = stage

Found == Length(Now, req.process) > 0

\* getProcessState
StateFound == req.step \in 1..Length(Now, req.process)

-----------------------------------------------------------------------------
(* Requests *)

Receive ==
    /\ req.stage = "idle"
    /\ \E op \in Operations, p \in Processes :
       \E k \in IF op \in StateOperations THEN 1..MaxStates ELSE {0} :
          req' = [req EXCEPT !.op = op, !.process = p, !.step = k, !.stage = "first"]
    /\ UNCHANGED past

\* A read is not answered.  Only that of the list of processes is caught.
ReadFails ==
    /\ req.stage \in {"first", "second", "third"}
    /\ req' = [req EXCEPT !.stage = "answered", !.failed = TRUE,
                 !.reply = Says(IF At("processes", "second") THEN 400 ELSE 500)]
    /\ UNCHANGED past

\* Mutant of ActivityFetched: the process is taken for granted.
ActivityFetchedUntested ==
    /\ At("activity", "first")
    /\ IF ~ Found THEN Answers(Says(500))
       ELSE IF Status(Now, req.process) \in Active THEN GoesOn("second")
       ELSE Answers(SaysStatus(404, Status(Now, req.process)))
    /\ UNCHANGED past

\* fetchActivity: an unstarted or stopped process is not asked for activities.
ActivityFetched ==
    /\ At("activity", "first")
    /\ IF ~ Found THEN Answers(Says(404))
       ELSE IF Status(Now, req.process) \in Active THEN GoesOn("second")
       ELSE Answers(SaysStatus(404, Status(Now, req.process)))
    /\ UNCHANGED past

\* A reply 204 has no body, whatever the handler puts into it.
ActivityRead ==
    /\ At("activity", "second")
    /\ Answers(Says(IF req.process \in Now.open THEN 200 ELSE 204))
    /\ UNCHANGED past

StateFetched ==
    /\ req.op \in StateOperations /\ req.stage = "first"
    /\ IF StateFound THEN GoesOn("second") ELSE Answers(Says(404))
    /\ UNCHANGED past

\* fetchSpec and calculateExecutionData make the node of the state out of its
\* blueprint, and getNode throws for a type or category the engine has not got.
Computed == \E code \in {200, 500} : Answers(Says(code))

\* The process is read for its blueprint, which does not change.
ProcessRead ==
    /\ req.op \in StateOperations /\ req.stage = "second"
    /\ \/ req.op = "execution" /\ GoesOn("third")
       \/ req.op = "spec" /\ Computed
       \/ req.op = "state" /\ Answers(Says(200))
    /\ UNCHANGED past

\* calculateExecutionData reads the state again, as the one before.  The node's
\* preprocessing may reject what it is given, and the keys of its parameters,
\* which not every node must have, are taken without a test.
ExecutionRead ==
    /\ At("execution", "third")
    /\ Computed
    /\ UNCHANGED past

\* fetchMultipleStateExecution: all contexts are read at once; what they say
\* is not told apart here.
NodeStatesListed ==
    /\ At("nodeContexts", "first")
    /\ GoesOn("second")
    /\ UNCHANGED past

ContextsRead ==
    /\ At("nodeContexts", "second")
    /\ Answers(Says(200))
    /\ UNCHANGED past

HasParents(rows) == \A p \in rows : Parent[p] # NoParent => Parent[p] \in rows

\* A process and those above it: what every set that has it and the parents of
\* its members has.
Ancestors(p) ==
    {q \in Processes :
        \A rows \in SUBSET Processes : p \in rows /\ HasParents(rows) => q \in rows}

\* tree.getPath: of a process without a row it gives an empty list, or nothing
\* that could be mapped.
Path(w, p) == IF p \in w.tree THEN Ancestors(p) ELSE {}

TreeFetched ==
    /\ At("tree", "first")
    /\ \/ req' = [req EXCEPT !.stage = "second", !.due = Path(Now, req.process)]
       \/ req.process \notin Now.tree /\ Answers(Says(500))
    /\ UNCHANGED past

\* Mutant of TreeProcessRead: every row is given the status of the process
\* that was asked for.
TreeProcessReadOnce ==
    /\ At("tree", "second")
    /\ \E p \in req.due :
          req' = [req EXCEPT !.due = @ \ {p},
            !.reply.of = [q \in DOMAIN @ \cup {p} |->
                            IF q = p THEN Status(Now, req.process) ELSE @[q]]]
    /\ UNCHANGED past

\* The processes are read at once and answered in any order.
TreeProcessRead ==
    /\ At("tree", "second")
    /\ \E p \in req.due :
          req' = [req EXCEPT !.due = @ \ {p},
            !.reply.of = [q \in DOMAIN @ \cup {p} |->
                            IF q = p THEN Status(Now, p) ELSE @[q]]]
    /\ UNCHANGED past

TreeReturns ==
    /\ At("tree", "second")
    /\ req.due = {}
    /\ Answers([req.reply EXCEPT !.code = 200])
    /\ UNCHANGED past

\* getProcessesByWorkflowId, getProcessesByWorkflowName, fetchWorkflow,
\* fetchWorkflowByName, buildDiagram with a workflow_id.
WorkflowFetched ==
    /\ req.op \in {"processes", "workflow", "diagram"} /\ req.stage = "first"
    /\ IF ~ Now.workflow THEN Answers(Says(IF req.op = "workflow" THEN 204 ELSE 404))
       ELSE IF req.op = "workflow" THEN Answers(Says(200))
       ELSE GoesOn("second")
    /\ UNCHANGED past

\* cockpitService: the processes joined with their workflow.
Joined(w) ==
    [p \in {q \in Processes : w.workflow /\ Length(w, q) > 0} |-> Status(w, p)]

ProcessesListed ==
    /\ At("processes", "second")
    /\ Answers([Says(200) EXCEPT !.of = Joined(Now)])
    /\ UNCHANGED past

\* The builder draws the blueprint or throws, which is caught.
DiagramBuilt ==
    /\ At("diagram", "second")
    /\ \E code \in {200, 400} : Answers(Says(code))
    /\ UNCHANGED past

TooManyReady(ready) == MaxReadyTimers # NoLimit /\ ready > MaxReadyTimers

\* Mutant of ReadyCounted: all timers that are set are judged.
AllCounted ==
    /\ At("health", "first")
    /\ req' = [req EXCEPT !.stage = "second", !.verdict = TooManyReady(Now.active)]
    /\ UNCHANGED past

\* The timers that are due decide the status; their number is never told,
\* because TIMER_BATCH is a string.
ReadyCounted ==
    /\ At("health", "first")
    /\ req' = [req EXCEPT !.stage = "second", !.verdict = TooManyReady(Now.ready)]
    /\ UNCHANGED past

ActiveCounted ==
    /\ At("health", "second")
    /\ Answers([Says(IF req.verdict THEN 409 ELSE 200) EXCEPT !.count = Now.active])
    /\ UNCHANGED past

-----------------------------------------------------------------------------

Init ==
    /\ past = << [states |-> [p \in Processes |-> <<>>], tree |-> {}, open |-> {},
                  ready |-> 0, active |-> 0, workflow |-> TRUE] >>
    /\ req = [op |-> "state", process |-> CHOOSE p \in Processes : TRUE, step |-> 0,
              stage |-> "idle", due |-> {}, verdict |-> FALSE, reply |-> Nothing,
              failed |-> FALSE]

Database ==
    \/ \E p \in Processes : EngineMoves(p) \/ TreeGrows(p) \/ ActivityCloses(p)
    \/ TimersMove \/ WorkflowDeleted

Handler ==
    \/ ActivityFetched \/ ActivityRead
    \/ StateFetched \/ ProcessRead \/ ExecutionRead
    \/ NodeStatesListed \/ ContextsRead
    \/ TreeFetched \/ TreeProcessRead \/ TreeReturns
    \/ WorkflowFetched \/ ProcessesListed \/ DiagramBuilt
    \/ ReadyCounted \/ ActiveCounted

Next == Database \/ Receive \/ Handler \/ ReadFails

Spec == Init /\ [][Next]_vars

-----------------------------------------------------------------------------
(* Properties *)

\* The replies a database that stands still entitles to, by operation.
Entitled(w) ==
    LET p == req.process
        exists == Length(w, p) > 0
    IN  CASE req.op = "activity" ->
               IF exists /\ Status(w, p) \in Active
               THEN {Says(IF p \in w.open THEN 200 ELSE 204)}
               ELSE {SaysStatus(404, IF exists THEN Status(w, p) ELSE "none")}
          [] req.op \in StateOperations ->
               IF req.step > Length(w, p) THEN {Says(404)}
               ELSE IF req.op = "state" THEN {Says(200)}
               ELSE {Says(200), Says(500)}
          [] req.op = "nodeContexts" -> {Says(200)}
          [] req.op = "tree" ->
               IF p \in w.tree
               THEN {[Says(200) EXCEPT !.of = [q \in Ancestors(p) |-> Status(w, q)]]}
               ELSE {Says(200), Says(500)}
          [] req.op = "processes" ->
               IF w.workflow THEN {[Says(200) EXCEPT !.of = Joined(w)]} ELSE {Says(404)}
          [] req.op = "workflow" -> {Says(IF w.workflow THEN 200 ELSE 204)}
          [] req.op = "diagram" -> IF w.workflow THEN {Says(200), Says(400)} ELSE {Says(404)}
          [] req.op = "health" ->
               {[Says(IF TooManyReady(w.ready) THEN 409 ELSE 200)
                  EXCEPT !.count = w.active]}

Answered == req.stage = "answered" /\ ~ req.failed

Moments == DOMAIN past

\* Two reads that are combined: fetchActivity can say 200 or 204 of a process
\* that stopped between its reads, getProcessTree can tell statuses of different
\* moments and healthCheck can judge and count at different ones.
Torn(i, j) ==
    /\ i < j /\ past[i] # past[j]
    /\ \/ /\ req.op = "activity"
          /\ Status(past[i], req.process) \in Active
          /\ Status(past[j], req.process) \notin Active
          /\ req.reply = Says(IF req.process \in past[j].open THEN 200 ELSE 204)
       \/ /\ req.op = "tree" /\ req.reply.code = 200
          /\ \E p \in DOMAIN req.reply.of : p # req.process
       \/ req.op = "health" /\ past[i].active # past[j].active

\* A reply is what one moment of the request entitled to, except where two
\* reads of different moments are combined.  The list of the processes of a
\* workflow that is deleted after it was found is not one of those.
RepliesAreOfOneMoment ==
    Answered =>
        \/ \E i \in Moments : req.reply \in Entitled(past[i])
        \/ \E i, j \in Moments : Torn(i, j)

\* Each status that a list tells was that of its process at some moment of the
\* request, a listed process is listed with all its ancestors, and the two
\* numbers of a health check were true in the order they were read.
PartsWereTrue ==
    Answered =>
        /\ \A p \in DOMAIN req.reply.of : \E i \in Moments :
              Length(past[i], p) > 0 /\ req.reply.of[p] = Status(past[i], p)
        /\ req.op = "tree" => \A p \in DOMAIN req.reply.of :
              Ancestors(p) \subseteq DOMAIN req.reply.of
        /\ req.op = "health" => \E i, j \in Moments :
              /\ i <= j
              /\ TooManyReady(past[i].ready) <=> req.reply.code = 409
              /\ past[j].active = req.reply.count

\* What a first read found is enough for those that follow it: unless a read
\* fails, a reader of an activity, a state, contexts, processes, a workflow, a
\* diagram or the health never ends in 500, one of a node only for a state that
\* exists, and one of a tree only for a process that had no row in it.
FailuresAreExplained ==
    Answered /\ req.reply.code = 500 =>
        \/ req.op \in {"spec", "execution"} /\ StateFound
        \/ req.op = "tree" /\ \E i \in Moments : req.process \notin past[i].tree
=============================================================================
