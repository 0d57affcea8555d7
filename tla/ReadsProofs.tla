----------------------------- MODULE ReadsProofs -----------------------------
(***************************************************************************)
(* Theorems about Reads.                                                   *)
(*                                                                         *)
(* ReadsInv says of every moment of a request how it stands to the present *)
(* one, and of a request between two awaits at which moment what it has    *)
(* read was so.                                                            *)
(***************************************************************************)
EXTENDS Reads, TLAPS

\* A process of the tree exists and its ancestors are in the tree too; a timer
\* that is due is set; a process has its workflow.
WorldInv(w) ==
    /\ \A p \in w.tree : Length(w, p) > 0
    /\ HasParents(w.tree)
    /\ w.ready <= w.active
    /\ ~ w.workflow => \A p \in Processes : Length(w, p) = 0

\* What never goes back while a request is served.
Grows(v, w) ==
    /\ \A p \in Processes : Length(v, p) <= Length(w, p)
    /\ v.tree \subseteq w.tree
    /\ w.workflow => v.workflow

PastInv ==
    /\ past # <<>>
    /\ \A i \in Moments : WorldInv(past[i]) /\ Grows(past[i], Now)

Told == RepliesAreOfOneMoment /\ PartsWereTrue /\ FailuresAreExplained

\* getProcessTree between its reads: what it still asks for and what it was
\* told are the ancestors of a process of the tree, or nothing.
TreeRead ==
    LET of == req.reply.of
        rows == req.due \cup DOMAIN of
    IN  /\ req.reply = [Nothing EXCEPT !.of = of]
        /\ \/ rows = {} /\ \E i \in Moments : req.process \notin past[i].tree
           \/ /\ rows = Ancestors(req.process) /\ rows \subseteq Now.tree
              /\ \A q \in DOMAIN of : \E i \in Moments :
                    rows \subseteq past[i].tree /\ of[q] = Status(past[i], q)

\* What the first read has found, at some moment.
FirstRead ==
    /\ At("activity", "second") => \E i \in Moments :
          Length(past[i], req.process) > 0 /\ Status(past[i], req.process) \in Active
    /\ req.op \in StateOperations /\ req.stage \in {"second", "third"} => StateFound
    /\ At("tree", "second") => TreeRead
    /\ req.stage = "second" /\ req.op \in {"processes", "diagram"} =>
          \E i \in Moments : past[i].workflow
    /\ At("health", "second") => \E i \in Moments :
          req.verdict = TooManyReady(past[i].ready)

RequestInv ==
    /\ req.stage # "answered" /\ ~ At("tree", "second") => req.reply = Nothing
    /\ req.op \in StateOperations /\ req.stage # "idle" => req.step >= 1
    /\ FirstRead
    /\ Told

ReadsInv == TypeOK /\ PastInv /\ RequestInv

-----------------------------------------------------------------------------
(* The world *)

LEMMA WorldParts ==
    ASSUME NEW w \in World
    PROVE  /\ \A p \in Processes : /\ w.states[p] \in Seq(Statuses) /\ Length(w, p) \in Nat
                                   /\ Length(w, p) > 0 => Status(w, p) \in Statuses
           /\ w.tree \in SUBSET Processes /\ w.open \in SUBSET Processes
           /\ w.ready \in Nat /\ w.active \in Nat /\ w.workflow \in BOOLEAN
<1>1. w.states \in [Processes -> Seq(Statuses)]
  BY DEF World
<1>2. ASSUME NEW p \in Processes
      PROVE  /\ w.states[p] \in Seq(Statuses) /\ Length(w, p) \in Nat
             /\ Length(w, p) > 0 => Status(w, p) \in Statuses
  <2> DEFINE s == w.states[p]
  <2>1. s \in Seq(Statuses) /\ Len(s) \in Nat /\ (Len(s) > 0 => s[Len(s)] \in Statuses)
    BY <1>1
  <2>2. QED
    BY <2>1 DEF Length, Status
<1>3. QED
  BY <1>2 DEF World

LEMMA GrowsOnce == ASSUME NEW w \in World PROVE Grows(w, w)
  BY WorldParts DEF Grows

LEMMA GrowsOn ==
    ASSUME NEW u \in World, NEW v \in World, NEW w \in World, Grows(u, v), Grows(v, w)
    PROVE  Grows(u, w)
  BY WorldParts DEF Grows

\* A change of the database that keeps what holds of it.
Moves(w) == w \in World /\ WorldInv(w) /\ Grows(Now, w) /\ Changes(w)

LEMMA NowIs ==
    ASSUME TypeOK, PastInv
    PROVE  Len(past) \in Moments /\ Now \in World /\ WorldInv(Now)
  BY DEF TypeOK, PastInv, Now, Moments

(***************************************************************************)
(* A process gets one state more.                                          *)
(***************************************************************************)
LEMMA AddsMoves ==
    ASSUME TypeOK, PastInv, NEW p \in Processes, NEW status \in Statuses,
           Now.workflow, Adds(p, status)
    PROVE  \E w : Moves(w)
<1> DEFINE s == Append(Now.states[p], status)
           open == IF status = "waiting" THEN Now.open \cup {p} ELSE Now.open
           w == [Now EXCEPT !.states[p] = s, !.open = open]
<1>1. /\ Now \in World /\ WorldInv(Now)
      /\ Now.states \in [Processes -> Seq(Statuses)] /\ Now.open \in SUBSET Processes
  BY NowIs DEF World
<1>2. s \in Seq(Statuses) /\ Len(s) = Len(Now.states[p]) + 1
  BY <1>1
<1>3. open \in SUBSET Processes
  BY <1>1
<1> HIDE DEF s, open
<1>4. /\ w \in World
      /\ w.states = [Now.states EXCEPT ![p] = s]
      /\ w.tree = Now.tree /\ w.ready = Now.ready /\ w.active = Now.active
      /\ w.workflow = Now.workflow
  BY <1>1, <1>2, <1>3 DEF World
<1>5. \A q \in Processes : Length(w, q) \in Nat /\ Length(w, q) >= Length(Now, q)
  BY <1>1, <1>2, <1>4 DEF Length
<1>6. WorldInv(w)
  BY <1>1, <1>4, <1>5, WorldParts DEF WorldInv
<1>7. Grows(Now, w)
  BY <1>4, <1>5 DEF Grows
<1>8. Changes(w)
  BY DEF Adds, s, open
<1>9. QED
  BY <1>4, <1>6, <1>7, <1>8 DEF Moves

LEMMA EngineMovesOn ==
    ASSUME TypeOK, PastInv, NEW p \in Processes, EngineMoves(p)
    PROVE  \E w : Moves(w)
<1>1. Now.workflow
  BY NowIs, WorldParts DEF EngineMoves, WorldInv
<1>2. \E status \in Statuses : Adds(p, status)
  BY DEF EngineMoves, Statuses
<1>3. QED
  BY <1>1, <1>2, AddsMoves

LEMMA TreeGrowsOn ==
    ASSUME TypeOK, PastInv, NEW p \in Processes, TreeGrows(p)
    PROVE  \E w : Moves(w)
<1> DEFINE w == [Now EXCEPT !.tree = Now.tree \cup {p}]
<1>1. Now \in World /\ WorldInv(Now)
  BY NowIs
<1>2. /\ w \in World /\ w.states = Now.states /\ w.tree = Now.tree \cup {p}
      /\ w.ready = Now.ready /\ w.active = Now.active /\ w.workflow = Now.workflow
  BY <1>1 DEF World
<1>3. \A q \in Processes : Length(w, q) = Length(Now, q)
  BY <1>2 DEF Length
<1>4. WorldInv(w)
  <2>1. \A q \in w.tree : Length(w, q) > 0
    BY <1>1, <1>2, <1>3, WorldParts DEF WorldInv, TreeGrows
  <2>2. HasParents(w.tree)
    BY <1>1, <1>2 DEF WorldInv, HasParents, TreeGrows
  <2>3. QED
    BY <1>1, <1>2, <1>3, <2>1, <2>2 DEF WorldInv
<1>5. Grows(Now, w)
  <2>1. \A q \in Processes : Length(Now, q) \in Nat
    BY <1>1, WorldParts
  <2> HIDE DEF w
  <2>2. QED
    BY <1>2, <1>3, <2>1 DEF Grows
<1>6. Changes(w)
  BY DEF TreeGrows
<1>7. QED
  BY <1>2, <1>4, <1>5, <1>6 DEF Moves

(***************************************************************************)
(* Any other change leaves processes and their tree alone.                 *)
(***************************************************************************)
LEMMA OthersMove ==
    ASSUME TypeOK, PastInv, NEW w \in World, Changes(w),
           w.states = Now.states, w.tree = Now.tree, w.ready <= w.active,
           w.workflow = Now.workflow
              \/ (~ w.workflow /\ \A p \in Processes : Length(Now, p) = 0)
    PROVE  Moves(w)
<1>1. Now \in World /\ WorldInv(Now)
  BY NowIs
<1>2. \A p \in Processes : Length(w, p) = Length(Now, p)
  BY DEF Length
<1>3. WorldInv(w)
  BY <1>1, <1>2, WorldParts DEF WorldInv
<1>4. Grows(Now, w)
  BY <1>1, <1>2, WorldParts DEF Grows
<1>5. QED
  BY <1>3, <1>4 DEF Moves

LEMMA DatabaseMoves ==
    ASSUME TypeOK, PastInv, Database
    PROVE  \E w : Moves(w)
<1>1. Now \in World /\ WorldInv(Now)
  BY NowIs
<1>2. ASSUME NEW p \in Processes, EngineMoves(p) PROVE \E w : Moves(w)
  BY <1>2, EngineMovesOn
<1>3. ASSUME NEW p \in Processes, TreeGrows(p) PROVE \E w : Moves(w)
  BY <1>3, TreeGrowsOn
<1>4. ASSUME NEW p \in Processes, ActivityCloses(p) PROVE \E w : Moves(w)
  <2> DEFINE w == [Now EXCEPT !.open = Now.open \ {p}]
  <2>1. /\ w \in World /\ w.states = Now.states /\ w.tree = Now.tree
        /\ w.ready = Now.ready /\ w.active = Now.active /\ w.workflow = Now.workflow
    BY <1>1 DEF World
  <2>2. Changes(w)
    BY <1>4 DEF ActivityCloses
  <2>3. w.ready <= w.active
    BY <1>1, <2>1 DEF WorldInv
  <2>4. QED
    BY <2>1, <2>2, <2>3, OthersMove
<1>5. CASE TimersMove
  <2>1. ASSUME NEW n \in Nat, NEW m \in Nat, n <= m,
               Changes([Now EXCEPT !.ready = n, !.active = m])
        PROVE  \E w : Moves(w)
    <3> DEFINE w == [Now EXCEPT !.ready = n, !.active = m]
    <3>1. /\ w \in World /\ w.states = Now.states /\ w.tree = Now.tree
          /\ w.ready = n /\ w.active = m /\ w.workflow = Now.workflow
      BY <1>1 DEF World
    <3>2. QED
      BY <2>1, <3>1, OthersMove
  <2>2. Now.ready \in Nat /\ Now.active \in Nat /\ Now.ready <= Now.active
    BY <1>1, WorldParts DEF WorldInv
  <2>3. CASE Changes([Now EXCEPT !.active = @ + 1])
    <3>1. [Now EXCEPT !.active = @ + 1]
            = [Now EXCEPT !.ready = Now.ready, !.active = Now.active + 1]
      BY <1>1 DEF World
    <3>2. Now.ready \in Nat /\ Now.active + 1 \in Nat /\ Now.ready <= Now.active + 1
      BY <2>2, <2>3
    <3>3. Changes([Now EXCEPT !.ready = Now.ready, !.active = Now.active + 1])
      BY <2>3, <3>1
    <3>4. QED
      BY <2>1, <3>2, <3>3
  <2>4. CASE Now.ready < Now.active /\ Changes([Now EXCEPT !.ready = @ + 1])
    <3>1. [Now EXCEPT !.ready = @ + 1]
            = [Now EXCEPT !.ready = Now.ready + 1, !.active = Now.active]
      BY <1>1 DEF World
    <3>2. Now.ready + 1 \in Nat /\ Now.active \in Nat /\ Now.ready + 1 <= Now.active
      BY <2>2, <2>4
    <3>3. Changes([Now EXCEPT !.ready = Now.ready + 1, !.active = Now.active])
      BY <2>4, <3>1
    <3>4. QED
      BY <2>1, <3>2, <3>3
  <2>5. CASE Now.ready > 0 /\ Changes([Now EXCEPT !.ready = @ - 1, !.active = @ - 1])
    <3>1. [Now EXCEPT !.ready = @ - 1, !.active = @ - 1]
            = [Now EXCEPT !.ready = Now.ready - 1, !.active = Now.active - 1]
      OBVIOUS
    <3>2. Now.ready - 1 \in Nat /\ Now.active - 1 \in Nat /\ Now.ready - 1 <= Now.active - 1
      BY <2>2, <2>5
    <3>3. Changes([Now EXCEPT !.ready = Now.ready - 1, !.active = Now.active - 1])
      BY <2>5, <3>1
    <3>4. QED
      BY <2>1, <3>2, <3>3
  <2>6. QED
    BY <1>5, <2>3, <2>4, <2>5 DEF TimersMove
<1>6. CASE WorkflowDeleted
  <2> DEFINE w == [Now EXCEPT !.workflow = FALSE]
  <2>1. /\ w \in World /\ w.states = Now.states /\ w.tree = Now.tree
        /\ w.ready = Now.ready /\ w.active = Now.active /\ ~ w.workflow
    BY <1>1 DEF World
  <2>2. Changes(w) /\ \A p \in Processes : Length(Now, p) = 0
    BY <1>6 DEF WorkflowDeleted
  <2>3. w.ready <= w.active
    BY <1>1, <2>1 DEF WorldInv
  <2>4. QED
    BY <2>1, <2>2, <2>3, OthersMove
<1>7. QED
  BY <1>2, <1>3, <1>4, <1>5, <1>6 DEF Database

-----------------------------------------------------------------------------
(* Steps of the database *)

LEMMA MoveKeeps ==
    ASSUME ReadsInv, NEW w, Moves(w)
    PROVE  ReadsInv'
<1>1. /\ TypeOK /\ PastInv /\ RequestInv
      /\ w \in World /\ WorldInv(w) /\ Grows(Now, w) /\ req' = req
  BY DEF ReadsInv, Moves, Changes
<1>2. CASE req.stage = "idle" /\ past' = <<w>>
  <2>1. Moments' = {1} /\ past'[1] = w /\ Now' = w /\ past' # <<>>
    BY <1>2 DEF Moments, Now
  <2>2. TypeOK'
    BY <1>1, <1>2 DEF TypeOK
  <2>3. PastInv'
    BY <1>1, <2>1, GrowsOnce DEF PastInv
  <2>4. RequestInv'
    BY <1>1, <1>2 DEF RequestInv, FirstRead, At, Told, RepliesAreOfOneMoment,
                      PartsWereTrue, FailuresAreExplained, Answered
  <2>5. QED
    BY <2>2, <2>3, <2>4 DEF ReadsInv
<1>3. CASE req.stage \notin {"idle", "answered"} /\ past' = Append(past, w)
  <2>1. past \in Seq(World)
    BY <1>1 DEF TypeOK
  <2>2. /\ Moments' = Moments \cup {Len(past) + 1} /\ Now' = w /\ past' # <<>>
        /\ past'[Len(past) + 1] = w
        /\ \A i \in Moments : past'[i] = past[i]
    BY <1>3, <2>1 DEF Moments, Now
  <2>3. TypeOK'
    BY <1>1, <1>3, <2>1 DEF TypeOK
  <2>4. PastInv'
    <3>1. Now \in World /\ \A i \in Moments : past[i] \in World
      BY <1>1, <2>1, NowIs DEF Moments
    <3>2. ASSUME NEW i \in Moments
          PROVE  WorldInv(past[i]) /\ Grows(past[i], w)
      BY <1>1, <3>1, GrowsOn DEF PastInv
    <3>3. QED
      BY <1>1, <2>2, <3>2, GrowsOnce DEF PastInv
  <2>5. FirstRead'
    <3>1. StateFound => StateFound'
      <4>1. Now \in World /\ req.process \in Processes /\ req.step \in Nat
        BY <1>1, NowIs DEF TypeOK
      <4>2. /\ Length(Now, req.process) \in Nat /\ Length(w, req.process) \in Nat
            /\ Length(Now, req.process) <= Length(w, req.process)
        BY <1>1, <4>1, WorldParts DEF Grows
      <4>3. QED
        BY <1>1, <2>2, <4>1, <4>2 DEF StateFound
    <3>2. At("tree", "second") => TreeRead'
      <4>1. SUFFICES ASSUME At("tree", "second"), TreeRead PROVE TreeRead'
        BY <1>1 DEF RequestInv, FirstRead
      <4>2. Ancestors(req.process)' = Ancestors(req.process)
        BY <1>1 DEF Ancestors
      <4>3. Now.tree \subseteq Now'.tree
        BY <1>1, <2>2 DEF Grows
      <4>4. Nothing' = Nothing
        BY DEF Nothing
      <4>5. QED
        BY <1>1, <2>2, <4>1, <4>2, <4>3, <4>4 DEF TreeRead, Status, Length
    <3>3. FirstRead
      BY <1>1 DEF RequestInv
    <3>4. QED
      BY <1>1, <2>2, <3>1, <3>2, <3>3 DEF FirstRead, At, Length, Status, TooManyReady
  <2>6. RequestInv'
    BY <1>1, <1>3, <2>5 DEF RequestInv, At, Told, RepliesAreOfOneMoment,
                      PartsWereTrue, FailuresAreExplained, Answered
  <2>7. QED
    BY <2>3, <2>4, <2>6 DEF ReadsInv
<1>4. QED
  BY <1>2, <1>3 DEF Moves, Changes

-----------------------------------------------------------------------------
(* Steps of a handler *)

Waiting == req.stage \in {"first", "second", "third"}

LEMMA SaysTypes ==
    /\ Nothing \in Reply /\ DOMAIN Nothing.of = {}
    /\ \A code \in {0, 200, 204, 400, 404, 409, 500} :
          /\ Says(code) \in Reply /\ Says(code).code = code /\ DOMAIN Says(code).of = {}
          /\ Says(code).of = Nothing.of
          /\ Says(code).status = "none" /\ Says(code).count = 0
          /\ \A status \in Statuses :
                /\ SaysStatus(code, status) \in Reply
                /\ SaysStatus(code, status).code = code
                /\ DOMAIN SaysStatus(code, status).of = {}
<1>1. [p \in {} |-> "running"] \in [{} -> Statuses]
  OBVIOUS
<1>2. [p \in {} |-> "running"] \in UNION {[P -> Statuses] : P \in SUBSET Processes}
  BY <1>1
<1> DEFINE of == [p \in {} |-> "running"]
<1>3. DOMAIN of = {}
  OBVIOUS
<1> HIDE DEF of
<1>4. /\ Nothing = [code |-> 0, status |-> "none", of |-> of, count |-> 0]
      /\ of \in UNION {[P -> Statuses] : P \in SUBSET Processes}
  BY <1>2 DEF Nothing, of
<1>5. Nothing \in Reply /\ DOMAIN Nothing.of = {}
  BY <1>3, <1>4 DEF Reply
<1> DEFINE lists == UNION {[P -> Statuses] : P \in SUBSET Processes}
           codes == {0, 200, 204, 400, 404, 409, 500}
<1>6. /\ Reply = [code : codes, status : Statuses \cup {"none"}, of : lists, count : Nat]
       /\ of \in lists /\ Nothing.of = of
  BY <1>4 DEF Reply
<1> HIDE DEF lists, codes
<1>7. ASSUME NEW code \in codes
      PROVE  Says(code) = [code |-> code, status |-> "none", of |-> of, count |-> 0]
  BY <1>4 DEF Says
<1>8. ASSUME NEW code \in codes, NEW status \in Statuses
      PROVE  SaysStatus(code, status)
               = [code |-> code, status |-> status, of |-> of, count |-> 0]
  BY <1>7 DEF SaysStatus
<1>9. ASSUME NEW code \in codes
      PROVE  /\ Says(code) \in Reply /\ Says(code).code = code
             /\ DOMAIN Says(code).of = {} /\ Says(code).of = Nothing.of
             /\ Says(code).status = "none" /\ Says(code).count = 0
  BY <1>3, <1>7, <1>6
<1>10. ASSUME NEW code \in codes, NEW status \in Statuses
      PROVE  /\ SaysStatus(code, status) \in Reply /\ SaysStatus(code, status).code = code
             /\ DOMAIN SaysStatus(code, status).of = {}
  BY <1>3, <1>8, <1>6
<1>11. QED
  BY <1>5, <1>9, <1>10 DEF codes

(***************************************************************************)
(* The database stands still while a handler takes a step.                 *)
(***************************************************************************)
LEMMA PastStays ==
    ASSUME ReadsInv, past' = past
    PROVE  PastInv' /\ Now' = Now /\ Moments' = Moments
  BY DEF ReadsInv, PastInv, Now, Moments

LEMMA AnswerKeeps ==
    ASSUME ReadsInv, past' = past, Waiting, NEW reply \in Reply, Answers(reply), Told'
    PROVE  ReadsInv'
<1>1. TypeOK /\ RequestInv
  BY DEF ReadsInv
<1>2. TypeOK'
  BY <1>1 DEF TypeOK, Answers, Stages
<1>3. /\ req'.stage = "answered" /\ req'.op = req.op /\ req'.step = req.step
  BY <1>1 DEF TypeOK, Answers
<1>4. RequestInv'
  BY <1>1, <1>3 DEF RequestInv, FirstRead, At, Waiting
<1>5. QED
  BY <1>2, <1>4, PastStays DEF ReadsInv

LEMMA EntitledStays ==
    ASSUME TypeOK, past' = past, NEW reply, Answers(reply), NEW i \in Moments
    PROVE  Entitled(past[i])' = Entitled(past[i])
<1>1. /\ req'.op = req.op /\ req'.process = req.process /\ req'.step = req.step
  BY DEF TypeOK, Answers
<1>2. QED
  BY <1>1 DEF Entitled, Length, Status, Says, SaysStatus, Nothing, Ancestors, Joined,
              TooManyReady, HasParents

(***************************************************************************)
(* A reply without a list is true when one moment entitled to it.          *)
(***************************************************************************)
LEMMA PlainAnswer ==
    ASSUME ReadsInv, past' = past, Waiting, NEW reply \in Reply, Answers(reply),
           DOMAIN reply.of = {}, reply.code # 500, req.op # "health",
           NEW i \in Moments, reply \in Entitled(past[i])
    PROVE  ReadsInv'
<1>1. TypeOK
  BY DEF ReadsInv
<1>2. req'.op = req.op /\ req'.reply = reply /\ Moments' = Moments
  BY <1>1, PastStays DEF TypeOK, Answers
<1>3. RepliesAreOfOneMoment'
  BY <1>1, <1>2, EntitledStays DEF RepliesAreOfOneMoment
<1>4. PartsWereTrue' /\ FailuresAreExplained'
  BY <1>2 DEF PartsWereTrue, FailuresAreExplained
<1>5. QED
  BY <1>3, <1>4, AnswerKeeps DEF Told

LEMMA GoesOnKeeps ==
    ASSUME ReadsInv, past' = past, Waiting, ~ At("tree", "second"),
           NEW stage \in {"second", "third"}, GoesOn(stage), FirstRead',
           stage = "second" => req.op # "tree"
    PROVE  ReadsInv'
<1>1. TypeOK /\ RequestInv
  BY DEF ReadsInv
<1>2. TypeOK'
  BY <1>1 DEF TypeOK, GoesOn, Stages
<1>3. /\ req'.stage = stage /\ req'.op = req.op /\ req'.step = req.step
      /\ req'.reply = req.reply
  BY <1>1 DEF TypeOK, GoesOn
<1>4. req.reply = Nothing /\ Nothing' = Nothing
  BY <1>1 DEF RequestInv, Waiting, Nothing
<1>5. RequestInv'
  BY <1>1, <1>3, <1>4 DEF RequestInv, At, Waiting, Told, RepliesAreOfOneMoment,
                          PartsWereTrue, FailuresAreExplained, Answered
<1>6. QED
  BY <1>2, <1>5, PastStays DEF ReadsInv

-----------------------------------------------------------------------------
(* What each step keeps *)

LEMMA ReceiveKeeps == ASSUME ReadsInv, Receive PROVE ReadsInv'
<1>1. TypeOK /\ RequestInv /\ past' = past /\ req.stage = "idle"
  BY DEF ReadsInv, Receive
<1>2. PICK op \in Operations, p \in Processes, k \in Nat :
        /\ op \in StateOperations => k >= 1
        /\ req' = [req EXCEPT !.op = op, !.process = p, !.step = k, !.stage = "first"]
  <2>1. PICK op \in Operations, p \in Processes :
          \E k \in IF op \in StateOperations THEN 1..MaxStates ELSE {0} :
             req' = [req EXCEPT !.op = op, !.process = p, !.step = k, !.stage = "first"]
    BY DEF Receive
  <2>2. PICK k \in IF op \in StateOperations THEN 1..MaxStates ELSE {0} :
           req' = [req EXCEPT !.op = op, !.process = p, !.step = k, !.stage = "first"]
    BY <2>1
  <2>3. k \in Nat /\ (op \in StateOperations => k >= 1)
    BY <2>2, ReadsAssumption
  <2>4. QED
    BY <2>2, <2>3
<1>3. TypeOK'
  BY <1>1, <1>2 DEF TypeOK, Stages
<1>4. /\ req'.stage = "first" /\ req'.op = op /\ req'.step = k /\ req'.reply = req.reply
  BY <1>1, <1>2 DEF TypeOK
<1>5. req.reply = Nothing /\ Nothing' = Nothing
  BY <1>1 DEF RequestInv, At, Nothing
<1>6. RequestInv'
  BY <1>2, <1>4, <1>5 DEF RequestInv, FirstRead, At, Told, RepliesAreOfOneMoment,
                          PartsWereTrue, FailuresAreExplained, Answered
<1>7. QED
  BY <1>1, <1>3, <1>6, PastStays DEF ReadsInv

LEMMA FailureKeeps == ASSUME ReadsInv, ReadFails PROVE ReadsInv'
<1>1. TypeOK /\ RequestInv /\ past' = past /\ Waiting
  BY DEF ReadsInv, ReadFails, Waiting
<1>2. PICK reply \in Reply :
        req' = [req EXCEPT !.stage = "answered", !.failed = TRUE, !.reply = reply]
  <2> DEFINE reply == Says(IF At("processes", "second") THEN 400 ELSE 500)
  <2>1. reply \in Reply
    BY SaysTypes
  <2>2. req' = [req EXCEPT !.stage = "answered", !.failed = TRUE, !.reply = reply]
    BY DEF ReadFails
  <2> HIDE DEF reply
  <2>3. QED
    BY <2>1, <2>2
<1>3. TypeOK'
  BY <1>1, <1>2 DEF TypeOK, Stages
<1>4. /\ req'.stage = "answered" /\ req'.op = req.op /\ req'.step = req.step
      /\ req'.failed
  BY <1>1, <1>2 DEF TypeOK
<1>5. RequestInv'
  BY <1>1, <1>4 DEF RequestInv, FirstRead, At, Told, RepliesAreOfOneMoment, Waiting,
                    PartsWereTrue, FailuresAreExplained, Answered
<1>6. QED
  BY <1>1, <1>3, <1>5, PastStays DEF ReadsInv

(***************************************************************************)
(* What each operation is entitled to say.                                 *)
(***************************************************************************)
LEMMA EntitledIs ==
    ASSUME NEW w, NEW p, p = req.process
    PROVE  /\ req.op = "activity" => Entitled(w) =
                IF Length(w, p) > 0 /\ Status(w, p) \in Active
                THEN {Says(IF p \in w.open THEN 200 ELSE 204)}
                ELSE {SaysStatus(404, IF Length(w, p) > 0 THEN Status(w, p) ELSE "none")}
           /\ req.op \in StateOperations => Entitled(w) =
                IF req.step > Length(w, p) THEN {Says(404)}
                ELSE IF req.op = "state" THEN {Says(200)} ELSE {Says(200), Says(500)}
           /\ req.op = "nodeContexts" => Entitled(w) = {Says(200)}
           /\ req.op = "tree" => Entitled(w) =
                IF p \in w.tree
                THEN {[Says(200) EXCEPT !.of = [q \in Ancestors(p) |-> Status(w, q)]]}
                ELSE {Says(200), Says(500)}
           /\ req.op = "processes" => Entitled(w) =
                IF w.workflow THEN {[Says(200) EXCEPT !.of = Joined(w)]} ELSE {Says(404)}
           /\ req.op = "workflow" => Entitled(w) = {Says(IF w.workflow THEN 200 ELSE 204)}
           /\ req.op = "diagram" => Entitled(w) =
                IF w.workflow THEN {Says(200), Says(400)} ELSE {Says(404)}
           /\ req.op = "health" => Entitled(w) =
                {[Says(IF TooManyReady(w.ready) THEN 409 ELSE 200)
                    EXCEPT !.count = w.active]}
<1>1. CASE req.op = "activity"
  BY <1>1 DEF Entitled, StateOperations
<1>2. CASE req.op \in StateOperations
  BY <1>2 DEF Entitled, StateOperations
<1>3. CASE req.op = "nodeContexts"
  BY <1>3 DEF Entitled, StateOperations
<1>4. CASE req.op = "tree"
  BY <1>4 DEF Entitled, StateOperations
<1>5. CASE req.op = "processes"
  BY <1>5 DEF Entitled, StateOperations
<1>6. CASE req.op \in {"workflow", "diagram"}
  BY <1>6 DEF Entitled, StateOperations
<1>7. CASE req.op = "health"
  BY <1>7 DEF Entitled, StateOperations
<1>8. QED
  BY <1>1, <1>2, <1>3, <1>4, <1>5, <1>6, <1>7

\* The present is one of the moments.
LEMMA Present ==
    ASSUME ReadsInv
    PROVE  /\ Len(past) \in Moments /\ Now = past[Len(past)] /\ Now \in World
           /\ WorldInv(Now) /\ req.process \in Processes
           /\ \A i \in Moments : /\ i <= Len(past) /\ past[i] \in World
                                 /\ WorldInv(past[i]) /\ Grows(past[i], Now)
  BY NowIs DEF ReadsInv, TypeOK, PastInv, Now, Moments

LEMMA ActivityKeeps ==
    ASSUME ReadsInv, ActivityFetched \/ ActivityRead
    PROVE  ReadsInv'
<1> DEFINE p == req.process
<1>1. /\ TypeOK /\ RequestInv /\ past' = past /\ Waiting /\ req.op = "activity"
  BY DEF ReadsInv, ActivityFetched, ActivityRead, Waiting, At
<1>2. /\ Found <=> Length(Now, p) > 0
      /\ Found => Status(Now, p) \in Statuses
  BY Present, WorldParts DEF Found
<1>3. CASE ActivityFetched
  <2>1. CASE ~ Found
    <3>1. Answers(Says(404))
      BY <1>3, <2>1 DEF ActivityFetched
    <3>2. Says(404) = SaysStatus(404, "none")
      BY SaysTypes DEF SaysStatus, Reply
    <3>3. Says(404) \in Entitled(Now)
      BY <1>1, <1>2, <2>1, <3>2, EntitledIs
    <3>4. QED
      BY <1>1, <3>1, <3>3, SaysTypes, Present, PlainAnswer
  <2>2. CASE Found /\ Status(Now, p) \in Active
    <3>1. GoesOn("second") /\ At("activity", "first")
      BY <1>3, <2>2 DEF ActivityFetched
    <3>2. /\ req'.op = "activity" /\ req'.stage = "second" /\ req'.process = p
      BY <1>1, <3>1 DEF GoesOn, TypeOK
    <3>3. FirstRead'
      BY <1>1, <1>2, <2>2, <3>2, Present, PastStays DEF FirstRead, At, Length, Status,
            StateOperations
    <3>4. QED
      BY <1>1, <3>1, <3>3, GoesOnKeeps DEF At
  <2>3. CASE Found /\ Status(Now, p) \notin Active
    <3>1. Answers(SaysStatus(404, Status(Now, p)))
      BY <1>3, <2>3 DEF ActivityFetched
    <3>2. SaysStatus(404, Status(Now, p)) \in Entitled(Now)
      BY <1>1, <1>2, <2>3, EntitledIs
    <3>3. QED
      BY <1>1, <1>2, <2>3, <3>1, <3>2, SaysTypes, Present, PlainAnswer
  <2>4. QED
    BY <2>1, <2>2, <2>3
<1>4. CASE ActivityRead
  <2> DEFINE code == IF p \in Now.open THEN 200 ELSE 204
  <2>1. Answers(Says(code)) /\ At("activity", "second") /\ code \in {200, 204}
    BY <1>4 DEF ActivityRead
  <2>2. PICK i \in Moments : Length(past[i], p) > 0 /\ Status(past[i], p) \in Active
    BY <1>1, <2>1 DEF RequestInv, FirstRead
  <2>3. Found
    BY <1>2, <2>2, Present, WorldParts DEF Grows
  <2> HIDE DEF code
  <2>4. CASE Status(Now, p) \in Active
    <3>1. Says(code) \in Entitled(Now)
      BY <1>1, <1>2, <2>3, <2>4, EntitledIs DEF code
    <3>2. QED
      BY <1>1, <2>1, <3>1, SaysTypes, Present, PlainAnswer
  <2>5. CASE Status(Now, p) \notin Active
    <3>1. /\ req'.op = "activity" /\ req'.process = p /\ req'.reply = Says(code)
          /\ Moments' = Moments /\ Now' = Now
      BY <1>1, <2>1, PastStays DEF TypeOK, Answers
    <3>2. PICK j \in Moments : j = Len(past)
      BY Present
    <3>3. i < j /\ past[i] # Now /\ past'[i] = past[i] /\ past'[j] = Now
      BY <1>1, <2>2, <2>5, <3>2, Present DEF TypeOK, Moments
    <3>4. Torn(i, j)'
      <4>1. req'.reply = Says(IF p \in past'[j].open THEN 200 ELSE 204)
        BY <3>1, <3>3 DEF code
      <4>2. \A c : Says(c)' = Says(c)
        BY DEF Says, Nothing
      <4>3. QED
        BY <2>2, <2>5, <3>1, <3>3, <4>1, <4>2 DEF Torn, Length, Status
    <3>5. RepliesAreOfOneMoment'
      BY <3>1, <3>4 DEF RepliesAreOfOneMoment
    <3>6. PartsWereTrue' /\ FailuresAreExplained'
      BY <2>1, <3>1, SaysTypes DEF PartsWereTrue, FailuresAreExplained
    <3>7. QED
      BY <1>1, <2>1, <3>5, <3>6, SaysTypes, AnswerKeeps DEF Told
  <2>6. QED
    BY <2>4, <2>5
<1>5. QED
  BY <1>3, <1>4

LEMMA StatesKeep ==
    ASSUME ReadsInv, StateFetched \/ ProcessRead \/ ExecutionRead
    PROVE  ReadsInv'
<1> DEFINE p == req.process
<1>1. /\ TypeOK /\ RequestInv /\ past' = past /\ Waiting /\ req.op \in StateOperations
  BY DEF ReadsInv, StateFetched, ProcessRead, ExecutionRead, Waiting, At, StateOperations
<1>2. /\ Length(Now, p) \in Nat /\ req.step \in Nat /\ req.step >= 1
      /\ StateFound <=> req.step <= Length(Now, p)
  BY <1>1, Present, WorldParts DEF RequestInv, Waiting, StateFound, TypeOK
<1>3. req.op \notin {"health", "tree"} /\ ~ At("tree", "second")
  BY <1>1 DEF StateOperations, At
<1>4. ASSUME NEW stage \in {"second", "third"}, GoesOn(stage), StateFound
      PROVE  ReadsInv'
  <2>1. /\ req'.op = req.op /\ req'.stage = stage /\ req'.process = p
        /\ req'.step = req.step /\ Now' = Now
    BY <1>1, <1>4, PastStays DEF GoesOn, TypeOK
  <2>2. FirstRead'
    BY <1>1, <1>4, <2>1 DEF FirstRead, At, StateOperations, StateFound
  <2>3. QED
    BY <1>1, <1>3, <1>4, <2>2, GoesOnKeeps
<1>5. ASSUME NEW code \in {200, 404}, Answers(Says(code)), Says(code) \in Entitled(Now)
      PROVE  ReadsInv'
  BY <1>1, <1>3, <1>5, SaysTypes, Present, PlainAnswer
<1>6. CASE StateFetched
  <2>1. CASE StateFound
    BY <1>4, <1>6, <2>1 DEF StateFetched
  <2>2. CASE ~ StateFound
    <3>1. Answers(Says(404))
      BY <1>6, <2>2 DEF StateFetched
    <3>2. Says(404) \in Entitled(Now)
      BY <1>1, <1>2, <2>2, EntitledIs
    <3>3. QED
      BY <1>5, <3>1, <3>2
  <2>3. QED
    BY <2>1, <2>2
\* What is computed of a state that was found.
<1>7. ASSUME StateFound, req.op \in {"spec", "execution"}, Computed
      PROVE  ReadsInv'
  <2>1. CASE Answers(Says(200))
    <3>1. Says(200) \in Entitled(Now)
      BY <1>1, <1>2, <1>7, EntitledIs
    <3>2. QED
      BY <1>5, <2>1, <3>1
  <2>2. CASE Answers(Says(500))
    <3>1. Says(500) \in Entitled(Now)
      BY <1>1, <1>2, <1>7, EntitledIs
    <3>2. /\ req'.op = req.op /\ req'.process = p /\ req'.reply = Says(500)
          /\ req'.step = req.step /\ Moments' = Moments /\ Now' = Now
      BY <1>1, <2>2, PastStays DEF TypeOK, Answers
    <3>3. RepliesAreOfOneMoment'
      BY <1>1, <2>2, <3>1, <3>2, Present, EntitledStays DEF RepliesAreOfOneMoment
    <3>4. PartsWereTrue'
      BY <1>7, <3>2, SaysTypes DEF PartsWereTrue
    <3>5. FailuresAreExplained'
      BY <1>7, <3>2 DEF FailuresAreExplained, StateFound
    <3>6. QED
      BY <1>1, <2>2, <3>3, <3>4, <3>5, SaysTypes, AnswerKeeps DEF Told
  <2>3. QED
    BY <1>7, <2>1, <2>2 DEF Computed
<1>8. CASE ProcessRead
  <2>1. req.stage = "second" /\ StateFound
    BY <1>1, <1>8 DEF ProcessRead, RequestInv, FirstRead
  <2>2. CASE req.op = "execution" /\ GoesOn("third")
    BY <1>4, <2>1, <2>2
  <2>3. CASE req.op = "spec" /\ Computed
    BY <1>7, <2>1, <2>3
  <2>4. CASE req.op = "state" /\ Answers(Says(200))
    <3>1. Says(200) \in Entitled(Now)
      BY <1>1, <1>2, <2>1, <2>4, EntitledIs
    <3>2. QED
      BY <1>5, <2>4, <3>1
  <2>5. QED
    BY <1>8, <2>2, <2>3, <2>4 DEF ProcessRead
<1>9. CASE ExecutionRead
  <2>1. req.op = "execution" /\ Computed /\ StateFound
    BY <1>1, <1>9 DEF ExecutionRead, RequestInv, FirstRead, At
  <2>2. QED
    BY <1>7, <2>1
<1>10. QED
  BY <1>6, <1>8, <1>9

LEMMA ContextsKeep ==
    ASSUME ReadsInv, NodeStatesListed \/ ContextsRead
    PROVE  ReadsInv'
<1>1. /\ TypeOK /\ past' = past /\ Waiting /\ req.op = "nodeContexts"
  BY DEF ReadsInv, NodeStatesListed, ContextsRead, Waiting, At
<1>2. CASE NodeStatesListed
  <2>1. GoesOn("second") /\ req'.op = "nodeContexts" /\ req'.stage = "second"
    BY <1>1, <1>2 DEF NodeStatesListed, GoesOn, TypeOK
  <2>2. FirstRead'
    BY <2>1 DEF FirstRead, At, StateOperations
  <2>3. QED
    BY <1>1, <2>1, <2>2, GoesOnKeeps DEF At
<1>3. CASE ContextsRead
  BY <1>1, <1>3, EntitledIs, Present, SaysTypes, PlainAnswer DEF ContextsRead
<1>4. QED
  BY <1>2, <1>3

LEMMA WorkflowsKeep ==
    ASSUME ReadsInv, WorkflowFetched \/ DiagramBuilt
    PROVE  ReadsInv'
<1>1. /\ TypeOK /\ RequestInv /\ past' = past /\ Waiting
      /\ req.op \in {"processes", "workflow", "diagram"}
  BY DEF ReadsInv, WorkflowFetched, DiagramBuilt, Waiting, At
<1>2. req.op \notin {"health", "tree"} /\ ~ At("tree", "second")
  BY <1>1 DEF At
<1>3. ASSUME NEW i \in Moments, NEW code \in {200, 204, 400, 404}, Answers(Says(code)),
             Says(code) \in Entitled(past[i])
      PROVE  ReadsInv'
  BY <1>1, <1>2, <1>3, SaysTypes, PlainAnswer
<1>4. CASE WorkflowFetched
  <2>1. CASE ~ Now.workflow
    <3>1. PICK code \in {204, 404} : /\ Answers(Says(code))
                                     /\ code = IF req.op = "workflow" THEN 204 ELSE 404
      BY <1>4, <2>1 DEF WorkflowFetched
    <3>2. Says(code) \in Entitled(Now)
      <4>1. CASE req.op = "processes"
        BY <2>1, <3>1, <4>1, EntitledIs
      <4>2. CASE req.op = "workflow"
        BY <2>1, <3>1, <4>2, EntitledIs
      <4>3. CASE req.op = "diagram"
        BY <2>1, <3>1, <4>3, EntitledIs
      <4>4. QED
        BY <1>1, <4>1, <4>2, <4>3
    <3>3. QED
      BY <1>3, <3>1, <3>2, Present
  <2>2. CASE Now.workflow /\ req.op = "workflow"
    <3>1. Answers(Says(200))
      BY <1>4, <2>2 DEF WorkflowFetched
    <3>2. Says(200) \in Entitled(Now)
      BY <2>2, EntitledIs
    <3>3. QED
      BY <1>3, <3>1, <3>2, Present
  <2>3. CASE Now.workflow /\ req.op # "workflow"
    <3>1. GoesOn("second")
      BY <1>4, <2>3 DEF WorkflowFetched
    <3>2. req'.op = req.op /\ req'.stage = "second"
      BY <1>1, <3>1 DEF GoesOn, TypeOK
    <3>3. FirstRead'
      BY <1>1, <2>3, <3>2, Present, PastStays DEF FirstRead, At, StateOperations
    <3>4. QED
      BY <1>1, <1>2, <3>1, <3>3, GoesOnKeeps
  <2>4. QED
    BY <2>1, <2>2, <2>3
<1>5. CASE DiagramBuilt
  <2>1. PICK code \in {200, 400} : Answers(Says(code))
    BY <1>5 DEF DiagramBuilt
  <2>2. PICK i \in Moments : past[i].workflow
    BY <1>1, <1>5 DEF DiagramBuilt, RequestInv, FirstRead, At
  <2>3. Says(code) \in Entitled(past[i])
    BY <1>5, <2>2, EntitledIs DEF DiagramBuilt, At
  <2>4. QED
    BY <1>3, <2>1, <2>3
<1>6. QED
  BY <1>4, <1>5

(***************************************************************************)
(* The ancestors of a process of the tree are rows of the tree, and each   *)
(* has its own among them.                                                 *)
(***************************************************************************)
LEMMA AncestorsIs ==
    ASSUME NEW p \in Processes
    PROVE  /\ p \in Ancestors(p) /\ Ancestors(p) \in SUBSET Processes
           /\ \A q \in Ancestors(p) : Ancestors(q) \subseteq Ancestors(p)
           /\ \A rows \in SUBSET Processes :
                 p \in rows /\ HasParents(rows) => Ancestors(p) \subseteq rows
  BY DEF Ancestors

\* A list of statuses by process.
Lists == UNION {[P -> Statuses] : P \in SUBSET Processes}

LEMMA ListIs ==
    /\ \A P \in SUBSET Processes : \A of \in [P -> Statuses] : of \in Lists
    /\ \A of \in Lists : DOMAIN of \in SUBSET Processes /\ of \in [DOMAIN of -> Statuses]
<1>1. ASSUME NEW of \in Lists
      PROVE  DOMAIN of \in SUBSET Processes /\ of \in [DOMAIN of -> Statuses]
  <2>1. PICK P \in SUBSET Processes : of \in [P -> Statuses]
    BY DEF Lists
  <2>2. DOMAIN of = P
    BY <2>1
  <2>3. QED
    BY <2>1, <2>2
<1>2. QED
  BY <1>1 DEF Lists

LEMMA ReplyIs ==
    /\ \A of \in Lists : [Nothing EXCEPT !.of = of] \in Reply
    /\ \A of \in Lists : /\ [Says(200) EXCEPT !.of = of] \in Reply
                         /\ [Says(200) EXCEPT !.of = of].of = of
                         /\ [Says(200) EXCEPT !.of = of].code = 200
                         /\ [[Nothing EXCEPT !.of = of] EXCEPT !.code = 200]
                              = [Says(200) EXCEPT !.of = of]
    /\ \A reply \in Reply : reply.of \in Lists
<1> DEFINE codes == {0, 200, 204, 400, 404, 409, 500}
<1>1. Reply = [code : codes, status : Statuses \cup {"none"}, of : Lists, count : Nat]
  BY DEF Reply, Lists
<1>2. Nothing = [code |-> 0, status |-> "none", of |-> Nothing.of, count |-> 0]
  BY DEF Nothing
<1>3. Says(200) = [code |-> 200, status |-> "none", of |-> Nothing.of, count |-> 0]
  BY <1>2 DEF Says
<1>4. 0 \in codes /\ 200 \in codes
  OBVIOUS
<1> HIDE DEF codes
<1>5. ASSUME NEW of \in Lists
      PROVE  /\ [Nothing EXCEPT !.of = of] \in Reply
             /\ [Says(200) EXCEPT !.of = of] \in Reply
             /\ [Says(200) EXCEPT !.of = of].of = of
             /\ [Says(200) EXCEPT !.of = of].code = 200
             /\ [[Nothing EXCEPT !.of = of] EXCEPT !.code = 200]
                  = [Says(200) EXCEPT !.of = of]
  <2> DEFINE pending == [Nothing EXCEPT !.of = of]
             told == [Says(200) EXCEPT !.of = of]
  <2>1. pending = [code |-> 0, status |-> "none", of |-> of, count |-> 0]
    BY <1>2
  <2>2. told = [code |-> 200, status |-> "none", of |-> of, count |-> 0]
    BY <1>3
  <2> HIDE DEF pending, told
  <2>3. pending \in Reply /\ told \in Reply /\ told.of = of /\ told.code = 200
    BY <1>1, <1>4, <2>1, <2>2
  <2>4. [pending EXCEPT !.code = 200] = told
    BY <2>1, <2>2
  <2>5. QED
    BY <2>3, <2>4 DEF pending, told
<1>6. \A reply \in Reply : reply.of \in Lists
  BY <1>1
<1>7. QED
  BY <1>5, <1>6

LEMMA TreeFetchedKeeps == ASSUME ReadsInv, TreeFetched PROVE ReadsInv'
<1> DEFINE p == req.process
<1>1. /\ TypeOK /\ RequestInv /\ past' = past /\ Waiting /\ At("tree", "first")
      /\ req.op = "tree" /\ req.reply = Nothing /\ p \in Processes
  BY DEF ReadsInv, TreeFetched, Waiting, At, RequestInv, TypeOK
<1>2. CASE req' = [req EXCEPT !.stage = "second", !.due = Path(Now, req.process)]
  <2>1. Path(Now, p) \in SUBSET Processes
    BY <1>1, AncestorsIs DEF Path
  <2>2. TypeOK'
    BY <1>1, <1>2, <2>1 DEF TypeOK, Stages
  <2>3. /\ req'.stage = "second" /\ req'.op = "tree" /\ req'.process = p
        /\ req'.reply = Nothing /\ req'.due = Path(Now, p)
        /\ Now' = Now /\ Moments' = Moments
    BY <1>1, <1>2, PastStays DEF TypeOK
  <2>4. TreeRead'
    <3>1. DOMAIN Nothing.of = {} /\ Nothing = [Nothing EXCEPT !.of = Nothing.of]
      BY SaysTypes DEF Reply
    <3>2. Nothing' = Nothing /\ Ancestors(req.process)' = Ancestors(p)
      BY <2>3 DEF Nothing, Ancestors
    <3>3. p \in Now.tree => Ancestors(p) \subseteq Now.tree
      BY <1>1, Present, WorldParts, AncestorsIs DEF WorldInv
    <3>4. p \notin Now.tree => \E k \in Moments : p \notin past[k].tree
      BY Present
    <3>5. QED
      BY <1>1, <2>3, <3>1, <3>2, <3>3, <3>4 DEF TreeRead, Path
  <2>5. RequestInv'
    BY <2>3, <2>4 DEF RequestInv, FirstRead, At, StateOperations, Told,
          RepliesAreOfOneMoment, PartsWereTrue, FailuresAreExplained, Answered
  <2>6. QED
    BY <1>1, <2>2, <2>5, PastStays DEF ReadsInv
<1>3. CASE p \notin Now.tree /\ Answers(Says(500))
  <2>1. Says(500) \in Entitled(Now)
    BY <1>1, <1>3, EntitledIs
  <2>2. /\ req'.op = "tree" /\ req'.process = p /\ req'.reply = Says(500)
        /\ Moments' = Moments
    BY <1>1, <1>3, PastStays DEF TypeOK, Answers
  <2>3. RepliesAreOfOneMoment'
    BY <1>1, <1>3, <2>1, <2>2, Present, EntitledStays DEF RepliesAreOfOneMoment
  <2>4. PartsWereTrue'
    BY <2>2, SaysTypes DEF PartsWereTrue
  <2>5. FailuresAreExplained'
    BY <1>1, <1>3, <2>2, Present DEF FailuresAreExplained
  <2>6. QED
    BY <1>1, <1>3, <2>3, <2>4, <2>5, SaysTypes, AnswerKeeps DEF Told
<1>4. QED
  BY <1>2, <1>3 DEF TreeFetched

LEMMA TreeProcessKeeps == ASSUME ReadsInv, TreeProcessRead PROVE ReadsInv'
<1> DEFINE p == req.process
           of == req.reply.of
           rows == req.due \cup DOMAIN of
<1>1. /\ TypeOK /\ RequestInv /\ past' = past /\ At("tree", "second") /\ TreeRead
      /\ req.op = "tree" /\ req.stage = "second" /\ p \in Processes
  BY DEF ReadsInv, TreeProcessRead, At, RequestInv, TypeOK, FirstRead
<1> DEFINE With(q) == [x \in DOMAIN of \cup {q} |-> IF x = q THEN Status(Now, q) ELSE of[x]]
<1>2. PICK q \in req.due :
        req' = [req EXCEPT !.due = req.due \ {q},
                           !.reply = [req.reply EXCEPT !.of = With(q)]]
  BY <1>1 DEF TreeProcessRead, TypeOK
<1>3. rows = Ancestors(p) /\ rows \subseteq Now.tree /\ q \in rows
  BY <1>1, <1>2 DEF TreeRead
<1>4. req.due \in SUBSET Processes /\ req.reply \in Reply /\ of \in Lists
  BY <1>1, ReplyIs DEF TypeOK
<1>5. q \in Processes /\ Status(Now, q) \in Statuses
  BY <1>3, <1>4, Present, WorldParts DEF WorldInv
<1>6. With(q) \in Lists /\ DOMAIN With(q) = DOMAIN of \cup {q}
  <2>1. DOMAIN of \cup {q} \in SUBSET Processes
    BY <1>4, <1>5, ListIs
  <2>2. of \in [DOMAIN of -> Statuses]
    BY <1>4, ListIs
  <2>3. With(q) \in [DOMAIN of \cup {q} -> Statuses]
    BY <1>5, <2>2
  <2>4. QED
    BY <2>1, <2>3, ListIs
<1>7. /\ With(q)[q] = Status(Now, q)
      /\ \A x \in DOMAIN of : x # q => With(q)[x] = of[x]
  OBVIOUS
<1> HIDE DEF With
<1>8. req.reply = [Nothing EXCEPT !.of = of]
  BY <1>1 DEF TreeRead
<1>9. [req.reply EXCEPT !.of = With(q)] = [Nothing EXCEPT !.of = With(q)]
  BY <1>4, <1>8, SaysTypes DEF Reply
<1>10. TypeOK'
  BY <1>1, <1>2, <1>6, <1>9, ReplyIs DEF TypeOK
<1>11. /\ req'.stage = "second" /\ req'.op = "tree" /\ req'.process = p
       /\ req'.due = req.due \ {q}
       /\ req'.reply = [Nothing EXCEPT !.of = With(q)] /\ req'.reply.of = With(q)
       /\ Now' = Now /\ Moments' = Moments
  BY <1>1, <1>2, <1>9, PastStays, SaysTypes DEF TypeOK, Reply
<1>12. TreeRead'
  <2>1. Nothing' = Nothing /\ Ancestors(req.process)' = Ancestors(p)
    BY <1>11 DEF Nothing, Ancestors
  <2>2. (req.due \ {q}) \cup DOMAIN With(q) = rows
    BY <1>2, <1>6
  <2>3. \A x \in DOMAIN With(q) : \E i \in Moments :
           rows \subseteq past[i].tree /\ With(q)[x] = Status(past[i], x)
    <3>1. TAKE x \in DOMAIN With(q)
    <3>2. CASE x = q
      BY <1>3, <1>7, <3>2, Present
    <3>3. CASE x # q
      <4>1. x \in DOMAIN of /\ With(q)[x] = of[x]
        BY <1>6, <1>7, <3>3
      <4>2. \E i \in Moments : rows \subseteq past[i].tree /\ of[x] = Status(past[i], x)
        BY <1>1, <1>2, <4>1 DEF TreeRead
      <4>3. QED
        BY <4>1, <4>2
    <3>4. QED
      BY <3>2, <3>3
  <2>4. QED
    BY <1>1, <1>3, <1>11, <2>1, <2>2, <2>3 DEF TreeRead, Status, Length
<1>13. RequestInv'
  BY <1>11, <1>12 DEF RequestInv, FirstRead, At, StateOperations, Told,
        RepliesAreOfOneMoment, PartsWereTrue, FailuresAreExplained, Answered
<1>14. QED
  BY <1>1, <1>10, <1>13, PastStays DEF ReadsInv

(***************************************************************************)
(* A tree that stood still while it was read is told as it was; otherwise  *)
(* the reply may be torn, unless the process that was asked for is alone.  *)
(***************************************************************************)
LEMMA TreeReturnsKeeps == ASSUME ReadsInv, TreeReturns PROVE ReadsInv'
<1> DEFINE p == req.process
           of == req.reply.of
           reply == [Says(200) EXCEPT !.of = of]
<1>1. /\ TypeOK /\ RequestInv /\ past' = past /\ At("tree", "second") /\ Waiting
      /\ TreeRead /\ req.op = "tree" /\ p \in Processes /\ req.due = {}
  BY DEF ReadsInv, TreeReturns, At, RequestInv, TypeOK, FirstRead, Waiting
<1>2. of \in Lists /\ of \in [DOMAIN of -> Statuses] /\ DOMAIN of \in SUBSET Processes
  <2>1. of \in Lists
    BY <1>1, ReplyIs DEF TypeOK
  <2>2. QED
    BY <2>1, ListIs
<1>3. reply \in Reply /\ reply.of = of /\ reply.code = 200 /\ Answers(reply)
  <2>1. reply \in Reply /\ reply.of = of /\ reply.code = 200
    BY <1>2, ReplyIs
  <2>2. req.reply = [Nothing EXCEPT !.of = of] /\ Answers([req.reply EXCEPT !.code = 200])
    BY <1>1 DEF TreeReturns, TreeRead
  <2>3. [[Nothing EXCEPT !.of = of] EXCEPT !.code = 200] = reply
    BY <1>2, ReplyIs
  <2>4. Answers(reply)
    BY <2>2, <2>3
  <2>5. QED
    BY <2>1, <2>4
<1> HIDE DEF reply
<1>4. /\ req'.op = "tree" /\ req'.process = p /\ req'.reply = reply
      /\ Moments' = Moments
  BY <1>1, <1>3, PastStays DEF TypeOK, Answers
<1>5. \/ DOMAIN of = {} /\ \E i \in Moments : p \notin past[i].tree
      \/ /\ DOMAIN of = Ancestors(p)
         /\ \A q \in DOMAIN of : \E i \in Moments :
               Ancestors(p) \subseteq past[i].tree /\ of[q] = Status(past[i], q)
  BY <1>1 DEF TreeRead
<1>6. ASSUME NEW i \in Moments, p \in past[i].tree, DOMAIN of = Ancestors(p),
             \A q \in DOMAIN of : of[q] = Status(past[i], q)
      PROVE  reply \in Entitled(past[i])
  <2>1. of = [q \in Ancestors(p) |-> Status(past[i], q)]
    BY <1>2, <1>6
  <2>2. QED
    BY <1>1, <1>6, <2>1, EntitledIs DEF reply
<1>7. RepliesAreOfOneMoment'
  <2>1. ASSUME NEW i \in Moments, reply \in Entitled(past[i])
        PROVE  RepliesAreOfOneMoment'
    BY <1>1, <1>3, <1>4, <2>1, EntitledStays DEF RepliesAreOfOneMoment
  <2>2. CASE DOMAIN of = {} /\ \E i \in Moments : p \notin past[i].tree
    <3>1. PICK i \in Moments : p \notin past[i].tree
      BY <2>2
    <3>2. Says(200) \in Entitled(past[i])
      BY <1>1, <3>1, EntitledIs
    <3>3. of = Says(200).of
      <4>1. Says(200) \in Reply /\ DOMAIN Says(200).of = {}
        BY SaysTypes
      <4>2. Says(200).of \in Lists
        BY <4>1, ReplyIs
      <4>3. Says(200).of \in [DOMAIN Says(200).of -> Statuses]
        BY <4>2, ListIs
      <4>4. QED
        BY <1>2, <2>2, <4>1, <4>3
    <3>4. reply = Says(200)
      <4>1. Says(200) \in Reply
        BY SaysTypes
      <4>2. QED
        BY <3>3, <4>1 DEF reply, Reply
    <3>5. QED
      BY <2>1, <3>2, <3>4
  <2>3. CASE /\ DOMAIN of = Ancestors(p)
             /\ \A q \in DOMAIN of : \E i \in Moments :
                   Ancestors(p) \subseteq past[i].tree /\ of[q] = Status(past[i], q)
    <3>1. PICK k \in Moments :
             Ancestors(p) \subseteq past[k].tree /\ of[p] = Status(past[k], p)
      BY <1>1, <2>3, AncestorsIs
    <3>2. p \in past[k].tree
      BY <1>1, <3>1, AncestorsIs
    <3>3. CASE \A i \in Moments : past[i] = past[k]
      <4>1. \A q \in DOMAIN of : of[q] = Status(past[k], q)
        BY <2>3, <3>3
      <4>2. QED
        BY <1>6, <2>1, <2>3, <3>2, <4>1
    <3>4. CASE \A q \in DOMAIN of : q = p
      <4>1. \A q \in DOMAIN of : of[q] = Status(past[k], q)
        BY <3>1, <3>4
      <4>2. QED
        BY <1>6, <2>1, <2>3, <3>2, <4>1
    <3>5. CASE /\ \E i \in Moments : past[i] # past[k]
               /\ \E q \in DOMAIN of : q # p
      <4>1. PICK i \in Moments : past[i] # past[k]
        BY <3>5
      <4>2. i \in Nat /\ k \in Nat /\ i # k
        BY <1>1, <4>1 DEF Moments, TypeOK
      <4>3. \E j, m \in Moments : j < m /\ past[j] # past[m]
        <5>1. CASE i < k
          BY <4>1, <5>1
        <5>2. CASE k < i
          BY <4>1, <5>2
        <5>3. QED
          BY <4>2, <5>1, <5>2
      <4>4. PICK j \in Moments, m \in Moments : j < m /\ past[j] # past[m]
        BY <4>3
      <4>5. Torn(j, m)'
        BY <1>1, <1>3, <1>4, <3>5, <4>4 DEF Torn
      <4>6. QED
        BY <1>4, <4>5 DEF RepliesAreOfOneMoment
    <3>6. QED
      BY <3>3, <3>4, <3>5
  <2>4. QED
    BY <1>5, <2>2, <2>3
<1>8. PartsWereTrue'
  <2>1. ASSUME NEW q \in DOMAIN of
        PROVE  /\ \E i \in Moments : Length(past[i], q) > 0 /\ of[q] = Status(past[i], q)
               /\ Ancestors(q) \subseteq DOMAIN of
    <3>1. PICK i \in Moments :
             /\ DOMAIN of = Ancestors(p)
             /\ Ancestors(p) \subseteq past[i].tree /\ of[q] = Status(past[i], q)
      BY <1>5, <2>1
    <3>2. Length(past[i], q) > 0
      BY <2>1, <3>1, Present DEF WorldInv
    <3>3. Ancestors(q) \subseteq DOMAIN of
      BY <1>1, <2>1, <3>1, AncestorsIs
    <3>4. QED
      BY <3>1, <3>2, <3>3
  <2>2. \A q : Ancestors(q)' = Ancestors(q)
    BY DEF Ancestors
  <2>3. QED
    BY <1>1, <1>3, <1>4, <2>1, <2>2 DEF PartsWereTrue, Length, Status
<1>9. FailuresAreExplained'
  BY <1>3, <1>4 DEF FailuresAreExplained
<1>10. QED
  BY <1>1, <1>3, <1>7, <1>8, <1>9, AnswerKeeps DEF Told

(***************************************************************************)
(* A workflow that was deleted after it was found had no processes then.   *)
(***************************************************************************)
LEMMA ProcessesKeep == ASSUME ReadsInv, ProcessesListed PROVE ReadsInv'
<1> DEFINE reply == [Says(200) EXCEPT !.of = Joined(Now)]
<1>1. /\ TypeOK /\ RequestInv /\ past' = past /\ Waiting /\ req.op = "processes"
      /\ Answers(reply)
  BY DEF ReadsInv, ProcessesListed, Waiting, At
<1>2. Joined(Now) \in Lists
  <2> DEFINE P == {q \in Processes : Now.workflow /\ Length(Now, q) > 0}
  <2>1. P \in SUBSET Processes /\ \A q \in P : Status(Now, q) \in Statuses
    BY Present, WorldParts
  <2>2. Joined(Now) \in [P -> Statuses]
    BY <2>1 DEF Joined
  <2>3. QED
    BY <2>1, <2>2, ListIs
<1>3. reply \in Reply /\ reply.of = Joined(Now) /\ reply.code = 200
  BY <1>2, ReplyIs
<1>4. PICK i \in Moments : past[i].workflow
  BY <1>1 DEF ProcessesListed, RequestInv, FirstRead, At
<1>5. PICK k \in Moments : reply \in Entitled(past[k])
  <2>1. CASE Now.workflow
    <3>1. reply \in Entitled(Now)
      BY <1>1, <2>1, EntitledIs
    <3>2. QED
      BY <3>1, Present
  <2>2. CASE ~ Now.workflow
    <3>1. \A q \in Processes : ~ (Length(Now, q) > 0) /\ ~ (Length(past[i], q) > 0)
      BY <2>2, Present, WorldParts DEF WorldInv, Grows
    <3>2. Joined(past[i]) = Joined(Now)
      BY <3>1 DEF Joined
    <3>3. reply \in Entitled(past[i])
      BY <1>1, <1>4, <3>2, EntitledIs
    <3>4. QED
      BY <3>3
  <2>3. QED
    BY <2>1, <2>2
<1> HIDE DEF reply
<1>6. /\ req'.op = "processes" /\ req'.process = req.process /\ req'.reply = reply
      /\ Moments' = Moments
  BY <1>1, PastStays DEF TypeOK, Answers
<1>7. RepliesAreOfOneMoment'
  BY <1>1, <1>5, <1>6, EntitledStays DEF RepliesAreOfOneMoment
<1>8. PartsWereTrue'
  <2>1. \A q \in DOMAIN Joined(Now) :
           Length(Now, q) > 0 /\ Joined(Now)[q] = Status(Now, q)
    BY DEF Joined
  <2>2. QED
    BY <1>1, <1>3, <1>6, <2>1, Present DEF PartsWereTrue, Length, Status
<1>9. FailuresAreExplained'
  BY <1>3, <1>6 DEF FailuresAreExplained
<1>10. QED
  BY <1>1, <1>3, <1>7, <1>8, <1>9, AnswerKeeps DEF Told

LEMMA HealthKeeps ==
    ASSUME ReadsInv, ReadyCounted \/ ActiveCounted
    PROVE  ReadsInv'
<1>1. /\ TypeOK /\ RequestInv /\ past' = past /\ Waiting /\ req.op = "health"
      /\ ~ At("tree", "second")
  BY DEF ReadsInv, ReadyCounted, ActiveCounted, Waiting, At
<1>2. CASE ReadyCounted
  <2>1. req' = [req EXCEPT !.stage = "second", !.verdict = TooManyReady(Now.ready)]
    BY <1>2 DEF ReadyCounted
  <2>2. TooManyReady(Now.ready) \in BOOLEAN
    BY DEF TooManyReady
  <2>3. TypeOK'
    BY <1>1, <2>1, <2>2 DEF TypeOK, Stages
  <2>4. /\ req'.stage = "second" /\ req'.op = "health" /\ req'.reply = Nothing
        /\ req'.verdict = TooManyReady(Now.ready)
    BY <1>1, <1>2, <2>1 DEF TypeOK, RequestInv, ReadyCounted, At
  <2>5. \E i \in Moments : TooManyReady(Now.ready) = TooManyReady(past[i].ready)
    BY Present
  <2>6. Nothing' = Nothing /\ Moments' = Moments
    BY <1>1, PastStays DEF Nothing
  <2>7. RequestInv'
    BY <1>1, <2>4, <2>5, <2>6 DEF RequestInv, FirstRead, At, StateOperations, Told,
          RepliesAreOfOneMoment, PartsWereTrue, FailuresAreExplained, Answered, TooManyReady
  <2>8. QED
    BY <1>1, <2>3, <2>7, PastStays DEF ReadsInv
<1>3. CASE ActiveCounted
  <2> DEFINE code == IF req.verdict THEN 409 ELSE 200
             reply == [Says(code) EXCEPT !.count = Now.active]
  <2>1. Answers(reply) /\ code \in {200, 409}
    BY <1>3 DEF ActiveCounted
  <2>2. PICK i \in Moments : req.verdict = TooManyReady(past[i].ready)
    BY <1>1, <1>3 DEF ActiveCounted, RequestInv, FirstRead
  <2>3. /\ reply \in Reply /\ DOMAIN reply.of = {} /\ reply.code = code
        /\ reply.count = Now.active
    <3>1. Says(code) \in Reply /\ DOMAIN Says(code).of = {} /\ Says(code).code = code
      BY <2>1, SaysTypes
    <3>2. Now.active \in Nat
      BY Present, WorldParts
    <3> HIDE DEF code
    <3>3. QED
      BY <3>1, <3>2 DEF Reply
  <2>4. PICK j \in Moments : j = Len(past) /\ past[j] = Now /\ i <= j
    BY Present
  <2>5. i \in Nat /\ j \in Nat
    BY <1>1 DEF TypeOK, Moments
  <2>6. TooManyReady(past[i].ready) <=> code = 409
    BY <2>2
  <2>7. past[i].active = Now.active => reply \in Entitled(past[i])
    <3>1. Says(IF TooManyReady(past[i].ready) THEN 409 ELSE 200) = Says(code)
      BY <2>2
    <3>2. QED
      BY <1>1, <3>1, EntitledIs
  <2> HIDE DEF reply, code
  <2>8. /\ req'.op = "health" /\ req'.process = req.process /\ req'.reply = reply
        /\ Moments' = Moments
    BY <1>1, <2>1, PastStays DEF TypeOK, Answers
  <2>9. RepliesAreOfOneMoment'
    <3>1. CASE past[i].active = Now.active
      BY <1>1, <2>1, <2>7, <2>8, <3>1, EntitledStays DEF RepliesAreOfOneMoment
    <3>2. CASE past[i].active # Now.active
      <4>1. i < j
        BY <2>4, <2>5, <3>2
      <4>2. Torn(i, j)'
        BY <1>1, <2>4, <2>8, <3>2, <4>1 DEF Torn
      <4>3. QED
        BY <2>8, <4>2 DEF RepliesAreOfOneMoment
    <3>3. QED
      BY <3>1, <3>2
  <2>10. PartsWereTrue'
    BY <1>1, <2>3, <2>4, <2>6, <2>8 DEF PartsWereTrue, TooManyReady
  <2>11. FailuresAreExplained'
    BY <2>1, <2>3, <2>8 DEF FailuresAreExplained
  <2>12. QED
    BY <1>1, <2>1, <2>3, <2>9, <2>10, <2>11, AnswerKeeps DEF Told
<1>4. QED
  BY <1>2, <1>3

-----------------------------------------------------------------------------
(* The theorems *)

LEMMA InitReads == Init => ReadsInv
<1> SUFFICES ASSUME Init PROVE ReadsInv
  OBVIOUS
<1> DEFINE w == [states |-> [p \in Processes |-> <<>>], tree |-> {}, open |-> {},
                 ready |-> 0, active |-> 0, workflow |-> TRUE]
<1>1. [p \in Processes |-> <<>>] \in [Processes -> Seq(Statuses)]
  OBVIOUS
<1>2. w \in World
  BY <1>1 DEF World
<1>3. past = <<w>> /\ Moments = {1} /\ past[1] = w /\ Now = w
  BY DEF Init, Moments, Now
<1>4. WorldInv(w)
  BY DEF WorldInv, HasParents
<1> HIDE DEF w
<1>5. PastInv
  BY <1>2, <1>3, <1>4, GrowsOnce DEF PastInv
<1>6. (CHOOSE p \in Processes : TRUE) \in Processes
  BY ReadsAssumption
<1>7. Nothing \in Reply
  BY SaysTypes
<1>8. TypeOK
  <2>1. past \in Seq(World)
    BY <1>2, <1>3
  <2> DEFINE first == CHOOSE p \in Processes : TRUE
  <2>2. req = [op |-> "state", process |-> first, step |-> 0,
               stage |-> "idle", due |-> {}, verdict |-> FALSE, reply |-> Nothing,
               failed |-> FALSE]
    BY DEF Init
  <2> HIDE DEF first
  <2>3. QED
    BY <1>6, <1>7, <2>1, <2>2 DEF TypeOK, Operations, Stages, first
<1>9. req.stage = "idle" /\ req.reply = Nothing
  BY DEF Init
<1>10. RequestInv
  BY <1>9 DEF RequestInv, FirstRead, At, Told, RepliesAreOfOneMoment,
              PartsWereTrue, FailuresAreExplained, Answered
<1>11. QED
  BY <1>5, <1>8, <1>10 DEF ReadsInv

LEMMA StepKeepsReads == ReadsInv /\ [Next]_vars => ReadsInv'
<1> SUFFICES ASSUME ReadsInv, [Next]_vars PROVE ReadsInv'
  OBVIOUS
<1>1. CASE Database
  BY <1>1, DatabaseMoves, MoveKeeps DEF ReadsInv
<1>2. CASE Receive
  BY <1>2, ReceiveKeeps
<1>3. CASE ReadFails
  BY <1>3, FailureKeeps
<1>4. CASE Handler
  BY <1>4, ActivityKeeps, StatesKeep, ContextsKeep, WorkflowsKeep, TreeFetchedKeeps,
     TreeProcessKeeps, TreeReturnsKeeps, ProcessesKeep, HealthKeeps DEF Handler
<1>5. CASE UNCHANGED vars
  <2>1. past' = past /\ req' = req /\ TypeOK /\ RequestInv
    BY <1>5 DEF vars, ReadsInv
  <2>2. TypeOK'
    BY <2>1 DEF TypeOK
  <2>3. PastInv' /\ Now' = Now /\ Moments' = Moments
    BY <2>1, PastStays
  <2>4. \A q : Ancestors(q)' = Ancestors(q)
    BY DEF Ancestors
  <2>5. FirstRead'
    <3>1. TreeRead' <=> TreeRead
      BY <2>1, <2>3, <2>4 DEF TreeRead, Status, Length, Nothing
    <3>2. FirstRead
      BY <2>1 DEF RequestInv
    <3>3. QED
      BY <2>1, <2>3, <3>1, <3>2 DEF FirstRead, At, Status, Length, StateFound, TooManyReady
  <2>6. RepliesAreOfOneMoment'
    <3>1. ASSUME NEW i \in Moments PROVE Entitled(past[i])' = Entitled(past[i])
      BY <2>1 DEF Entitled, Length, Status, Says, SaysStatus, Nothing, Ancestors, Joined,
                  TooManyReady, HasParents
    <3>2. ASSUME NEW i \in Moments, NEW j \in Moments PROVE Torn(i, j)' <=> Torn(i, j)
      BY <2>1 DEF Torn, Status, Length, Says, Nothing
    <3>3. RepliesAreOfOneMoment
      BY <2>1 DEF RequestInv, Told
    <3>4. QED
      BY <2>1, <2>3, <3>1, <3>2, <3>3 DEF RepliesAreOfOneMoment, Answered
  <2>7. PartsWereTrue'
    <3>1. PartsWereTrue
      BY <2>1 DEF RequestInv, Told
    <3>2. QED
      BY <2>1, <2>3, <2>4, <3>1 DEF PartsWereTrue, Answered, Status, Length, TooManyReady
  <2>8. FailuresAreExplained'
    <3>1. FailuresAreExplained
      BY <2>1 DEF RequestInv, Told
    <3>2. QED
      BY <2>1, <2>3, <3>1 DEF FailuresAreExplained, Answered, StateFound, Length
  <2>9. RequestInv'
    <3>1. Nothing' = Nothing
      BY DEF Nothing
    <3>2. QED
      BY <2>1, <2>5, <2>6, <2>7, <2>8, <3>1 DEF RequestInv, At, Told
  <2>10. QED
    BY <2>2, <2>3, <2>9 DEF ReadsInv
<1>6. QED
  BY <1>1, <1>2, <1>3, <1>4, <1>5 DEF Next

LEMMA ReadsInvariant == Spec => []ReadsInv
  BY InitReads, StepKeepsReads, PTL DEF Spec

(***************************************************************************)
(* The states the database goes through and the request keep their types,  *)
(* for any tree of processes and any number of states, timers and changes. *)
(***************************************************************************)
THEOREM ReadsTypeCorrect == Spec => []TypeOK
<1>1. ReadsInv => TypeOK
  BY DEF ReadsInv
<1>2. QED
  BY <1>1, ReadsInvariant, PTL

(***************************************************************************)
(* A reply is what one moment of the request entitled to, but for three    *)
(* handlers that combine two reads (activity.js:92, processTree.js:20,     *)
(* healthcheck.js:81), however often the database changes in between.      *)
(***************************************************************************)
THEOREM RepliesOfOneMoment == Spec => []RepliesAreOfOneMoment
<1>1. ReadsInv => RepliesAreOfOneMoment
  BY DEF ReadsInv, RequestInv, Told
<1>2. QED
  BY <1>1, ReadsInvariant, PTL

(***************************************************************************)
(* Every part of a reply was true at some moment of the request, and       *)
(* getProcessTree never tells of a process without its ancestors.          *)
(***************************************************************************)
THEOREM PartsTrue == Spec => []PartsWereTrue
<1>1. ReadsInv => PartsWereTrue
  BY DEF ReadsInv, RequestInv, Told
<1>2. QED
  BY <1>1, ReadsInvariant, PTL

(***************************************************************************)
(* What the first read of a handler found is enough for those that follow: *)
(* without a failed read only the spec and the execution of a state, whose *)
(* node is computed, and the tree of a process not in it end in 500        *)
(* (FailuresAreExplained).                                                 *)
(***************************************************************************)
THEOREM FailuresExplained == Spec => []FailuresAreExplained
<1>1. ReadsInv => FailuresAreExplained
  BY DEF ReadsInv, RequestInv, Told
<1>2. QED
  BY <1>1, ReadsInvariant, PTL

=============================================================================
