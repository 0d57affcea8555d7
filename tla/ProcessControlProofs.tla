------------------------ MODULE ProcessControlProofs ------------------------
(***************************************************************************)
(* Theorems about the handlers of ProcessControl, for any number of        *)
(* processes, requests and states, whatever the engine refuses.            *)
(*                                                                         *)
(* The inductive invariant is about requests on their way: what a handler  *)
(* has read is still part of the history, though perhaps no longer its     *)
(* end, because a history only grows.                                      *)
(***************************************************************************)
EXTENDS ProcessControl, TLAPS

\* What is known of a request: how much of the history it has seen, that what
\* it saw let it through its check, and what its reply may say.
RequestInv(r) ==
    LET q == req[r]
        h == history[q.process]
    IN  /\ q.arrival <= Len(h) /\ q.seen <= Len(h)
        /\ q.stage = "call" /\ q.op \in {"set", "transfer"}
              => q.node \in Blueprint[q.process]
        /\ q.stage \in {"call", "resuming"}
              /\ q.op \in {"run", "abort", "expire", "resume"}
              => q.seen >= 1 /\ h[q.seen].status \notin Excluded(q.op)
        /\ q.told # "none" => \E i \in DOMAIN h :
              i >= q.arrival /\ h[i].status = q.told
        /\ q.op \in {"fetch", "resume", "expire"} /\ q.code = 404
              => q.arrival = 0
        /\ q.op = "states" /\ (q.stage = "state" \/ q.code = 200)
              => q.seen >= q.arrival

RequestsInv == \A r \in Requests : RequestInv(r)

ControlInv ==
    /\ TypeOK
    /\ RequestsInv
    /\ OverwritesAreRaces
    /\ PendingNodeIsKnown

\* Every history starts with what it was.
HistoryGrows ==
    \A p \in Processes :
        /\ Len(history[p]) <= Len(history'[p])
        /\ \A i \in 1..Len(history[p]) : history'[p][i] = history[p][i]

\* One state is added to the history of p, and it is one a handler or the
\* engine may write there.
LawfulState(p, e) ==
    /\ e \in State
    /\ e.status = "pending" => e.next \in Blueprint[p]
    /\ Len(history[p]) > 0
          /\ history[p][Len(history[p])].status \in Excluded(e.by)
          => e.seen < Len(history[p])

HistoryStep ==
    \/ UNCHANGED history
    \/ \E p \in Processes : \E e \in State :
          /\ LawfulState(p, e)
          /\ history' = [history EXCEPT ![p] = Append(@, e)]

(***************************************************************************)
(* Adding lawful states keeps the type of the history and what it says of  *)
(* overwritten statuses and of pending nodes.                              *)
(***************************************************************************)
LEMMA HistoryKept ==
    ASSUME TypeOK, OverwritesAreRaces, PendingNodeIsKnown, HistoryStep
    PROVE  /\ history' \in [Processes -> Seq(State)]
           /\ HistoryGrows
           /\ OverwritesAreRaces'
           /\ PendingNodeIsKnown'
<1>1. CASE UNCHANGED history
  <2>1. HistoryGrows
    BY <1>1 DEF HistoryGrows, TypeOK
  <2>2. QED
    BY <1>1, <2>1 DEF TypeOK, OverwritesAreRaces, PendingNodeIsKnown, Length
<1>2. ASSUME NEW p \in Processes, NEW e \in State, LawfulState(p, e),
             history' = [history EXCEPT ![p] = Append(@, e)]
      PROVE  /\ history' \in [Processes -> Seq(State)]
             /\ HistoryGrows
             /\ OverwritesAreRaces'
             /\ PendingNodeIsKnown'
  <2>1. history[p] \in Seq(State) /\ Append(history[p], e) \in Seq(State)
    BY DEF TypeOK
  <2>2. history' \in [Processes -> Seq(State)]
    BY <1>2, <2>1 DEF TypeOK
  <2>3. \A q \in Processes : q # p => history'[q] = history[q]
    BY <1>2 DEF TypeOK
  <2>4. /\ Len(history'[p]) = Len(history[p]) + 1
        /\ history'[p][Len(history[p]) + 1] = e
        /\ \A i \in 1..Len(history[p]) : history'[p][i] = history[p][i]
    BY <1>2, <2>1 DEF TypeOK
  <2>5. \A q \in Processes : history[q] \in Seq(State) /\ Len(history[q]) \in Nat
    BY DEF TypeOK
  <2>6. HistoryGrows
    BY <2>3, <2>4, <2>5 DEF HistoryGrows
  <2>7. OverwritesAreRaces'
    <3>1. SUFFICES ASSUME NEW q \in Processes, NEW i \in 2..Len(history'[q]),
                          history'[q][i - 1].status \in Excluded(history'[q][i].by)
                   PROVE  history'[q][i].seen < i - 1
      BY DEF OverwritesAreRaces, Length, Excluded
    <3>2. CASE q # p \/ i # Len(history[p]) + 1
      <4>1. i \in 2..Len(history[q])
        BY <2>3, <2>4, <2>5, <3>2
      <4>2. history'[q][i] = history[q][i] /\ history'[q][i - 1] = history[q][i - 1]
        BY <2>6, <4>1, <2>5 DEF HistoryGrows
      <4>3. QED
        BY <3>1, <4>1, <4>2 DEF OverwritesAreRaces, Length
    <3>3. CASE q = p /\ i = Len(history[p]) + 1
      <4>1. Len(history[p]) > 0 /\ i - 1 = Len(history[p])
        BY <3>3, <2>5
      <4>2. history'[q][i] = e
        BY <3>3, <2>4
      <4>3. history'[q][i - 1] = history[p][Len(history[p])]
        BY <3>3, <4>1, <2>4, <2>5
      <4>4. QED
        BY <3>1, <4>1, <4>2, <4>3, <1>2 DEF LawfulState
    <3>4. QED
      BY <3>2, <3>3
  <2>8. PendingNodeIsKnown'
    <3>1. SUFFICES ASSUME NEW q \in Processes, NEW i \in DOMAIN history'[q],
                          history'[q][i].status = "pending"
                   PROVE  history'[q][i].next \in Blueprint[q]
      BY DEF PendingNodeIsKnown
    <3>2. CASE q # p \/ i # Len(history[p]) + 1
      <4>1. i \in 1..Len(history[q])
        BY <2>2, <2>3, <2>4, <2>5, <3>2
      <4>2. history'[q][i] = history[q][i]
        BY <2>6, <4>1 DEF HistoryGrows
      <4>3. QED
        BY <3>1, <4>1, <4>2, <2>5 DEF PendingNodeIsKnown
    <3>3. CASE q = p /\ i = Len(history[p]) + 1
      BY <3>1, <3>3, <2>4, <1>2 DEF LawfulState
    <3>4. QED
      BY <3>2, <3>3
  <2>9. QED
    BY <2>2, <2>6, <2>7, <2>8
<1>3. QED
  BY <1>1, <1>2 DEF HistoryStep

(***************************************************************************)
(* What is known of a request stays true while others work: the history it *)
(* has seen grows, and the server may stop under it.                       *)
(***************************************************************************)
LEMMA RequestKept ==
    ASSUME TypeOK, HistoryGrows, history' \in [Processes -> Seq(State)],
           NEW r \in Requests, RequestInv(r),
           \/ req'[r] = req[r]
           \/ \E stage \in {"cut", "rejected", "answered"} :
                 req'[r] = [req[r] EXCEPT !.stage = stage]
    PROVE  RequestInv(r)'
<1> DEFINE p == req[r].process
<1>1. /\ req[r] \in Request
      /\ p \in Processes
      /\ history[p] \in Seq(State)
      /\ history'[p] \in Seq(State)
  BY DEF TypeOK, Request
<1>2. /\ req'[r].process = p
      /\ req'[r].op = req[r].op
      /\ req'[r].arrival = req[r].arrival
      /\ req'[r].seen = req[r].seen
      /\ req'[r].node = req[r].node
      /\ req'[r].code = req[r].code
      /\ req'[r].told = req[r].told
      /\ req'[r].stage \in {req[r].stage, "cut", "rejected", "answered"}
  BY <1>1 DEF Request
<1>3. /\ Len(history[p]) <= Len(history'[p])
      /\ Len(history[p]) \in Nat /\ Len(history'[p]) \in Nat
      /\ \A i \in 1..Len(history[p]) : history'[p][i] = history[p][i]
  BY <1>1 DEF HistoryGrows
<1>4. req[r].arrival \in Nat /\ req[r].seen \in Nat
  BY <1>1 DEF Request
<1>5. req'[r].arrival <= Len(history'[p]) /\ req'[r].seen <= Len(history'[p])
  BY <1>2, <1>3, <1>4 DEF RequestInv
<1>6. ASSUME req'[r].stage \in {"call", "resuming"},
             req'[r].op \in {"run", "abort", "expire", "resume"}
      PROVE  /\ req'[r].seen >= 1
             /\ history'[p][req'[r].seen].status \notin Excluded(req'[r].op)
  <2>1. /\ req[r].seen >= 1 /\ req[r].seen <= Len(history[p])
        /\ history[p][req[r].seen].status \notin Excluded(req[r].op)
    BY <1>2, <1>6 DEF RequestInv
  <2>2. req[r].seen \in 1..Len(history[p])
    BY <2>1, <1>3, <1>4
  <2>3. QED
    BY <2>1, <2>2, <1>2, <1>3
<1>7. ASSUME req'[r].told # "none"
      PROVE  \E i \in DOMAIN history'[p] :
                i >= req'[r].arrival /\ history'[p][i].status = req'[r].told
  <2>1. PICK i \in DOMAIN history[p] :
            i >= req[r].arrival /\ history[p][i].status = req[r].told
    BY <1>2, <1>7 DEF RequestInv
  <2>2. i \in 1..Len(history[p]) /\ i \in DOMAIN history'[p]
    BY <2>1, <1>1, <1>3
  <2>3. QED
    BY <2>1, <2>2, <1>2, <1>3
<1>8. /\ req'[r].stage = "call" /\ req'[r].op \in {"set", "transfer"}
            => req'[r].node \in Blueprint[p]
      /\ req'[r].op \in {"fetch", "resume", "expire"} /\ req'[r].code = 404
            => req'[r].arrival = 0
      /\ req'[r].op = "states" /\ (req'[r].stage = "state" \/ req'[r].code = 200)
            => req'[r].seen >= req'[r].arrival
  BY <1>2 DEF RequestInv
<1> HIDE DEF p
<1>9. QED
  BY <1>2, <1>5, <1>6, <1>7, <1>8 DEF RequestInv, Excluded

(***************************************************************************)
(* A handler that replies, with or without the status it read, keeps the   *)
(* types and what is known of every request.                               *)
(***************************************************************************)
LEMMA AnswersKept ==
    ASSUME TypeOK, RequestsInv, HistoryGrows,
           history' \in [Processes -> Seq(State)],
           NEW r \in Requests, NEW code \in Codes,
           Answers(r, code),
           req[r].op \in {"fetch", "resume", "expire"} /\ code = 404
              => req[r].arrival = 0,
           req[r].op = "states" /\ code = 200 => req[r].seen >= req[r].arrival
    PROVE  TypeOK' /\ RequestsInv'
<1>1. req \in [Requests -> Request]
  BY DEF TypeOK
<1>2. req'[r] = [req[r] EXCEPT !.stage = "answered", !.code = code]
  BY <1>1 DEF Answers
<1>3. \A s \in Requests : s # r => req'[s] = req[s]
  BY <1>1 DEF Answers
<1>4. req[r] \in Request /\ req'[r] \in Request
  BY <1>1, <1>2 DEF Request, Stages
<1>5. TypeOK'
  BY <1>1, <1>4 DEF Answers, TypeOK
<1>6. ASSUME NEW s \in Requests, s # r
      PROVE  RequestInv(s)'
  BY <1>3, <1>6, RequestKept DEF RequestsInv
<1>7. RequestInv(r)'
  <2> DEFINE p == req[r].process
  <2>1. /\ req'[r].process = p /\ req'[r].op = req[r].op
        /\ req'[r].arrival = req[r].arrival /\ req'[r].seen = req[r].seen
        /\ req'[r].told = req[r].told
        /\ req'[r].stage = "answered" /\ req'[r].code = code
    BY <1>2, <1>4 DEF Request
  <2>2. /\ p \in Processes /\ history[p] \in Seq(State)
        /\ history'[p] \in Seq(State)
        /\ req[r].arrival \in Nat /\ req[r].seen \in Nat
    BY <1>4 DEF TypeOK, Request
  <2>3. /\ Len(history[p]) <= Len(history'[p])
        /\ Len(history[p]) \in Nat /\ Len(history'[p]) \in Nat
        /\ \A i \in 1..Len(history[p]) : history'[p][i] = history[p][i]
    BY <2>2 DEF HistoryGrows
  <2>4. RequestInv(r)
    BY DEF RequestsInv
  <2>5. req'[r].arrival <= Len(history'[p]) /\ req'[r].seen <= Len(history'[p])
    BY <2>1, <2>2, <2>3, <2>4 DEF RequestInv
  <2>6. ASSUME req'[r].told # "none"
        PROVE  \E i \in DOMAIN history'[p] :
                  i >= req'[r].arrival /\ history'[p][i].status = req'[r].told
    <3>1. PICK i \in DOMAIN history[p] :
              i >= req[r].arrival /\ history[p][i].status = req[r].told
      BY <2>1, <2>4, <2>6 DEF RequestInv
    <3>2. i \in 1..Len(history[p]) /\ i \in DOMAIN history'[p]
      BY <3>1, <2>2, <2>3
    <3>3. QED
      BY <3>1, <3>2, <2>1, <2>3
  <2> HIDE DEF p
  <2>7. QED
    BY <2>1, <2>5, <2>6 DEF RequestInv
<1>8. QED
  BY <1>5, <1>6, <1>7 DEF RequestsInv

LEMMA RefusesKept ==
    ASSUME TypeOK, RequestsInv, UNCHANGED history,
           NEW r \in Requests, NEW code \in Codes, code # 404,
           Found(r), Refuses(r, code), req[r].op # "states"
    PROVE  TypeOK' /\ RequestsInv'
<1>1. req \in [Requests -> Request]
  BY DEF TypeOK
<1>2. req'[r] = [req[r] EXCEPT !.stage = "answered", !.code = code,
                               !.told = Status(r)]
  BY <1>1 DEF Refuses
<1>3. \A s \in Requests : s # r => req'[s] = req[s]
  BY <1>1 DEF Refuses
<1>4. req[r] \in Request
  BY <1>1
<1>5. /\ Target(r) \in Processes /\ history[Target(r)] \in Seq(State)
      /\ Length(Target(r)) \in 1..Len(history[Target(r)])
      /\ Len(history[Target(r)]) \in Nat
  BY <1>4 DEF TypeOK, Request, Target, Found, Length
<1>6. Status(r) \in Statuses
  <2>1. history[Target(r)][Length(Target(r))] \in State
    BY <1>5
  <2>2. QED
    BY <2>1 DEF Status, State
<1>7. req'[r] \in Request
  <2>1. PICK told \in Statuses : told = Status(r)
    BY <1>6
  <2>2. req'[r] = [req[r] EXCEPT !.stage = "answered", !.code = code,
                                 !.told = told]
    BY <1>2, <2>1
  <2>3. PICK coded \in Request :
           coded = [req[r] EXCEPT !.stage = "answered", !.code = code]
    BY <1>4 DEF Request, Stages
  <2>4. req'[r] = [coded EXCEPT !.told = told]
    BY <2>2, <2>3 DEF Request
  <2>5. QED
    BY <2>3, <2>4 DEF Request
<1>8. TypeOK'
  BY <1>1, <1>7 DEF Refuses, TypeOK
<1>9. HistoryGrows
  BY DEF HistoryGrows, TypeOK
<1>10. ASSUME NEW s \in Requests, s # r
       PROVE  RequestInv(s)'
  BY <1>3, <1>8, <1>9, <1>10, RequestKept DEF RequestsInv, TypeOK
<1>11. RequestInv(r)'
  <2>1. /\ req'[r].process = Target(r) /\ req'[r].op = req[r].op
        /\ req'[r].arrival = req[r].arrival /\ req'[r].seen = req[r].seen
        /\ req'[r].told = Status(r)
        /\ req'[r].stage = "answered" /\ req'[r].code = code
    BY <1>2, <1>4 DEF Request, Target
  <2>2. RequestInv(r)
    BY DEF RequestsInv
  <2>3. /\ req[r].arrival <= Len(history[Target(r)])
        /\ req[r].seen <= Len(history[Target(r)])
    BY <2>2 DEF RequestInv, Target
  <2>4. \E i \in DOMAIN history[Target(r)] :
           i >= req[r].arrival /\ history[Target(r)][i].status = Status(r)
    BY <1>5, <2>3 DEF Status, Length
  <2>5. QED
    BY <2>1, <2>3, <2>4 DEF RequestInv
<1>12. QED
  BY <1>8, <1>10, <1>11 DEF RequestsInv

(***************************************************************************)
(* A handler that goes on after a read keeps the types and what is known   *)
(* of every request, provided it tested what it read.                      *)
(***************************************************************************)
LEMMA GoesOnKept ==
    ASSUME TypeOK, RequestsInv, UNCHANGED history,
           NEW r \in Requests, NEW stage \in Stages, NEW code \in Codes, code \notin {200, 404},
           NEW node \in Nodes \cup {NoNode},
           GoesOn(r, stage, node, code),
           stage = "call" /\ req[r].op \in {"set", "transfer"}
              => node \in Blueprint[Target(r)],
           stage \in {"call", "resuming"}
              /\ req[r].op \in {"run", "abort", "expire", "resume"}
              => Found(r) /\ Status(r) \notin Excluded(req[r].op)
    PROVE  TypeOK' /\ RequestsInv'
<1>1. req \in [Requests -> Request]
  BY DEF TypeOK
<1>2. req'[r] = [req[r] EXCEPT !.stage = stage, !.node = node,
                               !.seen = Length(Target(r)), !.code = code]
  BY <1>1 DEF GoesOn
<1>3. \A s \in Requests : s # r => req'[s] = req[s]
  BY <1>1 DEF GoesOn
<1>4. req[r] \in Request
  BY <1>1
<1>5. /\ Target(r) \in Processes /\ history[Target(r)] \in Seq(State)
      /\ Length(Target(r)) = Len(history[Target(r)])
      /\ Len(history[Target(r)]) \in Nat
  BY <1>4 DEF TypeOK, Request, Target, Length
<1>6. PICK seen \in Nat : seen = Length(Target(r))
  BY <1>5
<1>7. /\ req'[r] \in Request
      /\ req'[r].process = req[r].process /\ req'[r].op = req[r].op
      /\ req'[r].arrival = req[r].arrival /\ req'[r].told = req[r].told
      /\ req'[r].stage = stage /\ req'[r].node = node
      /\ req'[r].seen = seen /\ req'[r].code = code
  <2>1. PICK q \in Request : q = req[r]
    BY <1>4
  <2>2. req'[r] = [q EXCEPT !.stage = stage, !.node = node,
                            !.seen = seen, !.code = code]
    BY <1>2, <1>6, <2>1
  <2>3. PICK n : n = req'[r]
    OBVIOUS
  <2>4. n = [q EXCEPT !.stage = stage, !.node = node,
                      !.seen = seen, !.code = code]
    BY <2>2, <2>3
  <2>5. /\ n \in Request
        /\ n.op = q.op /\ n.process = q.process
        /\ n.arrival = q.arrival /\ n.told = q.told
        /\ n.stage = stage /\ n.node = node
        /\ n.seen = seen /\ n.code = code
    <3>1. PICK a \in Request : a = [q EXCEPT !.stage = stage, !.node = node]
      BY DEF Request
    <3>2. [a EXCEPT !.seen = seen, !.code = code] \in Request
      BY DEF Request
    <3>3. n \in Request
      BY <2>4, <3>1, <3>2
    <3>4. QED
      BY <2>4, <3>3 DEF Request
  <2>6. QED
    BY <2>1, <2>3, <2>5
<1> TypeOK'
  BY <1>1, <1>7 DEF TypeOK, GoesOn
<1>8. HistoryGrows
  BY DEF HistoryGrows, TypeOK
<1>9. ASSUME NEW s \in Requests, s # r
      PROVE  RequestInv(s)'
  BY <1>3, <1>8, <1>9, RequestKept DEF RequestsInv, TypeOK
<1>10. RequestInv(r)'
  <2>1. /\ req'[r].process = Target(r) /\ req'[r].op = req[r].op
        /\ req'[r].arrival = req[r].arrival
        /\ req'[r].seen = Len(history[Target(r)])
        /\ req'[r].told = req[r].told /\ req'[r].node = node
        /\ req'[r].stage = stage /\ req'[r].code = code
    BY <1>5, <1>6, <1>7 DEF Target
  <2>2. RequestInv(r)
    BY DEF RequestsInv
  <2>3. req[r].arrival <= Len(history[Target(r)]) /\ req[r].arrival \in Nat
    BY <2>2, <1>4 DEF RequestInv, Target, Request
  <2>4. req[r].told # "none" =>
            \E i \in DOMAIN history[Target(r)] :
               i >= req[r].arrival /\ history[Target(r)][i].status = req[r].told
    BY <2>2 DEF RequestInv, Target
  <2>5. stage \in {"call", "resuming"}
           /\ req[r].op \in {"run", "abort", "expire", "resume"}
           => /\ Len(history[Target(r)]) >= 1
              /\ history[Target(r)][Len(history[Target(r)])].status
                    \notin Excluded(req[r].op)
    BY <1>5 DEF Found, Status, Length
  <2>6. ASSUME req'[r].told # "none"
        PROVE  \E i \in DOMAIN history'[Target(r)] :
                  /\ i >= req'[r].arrival
                  /\ history'[Target(r)][i].status = req'[r].told
    BY <2>1, <2>4, <2>6
  <2>7. ASSUME req'[r].stage \in {"call", "resuming"},
               req'[r].op \in {"run", "abort", "expire", "resume"}
        PROVE  /\ req'[r].seen >= 1
               /\ history'[Target(r)][req'[r].seen].status
                     \notin Excluded(req'[r].op)
    BY <2>1, <2>5, <2>7
  <2>8. /\ req'[r].arrival <= Len(history'[Target(r)])
        /\ req'[r].seen <= Len(history'[Target(r)])
        /\ req'[r].seen >= req'[r].arrival
        /\ req'[r].stage = "call" /\ req'[r].op \in {"set", "transfer"}
              => req'[r].node \in Blueprint[Target(r)]
        /\ req'[r].code \notin {200, 404}
    BY <2>1, <2>3, <1>5
  <2>9. QED
    <3>1. /\ req'[r].stage = "call" /\ req'[r].op \in {"set", "transfer"}
                => req'[r].node \in Blueprint[req'[r].process]
          /\ req'[r].op \in {"fetch", "resume", "expire"} /\ req'[r].code = 404
                => req'[r].arrival = 0
          /\ req'[r].op = "states"
                /\ (req'[r].stage = "state" \/ req'[r].code = 200)
                => req'[r].seen >= req'[r].arrival
      BY <2>1, <2>8
    <3>2. req'[r].process = Target(r)
      BY <2>1
    <3>3. QED
      BY <2>6, <2>7, <2>8, <3>1, <3>2 DEF RequestInv
<1>11. QED
  BY <1>9, <1>10 DEF RequestsInv

(***************************************************************************)
(* What the engine writes for a request that has passed its check is       *)
(* lawful: if the status is one the check excludes, the process has moved  *)
(* since.                                                                  *)
(***************************************************************************)
LEMMA AppendsLawful ==
    ASSUME TypeOK, NEW p \in Processes, NEW status \in Statuses,
           NEW next \in Nodes \cup {NoNode},
           NEW by \in Operations \cup {"engine"}, NEW seen \in Nat,
           Appends(p, status, next, by, seen),
           status = "pending" => next \in Blueprint[p],
           history[p][Len(history[p])].status \in Excluded(by)
              => seen < Len(history[p])
    PROVE  HistoryStep
<1> DEFINE e == [status |-> status, next |-> next, by |-> by, seen |-> seen]
<1>1. e \in State /\ LawfulState(p, e)
  BY DEF State, LawfulState
<1>2. history' = [history EXCEPT ![p] = Append(@, e)]
  BY DEF Appends
<1>3. QED
  BY <1>1, <1>2 DEF HistoryStep

LEMMA WritesLawful ==
    ASSUME TypeOK, RequestsInv, NEW r \in Requests,
           NEW status \in Statuses, NEW next \in Nodes \cup {NoNode},
           Writes(r, status, next),
           status = "pending" => next \in Blueprint[Target(r)],
           req[r].stage \in {"call", "resuming"}
    PROVE  HistoryStep
<1> DEFINE p == Target(r)
<1>1. /\ req[r] \in Request /\ p \in Processes /\ req[r].op \in Operations
      /\ req[r].seen \in Nat
  BY DEF TypeOK, Request, Target
<1>2. Len(history[p]) \in Nat
  BY <1>1 DEF TypeOK
<1>3. ASSUME history[p][Len(history[p])].status \in Excluded(req[r].op)
      PROVE  req[r].seen < Len(history[p])
  <2>1. CASE req[r].op \in {"run", "abort", "expire", "resume"}
    <3>1. /\ req[r].seen <= Len(history[p])
          /\ history[p][req[r].seen].status \notin Excluded(req[r].op)
      BY <2>1 DEF RequestsInv, RequestInv, Target
    <3>2. req[r].seen # Len(history[p])
      BY <3>1, <1>3
    <3>3. QED
      BY <3>1, <3>2, <1>1, <1>2
  <2>2. CASE req[r].op \notin {"run", "abort", "expire", "resume"}
    BY <2>2, <1>3 DEF Excluded
  <2>3. QED
    BY <2>1, <2>2
<1>4. Appends(p, status, next, req[r].op, req[r].seen)
  BY DEF Writes
<1> HIDE DEF p
<1>5. status = "pending" => next \in Blueprint[p]
  BY DEF p
<1>6. QED
  BY <1>1, <1>3, <1>4, <1>5, AppendsLawful

(***************************************************************************)
(* Each kind of step of a handler, put together: a reply after a write or  *)
(* without one.                                                            *)
(***************************************************************************)
LEMMA ReplyStep ==
    ASSUME ControlInv, HistoryStep, NEW r \in Requests, NEW code \in Codes,
           Answers(r, code),
           req[r].op \in {"fetch", "resume", "expire"} /\ code = 404
              => req[r].arrival = 0,
           req[r].op = "states" /\ code = 200 => req[r].seen >= req[r].arrival
    PROVE  ControlInv'
<1>1. /\ HistoryGrows /\ history' \in [Processes -> Seq(State)]
      /\ OverwritesAreRaces' /\ PendingNodeIsKnown'
  BY HistoryKept DEF ControlInv
<1>2. TypeOK' /\ RequestsInv'
  BY <1>1, AnswersKept DEF ControlInv
<1>3. QED
  BY <1>1, <1>2 DEF ControlInv

LEMMA QuietHistory ==
    ASSUME ControlInv, UNCHANGED history, TypeOK', RequestsInv'
    PROVE  ControlInv'
  BY HistoryKept DEF ControlInv, HistoryStep

(***************************************************************************)
(* A request for a process that is not there came before its creation.     *)
(***************************************************************************)
LEMMA NotFoundIsYoung ==
    ASSUME ControlInv, NEW r \in Requests, ~ Found(r)
    PROVE  req[r].arrival = 0
<1>1. req[r] \in Request /\ Target(r) \in Processes /\ req[r].arrival \in Nat
  BY DEF ControlInv, TypeOK, Request, Target
<1>2. Len(history[Target(r)]) \in Nat
  BY <1>1 DEF ControlInv, TypeOK
<1>3. req[r].arrival <= Len(history[Target(r)])
  BY DEF ControlInv, RequestsInv, RequestInv, Target
<1>4. QED
  BY <1>1, <1>2, <1>3 DEF Found, Length

LEMMA InitControl == Init => ControlInv
<1> SUFFICES ASSUME Init PROVE ControlInv
  OBVIOUS
<1>1. NoRequest \in Request
  BY ControlAssumption DEF NoRequest, Request, Operations, Stages, Codes
<1>2. TypeOK
  BY <1>1 DEF Init, TypeOK
<1>3. \A p \in Processes : history[p] = <<>> /\ Len(history[p]) = 0
  BY DEF Init
<1>4. RequestsInv
  <2>1. SUFFICES ASSUME NEW r \in Requests PROVE RequestInv(r)
    BY DEF RequestsInv
  <2>2. /\ req[r].process \in Processes /\ req[r].arrival = 0
        /\ req[r].seen = 0 /\ req[r].stage = "idle" /\ req[r].op = "fetch"
        /\ req[r].told = "none" /\ req[r].code = 0
    BY ControlAssumption DEF Init, NoRequest
  <2>3. Len(history[req[r].process]) = 0
    BY <1>3, <2>2
  <2>4. QED
    BY <2>2, <2>3 DEF RequestInv
<1>5. OverwritesAreRaces /\ PendingNodeIsKnown
  BY <1>3 DEF OverwritesAreRaces, PendingNodeIsKnown, Length
<1>6. QED
  BY <1>2, <1>4, <1>5 DEF ControlInv

(* What Receive does to req, once its node and first stage are chosen. *)
Arrives(r, op, p, node, first) ==
    req' = [req EXCEPT ![r] =
              [op |-> op, process |-> p, stage |-> first, arrival |-> Length(p),
               seen |-> 0, node |-> node, told |-> "none",
               code |-> IF first = "answered" THEN 400 ELSE 0]]

(***************************************************************************)
(* A new request has seen nothing yet.                                     *)
(***************************************************************************)
LEMMA ReceiveStep ==
    ASSUME ControlInv, NEW r \in Requests, NEW op \in Operations,
           NEW p \in Processes, Receive(r, op, p)
    PROVE  ControlInv'
<1>1. PICK node \in Nodes \cup {NoNode}, first \in {"call", "fetch", "answered"} :
         /\ first = "call" => op = "continue"
         /\ Arrives(r, op, p, node, first)
  <2>1. PICK node \in IF op = "set" THEN Nodes ELSE {NoNode} :
          \E first \in CASE op = "continue" -> {"call"}
                         [] op = "states" -> {"fetch", "answered"}
                         [] OTHER -> {"fetch"} :
             Arrives(r, op, p, node, first)
    BY DEF Receive, Arrives
  <2>2. PICK first \in CASE op = "continue" -> {"call"}
                         [] op = "states" -> {"fetch", "answered"}
                         [] OTHER -> {"fetch"} :
             Arrives(r, op, p, node, first)
    BY <2>1
  <2>3. node \in Nodes \cup {NoNode}
    OBVIOUS
  <2>4. /\ first \in {"call", "fetch", "answered"}
        /\ first = "call" => op = "continue"
    OBVIOUS
  <2>5. QED
    BY <2>2, <2>3, <2>4
<1>2. UNCHANGED history
  BY DEF Receive
<1>3. req \in [Requests -> Request] /\ history \in [Processes -> Seq(State)]
  BY DEF ControlInv, TypeOK
<1>4. Length(p) = Len(history[p]) /\ Len(history[p]) \in Nat
  BY <1>3 DEF Length
<1>5. PICK code \in Codes :
         code = (IF first = "answered" THEN 400 ELSE 0) /\ code \in {0, 400}
  BY DEF Codes
<1>6. req'[r] = [op |-> op, process |-> p, stage |-> first,
                 arrival |-> Len(history[p]), seen |-> 0, node |-> node,
                 told |-> "none", code |-> code]
  BY <1>1, <1>3, <1>4, <1>5 DEF Arrives
<1>7. req'[r] \in Request
  BY <1>6, <1>4 DEF Request, Stages
<1>8. TypeOK'
  BY <1>1, <1>2, <1>3, <1>7 DEF TypeOK, Arrives
<1>9. HistoryGrows
  BY <1>2, <1>3 DEF HistoryGrows
<1>10. RequestsInv'
  <2>1. ASSUME NEW s \in Requests, s # r
        PROVE  RequestInv(s)'
    <3>1. req'[s] = req[s]
      BY <1>1, <1>3, <2>1 DEF Arrives
    <3>2. QED
      BY <3>1, <1>2, <1>3, <1>9, RequestKept DEF ControlInv, RequestsInv
  <2>2. RequestInv(r)'
    <3>1. /\ req'[r].process = p /\ req'[r].op = op /\ req'[r].stage = first
          /\ req'[r].arrival = Len(history[p]) /\ req'[r].seen = 0
          /\ req'[r].told = "none" /\ req'[r].code \in {0, 400}
      BY <1>5, <1>6
    <3>2. history'[p] = history[p]
      BY <1>2
    <3>3. QED
      BY <1>1, <1>4, <3>1, <3>2 DEF RequestInv
  <2>3. QED
    BY <2>1, <2>2 DEF RequestsInv
<1>11. QED
  BY <1>2, <1>8, <1>10, QuietHistory

(***************************************************************************)
(* The steps that only change the stage of requests, and write perhaps.    *)
(***************************************************************************)
LEMMA StagesStep ==
    ASSUME ControlInv, HistoryStep, req' \in [Requests -> Request],
           \A r \in Requests :
              \/ req'[r] = req[r]
              \/ \E stage \in {"cut", "rejected", "answered"} :
                    req'[r] = [req[r] EXCEPT !.stage = stage]
    PROVE  ControlInv'
<1>1. /\ HistoryGrows /\ history' \in [Processes -> Seq(State)]
      /\ OverwritesAreRaces' /\ PendingNodeIsKnown'
  BY HistoryKept DEF ControlInv
<1>2. RequestsInv'
  BY <1>1, RequestKept DEF ControlInv, RequestsInv
<1>3. QED
  BY <1>1, <1>2 DEF ControlInv, TypeOK

LEMMA TransferStep ==
    ASSUME ControlInv, NEW r \in Requests, TransferRead(r)
    PROVE  ControlInv'
<1>1. UNCHANGED history /\ HistoryStep /\ req[r].op = "transfer"
  BY DEF TransferRead, HistoryStep, At
<1>2. CASE Answers(r, 404)
  BY <1>1, <1>2, ReplyStep DEF Codes
<1>3. CASE Answers(r, 400)
  BY <1>1, <1>3, ReplyStep DEF Codes
<1>4. ASSUME NEW q \in Processes, NEW i \in DOMAIN history[q],
             history[q][i].next \in Blueprint[Target(r)],
             req' = [req EXCEPT ![r].stage = "call",
                                ![r].node = history[q][i].next]
      PROVE  ControlInv'
  <2>1. req \in [Requests -> Request] /\ history \in [Processes -> Seq(State)]
    BY DEF ControlInv, TypeOK
  <2>2. req[r] \in Request /\ Target(r) \in Processes
    BY <2>1 DEF Request, Target
  <2>3. PICK node \in Nodes \cup {NoNode} :
            node = history[q][i].next /\ node \in Blueprint[Target(r)]
    BY <1>4, <2>2, ControlAssumption
  <2>4. req'[r] = [req[r] EXCEPT !.stage = "call", !.node = node]
    BY <1>4, <2>1, <2>3
  <2>5. req'[r] \in Request
    BY <2>2, <2>4 DEF Request, Stages
  <2>6. TypeOK'
    BY <1>1, <1>4, <2>1, <2>5 DEF TypeOK
  <2>7. HistoryGrows
    BY <1>1, <2>1 DEF HistoryGrows
  <2>8. ASSUME NEW s \in Requests, s # r
        PROVE  RequestInv(s)'
    <3>1. req'[s] = req[s]
      BY <1>4, <2>1, <2>8
    <3>2. QED
      BY <3>1, <1>1, <2>1, <2>7, RequestKept DEF ControlInv, RequestsInv
  <2>9. RequestInv(r)'
    <3>1. /\ req'[r].process = Target(r) /\ req'[r].op = "transfer"
          /\ req'[r].stage = "call" /\ req'[r].node = node
          /\ req'[r].arrival = req[r].arrival /\ req'[r].seen = req[r].seen
          /\ req'[r].told = req[r].told
      BY <1>1, <2>2, <2>4 DEF Request, Target
    <3>2. RequestInv(r) /\ history'[Target(r)] = history[Target(r)]
      BY <1>1 DEF ControlInv, RequestsInv
    <3>3. QED
      BY <2>3, <3>1, <3>2 DEF RequestInv, Target
  <2>10. QED
    BY <1>1, <2>6, <2>8, <2>9, QuietHistory DEF RequestsInv
<1>5. QED
  BY <1>2, <1>3, <1>4 DEF TransferRead

(***************************************************************************)
(* The four ways a handler goes on from its read: each keeps the invariant.*)
(***************************************************************************)
LEMMA TestStep ==
    ASSUME ControlInv, UNCHANGED history, NEW r \in Requests
    PROVE  /\ Answers(r, 404) /\ ~ Found(r) => ControlInv'
           /\ \A code \in Codes \ {404} :
                 Refuses(r, code) /\ Found(r) /\ req[r].op # "states"
                    => ControlInv'
           /\ \A node \in Nodes \cup {NoNode} :
                 /\ GoesOn(r, "call", node, 0)
                 /\ Found(r) /\ Status(r) \notin Excluded(req[r].op)
                 /\ req[r].op \in {"set", "transfer"}
                       => node \in Blueprint[Target(r)]
                 => ControlInv'
           /\ GoesOn(r, "state", NoNode, 0) => ControlInv'
           /\ /\ GoesOn(r, "resuming", NoNode, 202)
              /\ Found(r) /\ Status(r) \notin Excluded(req[r].op)
              => ControlInv'
<1>1. TypeOK /\ RequestsInv /\ HistoryStep
  BY DEF ControlInv, HistoryStep
<1>2. ASSUME Answers(r, 404), ~ Found(r)
      PROVE  ControlInv'
  <2>1. req[r].arrival = 0 /\ 404 \in Codes
    BY <1>2, NotFoundIsYoung DEF Codes
  <2>2. QED
    BY <1>1, <1>2, <2>1, ReplyStep
<1>3. ASSUME NEW code \in Codes \ {404}, Refuses(r, code), Found(r),
             req[r].op # "states"
      PROVE  ControlInv'
  BY <1>1, <1>3, RefusesKept, QuietHistory
<1>4. ASSUME NEW node \in Nodes \cup {NoNode}, GoesOn(r, "call", node, 0),
             Found(r), Status(r) \notin Excluded(req[r].op),
             req[r].op \in {"set", "transfer"} => node \in Blueprint[Target(r)]
      PROVE  ControlInv'
  <2>1. "call" \in Stages /\ 0 \in Codes /\ 0 \notin {200, 404}
    BY DEF Stages, Codes
  <2>2. TypeOK' /\ RequestsInv'
    BY <1>1, <1>4, <2>1, GoesOnKept
  <2>3. QED
    BY <2>2, QuietHistory
<1>5. ASSUME GoesOn(r, "state", NoNode, 0)
      PROVE  ControlInv'
  <2>1. "state" \in Stages /\ 0 \in Codes /\ 0 \notin {200, 404}
    BY DEF Stages, Codes
  <2>2. TypeOK' /\ RequestsInv'
    BY <1>1, <1>5, <2>1, GoesOnKept
  <2>3. QED
    BY <2>2, QuietHistory
<1>6. ASSUME GoesOn(r, "resuming", NoNode, 202),
             Found(r), Status(r) \notin Excluded(req[r].op)
      PROVE  ControlInv'
  <2>1. "resuming" \in Stages /\ 202 \in Codes /\ 202 \notin {200, 404}
    BY DEF Stages, Codes
  <2>2. TypeOK' /\ RequestsInv'
    BY <1>1, <1>6, <2>1, GoesOnKept
  <2>3. QED
    BY <2>2, QuietHistory
<1>7. QED
  BY <1>2, <1>3, <1>4, <1>5, <1>6

(***************************************************************************)
(* Every step keeps the invariant.                                         *)
(***************************************************************************)
LEMMA ControlStep == ControlInv /\ [Next]_vars => ControlInv'
<1> SUFFICES ASSUME ControlInv, [Next]_vars PROVE ControlInv'
  OBVIOUS
<1> USE DEF At
<1>1. CASE UNCHANGED vars
  <2>1. TypeOK' /\ RequestsInv'
    BY <1>1 DEF ControlInv, TypeOK, vars, RequestsInv, RequestInv
  <2>2. QED
    BY <1>1, <2>1, QuietHistory DEF vars
<1>2. ASSUME NEW p \in Processes, ProcessCreated(p) \/ EngineMoves(p)
      PROVE  ControlInv'
  <2>1. UNCHANGED req
    BY <1>2 DEF ProcessCreated, EngineMoves
  <2>2. HistoryStep
    <3>1. CASE ProcessCreated(p)
      <4>1. PICK n \in Blueprint[p] :
               history' = [history EXCEPT ![p] = Append(@,
                 [status |-> "unstarted", next |-> n, by |-> "engine", seen |-> 0])]
        BY <3>1 DEF ProcessCreated
      <4> DEFINE e == [status |-> "unstarted", next |-> n, by |-> "engine",
                       seen |-> 0]
      <4>2. e \in State /\ LawfulState(p, e)
        BY <3>1, ControlAssumption
        DEF State, LawfulState, ProcessCreated, Length, Statuses
      <4>3. QED
        BY <4>1, <4>2 DEF HistoryStep
    <3>2. CASE EngineMoves(p)
      <4>1. PICK current \in State : current = history[p][Length(p)]
        BY <3>2 DEF EngineMoves, ControlInv, TypeOK, Length
      <4>2. current.next \in Nodes \cup {NoNode}
        BY <4>1 DEF State
      <4>3. \E s \in {"waiting", "delegated", "finished", "error", "running",
                      "expired"}, n \in Nodes \cup {NoNode} :
                Appends(p, s, n, "engine", 0)
        BY <3>2, <4>1, <4>2 DEF EngineMoves
      <4>4. PICK s \in Statuses \ {"pending"}, n \in Nodes \cup {NoNode} :
                Appends(p, s, n, "engine", 0)
        BY <4>3 DEF Statuses
      <4>5. \A status : status \notin Excluded("engine")
        BY DEF Excluded
      <4>6. QED
        BY <4>4, <4>5, AppendsLawful DEF ControlInv
    <3>3. QED
      BY <1>2, <3>1, <3>2
  <2>3. QED
    BY <2>1, <2>2, StagesStep DEF ControlInv, TypeOK
<1>3. ASSUME NEW r \in Requests, NEW op \in Operations, NEW p \in Processes,
             Receive(r, op, p)
      PROVE  ControlInv'
  BY <1>3, ReceiveStep
<1>4. ASSUME NEW r \in Requests, Handler(r) \/ ReadFails(r)
      PROVE  ControlInv'
  <2>1. /\ TypeOK /\ RequestsInv /\ req[r] \in Request
        /\ Target(r) \in Processes /\ req[r].node \in Nodes \cup {NoNode}
        /\ Blueprint[Target(r)] \subseteq Nodes
    BY ControlAssumption DEF ControlInv, TypeOK, Request, Target
  <2>2. {200, 202, 400, 409, 422, 500} \subseteq Codes \ {404} /\ 404 \in Codes
    BY DEF Codes
  <2>3. {"unstarted", "running", "waiting", "pending", "interrupted",
         "expired"} \subseteq Statuses
    BY DEF Statuses
  <2>4. CASE ReadFails(r)
    BY <2>4, <2>2, ReplyStep DEF ReadFails, HistoryStep
  <2>5. CASE RunFetched(r)
    <3>1. UNCHANGED history /\ req[r].op = "run"
      BY <2>5 DEF RunFetched
    <3>2. Excluded("run") = stoppedStatus
      BY DEF Excluded, stoppedStatus
    <3>3. QED
      BY <2>5, <3>1, <3>2, <2>2, TestStep DEF RunFetched, StopTested
  <2>6. CASE AbortFetched(r)
    <3>1. UNCHANGED history /\ req[r].op = "abort"
      BY <2>6 DEF AbortFetched
    <3>2. Excluded("abort") = stoppedStatus
      BY DEF Excluded, stoppedStatus
    <3>3. QED
      BY <2>6, <3>1, <3>2, <2>2, TestStep DEF AbortFetched, StopTested
  <2>7. CASE RunReturns(r) \/ ContinueReturns(r)
    <3>1. req[r].op \in {"run", "continue"} /\ req[r].stage = "call"
      BY <2>7 DEF RunReturns, ContinueReturns
    <3>2. HistoryStep
      <4>1. CASE UNCHANGED history
        BY <4>1 DEF HistoryStep
      <4>2. ASSUME NEW n \in Blueprint[Target(r)], Writes(r, "running", n)
            PROVE  HistoryStep
        BY <4>2, <3>1, <2>1, <2>3, WritesLawful
      <4>3. QED
        BY <2>7, <4>1, <4>2 DEF RunReturns, ContinueReturns
    <3>3. \E code \in Codes : Answers(r, code)
      BY <2>7, <2>2 DEF RunReturns, ContinueReturns
    <3>4. QED
      BY <3>1, <3>2, <3>3, ReplyStep
  <2>8. CASE AbortReturns(r)
    <3>1. req[r].op = "abort" /\ req[r].stage = "call"
      BY <2>8 DEF AbortReturns
    <3>2. HistoryStep
      <4>1. CASE UNCHANGED history
        BY <4>1 DEF HistoryStep
      <4>2. CASE Writes(r, "interrupted", NoNode)
        BY <4>2, <3>1, <2>1, <2>3, WritesLawful
      <4>3. QED
        BY <2>8, <4>1, <4>2 DEF AbortReturns
    <3>3. \E code \in Codes : Answers(r, code)
      BY <2>8, <2>2 DEF AbortReturns
    <3>4. QED
      BY <3>1, <3>2, <3>3, ReplyStep
  <2>9. CASE FetchFetched(r)
    <3>1. UNCHANGED history /\ req[r].op = "fetch"
      BY <2>9 DEF FetchFetched
    <3>2. QED
      BY <2>9, <3>1, <2>2, TestStep DEF FetchFetched
  <2>10. CASE StatesFetched(r)
    BY <2>10, TestStep DEF StatesFetched
  <2>11. CASE StatesRead(r)
    <3>1. UNCHANGED history /\ HistoryStep /\ req[r].op = "states"
      BY <2>11 DEF StatesRead, HistoryStep
    <3>2. req[r].seen >= req[r].arrival
      BY <2>11, <2>1 DEF StatesRead, RequestsInv, RequestInv
    <3>3. \E code \in {200, 404} : Answers(r, code)
      BY <2>11 DEF StatesRead
    <3>4. QED
      BY <3>1, <3>2, <3>3, <2>2, ReplyStep
  <2>12. CASE SetFetched(r)
    <3>1. UNCHANGED history /\ HistoryStep /\ req[r].op = "set"
      BY <2>12 DEF SetFetched, HistoryStep
    <3>2. CASE Found(r) /\ req[r].node \in Blueprint[Target(r)]
      <4>1. Status(r) \notin Excluded("set") /\ GoesOn(r, "call", req[r].node, 0)
        BY <2>12, <3>2 DEF SetFetched, Excluded
      <4>2. QED
        BY <3>1, <3>2, <4>1, <2>1, TestStep
    <3>3. CASE ~ (Found(r) /\ req[r].node \in Blueprint[Target(r)])
      BY <2>12, <3>1, <3>3, <2>2, ReplyStep DEF SetFetched
    <3>4. QED
      BY <3>2, <3>3
  <2>13. CASE TransferFetched(r)
    BY <2>13, TestStep DEF TransferFetched
  <2>14. CASE TransferRead(r)
    BY <2>14, TransferStep
  <2>15. CASE SetReturns(r)
    <3>1. req[r].op \in {"set", "transfer"} /\ req[r].stage = "call"
      BY <2>15 DEF SetReturns
    <3>2. req[r].node \in Blueprint[Target(r)]
      BY <2>1, <3>1 DEF RequestsInv, RequestInv, Target
    <3>3. HistoryStep
      <4>1. CASE UNCHANGED history
        BY <4>1 DEF HistoryStep
      <4>2. CASE Writes(r, "pending", req[r].node)
        BY <4>2, <3>1, <3>2, <2>1, <2>3, WritesLawful
      <4>3. QED
        BY <2>15, <4>1, <4>2 DEF SetReturns
    <3>4. \E code \in Codes : Answers(r, code)
      BY <2>15, <2>2 DEF SetReturns
    <3>5. QED
      BY <3>1, <3>3, <3>4, ReplyStep
  <2>16. CASE ResumeFetched(r)
    <3>1. UNCHANGED history /\ req[r].op = "resume"
      BY <2>16 DEF ResumeFetched
    <3>2. Status(r) = "pending" => Status(r) \notin Excluded("resume")
      BY DEF Excluded
    <3>3. CASE Answers(r, 422)
      <4>1. 422 \in Codes /\ 422 # 404 /\ HistoryStep
        BY <3>1, <2>2 DEF HistoryStep
      <4>2. QED
        BY <3>1, <3>3, <4>1, ReplyStep
    <3>4. QED
      BY <2>16, <3>1, <3>2, <3>3, <2>2, TestStep DEF ResumeFetched
  <2>17. CASE ResumeReturns(r)
    <3>1. /\ req[r].stage = "resuming"
          /\ req' = [req EXCEPT ![r].stage = "answered"]
      BY <2>17 DEF ResumeReturns
    <3>2. HistoryStep
      <4>1. CASE UNCHANGED history
        BY <4>1 DEF HistoryStep
      <4>2. ASSUME NEW n \in Blueprint[Target(r)], Writes(r, "running", n)
            PROVE  HistoryStep
        BY <4>2, <3>1, <2>1, <2>3, WritesLawful
      <4>3. QED
        BY <2>17, <4>1, <4>2 DEF ResumeReturns
    <3>3. req' \in [Requests -> Request]
      <4>1. [req[r] EXCEPT !.stage = "answered"] \in Request
        BY <2>1 DEF Request, Stages
      <4>2. QED
        BY <3>1, <4>1 DEF ControlInv, TypeOK
    <3>4. QED
      BY <3>1, <3>2, <3>3, StagesStep DEF ControlInv, TypeOK
  <2>18. CASE ResumeRejects(r)
    <3>1. \A s \in Requests :
             \/ req'[s] = req[s]
             \/ \E stage \in {"cut", "rejected", "answered"} :
                   req'[s] = [req[s] EXCEPT !.stage = stage]
      BY <2>18 DEF ResumeRejects
    <3>2. \A s \in Requests : req'[s] \in Request
      <4>1. SUFFICES ASSUME NEW s \in Requests PROVE req'[s] \in Request
        OBVIOUS
      <4>2. req[s] \in Request
        BY DEF ControlInv, TypeOK
      <4>3. \A stage \in {"cut", "rejected", "answered"} :
               [req[s] EXCEPT !.stage = stage] \in Request
        BY <4>2 DEF Request, Stages
      <4>4. QED
        BY <3>1, <4>2, <4>3
    <3>3. req' \in [Requests -> Request] /\ HistoryStep
      <4>1. req' \in [Requests -> Request]
        BY <2>18, <3>2 DEF ResumeRejects
      <4>2. CASE UNCHANGED history
        BY <4>1, <4>2 DEF HistoryStep
      <4>3. ASSUME NEW n \in Blueprint[Target(r)], Writes(r, "running", n)
            PROVE  HistoryStep
        BY <2>18, <4>3, <2>1, <2>3, WritesLawful DEF ResumeRejects
      <4>4. QED
        BY <2>18, <4>1, <4>2, <4>3 DEF ResumeRejects
    <3>4. QED
      BY <3>1, <3>3, StagesStep
  <2>19. CASE ExpireFetched(r)
    <3>1. UNCHANGED history /\ req[r].op = "expire"
      BY <2>19 DEF ExpireFetched
    <3>2. Excluded("expire") = unexpirable
      BY DEF Excluded, unexpirable
    <3>3. QED
      BY <2>19, <3>1, <3>2, <2>2, TestStep DEF ExpireFetched
  <2>20. CASE ExpireReturns(r)
    <3>1. req[r].op = "expire" /\ req[r].stage = "call"
      BY <2>20 DEF ExpireReturns
    <3>2. HistoryStep
      <4>1. CASE UNCHANGED history
        BY <4>1 DEF HistoryStep
      <4>2. CASE Writes(r, "expired", NoNode)
        BY <4>2, <3>1, <2>1, <2>3, WritesLawful
      <4>3. QED
        BY <2>20, <4>1, <4>2 DEF ExpireReturns
    <3>3. \E code \in Codes \ {404} : Answers(r, code)
      BY <2>20, <2>2 DEF ExpireReturns
    <3>4. QED
      BY <3>1, <3>2, <3>3, ReplyStep
  <2>21. QED
    BY <1>4, <2>4, <2>5, <2>6, <2>7, <2>8, <2>9, <2>10, <2>11, <2>12, <2>13,
       <2>14, <2>15, <2>16, <2>17, <2>18, <2>19, <2>20 DEF Handler
<1>5. QED
  BY <1>1, <1>2, <1>3, <1>4 DEF Next

LEMMA ControlInvariant == Spec => []ControlInv
  BY InitControl, ControlStep, PTL DEF Spec

(***************************************************************************)
(* Histories and requests keep their types.                                *)
(***************************************************************************)
THEOREM ControlTypeCorrect == Spec => []TypeOK
<1>1. ControlInv => TypeOK
  BY DEF ControlInv
<1>2. QED
  BY <1>1, ControlInvariant, PTL

(***************************************************************************)
(* runProcess, abortProcess, expireProcess and runPendingProcess never     *)
(* change a process in a status their own check excludes, unless the       *)
(* process got there after the check.                                      *)
(***************************************************************************)
THEOREM OverwritesCorrect == Spec => []OverwritesAreRaces
<1>1. ControlInv => OverwritesAreRaces
  BY DEF ControlInv
<1>2. QED
  BY <1>1, ControlInvariant, PTL

(***************************************************************************)
(* setProcessState and transferProcessState leave a process pending only   *)
(* at a node of its own blueprint.                                         *)
(***************************************************************************)
THEOREM PendingCorrect == Spec => []PendingNodeIsKnown
<1>1. ControlInv => PendingNodeIsKnown
  BY DEF ControlInv
<1>2. QED
  BY <1>1, ControlInvariant, PTL

(***************************************************************************)
(* What the replies say of a process was so while the request was served:  *)
(* the status in a body, and a 404.                                        *)
(***************************************************************************)
THEOREM RepliesCorrect == Spec => []RepliesAreCurrent
<1>1. ControlInv => RepliesAreCurrent
  BY DEF ControlInv, RequestsInv, RequestInv, RepliesAreCurrent, Target
<1>2. QED
  BY <1>1, ControlInvariant, PTL
=============================================================================
