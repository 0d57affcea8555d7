--------------------- MODULE EnvironmentVariablesProofs ---------------------
(***************************************************************************)
(* Theorems about EnvironmentVariables, for any keys, values and number of *)
(* requests, whatever fails.                                               *)
(*                                                                         *)
(* A row only gains states, so whatever a request has read of it stays     *)
(* true of the state it read.  The inductive invariant says who wrote each *)
(* state and what it followed, and of each request what it has read.       *)
(***************************************************************************)
EXTENDS EnvironmentVariables, TLAPS

\* State i of a row was written by one answered request, which told what it
\* had done to the state before.
WrittenBy(k, i, r) ==
    LET before == table[k][i - 1].value
    IN  /\ table[k][i].by = {r}
        /\ req[r].key = k /\ req[r].stage = "answered"
        /\ \/ /\ req[r].op = "save" /\ table[k][i].value # NoValue
              /\ req[r].code \in {IF before = NoValue THEN 201 ELSE 200, 500}
           \/ /\ req[r].op = "delete" /\ table[k][i].value = NoValue
              /\ before # NoValue /\ req[r].code \in {204, 500}
        /\ req[r].code = 500 => faults # 0

TableInv ==
    \A k \in Keys :
        /\ Len(table[k]) >= 1 /\ table[k][1].by = {}
        /\ \A i \in 2..Len(table[k]) : \E r \in Requests : WrittenBy(k, i, r)
        /\ \A i, j \in DOMAIN table[k] : table[k][i].by = table[k][j].by => i = j

\* The row of r's key held no value in one of its states from the n-th on.
MissingFrom(r, n) ==
    \E i \in DOMAIN table[req[r].key] : i >= n /\ table[req[r].key][i].value = NoValue

\* What a reply says, request by request.
SaveTold(r) ==
    LET row == table[req[r].key]
    IN  /\ req[r].code = 201 =>
              \E i \in 2..Len(row) : row[i].by = {r} /\ row[i - 1].value = NoValue
        /\ req[r].code = 200 =>
              \/ \E i \in 2..Len(row) : row[i].by = {r} /\ row[i - 1].value # NoValue
              \/ \E i \in DOMAIN row : i > req[r].seen /\ row[i].value = NoValue
        /\ req[r].code = 500 /\ faults = 0 => Len(row) > req[r].seen

Told(r) ==
    /\ req[r].op = "save" => SaveTold(r)
    /\ req[r].op = "delete" /\ req[r].code = 204 => MissingFrom(r, req[r].arrival)

\* What has been read and told by the await a request is at.
RequestInv(r) ==
    LET row == table[req[r].key]
    IN  /\ req[r].stage # "answered" => req[r].code = 0 /\ req[r].origin = "none"
        /\ req[r].stage \in {"idle", "fetch"} => req[r].seen = 0
        /\ req[r].stage # "idle" => req[r].arrival \in 1..Len(row)
        /\ req[r].seen <= Len(row)
        /\ req[r].stage \in {"create", "update"} =>
              /\ req[r].op = "save" /\ req[r].seen >= 1
              /\ (row[req[r].seen].value = NoValue) <=> (req[r].stage = "create")
        /\ req[r].stage = "delete" => req[r].op = "delete"
        /\ req[r].stage = "answered" => Told(r)

EnvInv == TypeOK /\ TableInv /\ \A r \in Requests : RequestInv(r)

\* Every row starts with what it was.
TableGrows ==
    \A k \in Keys :
        /\ Len(table'[k]) >= Len(table[k])
        /\ \A i \in 1..Len(table[k]) : table'[k][i] = table[k][i]

(***************************************************************************)
(* What a request has read and told stays true while rows grow.            *)
(***************************************************************************)
LEMMA RequestKept ==
    ASSUME TypeOK, TypeOK', TableGrows, faults' >= faults,
           NEW r \in Requests, req'[r] = req[r], RequestInv(r)
    PROVE  RequestInv(r)'
<1> DEFINE k == req[r].key
<1>1. k \in Keys /\ req[r] \in Request
  BY DEF TypeOK, Request
<1>2. /\ table[k] \in Seq(Change) /\ table'[k] \in Seq(Change)
      /\ Len(table[k]) \in Nat /\ Len(table'[k]) \in Nat
      /\ DOMAIN table[k] = 1..Len(table[k]) /\ DOMAIN table'[k] = 1..Len(table'[k])
  BY <1>1 DEF TypeOK
<1>3. /\ Len(table'[k]) >= Len(table[k])
      /\ \A i \in 1..Len(table[k]) : table'[k][i] = table[k][i]
  BY <1>1 DEF TableGrows
<1>4. req[r].seen \in Nat /\ req[r].arrival \in Nat
  BY <1>1 DEF Request
<1>5. \A n \in Nat : MissingFrom(r, n) => MissingFrom(r, n)'
  BY <1>2, <1>3 DEF MissingFrom
<1>a. \A i \in 2..Len(table[k]) :
          /\ i \in 2..Len(table'[k])
          /\ table'[k][i] = table[k][i] /\ table'[k][i - 1] = table[k][i - 1]
  <2>1. SUFFICES ASSUME NEW i \in 2..Len(table[k])
                 PROVE  /\ i \in 2..Len(table'[k])
                        /\ i \in 1..Len(table[k]) /\ i - 1 \in 1..Len(table[k])
    BY <1>3
  <2>2. QED
    BY <1>2, <1>3
<1>6. SaveTold(r) => SaveTold(r)'
  <2>1. SUFFICES ASSUME SaveTold(r) PROVE SaveTold(r)'
    OBVIOUS
  <2>2. req'[r].code = 201 => \E i \in 2..Len(table'[k]) :
            table'[k][i].by = {r} /\ table'[k][i - 1].value = NoValue
    <3>1. SUFFICES ASSUME req[r].code = 201
                   PROVE  \E i \in 2..Len(table'[k]) :
                              table'[k][i].by = {r} /\ table'[k][i - 1].value = NoValue
      OBVIOUS
    <3>2. PICK i \in 2..Len(table[k]) :
                  table[k][i].by = {r} /\ table[k][i - 1].value = NoValue
      BY <2>1, <3>1 DEF SaveTold
    <3>3. /\ i \in 2..Len(table'[k]) /\ table'[k][i].by = {r}
          /\ table'[k][i - 1].value = NoValue
      BY <3>2, <1>a
    <3>4. QED
      BY <3>3
  <2>3. req'[r].code = 200 =>
            \/ \E i \in 2..Len(table'[k]) :
                  table'[k][i].by = {r} /\ table'[k][i - 1].value # NoValue
            \/ \E i \in DOMAIN table'[k] :
                  i > req[r].seen /\ table'[k][i].value = NoValue
    <3>1. ASSUME NEW i \in 2..Len(table[k]),
                 table[k][i].by = {r}, table[k][i - 1].value # NoValue
          PROVE  \E j \in 2..Len(table'[k]) :
                     table'[k][j].by = {r} /\ table'[k][j - 1].value # NoValue
      <4>1. /\ i \in 2..Len(table'[k]) /\ table'[k][i].by = {r}
            /\ table'[k][i - 1].value # NoValue
        BY <3>1, <1>a
      <4>2. QED
        BY <4>1
    <3>2. CASE \E i \in DOMAIN table[k] :
                  i > req[r].seen /\ table[k][i].value = NoValue
      BY <3>2, <1>2, <1>3
    <3>3. QED
      BY <2>1, <3>1, <3>2 DEF SaveTold
  <2>4. req'[r].code = 500 /\ faults' = 0 => Len(table'[k]) > req[r].seen
    <3>1. faults' = 0 => faults = 0
      BY DEF TypeOK
    <3>2. QED
      BY <2>1, <3>1, <1>2, <1>3, <1>4 DEF SaveTold
  <2>5. QED
    BY <2>2, <2>3, <2>4 DEF SaveTold
<1>8. Told(r) => Told(r)'
  BY <1>4, <1>5, <1>6 DEF Told
<1>9. QED
  BY SMTT(40), <1>2, <1>3, <1>4, <1>8 DEF RequestInv

(***************************************************************************)
(* Only answered requests have written, so who is not answered yet may go  *)
(* on without a change of the table.                                       *)
(***************************************************************************)
LEMMA TableKept ==
    ASSUME TypeOK, TypeOK', TableInv, table' = table, faults' >= faults,
           \A s \in Requests : req[s].stage = "answered" => req'[s] = req[s]
    PROVE  TableInv' /\ TableGrows
<1>1. \A k \in Keys : \A i \in 2..Len(table[k]) : \A s \in Requests :
          WrittenBy(k, i, s) => WrittenBy(k, i, s)'
  <2>1. faults # 0 => faults' # 0
    BY DEF TypeOK
  <2>2. QED
    BY <2>1 DEF WrittenBy
<1>2. TableInv'
  BY <1>1 DEF TableInv
<1>3. \A k \in Keys : Len(table[k]) \in Nat
  BY DEF TypeOK
<1>4. QED
  BY <1>2, <1>3 DEF TableGrows

(***************************************************************************)
(* A change of a row by a request that is answered in the same step, and   *)
(* tells what it has done.                                                 *)
(***************************************************************************)
LEMMA TableChanged ==
    ASSUME TypeOK, TypeOK', TableInv,
           NEW r \in Requests, NEW v \in Values \cup {NoValue},
           NEW k \in Keys, NEW n \in Nat, k = req[r].key, n = Len(table[k]),
           Changes(r, v), req[r].stage # "answered", faults' >= faults,
           \A s \in Requests : s # r => req'[s] = req[s],
           WrittenBy(k, n + 1, r)'
    PROVE  TableInv' /\ TableGrows
<1> DEFINE e == [value |-> v, by |-> {r}]
<1>1. k \in Keys /\ e \in Change
  BY DEF Change
<1>2. \A q \in Keys : table[q] \in Seq(Change) /\ Len(table[q]) \in Nat
                      /\ DOMAIN table[q] = 1..Len(table[q])
  BY DEF TypeOK
<1>3. table' = [table EXCEPT ![k] = Append(@, e)]
  BY DEF Changes
<1>4. /\ Len(table'[k]) = n + 1 /\ table'[k][n + 1] = e
      /\ \A i \in 1..n : table'[k][i] = table[k][i]
      /\ DOMAIN table'[k] = 1..(n + 1)
  <2>1. table'[k] = Append(table[k], e)
    BY <1>1, <1>3 DEF TypeOK
  <2>2. QED
    BY <2>1, <1>1, <1>2
<1>5. \A q \in Keys : q # k => table'[q] = table[q]
  BY <1>3 DEF TypeOK
<1>6. TableGrows
  <2>1. SUFFICES ASSUME NEW q \in Keys
                 PROVE  /\ Len(table'[q]) >= Len(table[q])
                        /\ \A i \in 1..Len(table[q]) : table'[q][i] = table[q][i]
    BY DEF TableGrows
  <2>2. CASE q = k
    BY <1>4, <2>2
  <2>3. CASE q # k
    BY <1>2, <1>5, <2>3
  <2>4. QED
    BY <2>2, <2>3
<1>7. \A q \in Keys : \A i \in 2..Len(table[q]) : \E s \in Requests :
          s # r /\ WrittenBy(q, i, s) /\ WrittenBy(q, i, s)'
  <2>1. SUFFICES ASSUME NEW q \in Keys, NEW i \in 2..Len(table[q])
                 PROVE  \E s \in Requests :
                            s # r /\ WrittenBy(q, i, s) /\ WrittenBy(q, i, s)'
    OBVIOUS
  <2>2. PICK s \in Requests : WrittenBy(q, i, s)
    BY DEF TableInv
  <2>3. s # r /\ req'[s] = req[s]
    BY <2>2 DEF WrittenBy
  <2>4. table'[q][i] = table[q][i] /\ table'[q][i - 1] = table[q][i - 1]
    BY <1>6, <1>2 DEF TableGrows
  <2>5. faults # 0 => faults' # 0
    BY DEF TypeOK
  <2>6. WrittenBy(q, i, s)'
    BY <2>2, <2>3, <2>4, <2>5 DEF WrittenBy
  <2>7. QED
    BY <2>2, <2>3, <2>6
<1>8. TableInv'
  <2>1. SUFFICES ASSUME NEW q \in Keys
                 PROVE  /\ Len(table'[q]) >= 1 /\ table'[q][1].by = {}
                        /\ \A i \in 2..Len(table'[q]) :
                              \E s \in Requests : WrittenBy(q, i, s)'
                        /\ \A i, j \in DOMAIN table'[q] :
                              table'[q][i].by = table'[q][j].by => i = j
    BY DEF TableInv
  <2>2. /\ Len(table[q]) >= 1 /\ table[q][1].by = {}
        /\ \A i, j \in DOMAIN table[q] : table[q][i].by = table[q][j].by => i = j
    BY DEF TableInv
  <2>3. CASE q # k
    BY <2>2, <2>3, <1>5, <1>7
  <2>4. CASE q = k
    <3>1. Len(table'[q]) >= 1 /\ table'[q][1].by = {}
      BY <2>2, <2>4, <1>2, <1>4
    <3>2. ASSUME NEW i \in 2..Len(table'[q])
          PROVE  \E s \in Requests : WrittenBy(q, i, s)'
      <4>1. CASE i = n + 1
        BY <4>1, <2>4
      <4>2. CASE i # n + 1
        <5>1. i \in 2..Len(table[q])
          BY <4>2, <2>4, <1>2, <1>4
        <5>2. QED
          BY <5>1, <1>7
      <4>3. QED
        BY <4>1, <4>2
    <3>3. \A i \in 1..n : table[k][i].by # {r}
      <4>1. SUFFICES ASSUME NEW i \in 1..n PROVE table[k][i].by # {r}
        OBVIOUS
      <4>2. CASE i = 1
        BY <4>2, <2>2, <2>4
      <4>3. CASE i # 1
        <5>1. i \in 2..Len(table[k])
          BY <4>3, <1>1, <1>2
        <5>2. PICK s \in Requests : s # r /\ WrittenBy(k, i, s)
          BY <5>1, <1>1, <1>7
        <5>3. QED
          BY <5>2 DEF WrittenBy
      <4>4. QED
        BY <4>2, <4>3
    <3>4. \A i, j \in 1..(n + 1) : table'[k][i].by = table'[k][j].by => i = j
      <4>1. ASSUME NEW i \in 1..n, NEW j \in 1..n, table'[k][i].by = table'[k][j].by
            PROVE  i = j
        <5>1. table[k][i].by = table[k][j].by /\ {i, j} \subseteq DOMAIN table[k]
          BY <4>1, <1>2, <1>4
        <5>2. QED
          BY <5>1, <2>2, <2>4
      <4>2. table'[k][n + 1].by = {r}
        BY <1>4
      <4>3. \A i \in 1..n : table'[k][i].by # {r}
        BY <3>3, <1>4
      <4>4. SUFFICES ASSUME NEW i \in 1..(n + 1), NEW j \in 1..(n + 1),
                            table'[k][i].by = table'[k][j].by
                     PROVE  i = j
        OBVIOUS
      <4>5. i \in 1..n \/ i = n + 1
        OBVIOUS
      <4>6. j \in 1..n \/ j = n + 1
        OBVIOUS
      <4>7. QED
        BY <4>1, <4>2, <4>3, <4>4, <4>5, <4>6
    <3>5. QED
      BY <2>4, <3>1, <3>2, <3>4, <1>4
  <2>5. QED
    BY <2>3, <2>4
<1>9. QED
  BY <1>6, <1>8

-----------------------------------------------------------------------------
(* What the helpers of the handlers do to a request *)

\* All other requests are left alone, and of r's what it asked.
OnlyMoves(r) ==
    /\ \A s \in Requests : s # r => req'[s] = req[s]
    /\ req'[r].op = req[r].op /\ req'[r].key = req[r].key
    /\ req'[r].value = req[r].value /\ req'[r].arrival = req[r].arrival

\* The records Answers and AnswersWith put in the place of q.
Answered(q, code) == [q EXCEPT !.stage = "answered", !.code = code]

Telling(q, v, o) == [q EXCEPT !.told = v, !.origin = o]

LEMMA AnsweredIs ==
    ASSUME NEW q \in Request, NEW code \in {0, 200, 201, 204, 404, 500}
    PROVE  Answered(q, code) \in Request
<1>1. PICK stage \in Stages : stage = "answered"
  BY DEF Stages
<1>2. PICK q1 \in Request : q1 = [q EXCEPT !.stage = stage]
  BY DEF Request
<1>3. [q1 EXCEPT !.code = code] \in Request
  BY DEF Request
<1>4. Answered(q, code) = [q1 EXCEPT !.code = code]
  BY <1>1, <1>2 DEF Request, Answered
<1>5. QED
  BY <1>3, <1>4

LEMMA TellingIs ==
    ASSUME NEW q \in Request, NEW v \in Values \cup {NoValue},
           NEW o \in {"none", "table", "environment"}
    PROVE  Telling(q, v, o) \in Request
<1>1. PICK q1 \in Request : q1 = [q EXCEPT !.told = v]
  BY DEF Request
<1>2. [q1 EXCEPT !.origin = o] \in Request
  BY DEF Request
<1>3. Telling(q, v, o) = [q1 EXCEPT !.origin = o]
  BY <1>1 DEF Request, Telling
<1>4. QED
  BY <1>2, <1>3

LEMMA AnswersDoes ==
    ASSUME TypeOK, NEW r \in Requests, NEW code \in {200, 201, 204, 404, 500},
           Answers(r, code)
    PROVE  /\ req' \in [Requests -> Request] /\ OnlyMoves(r)
           /\ req'[r].stage = "answered" /\ req'[r].code = code
           /\ req'[r].seen = req[r].seen
           /\ req'[r].told = req[r].told /\ req'[r].origin = req[r].origin
<1>1. req[r] \in Request /\ req \in [Requests -> Request]
  BY DEF TypeOK
<1>2. req'[r] = Answered(req[r], code)
  BY <1>1 DEF Answers, Answered
<1>3. req'[r] \in Request
  <2>1. code \in {0, 200, 201, 204, 404, 500}
    OBVIOUS
  <2>2. QED
    BY <1>1, <1>2, <2>1, AnsweredIs
<1>4. req' \in [Requests -> Request] /\ \A s \in Requests : s # r => req'[s] = req[s]
  BY <1>1, <1>3 DEF Answers
<1>5. QED
  BY <1>1, <1>2, <1>4 DEF OnlyMoves, Request, Answered

LEMMA AnswersWithDoes ==
    ASSUME TypeOK, NEW r \in Requests, NEW code \in {200, 201},
           NEW v \in Values \cup {NoValue}, NEW o \in {"none", "table", "environment"},
           AnswersWith(r, code, v, o)
    PROVE  /\ req' \in [Requests -> Request] /\ OnlyMoves(r)
           /\ req'[r].stage = "answered" /\ req'[r].code = code
           /\ req'[r].seen = req[r].seen
           /\ req'[r].told = v /\ req'[r].origin = o
<1>1. req[r] \in Request /\ req \in [Requests -> Request]
  BY DEF TypeOK
<1>2. req'[r] = [req[r] EXCEPT !.stage = "answered", !.code = code,
                               !.told = v, !.origin = o]
  BY <1>1 DEF AnswersWith
<1>3. req'[r] \in Request
  <2>1. code \in {0, 200, 201, 204, 404, 500}
    OBVIOUS
  <2>2. PICK q \in Request : q = Answered(req[r], code)
    BY <1>1, <2>1, AnsweredIs
  <2>3. Telling(q, v, o) \in Request
    BY TellingIs
  <2>4. req'[r] = Telling(q, v, o)
    BY <1>1, <1>2, <2>2 DEF Request, Answered, Telling
  <2>5. QED
    BY <2>3, <2>4
<1>4. req' \in [Requests -> Request] /\ \A s \in Requests : s # r => req'[s] = req[s]
  BY <1>1, <1>3 DEF AnswersWith
<1>5. QED
  BY <1>1, <1>2, <1>4 DEF OnlyMoves, Request

LEMMA GoesOnDoes ==
    ASSUME TypeOK, NEW r \in Requests, NEW stage \in {"create", "update", "delete"},
           GoesOn(r, stage)
    PROVE  /\ req' \in [Requests -> Request] /\ OnlyMoves(r)
           /\ req'[r].stage = stage /\ req'[r].code = req[r].code
           /\ req'[r].seen = Len(table[req[r].key])
           /\ req'[r].told = req[r].told /\ req'[r].origin = req[r].origin
<1>1. req[r] \in Request /\ req \in [Requests -> Request]
  BY DEF TypeOK
<1>2. PICK n \in Nat : n = Len(table[req[r].key])
  BY <1>1 DEF TypeOK, Request
<1>3. req'[r] = [req[r] EXCEPT !.stage = stage, !.seen = n]
  BY <1>1, <1>2 DEF GoesOn
<1>4. req'[r] \in Request
  <2>1. PICK s \in Stages : s = stage
    BY DEF Stages
  <2>2. [req[r] EXCEPT !.stage = s, !.seen = n] \in Request
    BY <1>1 DEF Request
  <2>3. QED
    BY <1>3, <2>1, <2>2
<1>5. req' \in [Requests -> Request] /\ \A s \in Requests : s # r => req'[s] = req[s]
  BY <1>1, <1>4 DEF GoesOn
<1>6. QED
  BY <1>1, <1>2, <1>3, <1>5 DEF OnlyMoves, Request

-----------------------------------------------------------------------------
(* Steps *)

(***************************************************************************)
(* A step of r that leaves the table alone, as far as r itself keeps its   *)
(* part of the invariant.                                                  *)
(***************************************************************************)
LEMMA QuietStep ==
    ASSUME EnvInv, NEW r \in Requests, table' = table,
           faults' \in 0..MaxFaults, faults' >= faults,
           req' \in [Requests -> Request],
           \A s \in Requests : s # r => req'[s] = req[s],
           req[r].stage # "answered", RequestInv(r)'
    PROVE  EnvInv'
<1>1. TypeOK /\ TypeOK'
  BY DEF EnvInv, TypeOK
<1>2. TableInv' /\ TableGrows
  BY <1>1, TableKept DEF EnvInv
<1>3. \A s \in Requests : RequestInv(s)'
  BY <1>1, <1>2, RequestKept DEF EnvInv
<1>4. QED
  BY <1>1, <1>2, <1>3 DEF EnvInv

(***************************************************************************)
(* A step of r that changes the row k.                                     *)
(***************************************************************************)
LEMMA ChangingStep ==
    ASSUME EnvInv, NEW r \in Requests, NEW v \in Values \cup {NoValue},
           NEW k \in Keys, NEW n \in Nat, k = req[r].key, n = Len(table[k]),
           Changes(r, v), faults' \in 0..MaxFaults, faults' >= faults,
           req' \in [Requests -> Request],
           \A s \in Requests : s # r => req'[s] = req[s],
           req[r].stage # "answered",
           WrittenBy(k, n + 1, r)', RequestInv(r)'
    PROVE  EnvInv'
<1>1. TypeOK /\ table \in [Keys -> Seq(Change)]
  BY DEF EnvInv, TypeOK
<1>2. [value |-> v, by |-> {r}] \in Change
  BY DEF Change
<1>3. table' \in [Keys -> Seq(Change)]
  BY <1>1, <1>2 DEF Changes
<1>4. TypeOK'
  BY <1>1, <1>3 DEF TypeOK
<1>5. TableInv' /\ TableGrows
  BY <1>1, <1>4, TableChanged DEF EnvInv
<1>6. \A s \in Requests : RequestInv(s)'
  BY <1>1, <1>4, <1>5, RequestKept DEF EnvInv, TypeOK
<1>7. QED
  BY <1>4, <1>5, <1>6 DEF EnvInv

\* What is known of the row of a request and of what the change appends to it.
LEMMA RowOf ==
    ASSUME EnvInv, NEW r \in Requests
    PROVE  LET k == req[r].key  row == table[k]
           IN  /\ k \in Keys /\ req[r] \in Request
               /\ Len(row) \in Nat /\ Len(row) >= 1 /\ DOMAIN row = 1..Len(row)
               /\ \A i \in 1..Len(row) : row[i].value \in Values \cup {NoValue}
               /\ Stored(k) = row[Len(row)].value
               /\ \A v : Changes(r, v) =>
                     /\ Len(table'[k]) = Len(row) + 1
                     /\ DOMAIN table'[k] = 1..(Len(row) + 1)
                     /\ table'[k][Len(row) + 1] = [value |-> v, by |-> {r}]
                     /\ \A i \in 1..Len(row) : table'[k][i] = row[i]
<1> DEFINE k == req[r].key
<1>1. k \in Keys /\ req[r] \in Request
  BY DEF EnvInv, TypeOK, Request
<1>2. table \in [Keys -> Seq(Change)] /\ table[k] \in Seq(Change)
  BY <1>1 DEF EnvInv, TypeOK
<1>3. /\ Len(table[k]) \in Nat /\ Len(table[k]) >= 1
      /\ DOMAIN table[k] = 1..Len(table[k])
  BY <1>1, <1>2 DEF EnvInv, TableInv
<1>4. \A i \in 1..Len(table[k]) : table[k][i].value \in Values \cup {NoValue}
  <2>1. \A i \in 1..Len(table[k]) : table[k][i] \in Change
    BY <1>2, <1>3
  <2>2. QED
    BY <2>1 DEF Change
<1>5. ASSUME NEW v, Changes(r, v)
      PROVE  /\ Len(table'[k]) = Len(table[k]) + 1
             /\ DOMAIN table'[k] = 1..(Len(table[k]) + 1)
             /\ table'[k][Len(table[k]) + 1] = [value |-> v, by |-> {r}]
             /\ \A i \in 1..Len(table[k]) : table'[k][i] = table[k][i]
  <2> DEFINE e == [value |-> v, by |-> {r}]
  <2>1. table'[k] = Append(table[k], e)
    BY <1>1, <1>2, <1>5 DEF Changes
  <2>2. QED
    BY <2>1, <1>2, <1>3
<1>6. QED
  BY <1>1, <1>3, <1>4, <1>5 DEF Stored

(***************************************************************************)
(* The actions, one by one.                                                *)
(***************************************************************************)
LEMMA InitEnv == Init => EnvInv
<1>1. SUFFICES ASSUME Init PROVE EnvInv
  OBVIOUS
<1>2. [value |-> NoValue, by |-> {}] \in Change
  BY DEF Change
<1>3. table \in [Keys -> Seq(Change)]
  BY <1>1, <1>2 DEF Init
<1>4. PICK k \in Keys, v \in Values :
          req = [r \in Requests |->
                   [op |-> "get", key |-> k, value |-> v, stage |-> "idle",
                    arrival |-> 0, seen |-> 0, code |-> 0, told |-> NoValue,
                    origin |-> "none"]]
  BY <1>1 DEF Init
<1>5. req \in [Requests -> Request] /\ \A r \in Requests : req[r].key = k
  BY <1>4 DEF Request, Operations, Stages
<1>6. TypeOK
  <2>1. faults \in 0..MaxFaults
    BY <1>1, EnvironmentAssumption DEF Init
  <2>2. QED
    BY <1>3, <1>5, <2>1 DEF TypeOK
<1>7. \A q \in Keys : table[q] = <<[value |-> NoValue, by |-> {}]>>
  BY <1>1 DEF Init
<1>8. ASSUME NEW q \in Keys
      PROVE  Len(table[q]) = 1 /\ DOMAIN table[q] = 1..1 /\ table[q][1].by = {}
  <2>1. table[q] = <<[value |-> NoValue, by |-> {}]>>
    BY <1>7
  <2>2. QED
    BY <2>1
<1>9. TableInv
  <2>1. ASSUME NEW q \in Keys, NEW i \in 2..Len(table[q])
        PROVE  FALSE
    <3>1. Len(table[q]) = 1
      BY <1>8
    <3>2. i \in 2..1
      BY <3>1
    <3>3. QED
      BY <3>2
  <2>2. \A q \in Keys : \A i, j \in DOMAIN table[q] : i = j
    BY <1>8
  <2>3. QED
    BY <1>8, <2>1, <2>2 DEF TableInv
<1>10. \A r \in Requests : RequestInv(r)
  BY <1>4, <1>5, <1>8 DEF RequestInv
<1>11. QED
  BY <1>6, <1>9, <1>10 DEF EnvInv

LEMMA ReceiveStep ==
    ASSUME EnvInv, NEW r \in Requests, NEW op \in Operations, NEW k \in Keys,
           NEW v \in Values, Receive(r, op, k, v)
    PROVE  EnvInv'
<1>1. req[r] \in Request /\ req \in [Requests -> Request] /\ table[k] \in Seq(Change)
  BY DEF EnvInv, TypeOK
<1>2. PICK n \in Nat : n = Len(table[k])
  BY <1>1
<1>3. Len(table[k]) >= 1
  BY DEF EnvInv, TableInv
<1>4. req'[r] = [req[r] EXCEPT !.op = op, !.key = k, !.value = v, !.stage = "fetch",
                               !.arrival = n]
  BY <1>1, <1>2 DEF Receive
<1>5. req'[r] \in Request
  <2>1. PICK q1 \in Request : q1 = [req[r] EXCEPT !.op = op, !.key = k]
    BY <1>1 DEF Request
  <2>2. PICK fetch \in Stages : fetch = "fetch"
    BY DEF Stages
  <2>3. PICK q2 \in Request : q2 = [q1 EXCEPT !.value = v, !.stage = fetch]
    BY DEF Request
  <2>4. [q2 EXCEPT !.arrival = n] \in Request
    BY DEF Request
  <2>5. req'[r] = [q2 EXCEPT !.arrival = n]
    BY <1>1, <1>4, <2>1, <2>2, <2>3 DEF Request
  <2>6. QED
    BY <2>4, <2>5
<1>6. req' \in [Requests -> Request] /\ \A s \in Requests : s # r => req'[s] = req[s]
  BY <1>1, <1>5 DEF Receive
<1>7. /\ req'[r].key = k /\ req'[r].stage = "fetch" /\ req'[r].arrival = n
      /\ req'[r].seen = req[r].seen /\ req'[r].code = req[r].code
      /\ req'[r].origin = req[r].origin
  BY <1>1, <1>4 DEF Request
<1>8. req[r].seen = 0 /\ req[r].code = 0 /\ req[r].origin = "none"
  BY DEF EnvInv, RequestInv, Receive
<1>9. RequestInv(r)'
  BY <1>2, <1>3, <1>7, <1>8 DEF RequestInv, Receive
<1>10. QED
  BY <1>6, <1>9, QuietStep DEF Receive, EnvInv, TypeOK

LEMMA SaveFetchedStep ==
    ASSUME EnvInv, NEW r \in Requests, SaveFetched(r)
    PROVE  EnvInv'
<1> DEFINE k == req[r].key
<1>1. /\ Len(table[k]) \in Nat /\ Len(table[k]) >= 1
      /\ Stored(k) = table[k][Len(table[k])].value
  BY RowOf
<1>2. PICK stage \in {"create", "update"} :
          GoesOn(r, stage) /\ (stage = "create" <=> Stored(k) = NoValue)
  BY DEF SaveFetched, Origin
<1>3. /\ req' \in [Requests -> Request] /\ OnlyMoves(r)
      /\ req'[r].stage = stage /\ req'[r].code = req[r].code
      /\ req'[r].seen = Len(table[k]) /\ req'[r].origin = req[r].origin
  BY <1>2, GoesOnDoes DEF EnvInv
<1>4. /\ req[r].op = "save" /\ req[r].code = 0 /\ req[r].origin = "none"
      /\ req[r].arrival \in 1..Len(table[k])
  BY DEF EnvInv, RequestInv, SaveFetched, At
<1>5. RequestInv(r)'
  BY <1>1, <1>2, <1>3, <1>4 DEF RequestInv, OnlyMoves, SaveFetched
<1>6. QED
  BY <1>3, <1>5, QuietStep DEF OnlyMoves, SaveFetched, At, EnvInv, TypeOK

\* A save that stores its value, in the place of what the row held.
LEMMA SavesStep ==
    ASSUME EnvInv, NEW r \in Requests, NEW code \in {200, 201, 500},
           req[r].op = "save", req[r].stage \in {"create", "update"},
           code # 500 => ((code = 201) <=> (Stored(req[r].key) = NoValue)),
           Changes(r, req[r].value), req' \in [Requests -> Request], OnlyMoves(r),
           req'[r].stage = "answered", req'[r].code = code,
           req'[r].seen = req[r].seen,
           faults' \in 0..MaxFaults, faults' >= faults, code = 500 => faults' # 0
    PROVE  EnvInv'
<1>1. PICK k \in Keys, n \in Nat : k = req[r].key /\ n = Len(table[k])
  BY RowOf
<1>2. PICK v \in Values : v = req[r].value
  BY RowOf DEF Request
<1>4. /\ n >= 1 /\ Stored(k) = table[k][n].value
      /\ Len(table'[k]) = n + 1 /\ DOMAIN table'[k] = 1..(n + 1)
      /\ table'[k][n + 1] = [value |-> v, by |-> {r}]
      /\ table'[k][n] = table[k][n]
  BY <1>1, <1>2, RowOf
<1>5. table'[k][n + 1].by = {r} /\ table'[k][n + 1].value = v /\ v # NoValue
  BY <1>4, EnvironmentAssumption
<1>6. table'[k][(n + 1) - 1].value = Stored(k)
  BY <1>4
<1>7. WrittenBy(k, n + 1, r)'
  BY <1>1, <1>5, <1>6 DEF WrittenBy, OnlyMoves
<1>8. n + 1 \in 2..Len(table'[k])
  BY <1>4
<1>9. SaveTold(r)'
  <2>1. code = 201 => \E i \in 2..Len(table'[k]) :
            table'[k][i].by = {r} /\ table'[k][i - 1].value = NoValue
    BY <1>1, <1>5, <1>6, <1>8
  <2>2. code = 200 => \E i \in 2..Len(table'[k]) :
            table'[k][i].by = {r} /\ table'[k][i - 1].value # NoValue
    BY <1>1, <1>5, <1>6, <1>8
  <2>3. QED
    BY <1>1, <2>1, <2>2 DEF SaveTold, OnlyMoves
<1>10. Told(r)'
  BY <1>9 DEF Told, OnlyMoves
<1>11. req[r].arrival \in 1..n /\ req[r].seen <= n /\ req[r].seen \in Nat
  BY <1>1, RowOf DEF EnvInv, RequestInv, Request
<1>12. RequestInv(r)'
  BY <1>1, <1>4, <1>10, <1>11 DEF RequestInv, OnlyMoves
<1>13. QED
  BY <1>1, <1>2, <1>7, <1>12, ChangingStep DEF OnlyMoves

\* A save that is told without having stored anything: the row was changed
\* after it had been read.
LEMMA SavesNothingStep ==
    ASSUME EnvInv, NEW r \in Requests, NEW code \in {200, 500},
           req[r].op = "save", req[r].stage \in {"create", "update"},
           (req[r].stage = "create") <=> (Stored(req[r].key) # NoValue),
           code = 200 => req[r].stage = "update",
           req' \in [Requests -> Request], OnlyMoves(r), req'[r].seen = req[r].seen,
           req'[r].stage = "answered", req'[r].code = code,
           UNCHANGED <<table, faults>>
    PROVE  EnvInv'
<1> DEFINE row == table[req[r].key]
<1>1. /\ Len(row) \in Nat /\ DOMAIN row = 1..Len(row) /\ Len(row) >= 1
      /\ Stored(req[r].key) = row[Len(row)].value /\ req[r].seen \in Nat
  BY RowOf DEF Request
<1>2. /\ req[r].seen <= Len(row) /\ req[r].arrival \in 1..Len(row)
      /\ (row[req[r].seen].value = NoValue) <=> (req[r].stage = "create")
  BY DEF EnvInv, RequestInv
<1>3. Len(row) > req[r].seen
  BY <1>1, <1>2
<1>4. code = 200 => Len(row) \in DOMAIN row /\ row[Len(row)].value = NoValue
  BY <1>1
<1>5. SaveTold(r)'
  BY <1>3, <1>4 DEF SaveTold, OnlyMoves
<1>6. Told(r)'
  BY <1>5 DEF Told, OnlyMoves
<1>7. RequestInv(r)'
  BY <1>1, <1>2, <1>6 DEF RequestInv, OnlyMoves
<1>8. QED
  BY <1>7, QuietStep DEF OnlyMoves, EnvInv, TypeOK

LEMMA SaveCreatesStep ==
    ASSUME EnvInv, NEW r \in Requests, SaveCreates(r)
    PROVE  EnvInv'
<1>1. CASE Stored(req[r].key) = NoValue
  <2>1. /\ Changes(r, req[r].value) /\ AnswersWith(r, 201, req[r].value, "table")
        /\ req[r].value \in Values /\ faults' = faults
    BY <1>1, RowOf DEF SaveCreates, Request
  <2>2. /\ req' \in [Requests -> Request] /\ OnlyMoves(r) /\ req'[r].seen = req[r].seen
        /\ req'[r].stage = "answered" /\ req'[r].code = 201
    BY <2>1, AnswersWithDoes DEF EnvInv
  <2>3. faults \in 0..MaxFaults /\ faults >= faults
    BY DEF EnvInv, TypeOK
  <2>4. QED
    BY <1>1, <2>1, <2>2, <2>3, SavesStep DEF SaveCreates, At
<1>2. CASE Stored(req[r].key) # NoValue
  <2>1. Answers(r, 500) /\ UNCHANGED table /\ UNCHANGED faults
    BY <1>2 DEF SaveCreates
  <2>2. /\ req' \in [Requests -> Request] /\ OnlyMoves(r) /\ req'[r].seen = req[r].seen
        /\ req'[r].stage = "answered" /\ req'[r].code = 500
    BY <2>1, AnswersDoes DEF EnvInv
  <2>3. QED
    BY <1>2, <2>1, <2>2, SavesNothingStep DEF SaveCreates, At
<1>3. QED
  BY <1>1, <1>2

LEMMA SaveUpdatesStep ==
    ASSUME EnvInv, NEW r \in Requests, SaveUpdates(r)
    PROVE  EnvInv'
<1>1. CASE Stored(req[r].key) # NoValue
  <2>1. /\ Changes(r, req[r].value) /\ AnswersWith(r, 200, req[r].value, "table")
        /\ req[r].value \in Values /\ faults' = faults
    BY <1>1, RowOf DEF SaveUpdates, Request
  <2>2. /\ req' \in [Requests -> Request] /\ OnlyMoves(r) /\ req'[r].seen = req[r].seen
        /\ req'[r].stage = "answered" /\ req'[r].code = 200
    BY <2>1, AnswersWithDoes DEF EnvInv
  <2>3. faults \in 0..MaxFaults /\ faults >= faults
    BY DEF EnvInv, TypeOK
  <2>4. QED
    BY <1>1, <2>1, <2>2, <2>3, SavesStep DEF SaveUpdates, At
<1>2. CASE Stored(req[r].key) = NoValue
  <2>1. UNCHANGED <<table, faults>>
    BY <1>2 DEF SaveUpdates
  <2>2. PICK v \in Values : v = req[r].value
    BY RowOf DEF Request
  <2>3. PICK code \in {200, 500} :
          /\ req' \in [Requests -> Request] /\ OnlyMoves(r)
          /\ req'[r].seen = req[r].seen
          /\ req'[r].stage = "answered" /\ req'[r].code = code
    <3>1. CASE Answers(r, 500)
      BY <3>1, AnswersDoes DEF EnvInv
    <3>2. CASE AnswersWith(r, 200, req[r].value, "table")
      BY <2>2, <3>2, AnswersWithDoes DEF EnvInv
    <3>3. QED
      BY <1>2, <3>1, <3>2 DEF SaveUpdates
  <2>4. QED
    BY <1>2, <2>1, <2>3, SavesNothingStep DEF SaveUpdates, At
<1>3. QED
  BY <1>1, <1>2

\* A read, or a deletion that found nothing, is answered.
LEMMA ReadStep ==
    ASSUME EnvInv, NEW r \in Requests, req[r].op \in {"get", "delete"},
           req[r].stage = "fetch", UNCHANGED <<table, faults>>,
           req' \in [Requests -> Request], OnlyMoves(r), req'[r].seen = req[r].seen,
           req'[r].stage = "answered", req'[r].code \in {200, 404}
    PROVE  EnvInv'
<1> DEFINE row == table[req[r].key]
<1>1. /\ Len(row) \in Nat /\ DOMAIN row = 1..Len(row) /\ Len(row) >= 1
      /\ Stored(req[r].key) = row[Len(row)].value
  BY RowOf
<1>2. /\ req[r].seen <= Len(row) /\ req[r].arrival \in 1..Len(row)
      /\ req[r].origin = "none"
  BY DEF EnvInv, RequestInv
<1>3. Told(r)'
  BY DEF Told, OnlyMoves
<1>4. RequestInv(r)'
  BY <1>1, <1>2, <1>3 DEF RequestInv, OnlyMoves
<1>5. QED
  BY <1>4, QuietStep DEF OnlyMoves, EnvInv, TypeOK

LEMMA GetFetchedStep ==
    ASSUME EnvInv, NEW r \in Requests, GetFetched(r)
    PROVE  EnvInv'
<1> DEFINE k == req[r].key
<1>1. CASE Origin(k) = "none"
  <2>1. Answers(r, 404)
    BY <1>1 DEF GetFetched
  <2>2. QED
    BY <1>1, <2>1, AnswersDoes, ReadStep DEF EnvInv, GetFetched, At
<1>2. CASE Origin(k) # "none"
  <2>1. k \in Keys /\ Stored(k) \in Values \cup {NoValue}
    BY RowOf
  <2>2. Found(k) \in Values \cup {NoValue} /\ Origin(k) \in {"none", "table", "environment"}
    BY <2>1, EnvironmentAssumption DEF Found, Origin
  <2>3. AnswersWith(r, 200, Found(k), Origin(k))
    BY <1>2 DEF GetFetched
  <2>4. /\ req' \in [Requests -> Request] /\ OnlyMoves(r)
        /\ req'[r].stage = "answered" /\ req'[r].code = 200
        /\ req'[r].seen = req[r].seen
        /\ req'[r].told = Found(k) /\ req'[r].origin = Origin(k)
    BY <2>2, <2>3, AnswersWithDoes DEF EnvInv
  <2>5. QED
    BY <1>2, <2>4, ReadStep DEF GetFetched, At
<1>3. QED
  BY <1>1, <1>2

LEMMA DeleteFetchedStep ==
    ASSUME EnvInv, NEW r \in Requests, DeleteFetched(r)
    PROVE  EnvInv'
<1> DEFINE k == req[r].key
<1>1. CASE Origin(k) = "none"
  <2>1. Answers(r, 404)
    BY <1>1 DEF DeleteFetched
  <2>2. QED
    BY <1>1, <2>1, AnswersDoes, ReadStep DEF EnvInv, DeleteFetched, At
<1>2. CASE Origin(k) # "none"
  <2>1. GoesOn(r, "delete")
    BY <1>2 DEF DeleteFetched
  <2>2. /\ req' \in [Requests -> Request] /\ OnlyMoves(r)
        /\ req'[r].stage = "delete" /\ req'[r].code = req[r].code
        /\ req'[r].seen = Len(table[k]) /\ req'[r].origin = req[r].origin
    BY <2>1, GoesOnDoes DEF EnvInv
  <2>3. /\ req[r].op = "delete" /\ req[r].code = 0 /\ req[r].origin = "none"
        /\ req[r].arrival \in 1..Len(table[k]) /\ Len(table[k]) \in Nat
    BY RowOf DEF EnvInv, RequestInv, DeleteFetched, At
  <2>4. RequestInv(r)'
    BY <2>2, <2>3 DEF RequestInv, OnlyMoves, DeleteFetched
  <2>5. QED
    BY <2>2, <2>4, QuietStep DEF OnlyMoves, DeleteFetched, At, EnvInv, TypeOK
<1>3. QED
  BY <1>1, <1>2

\* A deletion that removes a row.
LEMMA DeletesStep ==
    ASSUME EnvInv, NEW r \in Requests, NEW code \in {204, 500},
           req[r].op = "delete", req[r].stage = "delete",
           Stored(req[r].key) # NoValue, Changes(r, NoValue),
           req' \in [Requests -> Request], OnlyMoves(r),
           req'[r].stage = "answered", req'[r].code = code,
           req'[r].seen = req[r].seen,
           faults' \in 0..MaxFaults, faults' >= faults, code = 500 => faults' # 0
    PROVE  EnvInv'
<1>1. PICK k \in Keys, n \in Nat : k = req[r].key /\ n = Len(table[k])
  BY RowOf
<1>2. /\ n >= 1 /\ Stored(k) = table[k][n].value
      /\ Len(table'[k]) = n + 1 /\ DOMAIN table'[k] = 1..(n + 1)
      /\ table'[k][n + 1] = [value |-> NoValue, by |-> {r}]
      /\ table'[k][n] = table[k][n]
  BY <1>1, RowOf
<1>3. req[r].arrival \in 1..n /\ req[r].seen <= n /\ req[r].seen \in Nat
  BY <1>1, RowOf DEF EnvInv, RequestInv, Request
<1>4. table'[k][n + 1].by = {r} /\ table'[k][n + 1].value = NoValue
  BY <1>2
<1>5. table'[k][(n + 1) - 1].value = Stored(k)
  BY <1>2
<1>6. WrittenBy(k, n + 1, r)'
  BY <1>1, <1>4, <1>5 DEF WrittenBy, OnlyMoves
<1>7. MissingFrom(r, req[r].arrival)'
  BY <1>1, <1>2, <1>3, <1>4 DEF MissingFrom, OnlyMoves
<1>8. Told(r)'
  BY <1>7 DEF Told, OnlyMoves
<1>9. RequestInv(r)'
  BY <1>1, <1>2, <1>3, <1>8 DEF RequestInv, OnlyMoves
<1>10. NoValue \in Values \cup {NoValue}
  OBVIOUS
<1>11. QED
  BY <1>1, <1>6, <1>9, <1>10, ChangingStep DEF OnlyMoves

LEMMA DeleteReturnsStep ==
    ASSUME EnvInv, NEW r \in Requests, DeleteReturns(r)
    PROVE  EnvInv'
<1>1. PICK k \in Keys, n \in Nat : k = req[r].key /\ n = Len(table[k])
  BY RowOf
<1>2. /\ n >= 1 /\ Stored(k) = table[k][n].value /\ DOMAIN table[k] = 1..n
  BY <1>1, RowOf
<1>3. /\ req' \in [Requests -> Request] /\ OnlyMoves(r)
      /\ req'[r].stage = "answered" /\ req'[r].code = 204
      /\ req'[r].seen = req[r].seen /\ req'[r].origin = req[r].origin
  BY AnswersDoes DEF EnvInv, DeleteReturns
<1>4. /\ req[r].arrival \in 1..n /\ req[r].op = "delete" /\ req[r].stage = "delete"
      /\ req[r].seen <= n /\ req[r].seen \in Nat
      /\ faults' = faults /\ faults \in 0..MaxFaults /\ faults >= faults
  BY <1>1, RowOf DEF EnvInv, TypeOK, RequestInv, DeleteReturns, At, Request
<1>5. CASE Stored(k) # NoValue
  BY <1>1, <1>3, <1>4, <1>5, DeletesStep DEF DeleteReturns
<1>6. CASE Stored(k) = NoValue
  <2>1. UNCHANGED table
    BY <1>1, <1>6 DEF DeleteReturns
  <2>2. n \in DOMAIN table[k] /\ n >= req[r].arrival /\ table[k][n].value = NoValue
    BY <1>2, <1>4, <1>6
  <2>3. MissingFrom(r, req[r].arrival)'
    BY <1>1, <1>3, <2>1, <2>2 DEF MissingFrom, OnlyMoves
  <2>4. Told(r)'
    BY <1>3, <1>4, <2>3 DEF Told, OnlyMoves
  <2>5. RequestInv(r)'
    BY <1>1, <1>3, <1>4, <2>1, <2>4 DEF RequestInv, OnlyMoves
  <2>6. QED
    BY <1>3, <1>4, <2>1, <2>5, QuietStep DEF OnlyMoves
<1>7. QED
  BY <1>5, <1>6

\* A call that fails, with or without effect.
LEMMA FailsStep ==
    ASSUME EnvInv, NEW r \in Requests, Fails(r)
    PROVE  EnvInv'
<1>1. TypeOK /\ faults \in Nat /\ MaxFaults \in Nat
  BY EnvironmentAssumption DEF EnvInv, TypeOK
<1>2. /\ req' \in [Requests -> Request] /\ OnlyMoves(r)
      /\ req'[r].stage = "answered" /\ req'[r].code = 500
      /\ req'[r].seen = req[r].seen /\ req'[r].origin = req[r].origin
  BY <1>1, AnswersDoes DEF Fails
<1>3. faults' \in 0..MaxFaults /\ faults' >= faults /\ faults' # 0
  BY <1>1 DEF Fails, EnvInv, TypeOK
<1>4. req[r].origin = "none" /\ req[r].arrival \in 1..Len(table[req[r].key])
      /\ req[r].seen <= Len(table[req[r].key])
  BY DEF EnvInv, RequestInv, Fails
<1>5. CASE UNCHANGED table
  <2>1. Told(r)'
    BY <1>2, <1>3, <1>4 DEF Told, SaveTold
  <2>2. RequestInv(r)'
    BY <1>2, <1>4, <1>5, <2>1 DEF RequestInv, OnlyMoves, Fails
  <2>3. QED
    BY <1>2, <1>3, <1>5, <2>2, QuietStep DEF OnlyMoves, Fails
<1>6. CASE TakesEffect(r)
  <2>1. CASE req[r].stage \in {"create", "update"}
    <3>1. req[r].op = "save" /\ Changes(r, req[r].value)
      BY <1>6, <2>1 DEF EnvInv, RequestInv, TakesEffect
    <3>2. QED
      BY <1>2, <1>3, <2>1, <3>1, SavesStep
  <2>2. CASE req[r].stage = "delete"
    <3>1. Stored(req[r].key) # NoValue /\ Changes(r, NoValue)
      BY <1>6, <2>2 DEF TakesEffect
    <3>2. req[r].op = "delete"
      BY <2>2 DEF EnvInv, RequestInv
    <3>3. QED
      BY <1>2, <1>3, <2>2, <3>1, <3>2, DeletesStep
  <2>3. QED
    BY <1>6, <2>1, <2>2 DEF TakesEffect
<1>7. QED
  BY <1>5, <1>6 DEF Fails

LEMMA EnvStep == EnvInv /\ [Next]_vars => EnvInv'
<1>1. SUFFICES ASSUME EnvInv, [Next]_vars PROVE EnvInv'
  OBVIOUS
<1>2. CASE UNCHANGED vars
  <2>1. table' = table /\ req' = req /\ faults' = faults
    BY <1>2 DEF vars
  <2>2. TypeOK'
    BY <1>1, <2>1 DEF EnvInv, TypeOK
  <2>3. TableInv'
    BY <1>1, <2>1 DEF EnvInv, TableInv, WrittenBy
  <2>4. TableGrows /\ faults' >= faults
    BY <1>1, <2>1 DEF TableGrows, EnvInv, TypeOK
  <2>5. ASSUME NEW q \in Requests
        PROVE  RequestInv(q)'
    <3>1. req'[q] = req[q] /\ RequestInv(q)
      BY <1>1, <2>1 DEF EnvInv
    <3>2. TypeOK
      BY <1>1 DEF EnvInv
    <3>3. QED
      BY <2>2, <2>4, <3>1, <3>2, RequestKept
  <2>6. QED
    BY <2>2, <2>3, <2>5 DEF EnvInv
<1>3. CASE Next
  <2>1. PICK r \in Requests :
            \/ \E op \in Operations, k \in Keys, v \in Values : Receive(r, op, k, v)
            \/ Handler(r) \/ Fails(r)
    BY <1>3 DEF Next
  <2>2. CASE \E op \in Operations, k \in Keys, v \in Values : Receive(r, op, k, v)
    BY <1>1, <2>2, ReceiveStep
  <2>3. CASE Fails(r)
    BY <1>1, <2>3, FailsStep
  <2>4. CASE Handler(r)
    BY <1>1, <2>4, SaveFetchedStep, SaveCreatesStep, SaveUpdatesStep, GetFetchedStep,
       DeleteFetchedStep, DeleteReturnsStep DEF Handler
  <2>5. QED
    BY <2>1, <2>2, <2>3, <2>4
<1>4. QED
  BY <1>1, <1>2, <1>3

LEMMA EnvInvariant == Spec => []EnvInv
  BY InitEnv, EnvStep, PTL DEF Spec

-----------------------------------------------------------------------------
(* The theorems *)

\* Table and requests keep their types for any keys, values and requests
\* (environmentVariable.js).
THEOREM EnvironmentTypeCorrect == Spec => []TypeOK
  BY EnvInvariant, PTL DEF EnvInv

\* A reply of a save or of a deletion says what became of the row, however
\* the saves and deletions of one key overlap (environmentVariable.js:29-40,
\* 93-110).
THEOREM WritesCorrect == Spec => []WritesTakeEffect
<1>1. EnvInv => SavesTakeEffect
  <2>1. SUFFICES ASSUME EnvInv, NEW r \in Requests, req[r].op = "save"
                 PROVE  LET k == req[r].key  mine == Written(r, k)
                        IN  /\ \A i, j \in mine : i = j
                            /\ req[r].code = 201 =>
                                  \E i \in mine : table[k][i - 1].value = NoValue
                            /\ req[r].code = 200 =>
                                  \/ \E i \in mine : table[k][i - 1].value # NoValue
                                  \/ \E i \in DOMAIN table[k] :
                                        i > req[r].seen /\ table[k][i].value = NoValue
                            /\ req[r].code = 500 /\ faults = 0 =>
                                  mine = {} /\ Len(table[k]) > req[r].seen
    BY DEF SavesTakeEffect
  <2> DEFINE k == req[r].key
  <2>2. k \in Keys /\ Len(table[k]) \in Nat /\ DOMAIN table[k] = 1..Len(table[k])
    BY <2>1, RowOf
  <2>3. \A i, j \in Written(r, k) : i = j
    <3>1. \A i, j \in DOMAIN table[k] : table[k][i].by = table[k][j].by => i = j
      BY <2>1, <2>2 DEF EnvInv, TableInv
    <3>2. QED
      BY <3>1 DEF Written
  <2>4. req[r].code # 0 => SaveTold(r)
    BY <2>1 DEF EnvInv, RequestInv, Told
  <2>5. \A i \in 2..Len(table[k]) : table[k][i].by = {r} => i \in Written(r, k)
    BY <2>2 DEF Written
  <2>6. req[r].code = 500 /\ faults = 0 => Written(r, k) = {}
    <3>1. SUFFICES ASSUME req[r].code = 500, NEW i \in DOMAIN table[k],
                          table[k][i].by = {r}
                   PROVE  faults # 0
      BY DEF Written
    <3>2. i # 1 /\ i \in 2..Len(table[k])
      <4>1. table[k][1].by = {}
        BY <2>1, <2>2 DEF EnvInv, TableInv
      <4>2. i # 1
        BY <3>1, <4>1
      <4>3. QED
        BY <2>2, <4>2
    <3>3. PICK s \in Requests : WrittenBy(k, i, s)
      BY <2>1, <2>2, <3>2 DEF EnvInv, TableInv
    <3>4. s = r
      BY <3>1, <3>3 DEF WrittenBy
    <3>5. QED
      BY <3>1, <3>3, <3>4 DEF WrittenBy
  <2>7. QED
    BY <2>3, <2>4, <2>5, <2>6 DEF SaveTold
<1>2. EnvInv => RowsAlternate
  <2>1. SUFFICES ASSUME EnvInv, NEW k \in Keys, NEW i \in 2..Len(table[k]),
                        NEW r \in table[k][i].by
                 PROVE  /\ req[r].code = 500 => faults > 0
                        /\ req[r].code = 201 => table[k][i - 1].value = NoValue
                        /\ table[k][i - 1].value = NoValue =>
                              req[r].op = "save" /\ req[r].code \in {201, 500}
    BY DEF RowsAlternate
  <2>2. PICK s \in Requests : WrittenBy(k, i, s)
    BY <2>1 DEF EnvInv, TableInv
  <2>3. s = r
    BY <2>1, <2>2 DEF WrittenBy
  <2>4. faults \in Nat
    BY <2>1, EnvironmentAssumption DEF EnvInv, TypeOK
  <2>5. QED
    BY <2>2, <2>3, <2>4 DEF WrittenBy
<1>3. EnvInv => DeletesTakeEffect
  <2>1. SUFFICES ASSUME EnvInv, NEW r \in Requests, req[r].op = "delete",
                        req[r].code = 204
                 PROVE  MissingFrom(r, req[r].arrival)
    BY DEF DeletesTakeEffect, MissingFrom
  <2>2. QED
    BY <2>1 DEF EnvInv, RequestInv, Told
<1>4. QED
  BY <1>1, <1>2, <1>3, EnvInvariant, PTL DEF WritesTakeEffect

-----------------------------------------------------------------------------
(* The store that clients see *)

\* What the refinement needs of a request that is being served: it has read the
\* row after it came, and a deletion has read a variable.
ServedInv ==
    \A r \in Requests :
        /\ req[r].stage # "answered" => req[r].told = NoValue
        /\ req[r].stage \in {"create", "update", "delete"} => req[r].seen >= req[r].arrival
        /\ req[r].stage = "delete" =>
              /\ req[r].op = "delete"
              /\ \/ table[req[r].key][req[r].seen].value # NoValue
                 \/ Environ[req[r].key] # NoValue

LEMMA RowsGrow == EnvInv /\ [Next]_vars => TableGrows
<1> SUFFICES ASSUME EnvInv, [Next]_vars, NEW k \in Keys
             PROVE  /\ Len(table'[k]) >= Len(table[k])
                    /\ \A i \in 1..Len(table[k]) : table'[k][i] = table[k][i]
  BY DEF TableGrows
<1>1. table \in [Keys -> Seq(Change)] /\ table[k] \in Seq(Change) /\ Len(table[k]) \in Nat
  BY DEF EnvInv, TypeOK
<1>2. CASE table' = table
  BY <1>1, <1>2
<1>3. ASSUME NEW r \in Requests, NEW v, Changes(r, v)
      PROVE  /\ Len(table'[k]) >= Len(table[k])
             /\ \A i \in 1..Len(table[k]) : table'[k][i] = table[k][i]
  <2>1. CASE k = req[r].key
    <3>1. table'[k] = Append(table[k], [value |-> v, by |-> {r}])
      BY <1>1, <1>3, <2>1 DEF Changes
    <3> QED
      BY <1>1, <3>1
  <2>2. CASE k # req[r].key
    <3>1. table'[k] = table[k]
      BY <1>1, <1>3, <2>2 DEF Changes
    <3> QED
      BY <1>1, <3>1
  <2> QED
    BY <2>1, <2>2
<1>4. table' = table \/ \E r \in Requests, v \in Values \cup {NoValue} : Changes(r, v)
  <2>1. \A r \in Requests : req[r].value \in Values
    BY DEF EnvInv, TypeOK, Request
  <2> QED
    BY <2>1 DEF Next, vars, Receive, Fails, Handler, SaveFetched, SaveCreates, SaveUpdates,
       GetFetched, DeleteFetched, DeleteReturns, TakesEffect
<1> QED
  BY <1>2, <1>3, <1>4

(***************************************************************************)
(* A request that is answered, or goes on after its read, keeps its part.  *)
(***************************************************************************)
LEMMA ServedKept ==
    ASSUME EnvInv, ServedInv, TableGrows, NEW r \in Requests,
           \A q \in Requests : q # r => req'[q] = req[q],
           req'[r].stage # "answered" =>
              /\ req'[r].told = NoValue
              /\ req'[r].stage \in {"create", "update", "delete"} =>
                    req'[r].seen >= req'[r].arrival
              /\ req'[r].stage = "delete" =>
                    /\ req'[r].op = "delete"
                    /\ \/ table'[req'[r].key][req'[r].seen].value # NoValue
                       \/ Environ[req'[r].key] # NoValue
    PROVE  ServedInv'
<1> SUFFICES ASSUME NEW q \in Requests, q # r
             PROVE  /\ req'[q].stage # "answered" => req'[q].told = NoValue
                    /\ req'[q].stage \in {"create", "update", "delete"} =>
                          req'[q].seen >= req'[q].arrival
                    /\ req'[q].stage = "delete" =>
                          /\ req'[q].op = "delete"
                          /\ \/ table'[req'[q].key][req'[q].seen].value # NoValue
                             \/ Environ[req'[q].key] # NoValue
  BY DEF ServedInv
<1>1. req'[q] = req[q]
  OBVIOUS
<1>2. req[q].stage = "delete" => req[q].seen \in 1..Len(table[req[q].key])
  <2>1. req[q] \in Request
    BY DEF EnvInv, TypeOK
  <2>2. req[q].stage = "delete" =>
            /\ req[q].seen >= req[q].arrival /\ req[q].seen <= Len(table[req[q].key])
            /\ req[q].arrival \in 1..Len(table[req[q].key])
    BY DEF ServedInv, EnvInv, RequestInv
  <2> QED
    BY <2>1, <2>2 DEF Request
<1>3. req[q].key \in Keys
  BY DEF EnvInv, TypeOK, Request
<1>4. req[q].stage = "delete" =>
          table'[req[q].key][req[q].seen] = table[req[q].key][req[q].seen]
  BY <1>2, <1>3 DEF TableGrows
<1> QED
  BY <1>1, <1>4 DEF ServedInv

LEMMA ServedStep == EnvInv /\ ServedInv /\ [Next]_vars => ServedInv'
<1> SUFFICES ASSUME EnvInv, ServedInv, [Next]_vars
             PROVE  ServedInv'
  OBVIOUS
<1>1. TableGrows
  BY RowsGrow
<1>2. CASE UNCHANGED vars
  BY <1>2 DEF vars, ServedInv
<1>3. ASSUME NEW r \in Requests, NEW op \in Operations, NEW k \in Keys, NEW v \in Values,
             Receive(r, op, k, v)
      PROVE  ServedInv'
  <2>1. req \in [Requests -> Request] /\ req[r] \in Request
    BY DEF EnvInv, TypeOK
  <2>2. req'[r].stage = "fetch" /\ req'[r].told = req[r].told
    BY <1>3, <2>1 DEF Receive, Request
  <2>3. \A q \in Requests : q # r => req'[q] = req[q]
    BY <1>3, <2>1 DEF Receive
  <2>4. req[r].told = NoValue
    BY <1>3 DEF ServedInv, Receive
  <2> QED
    BY <1>1, <2>2, <2>3, <2>4, ServedKept
<1>4. ASSUME NEW r \in Requests, Handler(r) \/ Fails(r), req'[r].stage = "answered",
             OnlyMoves(r)
      PROVE  ServedInv'
  BY <1>1, <1>4, ServedKept DEF OnlyMoves
<1>5. ASSUME NEW r \in Requests, NEW stage \in {"create", "update", "delete"},
             req[r].stage = "fetch", GoesOn(r, stage), table' = table,
             stage = "delete" => req[r].op = "delete" /\ Origin(req[r].key) # "none"
      PROVE  ServedInv'
  <2>1. /\ OnlyMoves(r) /\ req'[r].stage = stage /\ req'[r].told = req[r].told
        /\ req'[r].seen = Len(table[req[r].key])
    BY <1>5, GoesOnDoes DEF EnvInv
  <2>2. req[r].told = NoValue /\ req[r].arrival \in 1..Len(table[req[r].key])
    BY <1>5 DEF ServedInv, EnvInv, RequestInv
  <2>3. Len(table[req[r].key]) \in Nat
    BY RowOf
  <2>4. stage = "delete" =>
            \/ table[req[r].key][Len(table[req[r].key])].value # NoValue
            \/ Environ[req[r].key] # NoValue
    BY <1>5 DEF Origin, Stored
  <2> QED
    BY <1>1, <1>5, <2>1, <2>2, <2>3, <2>4, ServedKept DEF OnlyMoves
<1>6. ASSUME NEW r \in Requests, NEW code \in {200, 201, 204, 404, 500}, Answers(r, code),
             Handler(r) \/ Fails(r)
      PROVE  ServedInv'
  BY <1>4, <1>6, AnswersDoes DEF EnvInv
<1>7. ASSUME NEW r \in Requests, NEW code \in {200, 201}, NEW v \in Values \cup {NoValue},
             NEW o \in {"none", "table", "environment"}, AnswersWith(r, code, v, o),
             Handler(r)
      PROVE  ServedInv'
  BY <1>4, <1>7, AnswersWithDoes DEF EnvInv
<1>8. ASSUME NEW r \in Requests, Handler(r)
      PROVE  ServedInv'
  <2>1. req[r].value \in Values /\ req[r].key \in Keys
    BY DEF EnvInv, TypeOK, Request
  <2>2. CASE SaveFetched(r)
    BY <1>5, <2>2 DEF SaveFetched, At
  <2>3. CASE SaveCreates(r)
    BY <1>6, <1>7, <1>8, <2>1, <2>3 DEF SaveCreates
  <2>4. CASE SaveUpdates(r)
    BY <1>6, <1>7, <1>8, <2>1, <2>4 DEF SaveUpdates
  <2>5. CASE GetFetched(r)
    <3>1. Stored(req[r].key) \in Values \cup {NoValue}
      BY RowOf
    <3>2. /\ Found(req[r].key) \in Values \cup {NoValue}
          /\ Origin(req[r].key) \in {"none", "table", "environment"}
      BY <2>1, <3>1, EnvironmentAssumption DEF Found, Origin
    <3> QED
      BY <1>6, <1>7, <1>8, <2>5, <3>2 DEF GetFetched
  <2>6. CASE DeleteFetched(r)
    BY <1>5, <1>6, <1>8, <2>6 DEF DeleteFetched, At
  <2>7. CASE DeleteReturns(r)
    BY <1>6, <1>8, <2>7 DEF DeleteReturns
  <2> QED
    BY <1>8, <2>2, <2>3, <2>4, <2>5, <2>6, <2>7 DEF Handler
<1>9. ASSUME NEW r \in Requests, Fails(r)
      PROVE  ServedInv'
  BY <1>6, <1>9 DEF Fails
<1> QED
  BY <1>2, <1>3, <1>8, <1>9 DEF Next

\* For each answer of a handler: what its client is told.
LEMMA ToldIs ==
    ASSUME EnvInv, NEW r \in Requests, Pending(r), OnlyMoves(r),
           NEW code, NEW v, NEW o,
           req'[r].stage = "answered", req'[r].code = code, req'[r].told = v,
           req'[r].origin = o
    PROVE  Store!Told(r, code, v, o)
<1> DEFINE asked == [q \in Requests |-> Seen(q)]
           reply == [state |-> "answered", op |-> req[r].op, key |-> req[r].key,
                     value |-> req[r].value, code |-> code, told |-> v, origin |-> o]
<1>1. Seen(r)' = reply
  BY DEF Seen, OnlyMoves
<1>2. \A q \in Requests : q # r => Seen(q)' = Seen(q)
  BY DEF Seen, OnlyMoves
<1>3. Seen(r) = [state |-> "asked", op |-> req[r].op, key |-> req[r].key,
                 value |-> req[r].value]
  BY DEF Pending, Seen
<1>4. reply = [state |-> "answered", op |-> asked[r].op, key |-> asked[r].key,
               value |-> asked[r].value, code |-> code, told |-> v, origin |-> o]
  BY <1>3
<1>5. asked' = [q \in Requests |-> Seen(q)']
  OBVIOUS
<1> HIDE DEF reply
<1>6. asked' = [asked EXCEPT ![r] = reply]
  BY <1>1, <1>2, <1>5
<1>7. Store!Told(r, code, v, o) <=>
        asked' = [asked EXCEPT ![r] =
                    [state |-> "answered", op |-> asked[r].op, key |-> asked[r].key,
                     value |-> asked[r].value, code |-> code, told |-> v, origin |-> o]]
  BY DEF Store!Told
<1> QED
  BY <1>4, <1>6, <1>7

\* An answer without a change of the row.
LEMMA KeepsIs ==
    ASSUME EnvInv, NEW r \in Requests, OnlyMoves(r), table' = table,
           req'[r].stage = "answered"
    PROVE  Store!Keeps(r)
<1> DEFINE since == [q \in Requests |-> Since(q)]
           store == [k \in Keys |-> Stored(k)]
<1>1. Since(r)' = {}
  BY DEF Since, Pending
<1>2. \A q \in Requests : q # r => Since(q)' = Since(q)
  BY DEF Since, Pending, OnlyMoves
<1>3. store' = store
  BY DEF Stored
<1>4. since' = [q \in Requests |-> Since(q)']
  OBVIOUS
<1>5. since' = [since EXCEPT ![r] = {}]
  BY <1>1, <1>2, <1>4
<1> QED
  BY <1>3, <1>5 DEF Store!Keeps

\* An answer with a change of the row.
LEMMA PutsIs ==
    ASSUME EnvInv, NEW r \in Requests, OnlyMoves(r), Pending(r),
           NEW v \in Values \cup {NoValue}, Changes(r, v), req'[r].stage = "answered"
    PROVE  Store!Puts(r, v)
<1> DEFINE since == [q \in Requests |-> Since(q)]
           asked == [q \in Requests |-> Seen(q)]
           store == [k \in Keys |-> Stored(k)]
<1>0. PICK k \in Keys, n \in Nat : k = req[r].key /\ n = Len(table[k])
  BY RowOf
<1>1. asked[r].key = k
  BY <1>0 DEF Seen, Pending
<1>2. /\ n >= 1 /\ Len(table'[k]) = n + 1
      /\ table'[k][n + 1] = [value |-> v, by |-> {r}]
      /\ \A i \in 1..n : table'[k][i] = table[k][i]
  BY <1>0, RowOf
<1>3. \A q \in Keys : q # k => table'[q] = table[q]
  <2>1. table \in [Keys -> Seq(Change)]
    BY DEF EnvInv, TypeOK
  <2> QED
    BY <1>0, <2>1 DEF Changes
<1>4. store' = [store EXCEPT ![k] = v]
  <2>1. Stored(k)' = v
    BY <1>2 DEF Stored
  <2>2. \A q \in Keys : q # k => Stored(q)' = Stored(q)
    BY <1>3 DEF Stored
  <2>3. store' = [q \in Keys |-> Stored(q)']
    OBVIOUS
  <2> QED
    BY <2>1, <2>2, <2>3
<1>5. Since(r)' = {}
  BY DEF Since, Pending
<1>6. ASSUME NEW q \in Requests, q # r
      PROVE  Since(q)' = IF asked[q].state = "asked" /\ asked[q].key = k
                         THEN Since(q) \cup {v} ELSE Since(q)
  <2>1. req'[q] = req[q] /\ req[q].key \in Keys
    BY <1>6 DEF OnlyMoves, EnvInv, TypeOK, Request
  <2>2. (asked[q].state = "asked" /\ asked[q].key = k) <=> (Pending(q) /\ req[q].key = k)
    <3>1. req[q].stage \in Stages
      BY DEF EnvInv, TypeOK, Request
    <3> QED
      BY <3>1 DEF Seen, Pending, Stages
  <2>3. CASE Pending(q) /\ req[q].key = k
    <3> DEFINE a == req[q].arrival
    <3>1. a \in 1..n
      BY <1>0, <2>3 DEF Pending, EnvInv, RequestInv
    <3>2. Since(q) = {table[k][i].value : i \in (a + 1)..n}
      BY <1>0, <2>3 DEF Since
    <3>3. Since(q)' = {table'[k][i].value : i \in (a + 1)..(n + 1)}
      BY <1>2, <2>1, <2>3 DEF Since, Pending
    <3>4. \A i \in (a + 1)..n : table'[k][i] = table[k][i]
      BY <1>2, <3>1
    <3>5. (a + 1)..(n + 1) = ((a + 1)..n) \cup {n + 1}
      BY <3>1
    <3>6. table'[k][n + 1].value = v
      BY <1>2
    <3> HIDE DEF a
    <3>7. Since(q)' = Since(q) \cup {v}
      BY <3>2, <3>3, <3>4, <3>5, <3>6
    <3> QED
      BY <2>2, <2>3, <3>7
  <2>4. CASE ~(Pending(q) /\ req[q].key = k)
    <3>1. ASSUME ~Pending(q)
          PROVE  Since(q)' = Since(q)
      BY <2>1, <3>1 DEF Since, Pending
    <3>2. ASSUME req[q].key # k
          PROVE  Since(q)' = Since(q)
      <4>1. table'[req[q].key] = table[req[q].key]
        BY <1>3, <2>1, <3>2
      <4> QED
        BY <2>1, <4>1 DEF Since, Pending
    <3>3. Since(q)' = Since(q)
      BY <2>4, <3>1, <3>2
    <3> QED
      BY <2>2, <2>4, <3>3
  <2> QED
    BY <2>3, <2>4
<1>7. since' = [q \in Requests |->
                  IF q = r THEN {}
                  ELSE IF asked[q].state = "asked" /\ asked[q].key = k
                       THEN since[q] \cup {v} ELSE since[q]]
  <2>1. since' = [q \in Requests |-> Since(q)']
    OBVIOUS
  <2> HIDE DEF asked
  <2> QED
    BY <1>5, <1>6, <2>1
<1>8. Store!Puts(r, v) <=>
        /\ store' = [store EXCEPT ![asked[r].key] = v]
        /\ since' = [q \in Requests |->
                       IF q = r THEN {}
                       ELSE IF asked[q].state = "asked" /\ asked[q].key = asked[r].key
                            THEN since[q] \cup {v} ELSE since[q]]
  BY DEF Store!Puts
<1> QED
  BY <1>1, <1>4, <1>7, <1>8

\* The store's view of a request that is being served.
LEMMA PendingSeen ==
    ASSUME EnvInv, NEW r \in Requests, Pending(r)
    PROVE  LET asked == [q \in Requests |-> Seen(q)]
               store == [k \in Keys |-> Stored(k)]
               since == [q \in Requests |-> Since(q)]
           IN  /\ asked[r].state = "asked" /\ asked[r].op = req[r].op
               /\ asked[r].key = req[r].key /\ asked[r].value = req[r].value
               /\ store[asked[r].key] = Stored(req[r].key)
               /\ since[r] = Since(r)
<1>1. Seen(r) = [state |-> "asked", op |-> req[r].op, key |-> req[r].key,
                 value |-> req[r].value]
  BY DEF Seen, Pending
<1>2. req[r].key \in Keys
  BY DEF EnvInv, TypeOK, Request
<1> QED
  BY <1>1, <1>2

\* A value that is not the one the handler has read came since.
LEMMA ReadIsOld ==
    ASSUME EnvInv, ServedInv, NEW r \in Requests,
           req[r].stage \in {"create", "update", "delete"},
           table[req[r].key][req[r].seen].value # Stored(req[r].key)
    PROVE  Stored(req[r].key) \in Since(r)
<1>1. PICK k \in Keys, n \in Nat : k = req[r].key /\ n = Len(table[k])
  BY RowOf
<1>2. /\ req[r].seen \in Nat /\ req[r].arrival \in Nat /\ req[r].seen <= n
      /\ req[r].seen >= req[r].arrival
  BY <1>1 DEF ServedInv, EnvInv, RequestInv, TypeOK, Request
<1>3. n # req[r].seen
  BY <1>1 DEF Stored
<1>4. n \in (req[r].arrival + 1)..n
  BY <1>2, <1>3
<1> QED
  BY <1>1, <1>4 DEF Since, Pending, Stored

\* What Answers tells.
LEMMA AnswerTold ==
    ASSUME EnvInv, ServedInv, NEW r \in Requests, Pending(r),
           NEW code \in {200, 201, 204, 404, 500}, Answers(r, code)
    PROVE  /\ Store!Told(r, code, NoValue, "none")
           /\ OnlyMoves(r) /\ req'[r].stage = "answered"
<1>1. /\ OnlyMoves(r) /\ req'[r].stage = "answered" /\ req'[r].code = code
      /\ req'[r].told = req[r].told /\ req'[r].origin = req[r].origin
  BY AnswersDoes DEF EnvInv
<1>2. req[r].told = NoValue /\ req[r].origin = "none"
  BY DEF ServedInv, EnvInv, RequestInv, Pending
<1> QED
  BY <1>1, <1>2, ToldIs

LEMMA AnswerWithTold ==
    ASSUME EnvInv, NEW r \in Requests, Pending(r), NEW code \in {200, 201},
           NEW v \in Values \cup {NoValue}, NEW o \in {"none", "table", "environment"},
           AnswersWith(r, code, v, o)
    PROVE  /\ Store!Told(r, code, v, o)
           /\ OnlyMoves(r) /\ req'[r].stage = "answered"
<1>1. /\ OnlyMoves(r) /\ req'[r].stage = "answered" /\ req'[r].code = code
      /\ req'[r].told = v /\ req'[r].origin = o
  BY AnswersWithDoes DEF EnvInv
<1> QED
  BY <1>1, ToldIs

-----------------------------------------------------------------------------
(* Each step of a handler is one of the store, or none *)

LEMMA ReceiveIsAsk ==
    ASSUME EnvInv, NEW r \in Requests, NEW op \in Operations, NEW k \in Keys,
           NEW v \in Values, Receive(r, op, k, v)
    PROVE  Store!Ask(r, op, k, v)
<1> DEFINE asked == [q \in Requests |-> Seen(q)]
           since == [q \in Requests |-> Since(q)]
           store == [q \in Keys |-> Stored(q)]
           question == [state |-> "asked", op |-> op, key |-> k, value |-> v]
<1>1. req \in [Requests -> Request] /\ req[r] \in Request /\ req[r].stage = "idle"
  BY DEF EnvInv, TypeOK, Receive
<1>2. Seen(r) = [state |-> "idle"]
  BY <1>1 DEF Seen
<1>3. /\ req'[r].stage = "fetch" /\ req'[r].op = op /\ req'[r].key = k
      /\ req'[r].value = v /\ req'[r].arrival = Len(table[k])
  BY <1>1 DEF Receive, Request
<1>4. \A q \in Requests : q # r => req'[q] = req[q]
  BY <1>1 DEF Receive
<1>5. table' = table /\ faults' = faults
  BY DEF Receive
<1>6. Seen(r)' = question
  BY <1>3 DEF Seen
<1>7. \A q \in Requests : q # r => Seen(q)' = Seen(q)
  BY <1>4 DEF Seen
<1>8. asked' = [asked EXCEPT ![r] = question]
  <2>1. asked' = [q \in Requests |-> Seen(q)']
    OBVIOUS
  <2> HIDE DEF question
  <2> QED
    BY <1>6, <1>7, <2>1
<1>9. Since(r)' = Since(r)
  <2>1. Since(r) = {}
    BY <1>1 DEF Since, Pending
  <2>2. Len(table[k]) \in Nat
    BY DEF EnvInv, TypeOK
  <2>3. (Len(table[k]) + 1)..Len(table[k]) = {}
    BY <2>2
  <2>4. Since(r)' = {}
    BY <1>3, <1>5, <2>3 DEF Since, Pending
  <2> QED
    BY <2>1, <2>4
<1>10. ASSUME NEW q \in Requests
       PROVE  Since(q)' = Since(q)
  <2>1. CASE q # r
    <3>1. req'[q] = req[q]
      BY <1>4, <2>1
    <3> QED
      BY <1>5, <3>1 DEF Since, Pending
  <2> QED
    BY <1>9, <2>1
<1>11. since' = since
  <2>1. since' = [q \in Requests |-> Since(q)']
    OBVIOUS
  <2> QED
    BY <1>10, <2>1
<1>12. store' = store
  BY <1>5 DEF Stored
<1>13. asked[r].state = "idle"
  BY <1>2
<1> QED
  BY <1>5, <1>8, <1>11, <1>12, <1>13 DEF Store!Ask

LEMMA FetchIsNoStep ==
    ASSUME EnvInv, NEW r \in Requests, NEW stage \in {"create", "update", "delete"},
           req[r].stage = "fetch", GoesOn(r, stage), UNCHANGED <<table, faults>>
    PROVE  UNCHANGED Store!storeVars
<1> DEFINE asked == [q \in Requests |-> Seen(q)]
           since == [q \in Requests |-> Since(q)]
           store == [q \in Keys |-> Stored(q)]
<1>1. OnlyMoves(r) /\ req'[r].stage = stage
  BY GoesOnDoes DEF EnvInv
<1>2. \A q \in Requests : Seen(q)' = Seen(q)
  BY <1>1 DEF Seen, OnlyMoves
<1>3. ASSUME NEW q \in Requests
      PROVE  Since(q)' = Since(q)
  <2>1. CASE q # r
    <3>1. req'[q] = req[q]
      BY <1>1, <2>1 DEF OnlyMoves
    <3> QED
      BY <3>1 DEF Since, Pending
  <2>2. CASE q = r
    <3>1. req'[q].key = req[q].key /\ req'[q].arrival = req[q].arrival
      BY <1>1, <2>2 DEF OnlyMoves
    <3>2. Pending(q) /\ Pending(q)'
      BY <1>1, <2>2 DEF Pending
    <3> QED
      BY <3>1, <3>2 DEF Since
  <2> QED
    BY <2>1, <2>2
<1>4. asked' = asked
  <2>1. asked' = [q \in Requests |-> Seen(q)']
    OBVIOUS
  <2> QED
    BY <1>2, <2>1
<1>5. since' = since
  <2>1. since' = [q \in Requests |-> Since(q)']
    OBVIOUS
  <2> QED
    BY <1>3, <2>1
<1>6. store' = store
  BY DEF Stored
<1> QED
  BY <1>4, <1>5, <1>6 DEF Store!storeVars

LEMMA SaveIsServed ==
    ASSUME EnvInv, ServedInv, NEW r \in Requests, SaveCreates(r) \/ SaveUpdates(r)
    PROVE  Store!Save(r) \/ Store!SaveOvertaken(r) \/ Store!SaveRefused(r)
<1> DEFINE asked == [q \in Requests |-> Seen(q)]
           store == [k \in Keys |-> Stored(k)]
           since == [q \in Requests |-> Since(q)]
<1>1. PICK k \in Keys, v \in Values : k = req[r].key /\ v = req[r].value
  BY DEF EnvInv, TypeOK, Request
<1>2. Pending(r) /\ req[r].op = "save" /\ faults' = faults
  BY DEF SaveCreates, SaveUpdates, At, Pending
<1>3. /\ Store!Asks(r, "save")
      /\ asked[r].key = k /\ asked[r].value = v
      /\ store[k] = Stored(k) /\ since[r] = Since(r)
  BY <1>1, <1>2, PendingSeen DEF Store!Asks
<1>4. ASSUME NEW code \in {200, 201}, Changes(r, v), AnswersWith(r, code, v, "table"),
             code = IF Stored(k) = NoValue THEN 201 ELSE 200
      PROVE  Store!Save(r)
  <2>1. /\ Store!Told(r, code, v, "table")
        /\ OnlyMoves(r) /\ req'[r].stage = "answered"
    BY <1>2, <1>4, AnswerWithTold
  <2>2. Store!Puts(r, v)
    BY <1>2, <1>4, <2>1, PutsIs
  <2>3. store[asked[r].key] = Stored(k)
    BY <1>3
  <2> HIDE DEF asked, store
  <2> QED
    BY <1>2, <1>3, <1>4, <2>1, <2>2, <2>3 DEF Store!Save, asked, store
<1>5. ASSUME Answers(r, 500), table' = table, Since(r) # {}
      PROVE  Store!SaveRefused(r)
  <2>1. /\ Store!Told(r, 500, NoValue, "none")
        /\ OnlyMoves(r) /\ req'[r].stage = "answered"
    BY <1>2, <1>5, AnswerTold
  <2>2. Store!Keeps(r)
    BY <1>5, <2>1, KeepsIs
  <2> QED
    BY <1>2, <1>3, <1>5, <2>1, <2>2 DEF Store!SaveRefused
<1>6. ASSUME AnswersWith(r, 200, v, "table"), table' = table,
             Stored(k) = NoValue, NoValue \in Since(r)
      PROVE  Store!SaveOvertaken(r)
  <2>1. /\ Store!Told(r, 200, v, "table")
        /\ OnlyMoves(r) /\ req'[r].stage = "answered"
    BY <1>2, <1>6, AnswerWithTold
  <2>2. Store!Keeps(r)
    BY <1>6, <2>1, KeepsIs
  <2> QED
    BY <1>2, <1>3, <1>6, <2>1, <2>2 DEF Store!SaveOvertaken
<1>7. /\ req[r].stage \in {"create", "update"}
      /\ (table[k][req[r].seen].value = NoValue) <=> (req[r].stage = "create")
  BY <1>1 DEF EnvInv, RequestInv, SaveCreates, SaveUpdates, At
<1>8. CASE SaveCreates(r)
  <2>1. CASE Stored(k) = NoValue
    BY <1>1, <1>4, <1>8, <2>1 DEF SaveCreates
  <2>2. CASE Stored(k) # NoValue
    <3>1. table[k][req[r].seen].value # Stored(k)
      BY <1>7, <1>8, <2>2 DEF SaveCreates, At
    <3>2. Stored(k) \in Since(r)
      BY <1>1, <1>7, <3>1, ReadIsOld
    <3> QED
      BY <1>1, <1>5, <1>8, <2>2, <3>2 DEF SaveCreates
  <2> QED
    BY <2>1, <2>2
<1>9. CASE SaveUpdates(r)
  <2>1. CASE Stored(k) # NoValue
    BY <1>1, <1>4, <1>9, <2>1 DEF SaveUpdates
  <2>2. CASE Stored(k) = NoValue
    <3>1. table[k][req[r].seen].value # Stored(k)
      BY <1>7, <1>9, <2>2 DEF SaveUpdates, At
    <3>2. NoValue \in Since(r)
      BY <1>1, <1>7, <2>2, <3>1, ReadIsOld
    <3> QED
      BY <1>1, <1>5, <1>6, <1>9, <2>2, <3>2 DEF SaveUpdates
  <2> QED
    BY <2>1, <2>2
<1> QED
  BY <1>8, <1>9

LEMMA GetIsServed ==
    ASSUME EnvInv, ServedInv, NEW r \in Requests, GetFetched(r)
    PROVE  Store!Get(r)
<1> DEFINE asked == [q \in Requests |-> Seen(q)]
           store == [q \in Keys |-> Stored(q)]
<1>1. PICK k \in Keys : k = req[r].key
  BY DEF EnvInv, TypeOK, Request
<1>2. Pending(r) /\ req[r].op = "get" /\ table' = table /\ faults' = faults
  BY DEF GetFetched, At, Pending
<1>3. Store!Asks(r, "get") /\ asked[r].key = k /\ store[k] = Stored(k)
  BY <1>1, <1>2, PendingSeen DEF Store!Asks
<1>4. Stored(k) \in Values \cup {NoValue} /\ Environ[k] \in Values \cup {NoValue}
  BY <1>1, RowOf, EnvironmentAssumption
<1>5. CASE Origin(k) = "none"
  <2>1. /\ Store!Told(r, 404, NoValue, "none")
        /\ OnlyMoves(r) /\ req'[r].stage = "answered"
    BY <1>1, <1>2, <1>5, AnswerTold DEF GetFetched
  <2>2. Store!Keeps(r)
    BY <1>2, <2>1, KeepsIs
  <2>3. Stored(k) = NoValue /\ Environ[k] = NoValue
    BY <1>5 DEF Origin
  <2> QED
    BY <1>2, <1>3, <2>1, <2>2, <2>3 DEF Store!Get
<1>6. CASE Origin(k) # "none"
  <2>1. Found(k) \in Values \cup {NoValue} /\ Origin(k) \in {"none", "table", "environment"}
    BY <1>4 DEF Found, Origin
  <2>2. /\ Store!Told(r, 200, Found(k), Origin(k))
        /\ OnlyMoves(r) /\ req'[r].stage = "answered"
    BY <1>1, <1>2, <1>6, <2>1, AnswerWithTold DEF GetFetched
  <2>3. Store!Keeps(r)
    BY <1>2, <2>2, KeepsIs
  <2>4. CASE Stored(k) # NoValue
    <3>1. Origin(k) = "table" /\ Found(k) = Stored(k)
      BY <2>4 DEF Origin, Found
    <3> QED
      BY <1>2, <1>3, <2>2, <2>3, <2>4, <3>1 DEF Store!Get
  <2>5. CASE Stored(k) = NoValue
    <3>1. Environ[k] # NoValue /\ Origin(k) = "environment" /\ Found(k) = Environ[k]
      BY <1>6, <2>5 DEF Origin, Found
    <3> QED
      BY <1>2, <1>3, <2>2, <2>3, <2>5, <3>1 DEF Store!Get
  <2> QED
    BY <2>4, <2>5
<1> QED
  BY <1>5, <1>6

LEMMA DeleteIsServed ==
    ASSUME EnvInv, ServedInv, NEW r \in Requests,
           DeleteReturns(r) \/ (DeleteFetched(r) /\ Origin(req[r].key) = "none")
    PROVE  Store!Delete(r) \/ Store!DeleteOvertaken(r)
<1> DEFINE asked == [q \in Requests |-> Seen(q)]
           store == [q \in Keys |-> Stored(q)]
           since == [q \in Requests |-> Since(q)]
<1>1. PICK k \in Keys : k = req[r].key
  BY DEF EnvInv, TypeOK, Request
<1>2. Pending(r) /\ req[r].op = "delete" /\ faults' = faults
  BY DEF DeleteReturns, DeleteFetched, At, Pending
<1>3. /\ Store!Asks(r, "delete") /\ asked[r].key = k
      /\ store[k] = Stored(k) /\ since[r] = Since(r)
  BY <1>1, <1>2, PendingSeen DEF Store!Asks
<1>4. CASE DeleteFetched(r) /\ Origin(k) = "none"
  <2>1. Answers(r, 404) /\ table' = table
    BY <1>1, <1>4 DEF DeleteFetched
  <2>2. /\ Store!Told(r, 404, NoValue, "none")
        /\ OnlyMoves(r) /\ req'[r].stage = "answered"
    BY <1>2, <2>1, AnswerTold
  <2>3. Store!Keeps(r)
    BY <2>1, <2>2, KeepsIs
  <2>4. Stored(k) = NoValue /\ Environ[k] = NoValue
    BY <1>4 DEF Origin
  <2> QED
    BY <1>2, <1>3, <2>2, <2>3, <2>4 DEF Store!Delete
<1>5. CASE DeleteReturns(r)
  <2>1. /\ Store!Told(r, 204, NoValue, "none")
        /\ OnlyMoves(r) /\ req'[r].stage = "answered"
    BY <1>2, <1>5, AnswerTold DEF DeleteReturns
  <2>2. CASE Stored(k) # NoValue
    <3>1. Store!Puts(r, NoValue)
      BY <1>1, <1>2, <1>5, <2>1, <2>2, PutsIs DEF DeleteReturns
    <3> QED
      BY <1>2, <1>3, <2>1, <2>2, <3>1 DEF Store!Delete
  <2>3. CASE Stored(k) = NoValue
    <3>1. Store!Keeps(r)
      BY <1>1, <1>5, <2>1, <2>3, KeepsIs DEF DeleteReturns
    <3>2. CASE Environ[k] # NoValue
      BY <1>2, <1>3, <2>1, <2>3, <3>1, <3>2 DEF Store!Delete
    <3>3. CASE Environ[k] = NoValue
      <4>1. req[r].stage = "delete" /\ table[k][req[r].seen].value # NoValue
        BY <1>1, <1>5, <3>3 DEF ServedInv, DeleteReturns, At
      <4>2. NoValue \in Since(r)
        BY <1>1, <2>3, <4>1, ReadIsOld
      <4> QED
        BY <1>2, <1>3, <2>1, <2>3, <3>1, <4>2 DEF Store!DeleteOvertaken
    <3> QED
      BY <3>2, <3>3
  <2> QED
    BY <2>2, <2>3
<1> QED
  BY <1>1, <1>4, <1>5

LEMMA FailIsServed ==
    ASSUME EnvInv, ServedInv, NEW r \in Requests, Fails(r)
    PROVE  Store!Fail(r)
<1> DEFINE asked == [q \in Requests |-> Seen(q)]
           store == [q \in Keys |-> Stored(q)]
<1>1. Pending(r)
  BY DEF Fails, Pending
<1>2. /\ Store!Told(r, 500, NoValue, "none")
      /\ OnlyMoves(r) /\ req'[r].stage = "answered"
  BY <1>1, AnswerTold DEF Fails
<1>3. PICK k \in Keys, v \in Values : k = req[r].key /\ v = req[r].value
  BY DEF EnvInv, TypeOK, Request
<1>4. /\ asked[r].state = "asked" /\ asked[r].op = req[r].op
      /\ asked[r].key = k /\ asked[r].value = v /\ store[k] = Stored(k)
  BY <1>1, <1>3, PendingSeen
<1> HIDE DEF asked, store
<1>5. \/ Store!Keeps(r)
      \/ Store!Asks(r, "save") /\ Store!Puts(r, asked[r].value)
      \/ /\ Store!Asks(r, "delete") /\ store[asked[r].key] # NoValue
         /\ Store!Puts(r, NoValue)
  <2>1. CASE UNCHANGED table
    BY <1>2, <2>1, KeepsIs
  <2>2. CASE TakesEffect(r) /\ req[r].stage \in {"create", "update"}
    <3>1. req[r].op = "save" /\ Changes(r, v)
      BY <1>3, <2>2 DEF EnvInv, RequestInv, TakesEffect
    <3>2. Store!Puts(r, v)
      BY <1>1, <1>2, <3>1, PutsIs
    <3>3. QED
      BY <1>4, <3>1, <3>2 DEF Store!Asks, asked
  <2>3. CASE TakesEffect(r) /\ req[r].stage = "delete"
    <3>1. req[r].op = "delete" /\ Changes(r, NoValue) /\ Stored(k) # NoValue
      BY <1>3, <2>3 DEF EnvInv, RequestInv, TakesEffect
    <3>2. Store!Puts(r, NoValue)
      BY <1>1, <1>2, <3>1, PutsIs
    <3>3. QED
      BY <1>4, <3>1, <3>2 DEF Store!Asks, asked
  <2>4. QED
    BY <2>1, <2>2, <2>3 DEF Fails, TakesEffect
<1> QED
  BY <1>2, <1>4, <1>5 DEF Store!Fail, Fails, asked, store

LEMMA StoreStep == EnvInv /\ ServedInv /\ [Next]_vars => [Store!StoreNext]_(Store!storeVars)
<1> SUFFICES ASSUME EnvInv, ServedInv, [Next]_vars
             PROVE  Store!StoreNext \/ UNCHANGED Store!storeVars
  OBVIOUS
<1>1. CASE UNCHANGED vars
  <2>1. table' = table /\ req' = req /\ faults' = faults
    BY <1>1 DEF vars
  <2>2. /\ [k \in Keys |-> Stored(k)]' = [k \in Keys |-> Stored(k)]
        /\ [r \in Requests |-> Seen(r)]' = [r \in Requests |-> Seen(r)]
        /\ [r \in Requests |-> Since(r)]' = [r \in Requests |-> Since(r)]
    BY <2>1 DEF Stored, Seen, Since, Pending
  <2> QED
    BY <2>1, <2>2 DEF Store!storeVars
<1>2. ASSUME NEW r \in Requests, NEW op \in Operations, NEW k \in Keys, NEW v \in Values,
             Receive(r, op, k, v)
      PROVE  Store!StoreNext
  <2>1. Store!Ask(r, op, k, v) /\ op \in {"save", "get", "delete"}
    BY <1>2, ReceiveIsAsk DEF Operations
  <2> QED
    BY <2>1 DEF Store!StoreNext
<1>3. ASSUME NEW r \in Requests, Store!Serve(r)
      PROVE  Store!StoreNext
  BY <1>3 DEF Store!StoreNext
<1>4. ASSUME NEW r \in Requests, Handler(r)
      PROVE  Store!Serve(r) \/ UNCHANGED Store!storeVars
  <2>1. CASE SaveFetched(r)
    BY <2>1, FetchIsNoStep DEF SaveFetched, At
  <2>2. CASE SaveCreates(r) \/ SaveUpdates(r)
    BY <2>2, SaveIsServed DEF Store!Serve
  <2>3. CASE GetFetched(r)
    BY <2>3, GetIsServed DEF Store!Serve
  <2>4. CASE DeleteFetched(r) /\ Origin(req[r].key) # "none"
    BY <2>4, FetchIsNoStep DEF DeleteFetched, At
  <2>5. CASE DeleteReturns(r) \/ (DeleteFetched(r) /\ Origin(req[r].key) = "none")
    BY <2>5, DeleteIsServed DEF Store!Serve
  <2> QED
    BY <1>4, <2>1, <2>2, <2>3, <2>4, <2>5 DEF Handler
<1>5. ASSUME NEW r \in Requests, Fails(r)
      PROVE  Store!Serve(r)
  BY <1>5, FailIsServed DEF Store!Serve
<1> QED
  BY <1>1, <1>2, <1>3, <1>4, <1>5 DEF Next

LEMMA StoreStarts == Init => Store!StoreInit /\ ServedInv
<1> SUFFICES ASSUME Init PROVE Store!StoreInit /\ ServedInv
  OBVIOUS
<1>1. \A r \in Requests : req[r].stage = "idle" /\ req[r].told = NoValue
  BY DEF Init
<1>2. \A k \in Keys : table[k] = <<[value |-> NoValue, by |-> {}]>>
  BY DEF Init
<1>3. ASSUME NEW k \in Keys
      PROVE  Stored(k) = NoValue
  <2>1. Len(table[k]) = 1 /\ table[k][1].value = NoValue
    BY <1>2
  <2> QED
    BY <2>1 DEF Stored
<1>4. \A r \in Requests : Seen(r) = [state |-> "idle"] /\ Since(r) = {}
  BY <1>1 DEF Seen, Since, Pending
<1>5. faults = 0
  BY DEF Init
<1>6. ServedInv
  BY <1>1 DEF ServedInv
<1> QED
  BY <1>3, <1>4, <1>5, <1>6 DEF Store!StoreInit, Store!Idle

(***************************************************************************)
(* To clients, the handlers are one store that serves each request at one  *)
(* moment (VariableStore), with the exceptions it names                    *)
(* (environmentVariable.js:22-118).                                        *)
(***************************************************************************)
THEOREM StoreRefined == Spec => StoreImplemented
<1>1. Spec => []ServedInv
  BY StoreStarts, ServedStep, EnvInvariant, PTL DEF Spec
<1> QED
  BY <1>1, StoreStarts, StoreStep, EnvInvariant, PTL
  DEF Spec, StoreImplemented, Store!StoreSpec
=============================================================================
