-------------------------- MODULE CustomNodesProofs --------------------------
(***************************************************************************)
(* What is proved of the custom nodes: that failures show, that what a     *)
(* node accepts can be saved, and that deepCompare and filterData tell of  *)
(* every item they are given.                                              *)
(***************************************************************************)
EXTENDS CustomNodes, FunctionTheorems, FiniteSetTheorems, WellFoundedInduction, TLAPS

-----------------------------------------------------------------------------
(* Lists *)

(***************************************************************************)
(* Counting the positions up to each one numbers them.                     *)
(***************************************************************************)
LEMMA PlacesAreNumbered ==
    ASSUME NEW n \in Nat, NEW P \in SUBSET (1..n)
    PROVE  /\ IsFiniteSet(P) /\ Cardinality(P) \in Nat
           /\ [i \in P |-> Cardinality({j \in P : j <= i})]
                \in Bijection(P, 1..Cardinality(P))
<1> DEFINE upTo(i) == {j \in P : j <= i}
           place == [i \in P |-> Cardinality(upTo(i))]
           c == Cardinality(P)
<1>1. IsFiniteSet(P) /\ c \in Nat
  <2>1. IsFiniteSet(1..n)
    BY FS_Interval
  <2>2. IsFiniteSet(P)
    BY <2>1, FS_Subset
  <2> QED
    BY <2>2, FS_CardinalityType
<1>2. ASSUME NEW i \in P
      PROVE  IsFiniteSet(upTo(i)) /\ Cardinality(upTo(i)) \in 1..c
  <2>1. upTo(i) \in SUBSET P /\ i \in upTo(i)
    OBVIOUS
  <2>2. IsFiniteSet(upTo(i)) /\ Cardinality(upTo(i)) <= c
    BY <1>1, <2>1, FS_Subset
  <2>3. Cardinality(upTo(i)) \in Nat /\ Cardinality(upTo(i)) # 0
    BY <2>1, <2>2, FS_CardinalityType, FS_EmptySet
  <2> QED
    BY <1>1, <2>2, <2>3
<1>3. place \in [P -> 1..c]
  BY <1>2
<1>4. ASSUME NEW i \in P, NEW k \in P, i < k
      PROVE  place[i] # place[k]
  <2>1. upTo(i) \in SUBSET upTo(k) /\ k \in upTo(k) /\ k \notin upTo(i)
    <3>1. \A j \in P : j \in Int
      OBVIOUS
    <3>2. \A j \in P : j <= i => j <= k
      BY <3>1, <1>4
    <3>3. k <= k /\ ~(k <= i)
      BY <3>1, <1>4
    <3> QED
      BY <3>2, <3>3
  <2>2. Cardinality(upTo(k)) # Cardinality(upTo(i))
    BY <1>2, <2>1, FS_Subset
  <2> QED
    BY <2>2
<1>5. \A i, k \in P : place[i] = place[k] => i = k
  BY <1>4
<1>6. place \in Injection(P, 1..c)
  BY <1>3, <1>5, Fun_IsInj
<1>7. IsFiniteSet(1..c) /\ Cardinality(1..c) = c
  BY <1>1, FS_Interval
<1>8. place \in Surjection(P, 1..c)
  BY <1>6, <1>7, FS_Injection
<1> HIDE DEF place, c
<1>9. place \in Bijection(P, 1..c)
  BY <1>6, <1>8 DEF Bijection
<1> QED
  BY <1>1, <1>9 DEF place, c

(***************************************************************************)
(* What is chosen of a list is the items at the positions, each once.      *)
(***************************************************************************)
LEMMA ChosenItems ==
    ASSUME NEW s, NEW n \in Nat, DOMAIN s = 1..n, NEW P \in SUBSET (1..n)
    PROVE  \E f \in Bijection(1..Cardinality(P), P) :
              Chosen(s, P) = [k \in 1..Cardinality(P) |-> s[f[k]]]
<1> DEFINE place == [i \in P |-> Cardinality({j \in P : j <= i})]
           c == Cardinality(P)
           nth(k) == CHOOSE i \in P : Cardinality({j \in P : j <= i}) = k
           f == [k \in 1..c |-> nth(k)]
<1>1. place \in Bijection(P, 1..c) /\ c \in Nat
  BY PlacesAreNumbered
<1>2. /\ \A i, k \in P : place[i] = place[k] => i = k
      /\ \A k \in 1..c : \E i \in P : place[i] = k
      /\ \A i \in P : place[i] \in 1..c
  <2> HIDE DEF place, c
  <2>1. /\ place \in [P -> 1..c]
        /\ \A i, k \in P : place[i] = place[k] => i = k
        /\ \A k \in 1..c : \E i \in P : place[i] = k
    BY <1>1 DEF Bijection, Injection, Surjection, IsInjective
  <2> QED
    BY <2>1
<1>3. ASSUME NEW k \in 1..c
      PROVE  nth(k) \in P /\ place[nth(k)] = k
  <2>1. \E i \in P : Cardinality({j \in P : j <= i}) = k
    BY <1>2
  <2> QED
    BY <2>1
<1>4. f \in [1..c -> P]
  BY <1>3
<1>5. \A k, l \in 1..c : f[k] = f[l] => k = l
  <2> HIDE DEF nth, place
  <2> QED
    BY <1>3
<1>6. ASSUME NEW i \in P
      PROVE  \E k \in 1..c : f[k] = i
  <2>1. place[i] \in 1..c
    BY <1>2
  <2>2. place[nth(place[i])] = place[i] /\ nth(place[i]) \in P
    BY <2>1, <1>3
  <2>3. f[place[i]] = i
    BY <2>1, <2>2, <1>2
  <2> QED
    BY <2>1, <2>3
<1>7. f \in Bijection(1..c, P)
  BY <1>4, <1>5, <1>6, Fun_IsBij
<1>8. Chosen(s, P) = [k \in 1..c |-> s[f[k]]]
  BY DEF Chosen
<1> QED
  BY <1>7, <1>8

(***************************************************************************)
(* A list has a first item of those it has of a kind.                      *)
(***************************************************************************)
LEMMA FirstPlace ==
    ASSUME NEW n \in Nat, NEW P \in SUBSET (1..n), P # {}
    PROVE  Min(P) \in P /\ \A j \in P : Min(P) <= j
<1> DEFINE upTo(i) == {j \in P : j <= i}
           place == [i \in P |-> Cardinality(upTo(i))]
           c == Cardinality(P)
<1>1. IsFiniteSet(P) /\ c \in Nat /\ place \in Bijection(P, 1..c)
  BY PlacesAreNumbered
<1>2. c # 0
  BY <1>1, FS_EmptySet
<1>3. PICK i \in P : place[i] = 1
  <2> HIDE DEF place, c
  <2>1. 1 \in 1..c
    BY <1>1, <1>2
  <2> QED
    BY <1>1, <2>1 DEF Bijection, Surjection
<1>4. ASSUME NEW j \in P
      PROVE  i <= j
  <2>1. SUFFICES ASSUME j < i
                 PROVE  FALSE
    OBVIOUS
  <2>2. IsFiniteSet(upTo(i)) /\ Cardinality(upTo(i)) = 1
    BY <1>1, <1>3, FS_Subset
  <2>3. {j} \in SUBSET upTo(i)
    BY <2>1
  <2>4. Cardinality({j}) = 1
    BY FS_Singleton
  <2>5. {j} = upTo(i)
    BY <2>2, <2>3, <2>4, FS_Subset
  <2>6. i \in upTo(i)
    OBVIOUS
  <2> QED
    BY <2>1, <2>5, <2>6
<1> QED
  BY <1>4 DEF Min

\* The items of s at the places in P, as a list.
LEMMA ChosenList ==
    ASSUME NEW s, NEW n \in Nat, DOMAIN s = 1..n, NEW P \in SUBSET (1..n)
    PROVE  /\ Cardinality(P) \in Nat
           /\ DOMAIN Chosen(s, P) = 1..Cardinality(P)
           /\ Len(Chosen(s, P)) = Cardinality(P)
           /\ ToSet(Chosen(s, P)) = {s[i] : i \in P}
           /\ (\A i, j \in P : s[i] = s[j] => i = j) => IsInjective(Chosen(s, P))
<1>1. Cardinality(P) \in Nat
  BY PlacesAreNumbered
<1> DEFINE c == Cardinality(P)
<1>2. PICK f \in Bijection(1..c, P) : Chosen(s, P) = [k \in 1..c |-> s[f[k]]]
  BY ChosenItems
<1> HIDE DEF c
<1>3. /\ f \in [1..c -> P]
      /\ \A k, l \in 1..c : f[k] = f[l] => k = l
      /\ \A i \in P : \E k \in 1..c : f[k] = i
  BY <1>2 DEF Bijection, Injection, Surjection, IsInjective
<1> DEFINE t == Chosen(s, P)
<1>4. /\ DOMAIN t = 1..c
      /\ t = [k \in 1..c |-> t[k]]
      /\ \A k \in 1..c : f[k] \in P /\ t[k] = s[f[k]]
  BY <1>2, <1>3
<1> HIDE DEF t
<1>5. ToSet(t) = {s[i] : i \in P}
  <2>1. \A k \in 1..c : t[k] \in {s[i] : i \in P}
    BY <1>4
  <2>2. \A i \in P : \E k \in 1..c : t[k] = s[i]
    BY <1>3, <1>4
  <2> QED
    BY <1>4, <2>1, <2>2 DEF ToSet
<1>6. (\A i, j \in P : s[i] = s[j] => i = j) => IsInjective(t)
  BY <1>3, <1>4 DEF IsInjective
<1>7. t \in [1..c -> {s[i] : i \in P}]
  BY <1>4
<1>8. Len(t) = c
  <2>1. t \in Seq({s[i] : i \in P})
    BY <1>1, <1>7 DEF c
  <2> QED
    BY <1>1, <1>4, <2>1 DEF c
<1> QED
  BY <1>1, <1>4, <1>5, <1>6, <1>8 DEF c, t

(***************************************************************************)
(* An item is chosen as often as the positions have it.                    *)
(***************************************************************************)
LEMMA ChosenCount ==
    ASSUME NEW s, NEW n \in Nat, DOMAIN s = 1..n, NEW P \in SUBSET (1..n), NEW x
    PROVE  Count(Chosen(s, P), x) = Cardinality({i \in P : s[i] = x})
<1>1. Cardinality(P) \in Nat
  BY PlacesAreNumbered
<1> DEFINE c == Cardinality(P)
<1>2. PICK f \in Bijection(1..c, P) : Chosen(s, P) = [k \in 1..c |-> s[f[k]]]
  BY ChosenItems
<1> HIDE DEF c
<1>3. /\ f \in [1..c -> P]
      /\ \A k, l \in 1..c : f[k] = f[l] => k = l
      /\ \A i \in P : \E k \in 1..c : f[k] = i
  BY <1>2 DEF Bijection, Injection, Surjection, IsInjective
<1> DEFINE here == {k \in 1..c : s[f[k]] = x}
           there == {i \in P : s[i] = x}
           g == [k \in here |-> f[k]]
<1>4. g \in [here -> there]
  BY <1>3
<1>5. \A k, l \in here : g[k] = g[l] => k = l
  BY <1>3
<1>6. \A i \in there : \E k \in here : g[k] = i
  BY <1>3
<1>7. ExistsBijection(here, there)
  <2> HIDE DEF g, here, there
  <2>1. g \in Bijection(here, there)
    BY <1>4, <1>5, <1>6, Fun_IsBij
  <2> QED
    BY <2>1 DEF ExistsBijection
<1>8. IsFiniteSet(here)
  <2>1. IsFiniteSet(1..c) /\ here \in SUBSET (1..c)
    BY <1>1, FS_Interval DEF c
  <2> QED
    BY <2>1, FS_Subset
<1>9. Cardinality(there) = Cardinality(here)
  BY <1>7, <1>8, FS_Bijection
<1>10. {k \in DOMAIN Chosen(s, P) : Chosen(s, P)[k] = x} = here
  BY <1>2
<1> QED
  BY <1>9, <1>10 DEF Count

(***************************************************************************)
(* uniqWith keeps one of each item.                                        *)
(***************************************************************************)
LEMMA UniqList ==
    ASSUME NEW s, NEW n \in Nat, DOMAIN s = 1..n
    PROVE  /\ IsFiniteSet(ToSet(s)) /\ Cardinality(ToSet(s)) \in Nat
           /\ DOMAIN Uniq(s) = 1..Cardinality(ToSet(s))
           /\ Len(Uniq(s)) = Cardinality(ToSet(s))
           /\ ToSet(Uniq(s)) = ToSet(s)
           /\ IsInjective(Uniq(s))
<1> DEFINE P == {i \in DOMAIN s : \A j \in DOMAIN s : s[j] = s[i] => i <= j}
<1>1. Uniq(s) = Chosen(s, P) /\ P \in SUBSET (1..n)
  BY DEF Uniq
<1>2. \A i, j \in P : s[i] = s[j] => i = j
  OBVIOUS
<1>3. ASSUME NEW x \in ToSet(s)
      PROVE  \E i \in P : s[i] = x
  <2> DEFINE Q == {i \in 1..n : s[i] = x}
  <2>1. Q \in SUBSET (1..n) /\ Q # {}
    BY DEF ToSet
  <2>2. Min(Q) \in Q /\ \A j \in Q : Min(Q) <= j
    BY <2>1, FirstPlace
  <2> QED
    BY <2>2
<1>4. {s[i] : i \in P} = ToSet(s)
  BY <1>3 DEF ToSet
<1>5. /\ Cardinality(P) \in Nat
      /\ DOMAIN Uniq(s) = 1..Cardinality(P)
      /\ Len(Uniq(s)) = Cardinality(P)
      /\ ToSet(Uniq(s)) = ToSet(s)
      /\ IsInjective(Uniq(s))
  <2> HIDE DEF P
  <2> QED
    BY <1>1, <1>2, <1>4, ChosenList
<1>6. Uniq(s) \in Bijection(1..Cardinality(P), ToSet(s))
  <2> HIDE DEF P
  <2>1. Uniq(s) = [i \in DOMAIN Uniq(s) |-> Uniq(s)[i]]
    BY <1>1 DEF Chosen
  <2>2. Uniq(s) \in [1..Cardinality(P) -> ToSet(s)]
    BY <1>5, <2>1 DEF ToSet
  <2>3. \A a, b \in 1..Cardinality(P) : Uniq(s)[a] = Uniq(s)[b] => a = b
    BY <1>5 DEF IsInjective
  <2>4. \A x \in ToSet(s) : \E a \in 1..Cardinality(P) : Uniq(s)[a] = x
    BY <1>5 DEF ToSet
  <2> QED
    BY <2>2, <2>3, <2>4, Fun_IsBij
<1>7. IsFiniteSet(1..Cardinality(P)) /\ Cardinality(1..Cardinality(P)) = Cardinality(P)
  BY <1>5, FS_Interval
<1>8. IsFiniteSet(ToSet(s)) /\ Cardinality(ToSet(s)) = Cardinality(P)
  BY <1>6, <1>7, FS_Bijection DEF ExistsBijection
<1> QED
  BY <1>5, <1>8

-----------------------------------------------------------------------------
(* Failures *)

\* What the calls and the node's own check make of the outcome.
Shown ==
    /\ Refused => called = {}
    /\ at = "done" /\ Refused =>
          \/ outcome = Throws
          \/ outcome = Ran("error", Arr(<<>>)) /\ category = "deepCompare"
    /\ at = "done" /\ failed =>
          \/ outcome = Throws
          \/ outcome.end = "error state" /\ category = "createIndex"
          \/ outcome = Ran("http error", Str("answer")) /\ category = "graphQl"
    /\ outcome.end = "data" /\ outcome.status \in {"error", "http error"} =>
          failed \/ category \in {"deepCompare", "remapData"}
    /\ outcome = Ran("none", Undefined) => category = "kafkaPublish" /\ called = {}

\* A run that waits has called a server and has not failed yet.
RunInv ==
    /\ at \in {"prepared", "reflection", "call", "done"}
    /\ at = "prepared" => called = {}
    /\ at \in {"reflection", "call"} => called # {}
    /\ at # "done" => outcome = Running /\ failed = FALSE
    /\ Shown

LEMMA DataShows ==
    ASSUME NEW status
    PROVE  /\ \A x : Ran(status, Obj(x)) # Ran("none", Undefined)
           /\ \A x : Ran(status, Arr(x)) # Ran("none", Undefined)
           /\ \A x : Ran(status, Str(x)) # Ran("none", Undefined)
           /\ \A x : Ran(status, Bool(x)) # Ran("none", Undefined)
           /\ Throws # Ran("none", Undefined)
           /\ [end |-> "error state"] # Ran("none", Undefined)
           /\ Running # Ran("none", Undefined)
  BY DEF Ran, Obj, Arr, Str, Bool, Undefined, Throws, Running

LEMMA EndOf ==
    /\ \A status, x : LET r == Ran(status, x)
                      IN  r.end = "data" /\ r.status = status /\ r.data = x
    /\ Throws.end = "throws" /\ Running.end = "running"
    /\ [end |-> "error state"].end = "error state"
  BY DEF Ran, Throws, Running

(***************************************************************************)
(* What the nodes that compute something end with.                         *)
(***************************************************************************)
LEMMA ComputedShows ==
    /\ \A x : deepCompare(x) # Ran("none", Undefined)
    /\ \A x : remapData(x) # Ran("none", Undefined)
    /\ \A x, y : \E z : filterData(x, y) \in {Throws, Ran("none", Obj(z))}
<1>1. ASSUME NEW x
      PROVE  deepCompare(x) # Ran("none", Undefined)
  <2>1. \E status, y : deepCompare(x) \in {Ran(status, Arr(y)), Ran(status, Obj(y))}
    BY DEF deepCompare
  <2> QED
    BY <2>1, DataShows
<1>2. ASSUME NEW x
      PROVE  remapData(x) # Ran("none", Undefined)
  <2>1. \E status, y : remapData(x) \in {Throws, Ran(status, Arr(y))}
    BY DEF remapData
  <2> QED
    BY <2>1, DataShows
<1>3. ASSUME NEW x, NEW y
      PROVE  \E z : filterData(x, y) \in {Throws, Ran("none", Obj(z))}
  BY DEF filterData
<1> QED
  BY <1>1, <1>2, <1>3

(***************************************************************************)
(* A node that ends before it calls anything.                              *)
(***************************************************************************)
LEMMA EndsAtOnce ==
    ASSUME RunInv, at = "prepared", NEW result, Ends(result),
           UNCHANGED <<called, failed>>,
           Refused => \/ result = Throws
                      \/ result = Ran("error", Arr(<<>>)) /\ category = "deepCompare",
           \/ category \in {"deepCompare", "remapData"} /\ result # Ran("none", Undefined)
           \/ result = Throws
           \/ \E x : result = Ran("none", x) /\ (x # Undefined \/ category = "kafkaPublish")
    PROVE  RunInv'
<1>1. /\ at' = "done" /\ called' = {} /\ failed' = FALSE /\ outcome' = result
      /\ category' = category /\ data' = data /\ (Refused' <=> Refused)
  BY DEF RunInv, Ends, input, Refused
<1>2. result = Ran("none", Undefined) => category = "kafkaPublish"
  <2>1. Throws # Ran("none", Undefined)
    BY DataShows
  <2>2. ASSUME NEW x, result = Ran("none", x), result = Ran("none", Undefined)
        PROVE  x = Undefined
    BY <2>2, EndOf
  <2> QED
    BY <2>1, <2>2
<1>3. result.end = "data" /\ result.status \in {"error", "http error"} =>
        category \in {"deepCompare", "remapData"}
  <2>1. CASE result = Throws
    BY <2>1, EndOf
  <2>2. ASSUME NEW x, result = Ran("none", x)
        PROVE  result.status \notin {"error", "http error"}
    <3>1. result.status = "none"
      BY <2>2, EndOf
    <3> QED
      BY <3>1
  <2> QED
    BY <2>1, <2>2
<1>4. Shown'
  BY <1>1, <1>2, <1>3 DEF Shown
<1> QED
  BY <1>1, <1>4 DEF RunInv

(***************************************************************************)
(* A node that calls a server has had its parameters accepted.             *)
(***************************************************************************)
LEMMA AwaitsKeeps ==
    ASSUME RunInv, NEW call \in {"reflection", "call"}, Awaits(call), at # "done", ~Refused
    PROVE  RunInv'
<1>1. /\ at' = call /\ called' = called \cup {call} /\ failed' = failed /\ outcome' = outcome
      /\ category' = category /\ data' = data /\ (Refused' <=> Refused)
  BY DEF Awaits, input, Refused
<1>2. outcome' = Running
  BY <1>1 DEF RunInv
<1>3. outcome' # Ran("none", Undefined) /\ outcome'.end # "data"
  BY <1>2, DataShows, EndOf
<1>4. Shown'
  BY <1>1, <1>3 DEF Shown
<1> QED
  BY <1>1, <1>4 DEF RunInv

\* A call ends the node with an outcome that shows its failure.
LEMMA CallEnds ==
    ASSUME RunInv, ~Refused, NEW result, Ends(result), called' = called,
           \/ result = Throws /\ failed' = TRUE
           \/ /\ result = [end |-> "error state"] /\ category = "createIndex"
              /\ failed' = TRUE
           \/ /\ result = Ran("http error", Str("answer")) /\ category = "graphQl"
              /\ failed' = TRUE
           \/ result = Ran("success", Str("answer")) /\ failed' = FALSE
    PROVE  RunInv'
<1>1. /\ at' = "done" /\ outcome' = result /\ category' = category /\ data' = data
      /\ ~Refused'
  BY DEF Ends, input, Refused
<1>2. result # Ran("none", Undefined)
  BY DataShows
<1>3. /\ [end |-> "error state"].end = "error state"
      /\ Ran("success", Str("answer")).status = "success"
  BY EndOf
<1>4. Shown'
  BY <1>1, <1>2, <1>3 DEF Shown
<1> QED
  BY <1>1, <1>4 DEF RunInv

\* The two calls of a remote call end alike.
LEMMA GrpcCallsKeeps ==
    ASSUME RunInv, GrpcCalls, at \in {"prepared", "reflection"}, ~Refused
    PROVE  RunInv'
  BY AwaitsKeeps, CallEnds DEF GrpcCalls

\* No step of a node breaks RunInv.
LEMMA RunInvInductive == RunInv /\ [Next]_vars => RunInv'
<1> SUFFICES ASSUME RunInv, [Next]_vars
             PROVE  RunInv'
  OBVIOUS
<1>a. \A x : Obj(x) # Undefined /\ Str(x) # Undefined /\ Bool(x) # Undefined
  BY DEF Obj, Str, Bool, Undefined
<1>1. CASE RunDeepCompare
  <2>1. Refused => deepCompare(data) = Ran("error", Arr(<<>>))
    BY <1>1 DEF RunDeepCompare, Starting, Refused, Execution, deepCompare
  <2> QED
    BY <1>1, <2>1, ComputedShows, EndsAtOnce DEF RunDeepCompare, Starting
<1>2. CASE RunRemapData
  <2>1. Refused => remapData(data) = Throws
    BY <1>2 DEF RunRemapData, Starting, Refused, Execution, remapData
  <2> QED
    BY <1>2, <2>1, ComputedShows, EndsAtOnce DEF RunRemapData, Starting
<1>3. CASE RunFilterData
  <2>1. Refused => filterData(data, order) = Throws
    BY <1>3 DEF RunFilterData, Starting, Refused, Execution, filterData
  <2>2. \E z : filterData(data, order) \in {Throws, Ran("none", Obj(z))}
    BY ComputedShows
  <2> QED
    BY <1>3, <1>a, <2>1, <2>2, EndsAtOnce DEF RunFilterData, Starting
<1>4. CASE RunCreateUuid
  <2>1. ~Refused
    BY <1>4 DEF RunCreateUuid, Starting, Refused, Execution
  <2>2. PICK result : /\ Ends(result)
                      /\ result \in {Throws, Ran("none", Str("nanoid")), Ran("none", Str("v1")),
                                     Ran("none", Str("v4"))}
    BY <1>4 DEF RunCreateUuid
  <2> QED
    BY <1>4, <1>a, <2>1, <2>2, EndsAtOnce DEF RunCreateUuid, Starting
<1>5. CASE RunTokenize
  <2>1. ~Refused
    BY <1>5 DEF RunTokenize, Starting, Refused, Execution
  <2>2. Tokenized(data) # Undefined
    BY <1>a DEF Tokenized
  <2> QED
    BY <1>5, <2>1, <2>2, EndsAtOnce DEF RunTokenize, Starting
<1>6. CASE RunValidateSchema
  <2>1. ~Refused
    BY <1>6 DEF RunValidateSchema, Starting, Refused, Execution
  <2>2. PICK result : /\ Ends(result)
                      /\ result \in {Throws, Ran("none", Bool(TRUE)), Ran("none", Bool(FALSE))}
    BY <1>6 DEF RunValidateSchema
  <2> QED
    BY <1>6, <1>a, <2>1, <2>2, EndsAtOnce DEF RunValidateSchema, Starting
<1>7. CASE GrpcStarts
  <2>1. at = "prepared" /\ (Refused <=> ~Valid(grpcExecution, data))
    BY <1>7 DEF GrpcStarts, Starting, Refused, Execution
  <2>2. CASE Refused
    BY <1>7, <2>1, <2>2, EndsAtOnce DEF GrpcStarts
  <2>3. CASE ~Refused
    BY <1>7, <2>1, <2>3, AwaitsKeeps, GrpcCallsKeeps DEF GrpcStarts
  <2> QED
    BY <2>2, <2>3
<1>8. CASE GrpcReflected
  <2>1. ~Refused
    BY <1>8 DEF GrpcReflected, RunInv, Shown
  <2> QED
    BY <1>8, <2>1, GrpcCallsKeeps DEF GrpcReflected
<1>9. CASE GraphQlStarts
  <2>1. ~Refused /\ at = "prepared"
    BY <1>9 DEF GraphQlStarts, Starting, Refused, Execution
  <2> QED
    BY <1>9, <2>1, AwaitsKeeps, EndsAtOnce DEF GraphQlStarts
<1>10. CASE CallStarts
  <2>1. ~Refused
    BY <1>10 DEF CallStarts, Refused, Execution
  <2> QED
    BY <1>10, <2>1, AwaitsKeeps DEF CallStarts
<1>11. CASE KafkaPublishStarts
  <2>1. /\ at = "prepared" /\ category = "kafkaPublish"
        /\ Refused <=> ~Valid(kafkaPublishExecution, data)
    BY <1>11 DEF KafkaPublishStarts, Starting, Refused, Execution
  <2>2. CASE Refused
    BY <1>11, <2>1, <2>2, EndsAtOnce DEF KafkaPublishStarts
  <2>3. CASE ~Refused
    <3>1. \/ Ends(Ran("none", Undefined)) /\ UNCHANGED <<called, failed>>
          \/ Awaits("call")
      BY <1>11, <2>1, <2>3 DEF KafkaPublishStarts
    <3> QED
      BY <3>1, <2>1, <2>3, AwaitsKeeps, EndsAtOnce
  <2> QED
    BY <2>2, <2>3
<1>12. CASE CallReturns
  <2>1. ~Refused /\ failed = FALSE
    BY <1>12 DEF CallReturns, RunInv, Shown
  <2> QED
    BY <1>12, <2>1, CallEnds DEF CallReturns
<1>13. CASE CallFails
  <2>1. ~Refused
    BY <1>13 DEF CallFails, RunInv, Shown
  <2> QED
    BY <1>13, <2>1, CallEnds DEF CallFails
<1>14. CASE UNCHANGED vars
  BY <1>14 DEF vars, RunInv, Shown, Refused
<1> QED
  BY <1>1, <1>2, <1>3, <1>4, <1>5, <1>6, <1>7, <1>8, <1>9, <1>10, <1>11, <1>12, <1>13,
     <1>14 DEF Next

LEMMA RunInvInit == Init => RunInv
<1>1. Running # Ran("none", Undefined) /\ Running.end # "data"
  BY DataShows, EndOf
<1> QED
  BY <1>1 DEF Init, RunInv, Shown

\* What a schema of an object asks for, level by level.
LEMMA ValidObjectWith ==
    ASSUME NEW required, NEW props, NEW v
    PROVE  Valid(ObjectWith(required, props), v) <=>
              /\ IsObject(v) /\ required \subseteq DOMAIN v.object
              /\ \A k \in DOMAIN v.object \cap DOMAIN props : Valid5(props[k], v.object[k])
<1> DEFINE s == ObjectWith(required, props)
<1>1. /\ DOMAIN s = {"type", "required", "properties"}
      /\ s.type = {"object"} /\ s.required = required /\ s.properties = props
  BY DEF ObjectWith
<1> HIDE DEF s
<1>2. TypeHolds(s, v) <=> IsObject(v)
  BY <1>1 DEF TypeHolds, IsObject
<1>3. ObjectHolds(s, v.object, Valid5) <=>
        /\ required \subseteq DOMAIN v.object
        /\ \A k \in DOMAIN v.object \cap DOMAIN props : Valid5(props[k], v.object[k])
  BY <1>1 DEF ObjectHolds, HasKeyword
<1>4. IsObject(v) => ~IsArray(v)
  BY DEF IsObject, IsArray, Is
<1>5. Valid(s, v) <=> TypeHolds(s, v) /\ (IsObject(v) => ObjectHolds(s, v.object, Valid5))
  BY <1>1, <1>2, <1>4 DEF Valid, Holds, HasKeyword
<1> QED
  BY <1>2, <1>3, <1>5 DEF s

LEMMA Valid5ObjectWith ==
    ASSUME NEW required, NEW props, NEW v
    PROVE  Valid5(ObjectWith(required, props), v) <=>
              /\ IsObject(v) /\ required \subseteq DOMAIN v.object
              /\ \A k \in DOMAIN v.object \cap DOMAIN props : Valid4(props[k], v.object[k])
<1> DEFINE s == ObjectWith(required, props)
<1>1. /\ DOMAIN s = {"type", "required", "properties"}
      /\ s.type = {"object"} /\ s.required = required /\ s.properties = props
  BY DEF ObjectWith
<1> HIDE DEF s
<1>2. TypeHolds(s, v) <=> IsObject(v)
  BY <1>1 DEF TypeHolds, IsObject
<1>3. ObjectHolds(s, v.object, Valid4) <=>
        /\ required \subseteq DOMAIN v.object
        /\ \A k \in DOMAIN v.object \cap DOMAIN props : Valid4(props[k], v.object[k])
  BY <1>1 DEF ObjectHolds, HasKeyword
<1>4. IsObject(v) => ~IsArray(v)
  BY DEF IsObject, IsArray, Is
<1>5. Valid5(s, v) <=> TypeHolds(s, v) /\ (IsObject(v) => ObjectHolds(s, v.object, Valid4))
  BY <1>1, <1>2, <1>4 DEF Valid5, Holds, HasKeyword
<1> QED
  BY <1>2, <1>3, <1>5 DEF s

LEMMA Valid4ObjectWith ==
    ASSUME NEW required, NEW props, NEW v
    PROVE  Valid4(ObjectWith(required, props), v) <=>
              /\ IsObject(v) /\ required \subseteq DOMAIN v.object
              /\ \A k \in DOMAIN v.object \cap DOMAIN props : Valid3(props[k], v.object[k])
<1> DEFINE s == ObjectWith(required, props)
<1>1. /\ DOMAIN s = {"type", "required", "properties"}
      /\ s.type = {"object"} /\ s.required = required /\ s.properties = props
  BY DEF ObjectWith
<1> HIDE DEF s
<1>2. TypeHolds(s, v) <=> IsObject(v)
  BY <1>1 DEF TypeHolds, IsObject
<1>3. ObjectHolds(s, v.object, Valid3) <=>
        /\ required \subseteq DOMAIN v.object
        /\ \A k \in DOMAIN v.object \cap DOMAIN props : Valid3(props[k], v.object[k])
  BY <1>1 DEF ObjectHolds, HasKeyword
<1>4. IsObject(v) => ~IsArray(v)
  BY DEF IsObject, IsArray, Is
<1>5. Valid4(s, v) <=> TypeHolds(s, v) /\ (IsObject(v) => ObjectHolds(s, v.object, Valid3))
  BY <1>1, <1>2, <1>4 DEF Valid4, Holds, HasKeyword
<1> QED
  BY <1>2, <1>3, <1>5 DEF s

\* A value of the type, where the schema asks for no more than the type.
OfType(type, v) == Is(type, v) \/ (type = "number" /\ Is("integer", v))

\* What a schema that is a type asks for.
LEMMA TypedAccepts ==
    ASSUME NEW type, NEW v
    PROVE  /\ Valid5(Typed(type), v) <=> OfType(type, v)
           /\ Valid4(Typed(type), v) <=> OfType(type, v)
           /\ Valid3(Typed(type), v) <=> OfType(type, v)
           /\ Valid2(Typed(type), v) <=> OfType(type, v)
           /\ Valid1(Typed(type), v) <=> OfType(type, v)
<1> DEFINE s == Typed(type)
<1>1. DOMAIN s = {"type"} /\ s.type = {type}
  BY DEF Typed, AnyOfTypes
<1> HIDE DEF s
<1>2. TypeHolds(s, v) <=> OfType(type, v)
  BY <1>1 DEF TypeHolds, OfType
<1> USE <1>1, <1>2 DEF Holds, HasKeyword, ObjectHolds, ArrayHolds
<1>3. Valid5(s, v) <=> OfType(type, v)
  BY DEF Valid5
<1>4. Valid4(s, v) <=> OfType(type, v)
  BY DEF Valid4
<1>5. Valid3(s, v) <=> OfType(type, v)
  BY DEF Valid3
<1>6. Valid2(s, v) <=> OfType(type, v)
  BY DEF Valid2
<1>7. Valid1(s, v) <=> OfType(type, v)
  BY DEF Valid1
<1> QED
  BY <1>3, <1>4, <1>5, <1>6, <1>7 DEF s

\* What a schema of a list asks for.
LEMMA ArrayOfAccepts ==
    ASSUME NEW items, NEW v
    PROVE  /\ Valid5(ArrayOf(items), v) <=>
                IsArray(v) /\ \A i \in DOMAIN v.array : Valid4(items, v.array[i])
           /\ Valid2(ArrayOf(items), v) <=>
                IsArray(v) /\ \A i \in DOMAIN v.array : Valid1(items, v.array[i])
<1> DEFINE s == ArrayOf(items)
<1>1. DOMAIN s = {"type", "items"} /\ s.type = {"array"} /\ s.items = items
  BY DEF ArrayOf
<1> HIDE DEF s
<1>2. (TypeHolds(s, v) <=> IsArray(v)) /\ (IsArray(v) => ~IsObject(v))
  BY <1>1 DEF TypeHolds, IsArray, IsObject, Is
<1> USE <1>1, <1>2 DEF Holds, HasKeyword, ArrayHolds
<1>3. Valid5(s, v) <=> IsArray(v) /\ \A i \in DOMAIN v.array : Valid4(items, v.array[i])
  BY DEF Valid5
<1>4. Valid2(s, v) <=> IsArray(v) /\ \A i \in DOMAIN v.array : Valid1(items, v.array[i])
  BY DEF Valid2
<1> QED
  BY <1>3, <1>4 DEF s

\* Of two schemas, exactly one accepts.
LEMMA OneOfAccepts ==
    ASSUME NEW one, NEW other, NEW v
    PROVE  /\ Valid5(OneOf(<<one, other>>), v) => Valid4(one, v) \/ Valid4(other, v)
           /\ Valid3(OneOf(<<one, other>>), v) <=> ~(Valid2(one, v) <=> Valid2(other, v))
<1> DEFINE s == OneOf(<<one, other>>)
<1>1. /\ DOMAIN s = {"oneOf"} /\ DOMAIN s.oneOf = {1, 2}
      /\ s.oneOf[1] = one /\ s.oneOf[2] = other
  BY DEF OneOf
<1> HIDE DEF s
<1>2. Valid5(s, v) => Valid4(one, v) \/ Valid4(other, v)
  BY <1>1 DEF Valid5, Holds, HasKeyword, OneOfHolds
<1>3. OneOfHolds(s.oneOf, v, Valid2) <=> ~(Valid2(one, v) <=> Valid2(other, v))
  BY <1>1 DEF OneOfHolds
<1>4. Valid3(s, v) <=> OneOfHolds(s.oneOf, v, Valid2)
  BY <1>1 DEF Valid3, Holds, HasKeyword, ObjectHolds, ArrayHolds
<1> QED
  BY <1>2, <1>3, <1>4 DEF s

\* A value or an expression of the engine in its place.
LEMMA EitherAccepts ==
    ASSUME NEW v, NEW type
    PROVE  /\ Is("string", v) \/ Is("object", v) <=> Valid3(StringOrObject, v)
           /\ Valid5(StringOrObject, v) => Is("string", v) \/ Is("object", v)
           /\ type # "number" /\ IsArray(v) /\ (\A i \in DOMAIN v.array : Is(type, v.array[i]))
                => Valid3(ArrayOrObject(Typed(type)), v)
<1>1. Valid5(StringOrObject, v) => Is("string", v) \/ Is("object", v)
  BY OneOfAccepts, TypedAccepts DEF StringOrObject, OfType
<1>2. Is("string", v) \/ Is("object", v) <=> Valid3(StringOrObject, v)
  <2>1. Valid2(Typed("string"), v) <=> Is("string", v)
    BY TypedAccepts DEF OfType
  <2>2. Valid2(Typed("object"), v) <=> Is("object", v)
    BY TypedAccepts DEF OfType
  <2>3. ~(Is("string", v) /\ Is("object", v))
    BY DEF Is
  <2>4. Valid3(StringOrObject, v) <=>
          ~(Valid2(Typed("string"), v) <=> Valid2(Typed("object"), v))
    BY OneOfAccepts DEF StringOrObject
  <2> QED
    BY <2>1, <2>2, <2>3, <2>4
<1>3. ASSUME type # "number", IsArray(v), \A i \in DOMAIN v.array : Is(type, v.array[i])
      PROVE  Valid3(ArrayOrObject(Typed(type)), v)
  <2>1. Valid2(ArrayOf(Typed(type)), v)
    BY <1>3, ArrayOfAccepts, TypedAccepts DEF OfType
  <2>2. ~Valid2(Typed("object"), v)
    BY <1>3, TypedAccepts DEF OfType, IsArray, Is
  <2> QED
    BY <2>1, <2>2, OneOfAccepts DEF ArrayOrObject
<1> QED
  BY <1>1, <1>2, <1>3

(***************************************************************************)
(* A node whose input the blueprint's schema accepts can be saved.         *)
(***************************************************************************)
LEMMA NodeIsSavable ==
    ASSUME NEW input_, NEW v, Valid4(input_, v),
           NEW required \in SUBSET (NodeRequired \cup {"category"})
    PROVE  Valid(NodeWith(required, ObjectWith({"input"}, [input |-> input_])), NodeOf(v))
<1> DEFINE fields == NodeOf(v).object
           params == ObjectWith({"input"}, [input |-> input_])
           props == Plus(NodeFields, [parameters |-> params])
<1>1. /\ IsObject(NodeOf(v))
      /\ DOMAIN fields = DOMAIN NodeFields \cup {"parameters"}
      /\ \A k \in DOMAIN NodeFields : fields[k] = Str("any")
      /\ fields["parameters"] = Obj([input |-> v])
  BY DEF NodeOf, Obj, Plus, IsObject, Is, NodeFields
<1>2. required \subseteq DOMAIN fields
  BY <1>1 DEF NodeRequired, NodeFields
<1>3. /\ DOMAIN props = DOMAIN NodeFields \cup {"parameters"}
      /\ \A k \in DOMAIN NodeFields : props[k] = Typed("string")
      /\ props["parameters"] = params
  BY DEF Plus, NodeFields
<1>4. Valid5(Typed("string"), Str("any"))
  BY TypedAccepts DEF OfType, Is, Str
<1>5. Valid5(params, Obj([input |-> v]))
  BY Valid5ObjectWith DEF Obj, IsObject, Is
<1> HIDE DEF fields, params, props
<1>6. \A k \in DOMAIN fields \cap DOMAIN props : Valid5(props[k], fields[k])
  BY <1>1, <1>3, <1>4, <1>5
<1>7. Valid(ObjectWith(required, props), NodeOf(v))
  BY <1>1, <1>2, <1>6, ValidObjectWith DEF fields
<1> QED
  BY <1>7 DEF NodeWith, props, params

\* A list the node takes is one the blueprint may have.
LEMMA ListAccepted ==
    ASSUME NEW v, NEW type, type # "number"
    PROVE  /\ Valid5(ArrayOf(Typed(type)), v) => Valid3(ArrayOrObject(Typed(type)), v)
           /\ Valid5(Plus(ArrayOf(Typed(type)), [minItems |-> 1]), v)
                => Valid5(ArrayOf(Typed(type)), v)
<1>1. ASSUME Valid5(ArrayOf(Typed(type)), v)
      PROVE  Valid3(ArrayOrObject(Typed(type)), v)
  <2>1. IsArray(v) /\ \A i \in DOMAIN v.array : Is(type, v.array[i])
    BY <1>1, ArrayOfAccepts, TypedAccepts DEF OfType
  <2> QED
    BY <2>1, EitherAccepts
<1>2. ASSUME Valid5(Plus(ArrayOf(Typed(type)), [minItems |-> 1]), v)
      PROVE  Valid5(ArrayOf(Typed(type)), v)
  <2> DEFINE s == Plus(ArrayOf(Typed(type)), [minItems |-> 1])
  <2>1. /\ DOMAIN s = {"type", "items", "minItems"}
        /\ s.type = {"array"} /\ s.items = Typed(type)
    BY DEF Plus, ArrayOf
  <2> HIDE DEF s
  <2>2. TypeHolds(s, v) /\ (IsArray(v) => ArrayHolds(s, v.array, Valid4))
    BY <1>2, <2>1 DEF s, Valid5, Holds, HasKeyword
  <2>3. IsArray(v) /\ \A i \in DOMAIN v.array : Valid4(Typed(type), v.array[i])
    BY <2>1, <2>2 DEF TypeHolds, ArrayHolds, HasKeyword, IsArray
  <2> QED
    BY <2>3, ArrayOfAccepts
<1> QED
  BY <1>1, <1>2

\* What each node takes as its parameters, the schema of its blueprint takes.
LEMMA DeepCompareIsSavable ==
    ASSUME NEW v, Valid(deepCompareExecution, v)
    PROVE  Valid(deepCompareSchema, NodeOf(v))
<1> DEFINE objects == ArrayOf(Typed("object"))
           texts == ArrayOf(Typed("string"))
           either == ArrayOrObject(Typed("object"))
           eitherText == ArrayOrObject(Typed("string"))
           props == [base |-> either, candidate |-> either, commonKeys |-> eitherText,
                     ignoreKeys |-> eitherText]
           params == ObjectWith({"base", "candidate", "commonKeys"}, props)
<1>1. /\ IsObject(v) /\ {"base", "candidate", "commonKeys"} \subseteq DOMAIN v.object
      /\ Valid5(objects, v.object["base"])
      /\ Valid5(objects, v.object["candidate"])
      /\ Valid5(Plus(texts, [minItems |-> 1]), v.object["commonKeys"])
      /\ "ignoreKeys" \in DOMAIN v.object => Valid5(texts, v.object["ignoreKeys"])
  BY ValidObjectWith DEF deepCompareExecution
<1>2. /\ Valid3(either, v.object["base"]) /\ Valid3(either, v.object["candidate"])
      /\ Valid3(eitherText, v.object["commonKeys"])
      /\ "ignoreKeys" \in DOMAIN v.object => Valid3(eitherText, v.object["ignoreKeys"])
  BY <1>1, ListAccepted
<1> HIDE DEF either, eitherText
<1>3. \A k \in DOMAIN v.object \cap DOMAIN props : Valid3(props[k], v.object[k])
  BY <1>2
<1>4. Valid4(params, v)
  BY <1>1, <1>3, Valid4ObjectWith
<1>5. NodeRequired \cup {"category"} \in SUBSET (NodeRequired \cup {"category"})
  OBVIOUS
<1> HIDE DEF params
<1> QED
  BY <1>4, <1>5, NodeIsSavable DEF deepCompareSchema, params, either, eitherText

LEMMA RemapDataIsSavable ==
    ASSUME NEW v, Valid(remapDataExecution, v)
    PROVE  Valid(remapDataSchema, NodeOf(v))
<1> DEFINE either == ArrayOrObject(Typed("object"))
           props == [data |-> either, dictionary |-> Typed("object")]
           params == ObjectWith({"data", "dictionary"}, props)
<1>1. /\ IsObject(v) /\ {"data", "dictionary"} \subseteq DOMAIN v.object
      /\ Valid5(ArrayOf(Typed("object")), v.object["data"])
      /\ Valid5(Typed("object"), v.object["dictionary"])
  BY ValidObjectWith DEF remapDataExecution
<1>2. Valid3(either, v.object["data"]) /\ Valid3(Typed("object"), v.object["dictionary"])
  BY <1>1, ListAccepted, TypedAccepts
<1> HIDE DEF either
<1>3. \A k \in DOMAIN v.object \cap DOMAIN props : Valid3(props[k], v.object[k])
  BY <1>2
<1>4. Valid4(params, v) /\ NodeRequired \in SUBSET (NodeRequired \cup {"category"})
  BY <1>1, <1>3, Valid4ObjectWith
<1> HIDE DEF params
<1> QED
  BY <1>4, NodeIsSavable DEF remapDataSchema, NodeWithInput, params, either

LEMMA FilterDataIsSavable ==
    ASSUME NEW v, Valid(filterDataExecution, v)
    PROVE  Valid(filterDataSchema, NodeOf(v))
<1> DEFINE either == ArrayOrObject(Typed("object"))
           props == [data |-> either, primary_keys |-> Typed("object")]
           params == ObjectWith({"data", "primary_keys"}, props)
<1>1. /\ IsObject(v) /\ {"data", "primary_keys"} \subseteq DOMAIN v.object
      /\ Valid5(ArrayOf(Typed("object")), v.object["data"])
      /\ Valid5(Typed("object"), v.object["primary_keys"])
  BY ValidObjectWith DEF filterDataExecution
<1>2. Valid3(either, v.object["data"]) /\ Valid3(Typed("object"), v.object["primary_keys"])
  BY <1>1, ListAccepted, TypedAccepts
<1> HIDE DEF either
<1>3. \A k \in DOMAIN v.object \cap DOMAIN props : Valid3(props[k], v.object[k])
  BY <1>2
<1>4. Valid4(params, v) /\ NodeRequired \in SUBSET (NodeRequired \cup {"category"})
  BY <1>1, <1>3, Valid4ObjectWith
<1> HIDE DEF params
<1> QED
  BY <1>4, NodeIsSavable DEF filterDataSchema, NodeWithInput, params, either

LEMMA GrpcIsSavable ==
    ASSUME NEW v, Valid(grpcExecution, v)
    PROVE  Valid(grpcSchema, NodeOf(v))
<1> DEFINE fields == {"server", "payload", "service", "method"}
           texts == {"server", "service", "method"}
           flags == {"useSsl", "useReflection"}
           props == [server |-> StringOrObject, service |-> StringOrObject,
                     method |-> StringOrObject, payload |-> StringOrObject,
                     descriptor |-> Typed("object"), useSsl |-> Typed("boolean"),
                     useReflection |-> Typed("boolean")]
           params == ObjectWith(fields, props)
           descriptor == ObjectWith({"file"}, [file |-> ArrayOf(Typed("object"))])
<1>1. /\ IsObject(v) /\ fields \subseteq DOMAIN v.object
      /\ \A k \in texts : Valid5(Typed("string"), v.object[k])
      /\ Valid5(StringOrObject, v.object["payload"])
      /\ \A k \in flags \cap DOMAIN v.object : Valid5(Typed("boolean"), v.object[k])
      /\ "descriptor" \in DOMAIN v.object => Valid5(descriptor, v.object["descriptor"])
  BY ValidObjectWith DEF grpcExecution
<1>2. \A k \in texts : Valid3(StringOrObject, v.object[k])
  BY <1>1, TypedAccepts, EitherAccepts DEF OfType
<1>3. Valid3(StringOrObject, v.object["payload"])
  BY <1>1, EitherAccepts
<1>4. \A k \in flags \cap DOMAIN v.object : Valid3(Typed("boolean"), v.object[k])
  BY <1>1, TypedAccepts
<1>5. "descriptor" \in DOMAIN v.object => Valid3(Typed("object"), v.object["descriptor"])
  BY <1>1, Valid5ObjectWith, TypedAccepts DEF OfType, IsObject
<1>6. \A k \in DOMAIN v.object \cap DOMAIN props : Valid3(props[k], v.object[k])
  BY <1>2, <1>3, <1>4, <1>5
<1>7. Valid4(params, v) /\ NodeRequired \in SUBSET (NodeRequired \cup {"category"})
  BY <1>1, <1>6, Valid4ObjectWith
<1> HIDE DEF params
<1> QED
  BY <1>7, NodeIsSavable DEF grpcSchema, NodeWithInput, params

LEMMA KafkaPublishIsSavable ==
    ASSUME NEW v, Valid(kafkaPublishExecution, v)
    PROVE  Valid(kafkaPublishSchema, NodeOf(v))
<1> DEFINE props == [message |-> Typed("object"), event |-> StringOrObject,
                     topic |-> StringOrObject]
           params == ObjectWith({"message", "event", "topic"}, props)
<1>1. /\ IsObject(v) /\ {"message", "event", "topic"} \subseteq DOMAIN v.object
      /\ Valid5(Typed("object"), v.object["message"])
      /\ Valid5(Typed("string"), v.object["event"])
      /\ Valid5(Typed("string"), v.object["topic"])
  BY ValidObjectWith DEF kafkaPublishExecution
<1>2. /\ Valid3(Typed("object"), v.object["message"])
      /\ Valid3(StringOrObject, v.object["event"])
      /\ Valid3(StringOrObject, v.object["topic"])
  BY <1>1, TypedAccepts, EitherAccepts DEF OfType
<1>3. \A k \in DOMAIN v.object \cap DOMAIN props : Valid3(props[k], v.object[k])
  BY <1>2
<1>4. Valid4(params, v) /\ NodeRequired \in SUBSET (NodeRequired \cup {"category"})
  BY <1>1, <1>3, Valid4ObjectWith
<1> HIDE DEF params
<1> QED
  BY <1>4, NodeIsSavable DEF kafkaPublishSchema, NodeWithInput, params

(***************************************************************************)
(* Whatever a node accepts when it runs can be saved, as it is, in a       *)
(* blueprint, whatever the parameters are (RunnableIsSavable).             *)
(***************************************************************************)
THEOREM AcceptedCanBeSaved == Spec => []RunnableIsSavable
<1>1. RunnableIsSavable
  <2> SUFFICES ASSUME category \in DOMAIN Execution, Valid(Execution[category], data)
               PROVE  Valid(Schema[category], NodeOf(data))
    BY DEF RunnableIsSavable
  <2>1. category \in {"deepCompare", "remapData", "filterData", "grpc", "kafkaPublish"}
    BY DEF Execution
  <2> QED
    BY <2>1, DeepCompareIsSavable, RemapDataIsSavable, FilterDataIsSavable, GrpcIsSavable,
       KafkaPublishIsSavable DEF Execution, Schema
<1> QED
  BY <1>1, PTL

-----------------------------------------------------------------------------
(* filterData, remapData and deepCompare end with what they compute *)

\* The orders there are of the keys of primary_keys.
Orders == IF category = "filterData" /\ IsObject(Property(data, "primary_keys"))
          THEN SetToSeqs(DOMAIN Property(data, "primary_keys").object)
          ELSE {<<>>}

ComputeInv ==
    /\ category \in DOMAIN Inputs /\ data \in Inputs[category]
    /\ order \in Orders
    /\ at \in {"prepared", "reflection", "call", "done"}
    /\ category \in {"deepCompare", "filterData", "remapData"} => at \in {"prepared", "done"}
    /\ category = "filterData" /\ at = "done" => outcome = filterData(data, order)
    /\ category = "deepCompare" /\ at = "done" => outcome = deepCompare(data)
    /\ category = "remapData" /\ at = "done" => outcome = remapData(data)

LEMMA ComputeInvInit == Init => ComputeInv
  BY DEF Init, ComputeInv, Orders

\* No step of a node breaks ComputeInv.
LEMMA ComputeInvInductive == ComputeInv /\ [Next]_vars => ComputeInv'
<1> SUFFICES ASSUME ComputeInv, [Next]_vars
             PROVE  ComputeInv'
  OBVIOUS
<1>1. ASSUME UNCHANGED input
      PROVE  category' = category /\ data' = data /\ order' = order /\ Orders' = Orders
  BY <1>1 DEF input, Orders
<1>2. ASSUME NEW result, Ends(result), category \notin {"deepCompare", "filterData", "remapData"}
      PROVE  ComputeInv'
  BY <1>1, <1>2 DEF Ends, ComputeInv
<1>3. ASSUME NEW call \in {"reflection", "call"}, Awaits(call),
             category \notin {"deepCompare", "filterData", "remapData"}
      PROVE  ComputeInv'
  BY <1>1, <1>3 DEF Awaits, ComputeInv
<1>4. CASE RunDeepCompare
  BY <1>1, <1>4 DEF RunDeepCompare, Starting, Ends, ComputeInv
<1>5. CASE RunFilterData
  BY <1>1, <1>5 DEF RunFilterData, Starting, Ends, ComputeInv
<1>6. CASE RunRemapData
  BY <1>1, <1>6 DEF RunRemapData, Starting, Ends, ComputeInv
<1>7. CASE RunTokenize
  BY <1>2, <1>7 DEF RunTokenize, Starting
<1>8. CASE RunCreateUuid
  <2>1. \E result : Ends(result)
    BY <1>8 DEF RunCreateUuid
  <2> QED
    BY <1>2, <1>8, <2>1 DEF RunCreateUuid, Starting
<1>9. CASE RunValidateSchema
  BY <1>2, <1>9 DEF RunValidateSchema, Starting
<1>10. CASE GrpcStarts \/ GrpcReflected
  BY <1>2, <1>3, <1>10 DEF GrpcStarts, GrpcReflected, GrpcCalls, Starting
<1>11. CASE GraphQlStarts
  BY <1>2, <1>3, <1>11 DEF GraphQlStarts, Starting
<1>12. CASE CallStarts
  BY <1>3, <1>12 DEF CallStarts
<1>13. CASE KafkaPublishStarts
  BY <1>2, <1>3, <1>13 DEF KafkaPublishStarts, Starting
<1>14. CASE CallReturns \/ CallFails
  <2>1. category \notin {"deepCompare", "filterData", "remapData"}
    BY <1>14 DEF CallReturns, CallFails, ComputeInv
  <2> QED
    BY <1>2, <1>14, <2>1 DEF CallReturns, CallFails
<1>15. CASE UNCHANGED vars
  BY <1>1, <1>15 DEF vars, input, ComputeInv
<1> QED
  BY <1>4, <1>5, <1>6, <1>7, <1>8, <1>9, <1>10, <1>11, <1>12, <1>13, <1>14, <1>15 DEF Next

-----------------------------------------------------------------------------
(* filterData *)

(***************************************************************************)
(* SelectInSeq(s, Test), where P is the positions Test holds at.           *)
(***************************************************************************)
LEMMA FirstOf ==
    ASSUME NEW n \in Nat, NEW P \in SUBSET (1..n)
    PROVE  LET first == IF P # {} THEN Min(P) ELSE 0
           IN  /\ first = 0 <=> P = {}
               /\ first # 0 => first \in P /\ \A j \in P : first <= j
<1>1. P # {} => Min(P) \in P /\ \A j \in P : Min(P) <= j
  BY FirstPlace
<1>2. 0 \notin P
  OBVIOUS
<1> QED
  BY <1>1, <1>2

\* The item satisfies an alternative of the class, and no null is before it.
Fitting(item, class) ==
    IsArray(class) /\ \E i \in DOMAIN class.array :
        /\ Satisfies(item, class.array[i])
        /\ \A j \in 1..i : class.array[j] # Null

\* The test of the class is an exception.
Breaking(item, class) ==
    \/ ~IsArray(class)
    \/ Contains(class.array, Null) /\ ~Fitting(item, class)

(***************************************************************************)
(* What the verdict on a class says.                                       *)
(***************************************************************************)
LEMMA VerdictOfClass ==
    ASSUME NEW item, NEW class, IsArray(class) => class.array \in Seq(ToSet(class.array))
    PROVE  /\ ClassVerdict(item, class) = "throws" <=> Breaking(item, class)
           /\ ClassVerdict(item, class) = "yes" <=> Fitting(item, class)
           /\ ClassVerdict(item, class) \in {"no", "yes", "throws"}
<1>1. CASE ~IsArray(class)
  BY <1>1 DEF ClassVerdict, Breaking, Fitting
<1>2. CASE IsArray(class)
  <2> DEFINE s == class.array
             P == {i \in 1..Len(s) : s[i] = Null \/ Satisfies(item, s[i])}
             first == IF P # {} THEN Min(P) ELSE 0
  <2>1. Len(s) \in Nat /\ DOMAIN s = 1..Len(s)
    BY <1>2
  <2>2. /\ first = 0 <=> P = {}
        /\ first # 0 => first \in P /\ \A j \in P : first <= j
    <3>1. P \in SUBSET (1..Len(s))
      OBVIOUS
    <3> HIDE DEF P
    <3> QED
      BY <2>1, <3>1, FirstOf
  <2>3. ClassVerdict(item, class) =
          IF first = 0 THEN "no" ELSE IF s[first] = Null THEN "throws" ELSE "yes"
    BY <1>2 DEF ClassVerdict, SelectInSeq
  <2> HIDE DEF first
  <2>4. Contains(s, Null) <=> \E i \in 1..Len(s) : s[i] = Null
    BY DEF Contains
  <2>5. Fitting(item, class) <=>
          \E i \in DOMAIN s : Satisfies(item, s[i]) /\ \A j \in 1..i : s[j] # Null
    BY <1>2 DEF Fitting
  <2>6. Breaking(item, class) <=> Contains(s, Null) /\ ~Fitting(item, class)
    BY <1>2 DEF Breaking
  <2> HIDE DEF s
  <2>7. CASE first = 0
    <3>1. \A i \in 1..Len(s) : s[i] # Null /\ ~Satisfies(item, s[i])
      BY <2>2, <2>7
    <3>2. ~Fitting(item, class) /\ ~Breaking(item, class)
      BY <2>1, <2>4, <2>5, <2>6, <3>1
    <3> QED
      BY <2>3, <2>7, <3>2
  <2>8. CASE first # 0 /\ s[first] = Null
    <3>1. first \in 1..Len(s) /\ \A j \in P : first <= j
      BY <2>2, <2>8
    <3>2. Contains(s, Null)
      BY <2>4, <2>8, <3>1
    <3>3. ASSUME NEW i \in DOMAIN s, Satisfies(item, s[i]), \A j \in 1..i : s[j] # Null
          PROVE  FALSE
      <4>1. i \in P /\ i \in 1..Len(s)
        BY <2>1, <3>3
      <4>2. first <= i
        BY <3>1, <4>1
      <4>3. first \in 1..i
        BY <2>1, <3>1, <4>1, <4>2
      <4> QED
        BY <2>8, <3>3, <4>3
    <3>4. ~Fitting(item, class) /\ Breaking(item, class)
      BY <2>5, <2>6, <3>2, <3>3
    <3> QED
      BY <2>3, <2>8, <3>4
  <2>9. CASE first # 0 /\ s[first] # Null
    <3>1. /\ first \in 1..Len(s) /\ Satisfies(item, s[first])
          /\ \A j \in P : first <= j
      BY <2>2, <2>9
    <3>2. \A j \in 1..first : s[j] # Null
      <4> SUFFICES ASSUME NEW j \in 1..first, s[j] = Null
                   PROVE  FALSE
        OBVIOUS
      <4>1. j \in 1..Len(s)
        BY <2>1, <3>1
      <4>2. j \in P
        BY <4>1
      <4>3. first <= j /\ j <= first /\ j \in Nat /\ first \in Nat
        BY <2>1, <3>1, <4>1, <4>2
      <4> QED
        BY <2>9, <4>3
    <3>3. Fitting(item, class) /\ ~Breaking(item, class)
      BY <2>1, <2>5, <2>6, <3>1, <3>2
    <3> QED
      BY <2>3, <2>9, <3>3
  <2> QED
    BY <2>7, <2>8, <2>9
<1> QED
  BY <1>1, <1>2

\* The class of an item is the first that fits it.
LEMMA FirstClassFits ==
    ASSUME NEW item, NEW classes, NEW order_ \in Seq(DOMAIN classes)
    PROVE  LET first == FirstClass(item, classes, order_)
               fits(j) == ClassVerdict(item, classes[order_[j]]) # "no"
           IN  /\ first \in 0..Len(order_)
               /\ first = 0 => \A j \in 1..Len(order_) : ~fits(j)
               /\ first # 0 => fits(first) /\ \A j \in 1..(first - 1) : ~fits(j)
<1> DEFINE fits(j) == ClassVerdict(item, classes[order_[j]]) # "no"
           P == {j \in 1..Len(order_) : fits(j)}
           first == IF P # {} THEN Min(P) ELSE 0
<1>1. FirstClass(item, classes, order_) = first
  BY DEF FirstClass, SelectInSeq
<1>2. /\ first = 0 <=> P = {}
      /\ first # 0 => first \in P /\ \A j \in P : first <= j
  <2>1. P \in SUBSET (1..Len(order_)) /\ Len(order_) \in Nat
    OBVIOUS
  <2> HIDE DEF P
  <2> QED
    BY <2>1, FirstOf
<1> HIDE DEF first
<1>3. first \in 0..Len(order_)
  BY <1>2
<1>4. first = 0 => \A j \in 1..Len(order_) : ~fits(j)
  BY <1>2
<1>5. first # 0 => fits(first) /\ \A j \in 1..(first - 1) : ~fits(j)
  <2> SUFFICES ASSUME first # 0
               PROVE  fits(first) /\ \A j \in 1..(first - 1) : ~fits(j)
    OBVIOUS
  <2>1. first \in P /\ \A j \in P : first <= j
    BY <1>2
  <2>2. \A j \in 1..(first - 1) : j \in 1..Len(order_) /\ ~(first <= j)
    BY <1>3
  <2> HIDE DEF fits
  <2> QED
    BY <2>1, <2>2
<1> QED
  BY <1>1, <1>3, <1>4, <1>5

(***************************************************************************)
(* What filterData returns of lists it accepts.                            *)
(***************************************************************************)
LEMMA FilterResult ==
    ASSUME NEW v, NEW order_, Valid(filterDataExecution, v)
    PROVE  LET items == v.object.data.array
               classes == v.object.primary_keys.object
           IN  /\ IsObject(v) /\ {"data", "primary_keys"} \subseteq DOMAIN v.object
               /\ IsArray(v.object.data) /\ IsObject(v.object.primary_keys)
               /\ filterData(v, order_) = Throws =>
                     \E i \in DOMAIN items : FilterThrows(items[i], classes, order_)
               /\ filterData(v, order_) # Throws =>
                     LET lists == filterData(v, order_).data.object
                     IN  /\ ~\E i \in DOMAIN items : FilterThrows(items[i], classes, order_)
                         /\ DOMAIN lists = DOMAIN classes \cup {"unsorted"}
                         /\ \A c \in DOMAIN lists : lists[c].array =
                               Chosen(items, {i \in DOMAIN items :
                                                ClassOf(items[i], classes, order_) = c})
<1> DEFINE items == v.object.data.array
           classes == v.object.primary_keys.object
           chosen(c) == Chosen(items, {i \in DOMAIN items :
                                         ClassOf(items[i], classes, order_) = c})
           lists == [c \in DOMAIN classes \cup {"unsorted"} |-> Arr(chosen(c))]
           throws == \E i \in DOMAIN items : FilterThrows(items[i], classes, order_)
<1>1. /\ IsObject(v) /\ {"data", "primary_keys"} \subseteq DOMAIN v.object
      /\ Valid5(ArrayOf(Typed("object")), v.object["data"])
      /\ Valid5(Typed("object"), v.object["primary_keys"])
  BY ValidObjectWith DEF filterDataExecution
<1>2. IsArray(v.object.data) /\ IsObject(v.object.primary_keys)
  BY <1>1, ArrayOfAccepts, TypedAccepts DEF OfType, IsObject
<1>3. filterData(v, order_) = IF throws THEN Throws ELSE Ran("none", Obj(lists))
  BY DEF filterData, Filter
<1>4. /\ Ran("none", Obj(lists)) # Throws
      /\ Ran("none", Obj(lists)).data.object = lists
  <2> HIDE DEF lists
  <2> QED
    BY DEF Ran, Throws, Obj
<1>5. \A c \in DOMAIN lists : lists[c].array = chosen(c)
  <2> HIDE DEF chosen
  <2> QED
    BY DEF Arr
<1>6. DOMAIN lists = DOMAIN classes \cup {"unsorted"}
  OBVIOUS
<1> HIDE DEF lists, throws, chosen
<1>7. filterData(v, order_) = Throws => throws
  BY <1>3, <1>4
<1>8. filterData(v, order_) # Throws =>
        ~throws /\ filterData(v, order_).data.object = lists
  BY <1>3, <1>4
<1> QED
  BY <1>1, <1>2, <1>5, <1>6, <1>7, <1>8 DEF throws, chosen

\* The item gets as far as a class whose test is an exception.
Stopping(item, classes, names) == \E i \in DOMAIN names :
    /\ Breaking(item, classes[names[i]])
    /\ \A j \in 1..i-1 : ~Fitting(item, classes[names[j]])

LEMMA ThrowsAreStops ==
    ASSUME NEW item, NEW classes, NEW names \in Seq(DOMAIN classes),
           \A c \in DOMAIN classes : IsArray(classes[c]) =>
               classes[c].array \in Seq(ToSet(classes[c].array))
    PROVE  FilterThrows(item, classes, names) <=> Stopping(item, classes, names)
<1> DEFINE first == FirstClass(item, classes, names)
           verdict(j) == ClassVerdict(item, classes[names[j]])
<1>1. DOMAIN names = 1..Len(names) /\ Len(names) \in Nat
  OBVIOUS
<1>2. /\ first \in 0..Len(names)
      /\ first = 0 => \A j \in 1..Len(names) : verdict(j) = "no"
      /\ first # 0 => verdict(first) # "no" /\ \A j \in 1..(first - 1) : verdict(j) = "no"
  BY FirstClassFits
<1>4. FilterThrows(item, classes, names) <=> first # 0 /\ verdict(first) = "throws"
  BY DEF FilterThrows, ClassOf
<1> DEFINE breaks(j) == Breaking(item, classes[names[j]])
           fits(j) == Fitting(item, classes[names[j]])
<1>a. \A j \in DOMAIN names : verdict(j) = "throws" <=> breaks(j)
  <2> SUFFICES ASSUME NEW j \in DOMAIN names
               PROVE  verdict(j) = "throws" <=> breaks(j)
    OBVIOUS
  <2>1. names[j] \in DOMAIN classes
    BY <1>1
  <2> QED
    BY <2>1, VerdictOfClass
<1>b. \A j \in DOMAIN names : verdict(j) = "yes" <=> fits(j)
  <2> SUFFICES ASSUME NEW j \in DOMAIN names
               PROVE  verdict(j) = "yes" <=> fits(j)
    OBVIOUS
  <2>1. names[j] \in DOMAIN classes
    BY <1>1
  <2> QED
    BY <2>1, VerdictOfClass
<1>c. \A j \in DOMAIN names : verdict(j) \in {"no", "yes", "throws"}
  <2> SUFFICES ASSUME NEW j \in DOMAIN names
               PROVE  verdict(j) \in {"no", "yes", "throws"}
    OBVIOUS
  <2>1. names[j] \in DOMAIN classes
    BY <1>1
  <2> QED
    BY <2>1, VerdictOfClass
<1> HIDE DEF first, verdict, breaks, fits
<1>5. ASSUME first # 0, verdict(first) = "throws"
      PROVE  Stopping(item, classes, names)
  <2>0. first \in DOMAIN names
    BY <1>1, <1>2, <1>5
  <2>1. breaks(first)
    BY <1>a, <1>5, <2>0, Zenon
  <2>2. \A j \in 1..first-1 : j \in DOMAIN names /\ verdict(j) = "no"
    BY <1>1, <1>2, <1>5
  <2>3. \A j \in 1..first-1 : ~fits(j)
    <3> SUFFICES ASSUME NEW j \in 1..first-1
                 PROVE  ~fits(j)
      OBVIOUS
    <3>1. j \in DOMAIN names /\ verdict(j) = "no"
      BY <2>2
    <3>2. verdict(j) # "yes"
      BY <3>1
    <3> QED
      BY <1>b, <3>1, <3>2, Zenon
  <2> QED
    BY <2>0, <2>1, <2>3 DEF Stopping, breaks, fits
<1>6. ASSUME Stopping(item, classes, names)
      PROVE  first # 0 /\ verdict(first) = "throws"
  <2>1. PICK i \in DOMAIN names : breaks(i) /\ \A j \in 1..i-1 : ~fits(j)
    BY <1>6 DEF Stopping, breaks, fits
  <2>2. verdict(i) = "throws"
    BY <1>a, <2>1, Zenon
  <2>3. first # 0 /\ first <= i
    <3>1. first # 0
      BY <1>1, <1>2, <2>2
    <3>2. ~(i \in 1..(first - 1))
      BY <1>2, <2>2, <3>1
    <3> QED
      BY <1>1, <1>2, <3>1, <3>2
  <2>4. CASE first = i
    BY <2>2, <2>3, <2>4
  <2>5. CASE first # i
    <3>1. first \in 1..i-1 /\ first \in DOMAIN names
      BY <1>1, <1>2, <2>3, <2>5
    <3>2. ~fits(first)
      BY <2>1, <3>1
    <3>3. verdict(first) # "yes"
      BY <1>b, <3>1, <3>2, Zenon
    <3>4. verdict(first) # "no" /\ verdict(first) \in {"no", "yes", "throws"}
      BY <1>2, <1>c, <2>3, <3>1
    <3> QED
      BY <2>3, <3>3, <3>4
  <2> QED
    BY <2>4, <2>5
<1> QED
  BY <1>4, <1>5, <1>6

\* The lists of filterData have what the property asks for.
LEMMA FilterPartitionHolds == ComputeInv => FilterPartition
<1> SUFFICES ASSUME ComputeInv, Done("filterData"), Valid(filterDataExecution, data)
             PROVE  FilterPartition
  BY DEF FilterPartition
<1> DEFINE items == data.object.data.array
           classes == data.object.primary_keys.object
           Fits(item, c) == Fitting(item, classes[c])
           Stops(item) == Stopping(item, classes, order)
           lists == outcome.data.object
           of(item) == ClassOf(item, classes, order)
           first(item) == FirstClass(item, classes, order)
<1>1. /\ outcome = filterData(data, order)
      /\ IsObject(data) /\ {"data", "primary_keys"} \subseteq DOMAIN data.object
      /\ IsArray(data.object.data) /\ IsObject(data.object.primary_keys)
      /\ category = "filterData" /\ data \in Inputs["filterData"]
      /\ "filterData" \in DOMAIN Inputs
  BY FilterResult DEF ComputeInv, Done
<1>2. items \in Seq(ToSet(items)) /\ IsFiniteSet(DOMAIN classes)
  BY <1>1, InputsAssumption DEF IsFinite
<1>3. \A c \in DOMAIN classes : IsArray(classes[c]) =>
          classes[c].array \in Seq(ToSet(classes[c].array))
  BY <1>1, InputsAssumption DEF IsFinite
<1>4. order \in Seq(DOMAIN classes) /\ \A i, j \in DOMAIN order : order[i] = order[j] => i = j
  <2>1. order \in SetToSeqs(DOMAIN classes)
    BY <1>1 DEF ComputeInv, Orders, Property, Fields
  <2>2. Cardinality(DOMAIN classes) \in Nat
    BY <1>2, FS_CardinalityType
  <2> QED
    BY <2>1, <2>2 DEF SetToSeqs
<1>5. DOMAIN order = 1..Len(order) /\ Len(order) \in Nat
  BY <1>4
<1>6. DOMAIN items = 1..Len(items) /\ Len(items) \in Nat
  BY <1>2
<1> HIDE DEF items, classes
<1>7. ASSUME NEW item
      PROVE  /\ first(item) \in 0..Len(order)
             /\ of(item) = IF first(item) = 0 THEN "unsorted" ELSE order[first(item)]
             /\ of(item) \in DOMAIN classes \cup {"unsorted"}
             /\ first(item) # 0 => ClassVerdict(item, classes[order[first(item)]]) # "no"
             /\ \A j \in 1..Len(order) : (first(item) = 0 \/ j < first(item)) =>
                   ClassVerdict(item, classes[order[j]]) = "no"
  <2>1. /\ first(item) \in 0..Len(order)
        /\ first(item) = 0 =>
              \A j \in 1..Len(order) : ClassVerdict(item, classes[order[j]]) = "no"
        /\ first(item) # 0 =>
              /\ ClassVerdict(item, classes[order[first(item)]]) # "no"
              /\ \A j \in 1..(first(item) - 1) : ClassVerdict(item, classes[order[j]]) = "no"
    BY <1>4, FirstClassFits
  <2>2. of(item) = IF first(item) = 0 THEN "unsorted" ELSE order[first(item)]
    BY DEF ClassOf
  <2>3. first(item) # 0 => order[first(item)] \in DOMAIN classes
    BY <1>4, <1>5, <2>1
  <2>4. \A j \in 1..Len(order) : j < first(item) => j \in 1..(first(item) - 1)
    BY <1>5, <2>1
  <2> HIDE DEF first, of
  <2> QED
    BY <2>1, <2>2, <2>3, <2>4
<1>8. ASSUME NEW item, NEW c \in DOMAIN classes
      PROVE  /\ ClassVerdict(item, classes[c]) = "yes" <=> Fits(item, c)
             /\ ClassVerdict(item, classes[c]) \in {"no", "yes", "throws"}
  BY <1>3, VerdictOfClass
<1>9. ASSUME NEW item
      PROVE  FilterThrows(item, classes, order) <=> Stops(item)
  BY <1>3, <1>4, ThrowsAreStops
<1>10. (\E item \in ToSet(items) : Stops(item))
         <=> \E i \in DOMAIN items : FilterThrows(items[i], classes, order)
  BY <1>9 DEF ToSet
<1>11. ASSUME \E item \in ToSet(items) : Stops(item)
       PROVE  outcome = Throws
  BY <1>1, <1>10, <1>11, FilterResult DEF ComputeInv, Done, items, classes
<1>12. ASSUME ~\E item \in ToSet(items) : Stops(item)
       PROVE  /\ \A item \in ToSet(items) : \E c \in DOMAIN lists :
                    /\ Count(lists[c].array, item) = Count(items, item)
                    /\ \A d \in DOMAIN lists \ {c} : item \notin ToSet(lists[d].array)
              /\ \A c \in DOMAIN lists : ToSet(lists[c].array) \subseteq ToSet(items)
              /\ \A i \in DOMAIN order : \A item \in ToSet(lists[order[i]].array) :
                    /\ Fits(item, order[i]) \/ order[i] = "unsorted"
                    /\ \A j \in 1..i-1 : ~Fits(item, order[j])
  <2> DEFINE P(c) == {i \in DOMAIN items : of(items[i]) = c}
  <2>1. /\ DOMAIN lists = DOMAIN classes \cup {"unsorted"}
        /\ \A c \in DOMAIN lists : lists[c].array = Chosen(items, P(c))
    <3>1. ~\E i \in DOMAIN items : FilterThrows(items[i], classes, order)
      BY <1>10, <1>12
    <3> QED
      BY <1>1, <3>1, FilterResult DEF ComputeInv, Done, items, classes
  <2>2. \A c : P(c) \in SUBSET (1..Len(items))
    BY <1>6
  <2> HIDE DEF of, lists
  <2>3. \A c \in DOMAIN lists : ToSet(lists[c].array) = {items[i] : i \in P(c)}
    <3> HIDE DEF P
    <3> QED
      BY <1>6, <2>1, <2>2, ChosenList
  <2>4. \A c \in DOMAIN lists : \A item :
           Count(lists[c].array, item) = Cardinality({i \in P(c) : items[i] = item})
    <3> HIDE DEF P
    <3> QED
      BY <1>6, <2>1, <2>2, ChosenCount
  <2>5. ASSUME NEW item \in ToSet(items)
        PROVE  \E c \in DOMAIN lists :
                  /\ Count(lists[c].array, item) = Count(items, item)
                  /\ \A d \in DOMAIN lists \ {c} : item \notin ToSet(lists[d].array)
    <3>1. of(item) \in DOMAIN lists
      BY <1>7, <2>1
    <3>2. {i \in P(of(item)) : items[i] = item} = {i \in DOMAIN items : items[i] = item}
      OBVIOUS
    <3>3. Count(lists[of(item)].array, item) = Count(items, item)
      BY <2>4, <3>1, <3>2 DEF Count
    <3>4. \A d \in DOMAIN lists \ {of(item)} : item \notin ToSet(lists[d].array)
      BY <2>3
    <3> QED
      BY <3>1, <3>3, <3>4
  <2>6. \A c \in DOMAIN lists : ToSet(lists[c].array) \subseteq ToSet(items)
    BY <2>3 DEF ToSet
  <2>7. ASSUME NEW i \in DOMAIN order, NEW item \in ToSet(lists[order[i]].array)
        PROVE  /\ Fits(item, order[i]) \/ order[i] = "unsorted"
               /\ \A j \in 1..i-1 : ~Fits(item, order[j])
    <3>1. order[i] \in DOMAIN classes /\ order[i] \in DOMAIN lists /\ i \in 1..Len(order)
      BY <1>4, <1>5, <2>1
    <3>2. of(item) = order[i] /\ item \in ToSet(items)
      BY <2>3, <2>6, <3>1
    <3>3. \A j \in DOMAIN order : order[j] \in DOMAIN classes
      BY <1>4
    <3>4. first(item) = 0 \/ first(item) = i
      BY <1>4, <1>5, <1>7, <3>1, <3>2
    <3>5. ASSUME NEW j \in 1..Len(order), ClassVerdict(item, classes[order[j]]) = "no"
          PROVE  ~Fits(item, order[j])
      <4>1. order[j] \in DOMAIN classes
        BY <1>5, <3>3
      <4>2. ClassVerdict(item, classes[order[j]]) # "yes"
        BY <3>5
      <4> QED
        BY <1>8, <4>1, <4>2
    <3>6. \A j \in 1..i-1 : ~Fits(item, order[j])
      <4>1. \A j \in 1..i-1 : j \in 1..Len(order) /\ j < i
        BY <1>5, <3>1
      <4>2. \A j \in 1..i-1 : ClassVerdict(item, classes[order[j]]) = "no"
        BY <1>7, <3>4, <4>1
      <4> HIDE DEF Fits
      <4> QED
        BY <3>5, <4>1, <4>2
    <3>7. CASE first(item) = 0
      BY <1>7, <3>2, <3>6, <3>7
    <3>8. CASE first(item) = i
      <4>1. ClassVerdict(item, classes[order[i]]) # "no" /\ first(item) # 0
        BY <1>5, <1>7, <3>1, <3>8
      <4>2. ~FilterThrows(item, classes, order)
        BY <1>9, <1>12, <3>2
      <4>3. ClassVerdict(item, classes[order[i]]) # "throws"
        BY <3>2, <4>1, <4>2 DEF FilterThrows, of, first
      <4>4. Fits(item, order[i])
        BY <1>8, <3>1, <4>1, <4>3
      <4> QED
        BY <3>6, <4>4
    <3> QED
      BY <3>4, <3>7, <3>8
  <2> QED
    BY <2>5, <2>6, <2>7
<1> QED
  BY <1>11, <1>12
     DEF FilterPartition, Given, Stopping, Fitting, Breaking, items, classes

(***************************************************************************)
(* For any data and classes, filterData puts every item in one list, as    *)
(* often as it is given, that of the first class it fits, and throws       *)
(* exactly if an item gets as far as a class that is no list, or a null    *)
(* among its alternatives (FilterPartition).                               *)
(***************************************************************************)
THEOREM FilterIsPartition == Spec => []FilterPartition
  BY ComputeInvInit, ComputeInvInductive, FilterPartitionHolds, PTL DEF Spec

LEMMA LeastOf ==
    ASSUME NEW S \in SUBSET Nat, S # {}
    PROVE  \E x \in S : \A y \in S : x <= y
<1>1. PICK x \in S : \A y \in S : ~ (<<y, x>> \in OpToRel(<, Nat))
  BY NatLessThanWellFounded, WFMin
<1>2. \A y \in S : ~ (y < x)
  BY <1>1 DEF OpToRel
<1>3. QED
  BY <1>2

-----------------------------------------------------------------------------
(* remapData *)

(***************************************************************************)
(* A call for a dictionary asks for nothing but the calls for those in it. *)
(***************************************************************************)
LEMMA CallIsLocal ==
    ASSUME NEW item, NEW d \in DOMAIN Depth, NEW f, NEW g,
           \A e \in DOMAIN Depth : Depth[e] < Depth[d] => f[e] = g[e]
    PROVE  RemapCall(item, d, f) = RemapCall(item, d, g)
<1> DEFINE entries == Fields(d)
           nested == {entries[k] : k \in {k \in DOMAIN entries : Nests(entries[k])}}
<1>1. \A k \in DOMAIN entries : Nests(entries[k]) => f[entries[k]] = g[entries[k]]
  BY DictionariesAssumption
<1>2. \A k \in DOMAIN entries : Entry(item, entries[k], f) = Entry(item, entries[k], g)
  BY <1>1 DEF Entry
<1>3. \A e \in nested : f[e] = g[e]
  BY <1>1
<1>4. UNION {f[e].messages : e \in nested} = UNION {g[e].messages : e \in nested}
  BY <1>3
<1>5. (\E e \in nested : f[e].throws) <=> (\E e \in nested : g[e].throws)
  BY <1>3
<1> DEFINE foundF == {k \in DOMAIN entries : Entry(item, entries[k], f) # Undefined}
           foundG == {k \in DOMAIN entries : Entry(item, entries[k], g) # Undefined}
<1>6. foundF = foundG
  BY <1>2
<1>7. [k \in foundF |-> Entry(item, entries[k], f)] = [k \in foundG |-> Entry(item, entries[k], g)]
  BY <1>2, <1>6
<1>8. {entries[k] : k \in DOMAIN entries \ foundF} = {entries[k] : k \in DOMAIN entries \ foundG}
  BY <1>6
<1> QED
  BY <1>4, <1>5, <1>7, <1>8, Zenon DEF RemapCall

(***************************************************************************)
(* The calls there are for dictionaries of less than a depth are the only  *)
(* ones, and there are such calls: so remapData returns what it computes   *)
(* of what it returns for the dictionaries in its own.                     *)
(***************************************************************************)
LEMMA RemapEquation ==
    ASSUME NEW item
    PROVE  \E remap : \A d \in DOMAIN Depth :
              Remap(item, d) = remap[d] /\ remap[d] = RemapCall(item, d, remap)
<1> DEFINE D == DOMAIN Depth
           Below(n) == {d \in D : Depth[d] < n}
           Calls(f, n) == f = [d \in Below(n) |-> RemapCall(item, d, f)]
<1>1. \A d \in D : Depth[d] \in Nat
  BY DictionariesAssumption
<1>2. ASSUME NEW n \in Nat, NEW m \in Nat, NEW f, NEW g, Calls(f, n), Calls(g, m)
      PROVE  \A d \in Below(n) \cap Below(m) : f[d] = g[d]
  <2> DEFINE S == {Depth[d] : d \in {e \in Below(n) \cap Below(m) : f[e] # g[e]}}
  <2>1. SUFFICES ASSUME S # {}
                 PROVE  FALSE
    OBVIOUS
  <2>2. S \in SUBSET Nat
    BY <1>1
  <2>3. PICK x \in S : \A y \in S : x <= y
    <3> HIDE DEF S
    <3> QED
      BY <2>1, <2>2, LeastOf
  <2>4. PICK d \in Below(n) \cap Below(m) : f[d] # g[d] /\ Depth[d] = x
    OBVIOUS
  <2>5. \A e \in D : Depth[e] < Depth[d] => f[e] = g[e]
    <3> SUFFICES ASSUME NEW e \in D, Depth[e] < Depth[d], f[e] # g[e]
                 PROVE  FALSE
      OBVIOUS
    <3>1. Depth[d] \in Nat /\ Depth[e] \in Nat /\ Depth[d] < n /\ Depth[d] < m
      BY <1>1, <2>4
    <3>2. e \in Below(n) \cap Below(m)
      BY <3>1
    <3>3. Depth[e] \in S
      BY <3>2
    <3> QED
      BY <2>3, <2>4, <3>1, <3>3
  <2>6. f[d] = RemapCall(item, d, f) /\ g[d] = RemapCall(item, d, g)
    BY <1>2, <2>4
  <2> QED
    BY <2>4, <2>5, <2>6, CallIsLocal
<1>3. \A n \in Nat : \E f : Calls(f, n)
  <2> DEFINE S == {n \in Nat : ~\E f : Calls(f, n)}
  <2>1. SUFFICES ASSUME S # {}
                 PROVE  FALSE
    OBVIOUS
  <2>2. PICK n \in S : \A y \in S : n <= y
    <3>1. S \in SUBSET Nat
      OBVIOUS
    <3> HIDE DEF S
    <3> QED
      BY <2>1, <3>1, LeastOf
  <2>3. CASE n = 0
    <3>1. Below(n) = {}
      BY <1>1, <2>3
    <3>2. Calls([d \in {} |-> RemapCall(item, d, <<>>)], n)
      BY <3>1
    <3> QED
      BY <3>2
  <2>4. CASE n # 0
    <3>1. n - 1 \in Nat /\ \E f : Calls(f, n - 1)
      <4>1. n \in Nat /\ n - 1 \in Nat
        BY <2>4
      <4>2. n - 1 \notin S
        <5>1. ~(n <= n - 1)
          BY <4>1
        <5> HIDE DEF S
        <5> QED
          BY <2>2, <5>1
      <4> HIDE DEF Calls
      <4> QED
        BY <4>1, <4>2
    <3>2. PICK f : Calls(f, n - 1)
      BY <3>1
    <3> DEFINE g == [d \in Below(n) |-> RemapCall(item, d, f)]
    <3>3. ASSUME NEW d \in Below(n)
          PROVE  RemapCall(item, d, f) = RemapCall(item, d, g)
      <4>1. ASSUME NEW e \in D, Depth[e] < Depth[d]
            PROVE  f[e] = g[e]
        <5>1. Depth[e] \in Nat /\ Depth[d] \in Nat /\ Depth[d] < n
          BY <1>1
        <5>2. e \in Below(n - 1) /\ e \in Below(n)
          BY <4>1, <5>1
        <5>3. f[e] = RemapCall(item, e, f)
          BY <3>2, <5>2
        <5> QED
          BY <5>2, <5>3
      <4> HIDE DEF g
      <4> QED
        BY <4>1, CallIsLocal
    <3>4. Calls(g, n)
      BY <3>3
    <3> QED
      BY <3>4
  <2> QED
    BY <2>3, <2>4
<1> DEFINE F(n) == CHOOSE f : Calls(f, n)
           G == [d \in D |-> F(Depth[d] + 1)[d]]
<1>4. \A n \in Nat : Calls(F(n), n)
  <2> SUFFICES ASSUME NEW n \in Nat
               PROVE  Calls(F(n), n)
    OBVIOUS
  <2>1. \E f : Calls(f, n)
    BY <1>3
  <2> HIDE DEF Calls
  <2> QED
    BY <2>1
<1>5. G = [d \in D |-> RemapCall(item, d, G)]
  <2> SUFFICES ASSUME NEW d \in D
               PROVE  F(Depth[d] + 1)[d] = RemapCall(item, d, G)
    OBVIOUS
  <2>1. Depth[d] \in Nat /\ Depth[d] + 1 \in Nat /\ d \in Below(Depth[d] + 1)
    BY <1>1
  <2>2. Calls(F(Depth[d] + 1), Depth[d] + 1)
    BY <1>4, <2>1
  <2>3. F(Depth[d] + 1)[d] = RemapCall(item, d, F(Depth[d] + 1))
    <3> HIDE DEF F
    <3> QED
      BY <2>1, <2>2
  <2>4. ASSUME NEW e \in D, Depth[e] < Depth[d]
        PROVE  F(Depth[d] + 1)[e] = G[e]
    <3>1. Depth[e] \in Nat /\ Depth[e] + 1 \in Nat
      BY <1>1
    <3>2. e \in Below(Depth[e] + 1) \cap Below(Depth[d] + 1)
      BY <2>1, <2>4, <3>1
    <3>3. Calls(F(Depth[e] + 1), Depth[e] + 1)
      BY <1>4, <3>1
    <3>4. F(Depth[d] + 1)[e] = F(Depth[e] + 1)[e]
      <4> HIDE DEF F, Calls, Below
      <4> QED
        BY <1>2, <2>1, <2>2, <3>1, <3>2, <3>3
    <3> QED
      BY <3>4
  <2>5. RemapCall(item, d, F(Depth[d] + 1)) = RemapCall(item, d, G)
    <3> HIDE DEF F, G
    <3> QED
      BY <2>4, CallIsLocal
  <2> QED
    BY <2>3, <2>5
<1> DEFINE remap == CHOOSE f : f = [d \in D |-> RemapCall(item, d, f)]
<1>6. remap = [d \in D |-> RemapCall(item, d, remap)]
  <2> HIDE DEF G
  <2> QED
    BY <1>5
<1>7. \A d \in D : Remap(item, d) = remap[d]
  BY DEF Remap
<1> HIDE DEF remap
<1> QED
  BY <1>6, <1>7

(***************************************************************************)
(* What is within a value goes by the first key of the path.               *)
(***************************************************************************)
Walk(value, path, n) ==
    CHOOSE f : f = [i \in 0..n |-> IF i = 0 THEN value ELSE Held(f[i - 1], path[i])]

LEMMA WalkExists ==
    ASSUME NEW value, NEW path, NEW n \in Nat
    PROVE  LET along == Walk(value, path, n)
           IN  along[0] = value /\ \A i \in 1..n : along[i] = Held(along[i - 1], path[i])
<1> DEFINE Walks(f, m) == f = [i \in 0..m |-> IF i = 0 THEN value
                                             ELSE Held(f[i - 1], path[i])]
           S == {m \in Nat : ~\E f : Walks(f, m)}
<1>1. S = {}
  <2> SUFFICES ASSUME S # {}
               PROVE  FALSE
    OBVIOUS
  <2>1. PICK m \in S : \A y \in S : m <= y
    <3>1. S \in SUBSET Nat
      OBVIOUS
    <3> HIDE DEF S
    <3> QED
      BY <3>1, LeastOf
  <2>2. CASE m = 0
    <3> DEFINE f == [i \in 0..0 |-> value]
    <3>1. Walks(f, 0)
      BY 0..0 = {0}
    <3> QED
      BY <2>2, <3>1
  <2>3. CASE m # 0
    <3>1. m - 1 \in Nat /\ m - 1 \notin S
      BY <2>1, <2>3
    <3>2. PICK f : Walks(f, m - 1)
      BY <3>1
    <3> DEFINE g == [i \in 0..m |-> IF i = 0 THEN value ELSE Held(f[i - 1], path[i])]
    <3>3. ASSUME NEW i \in 0..m, i # 0
          PROVE  f[i - 1] = g[i - 1]
      <4>1. i - 1 \in 0..(m - 1) /\ i - 1 \in 0..m
        BY <3>1, <3>3
      <4> QED
        BY <3>2, <4>1
    <3>4. Walks(g, m)
      <4>1. \A i \in 0..m : (IF i = 0 THEN value ELSE Held(f[i - 1], path[i]))
                          = (IF i = 0 THEN value ELSE Held(g[i - 1], path[i]))
        <5> HIDE DEF g
        <5> QED
          BY <3>3
      <4> QED
        BY <4>1
    <3> QED
      BY <3>4
  <2> QED
    BY <2>2, <2>3
<1> DEFINE along == CHOOSE f : Walks(f, n)
<1>2. Walks(along, n)
  <2>1. \E f : Walks(f, n)
    BY <1>1
  <2> HIDE DEF Walks
  <2> QED
    BY <2>1
<1> HIDE DEF along
<1>3. along[0] = value /\ \A i \in 1..n : along[i] = Held(along[i - 1], path[i])
  BY <1>2
<1> QED
  BY <1>3 DEF along, Walk

LEMMA PlaceFirst ==
    ASSUME NEW value, NEW S, NEW path \in Seq(S)
    PROVE  /\ path = <<>> => Place(value, path) = value
           /\ path # <<>> =>
                 Place(value, path) = Place(Held(value, Head(path)), Tail(path))
<1> DEFINE n == Len(path)
           along == Walk(value, path, n)
<1>1. n \in Nat
  OBVIOUS
<1>2. along[0] = value /\ \A i \in 1..n : along[i] = Held(along[i - 1], path[i])
  <2> HIDE DEF n
  <2> QED
    BY <1>1, WalkExists
<1>3. Place(value, path) = along[n]
  BY DEF Place, Walk
<1>4. path = <<>> => Place(value, path) = value
  <2> HIDE DEF along
  <2> QED
    BY <1>2, <1>3
<1>5. ASSUME path # <<>>
      PROVE  Place(value, path) = Place(Held(value, Head(path)), Tail(path))
  <2> DEFINE first == Held(value, Head(path))
             rest == Tail(path)
             m == Len(rest)
             to == Walk(first, rest, m)
  <2>1. m \in Nat /\ n = m + 1 /\ \A i \in 1..m : rest[i] = path[i + 1]
    BY <1>5
  <2>2. to[0] = first /\ \A i \in 1..m : to[i] = Held(to[i - 1], rest[i])
    <3>1. m \in Nat
      BY <2>1
    <3> HIDE DEF m, rest, first
    <3> QED
      BY <3>1, WalkExists
  <2>3. Place(first, rest) = to[m]
    BY DEF Place, Walk
  <2> DEFINE Bad == {i \in 0..m : along[i + 1] # to[i]}
  <2>4. Bad = {}
    <3> SUFFICES ASSUME Bad # {}
                 PROVE  FALSE
      OBVIOUS
    <3>1. PICK i \in Bad : \A y \in Bad : i <= y
      <4>1. Bad \in SUBSET Nat
        BY <2>1
      <4> HIDE DEF Bad
      <4> QED
        BY <4>1, LeastOf
    <3> HIDE DEF along, to, n, m, rest
    <3>2. i \in 0..m /\ along[i + 1] # to[i]
      OBVIOUS
    <3>3. CASE i = 0
      <4>1. along[1] = Held(along[0], path[1])
        BY <1>2, <2>1
      <4>2. path[1] = Head(path)
        BY <1>5
      <4> QED
        BY <1>2, <2>2, <3>2, <3>3, <4>1, <4>2
    <3>4. CASE i # 0
      <4>1. i \in 1..m /\ i - 1 \in 0..m /\ i - 1 \notin Bad /\ i + 1 \in 1..n
        BY <2>1, <3>1, <3>2, <3>4
      <4>2. along[(i - 1) + 1] = to[i - 1] /\ (i - 1) + 1 = i /\ (i + 1) - 1 = i
        BY <2>1, <4>1
      <4>3. along[i + 1] = Held(along[i], path[i + 1])
        BY <1>2, <4>1, <4>2
      <4>4. to[i] = Held(to[i - 1], rest[i]) /\ rest[i] = path[i + 1]
        BY <2>1, <2>2, <4>1
      <4> QED
        BY <3>2, <4>2, <4>3, <4>4
    <3> QED
      BY <3>3, <3>4
  <2> HIDE DEF along, to, n, m
  <2>5. m \in 0..m /\ along[m + 1] = to[m]
    BY <2>1, <2>4
  <2> QED
    BY <1>3, <2>1, <2>3, <2>5
<1> QED
  BY <1>4, <1>5

LEMMA PlaceCons ==
    ASSUME NEW S, NEW k \in S, NEW q \in Seq(S), NEW value
    PROVE  Place(value, <<k>> \o q) = Place(Held(value, k), q)
<1> DEFINE path == <<k>> \o q
<1>1. path \in Seq(S) /\ path # <<>> /\ Head(path) = k /\ Tail(path) = q
  OBVIOUS
<1> HIDE DEF path
<1>2. Place(value, path) = Place(Held(value, Head(path)), Tail(path))
  BY <1>1, PlaceFirst
<1> QED
  BY <1>1, <1>2 DEF path

LEMMA PlaceOne ==
    ASSUME NEW k, NEW value
    PROVE  Place(value, <<k>>) = Held(value, k)
<1>1. <<>> \in Seq({k}) /\ k \in {k} /\ <<k>> \o <<>> = <<k>>
  OBVIOUS
<1>2. Place(value, <<k>> \o <<>>) = Place(Held(value, k), <<>>)
  BY <1>1, PlaceCons
<1>3. Place(Held(value, k), <<>>) = Held(value, k)
  BY <1>1, PlaceFirst
<1> QED
  BY <1>1, <1>2, <1>3

(***************************************************************************)
(* There is nothing within what is not there.                              *)
(***************************************************************************)
LEMMA PlaceNothing ==
    ASSUME NEW S
    PROVE  \A path \in Seq(S) : Place(Undefined, path) = Undefined
<1> DEFINE Bad == {Len(path) : path \in {q \in Seq(S) : Place(Undefined, q) # Undefined}}
<1> SUFFICES ASSUME Bad # {}
             PROVE  FALSE
  OBVIOUS
<1>1. PICK n \in Bad : \A m \in Bad : n <= m
  <2>1. Bad \in SUBSET Nat
    OBVIOUS
  <2> HIDE DEF Bad
  <2> QED
    BY <2>1, LeastOf
<1>2. PICK path \in Seq(S) : Place(Undefined, path) # Undefined /\ Len(path) = n
  OBVIOUS
<1>3. path # <<>>
  BY <1>2, PlaceFirst
<1>4. Held(Undefined, Head(path)) = Undefined
  BY DEF Held, Undefined, Nests, IsObject, IsArray, Is
<1>5. Place(Undefined, path) = Place(Undefined, Tail(path))
  BY <1>3, <1>4, PlaceFirst
<1>6. Tail(path) \in Seq(S) /\ Len(path) \in Nat /\ Len(Tail(path)) = Len(path) - 1
  BY <1>3
<1>7. Len(Tail(path)) \in Bad
  BY <1>2, <1>5, <1>6
<1> HIDE DEF Bad
<1> QED
  BY <1>1, <1>2, <1>6, <1>7

LEMMA PlaceScalar ==
    ASSUME NEW value, ~Nests(value), NEW S, NEW path \in Seq(S), path # <<>>
    PROVE  Place(value, path) = Undefined
<1>1. Held(value, Head(path)) = Undefined
  BY DEF Held
<1>2. Tail(path) \in Seq(S)
  OBVIOUS
<1>3. Place(value, path) = Place(Undefined, Tail(path))
  BY <1>1, PlaceFirst
<1> QED
  BY <1>2, <1>3, PlaceNothing

\* The entry of a dictionary that a path begins with.
LEMMA FirstEntry ==
    ASSUME NEW d \in DOMAIN Depth, NEW S, NEW path \in Seq(S), Place(d, path) # Undefined,
           path # <<>>
    PROVE  /\ Head(path) \in DOMAIN Fields(d)
           /\ Place(d, path) = Place(Fields(d)[Head(path)], Tail(path))
           /\ ~Nests(Fields(d)[Head(path)]) => Tail(path) = <<>>
<1> DEFINE k == Head(path)
<1>1. Tail(path) \in Seq(S)
  OBVIOUS
<1>2. Place(d, path) = Place(Held(d, k), Tail(path))
  BY PlaceFirst
<1>3. k \in DOMAIN Fields(d)
  <2>1. SUFFICES ASSUME k \notin DOMAIN Fields(d)
                 PROVE  FALSE
    OBVIOUS
  <2>2. Held(d, k) = Undefined
    BY <2>1 DEF Held
  <2> QED
    BY <1>1, <1>2, <2>2, PlaceNothing
<1>4. Held(d, k) = Fields(d)[k]
  BY <1>3, DictionariesAssumption DEF Held
<1>5. ~Nests(Fields(d)[k]) => Tail(path) = <<>>
  BY <1>1, <1>2, <1>4, PlaceScalar
<1> QED
  BY <1>2, <1>3, <1>4, <1>5

(***************************************************************************)
(* No path into a dictionary is longer than the dictionary is deep.        *)
(***************************************************************************)
LEMMA PathsAreShort ==
    ASSUME NEW S
    PROVE  \A path \in Seq(S) : \A d \in DOMAIN Depth :
               Place(d, path) # Undefined => Len(path) <= Depth[d] + 1
<1> DEFINE Long(path, d) == Place(d, path) # Undefined /\ ~(Len(path) <= Depth[d] + 1)
           Bad == {Len(path) : path \in {q \in Seq(S) : \E d \in DOMAIN Depth : Long(q, d)}}
<1> SUFFICES ASSUME Bad # {}
             PROVE  FALSE
  OBVIOUS
<1>1. PICK n \in Bad : \A m \in Bad : n <= m
  <2>1. Bad \in SUBSET Nat
    OBVIOUS
  <2> HIDE DEF Bad
  <2> QED
    BY <2>1, LeastOf
<1>2. PICK path \in Seq(S) : Len(path) = n /\ \E d \in DOMAIN Depth : Long(path, d)
  <2> HIDE DEF Long
  <2> QED
    OBVIOUS
<1>3. PICK d \in DOMAIN Depth : Long(path, d)
  BY <1>2
<1>4. Depth[d] \in Nat
  BY DictionariesAssumption
<1>5. path # <<>> /\ Tail(path) \in Seq(S) /\ Len(path) \in Nat
      /\ Len(Tail(path)) = Len(path) - 1 /\ Len(path) > Depth[d] + 1
  <2>1. Len(path) \in Nat /\ ~(Len(path) <= Depth[d] + 1)
    BY <1>3
  <2>2. path # <<>>
    BY <1>4, <2>1
  <2> QED
    BY <1>4, <2>1, <2>2
<1> DEFINE e == Fields(d)[Head(path)]
<1>6. /\ Head(path) \in DOMAIN Fields(d)
      /\ Place(d, path) = Place(e, Tail(path))
      /\ ~Nests(e) => Tail(path) = <<>>
  BY <1>3, <1>5, FirstEntry
<1>7. Nests(e)
  <2>1. Len(Tail(path)) # 0
    BY <1>4, <1>5
  <2>2. Tail(path) # <<>>
    <3>1. Len(<<>>) = 0
      OBVIOUS
    <3> QED
      BY <2>1, <3>1, Zenon
  <2> QED
    BY <1>6, <2>2
<1>8. e \in DOMAIN Depth /\ Depth[e] \in Nat /\ Depth[e] < Depth[d]
  BY <1>6, <1>7, DictionariesAssumption
<1>9. Long(Tail(path), e)
  <2>1. ~(Len(Tail(path)) <= Depth[e] + 1)
    BY <1>4, <1>5, <1>8
  <2> QED
    BY <1>3, <1>6, <2>1
<1>10. Len(Tail(path)) \in Bad
  <2> HIDE DEF Long
  <2> QED
    BY <1>5, <1>8, <1>9
<1> HIDE DEF Bad
<1> QED
  BY <1>1, <1>2, <1>5, <1>10

DictionaryKeys == UNION {DOMAIN Fields(d) : d \in DOMAIN Depth}

(***************************************************************************)
(* The bound on the paths leaves none out.                                 *)
(***************************************************************************)
LEMMA LeavesAre ==
    ASSUME NEW d \in DOMAIN Depth, NEW path
    PROVE  path \in Leaves(d) <=> /\ path \in Seq(DictionaryKeys)
                                  /\ Place(d, path) # Undefined
                                  /\ ~Nests(Place(d, path))
<1>1. Depth[d] + 1 \in Nat
  BY DictionariesAssumption
<1>2. path \in BoundedSeq(DictionaryKeys, Depth[d] + 1)
        <=> path \in Seq(DictionaryKeys) /\ Len(path) <= Depth[d] + 1
  <2>1. path \in BoundedSeq(DictionaryKeys, Depth[d] + 1)
          <=> \E m \in 0..(Depth[d] + 1) : path \in [1..m -> DictionaryKeys]
    BY DEF BoundedSeq, SeqOf
  <2>2. ASSUME NEW m \in 0..(Depth[d] + 1), path \in [1..m -> DictionaryKeys]
        PROVE  path \in Seq(DictionaryKeys) /\ Len(path) <= Depth[d] + 1
    <3>1. m \in Nat /\ m <= Depth[d] + 1
      BY <1>1
    <3> QED
      BY <2>2, <3>1
  <2>3. ASSUME path \in Seq(DictionaryKeys), Len(path) <= Depth[d] + 1
        PROVE  \E m \in 0..(Depth[d] + 1) : path \in [1..m -> DictionaryKeys]
    <3>1. Len(path) \in 0..(Depth[d] + 1) /\ path \in [1..Len(path) -> DictionaryKeys]
      BY <1>1, <2>3
    <3> QED
      BY <3>1
  <2> QED
    BY <2>1, <2>2, <2>3
<1>3. path \in Seq(DictionaryKeys) /\ Place(d, path) # Undefined => Len(path) <= Depth[d] + 1
  BY PathsAreShort
<1> QED
  BY <1>2, <1>3 DEF Leaves, DictionaryKeys

(***************************************************************************)
(* The leaves of a dictionary are its entries that are no dictionaries,    *)
(* and those of its entries that are.                                      *)
(***************************************************************************)
LEMMA LeavesGoDown ==
    ASSUME NEW d \in DOMAIN Depth
    PROVE  /\ \A path \in Leaves(d) : \E k \in DOMAIN Fields(d) :
                  \/ ~Nests(Fields(d)[k]) /\ path = <<k>>
                  \/ Nests(Fields(d)[k]) /\ \E q \in Leaves(Fields(d)[k]) : path = <<k>> \o q
           /\ \A k \in DOMAIN Fields(d) : ~Nests(Fields(d)[k]) => <<k>> \in Leaves(d)
           /\ \A k \in DOMAIN Fields(d) : Nests(Fields(d)[k]) =>
                  \A q \in Leaves(Fields(d)[k]) : <<k>> \o q \in Leaves(d)
<1>1. ASSUME NEW path \in Leaves(d)
      PROVE  \E k \in DOMAIN Fields(d) :
                  \/ ~Nests(Fields(d)[k]) /\ path = <<k>>
                  \/ Nests(Fields(d)[k]) /\ \E q \in Leaves(Fields(d)[k]) : path = <<k>> \o q
  <2>1. path \in Seq(DictionaryKeys) /\ Place(d, path) # Undefined /\ ~Nests(Place(d, path))
    BY <1>1, LeavesAre
  <2>2. path # <<>>
    <3>1. Nests(d)
      BY DictionariesAssumption
    <3> QED
      BY <2>1, <3>1, PlaceFirst
  <2> DEFINE k == Head(path)
             q == Tail(path)
  <2>3. /\ k \in DOMAIN Fields(d)
        /\ Place(d, path) = Place(Fields(d)[k], q)
        /\ ~Nests(Fields(d)[k]) => q = <<>>
    BY <2>1, <2>2, FirstEntry
  <2>4. path = <<k>> \o q /\ q \in Seq(DictionaryKeys)
    BY <2>1, <2>2
  <2>5. CASE ~Nests(Fields(d)[k])
    <3>1. q = <<>>
      BY <2>3, <2>5
    <3>2. path = <<k>>
      <4>1. <<k>> \o <<>> = <<k>>
        OBVIOUS
      <4> HIDE DEF k, q
      <4> QED
        BY <2>4, <3>1, <4>1
    <3> QED
      BY <2>3, <2>5, <3>2
  <2>6. CASE Nests(Fields(d)[k])
    <3>1. Fields(d)[k] \in DOMAIN Depth
      BY <2>3, <2>6, DictionariesAssumption
    <3>2. q \in Leaves(Fields(d)[k])
      BY <2>1, <2>3, <2>4, <3>1, LeavesAre
    <3> QED
      BY <2>3, <2>4, <2>6, <3>2
  <2> QED
    BY <2>5, <2>6
<1>2. ASSUME NEW k \in DOMAIN Fields(d)
      PROVE  k \in DictionaryKeys /\ Held(d, k) = Fields(d)[k] /\ Fields(d)[k] # Undefined
  BY DictionariesAssumption DEF DictionaryKeys, Held
<1>3. ASSUME NEW k \in DOMAIN Fields(d), ~Nests(Fields(d)[k])
      PROVE  <<k>> \in Leaves(d)
  <2>1. <<k>> \in Seq(DictionaryKeys)
    BY <1>2
  <2>2. Place(d, <<k>>) = Fields(d)[k]
    BY <1>2, PlaceOne
  <2> QED
    BY <1>2, <1>3, <2>1, <2>2, LeavesAre
<1>4. ASSUME NEW k \in DOMAIN Fields(d), Nests(Fields(d)[k]), NEW q \in Leaves(Fields(d)[k])
      PROVE  <<k>> \o q \in Leaves(d)
  <2>1. Fields(d)[k] \in DOMAIN Depth
    BY <1>4, DictionariesAssumption
  <2>2. /\ q \in Seq(DictionaryKeys)
        /\ Place(Fields(d)[k], q) # Undefined /\ ~Nests(Place(Fields(d)[k], q))
    BY <2>1, <1>4, LeavesAre
  <2>3. <<k>> \o q \in Seq(DictionaryKeys)
    BY <1>2, <2>2
  <2>4. Place(d, <<k>> \o q) = Place(Fields(d)[k], q)
    <3>1. Place(d, <<k>> \o q) = Place(Held(d, k), q)
      BY <1>2, <2>2, PlaceCons
    <3> QED
      BY <1>2, <3>1
  <2> QED
    BY <2>2, <2>3, <2>4, LeavesAre
<1> QED
  BY <1>1, <1>3, <1>4

\* A call tells of every leaf of its dictionary.
Tells(item, d) ==
    LET r == Remap(item, d)
    IN  /\ r.throws <=> \E path \in Leaves(d) : Place(d, path) = Null
        /\ r.messages = {} <=> \A path \in Leaves(d) : Asked(item, d, path) # Undefined
        /\ IsObject(r.made)
        /\ DOMAIN r.made.object = {} =>
              \A path \in Leaves(d) : Asked(item, d, path) = Undefined
        /\ DOMAIN r.made.object = {} <=>
              \A k \in DOMAIN Fields(d) :
                  ~Nests(Fields(d)[k]) /\ Asked(item, d, <<k>>) = Undefined
        /\ \A path \in Leaves(d) : Place(r.made, path) = Asked(item, d, path)

(***************************************************************************)
(* If the calls for the dictionaries in it tell of their leaves, so does   *)
(* that for the dictionary.                                                *)
(***************************************************************************)
LEMMA CallTells ==
    ASSUME NEW item, NEW d \in DOMAIN Depth,
           \A e \in DOMAIN Depth : Depth[e] < Depth[d] => Tells(item, e)
    PROVE  Tells(item, d)
<1> DEFINE entries == Fields(d)
           keys == DOMAIN Fields(d)
           inner == {k \in keys : Nests(entries[k])}
           r == Remap(item, d)
<1>1. PICK remap : \A e \in DOMAIN Depth :
         Remap(item, e) = remap[e] /\ remap[e] = RemapCall(item, e, remap)
  BY RemapEquation
<1> DEFINE value(k) == Entry(item, entries[k], remap)
           found == {k \in keys : value(k) # Undefined}
<1>2. /\ r.made = Obj([k \in found |-> value(k)])
      /\ r.messages = {entries[k] : k \in keys \ found}
                        \cup UNION {remap[e].messages : e \in {entries[k] : k \in inner}}
      /\ r.throws <=> \/ \E k \in keys : entries[k] = Null
                      \/ \E k \in inner : remap[entries[k]].throws
  <2>1. r = RemapCall(item, d, remap)
    BY <1>1
  <2> HIDE DEF r
  <2> QED
    BY <2>1 DEF RemapCall
<1>3. \A k \in inner : /\ entries[k] \in DOMAIN Depth
                        /\ Tells(item, entries[k])
                        /\ remap[entries[k]] = Remap(item, entries[k])
                        /\ value(k) = Remap(item, entries[k]).made
                        /\ value(k) # Undefined
  <2> SUFFICES ASSUME NEW k \in inner
               PROVE  /\ entries[k] \in DOMAIN Depth
                      /\ Tells(item, entries[k])
                      /\ remap[entries[k]] = Remap(item, entries[k])
                      /\ value(k) = Remap(item, entries[k]).made
                      /\ value(k) # Undefined
    OBVIOUS
  <2>1. entries[k] \in DOMAIN Depth /\ Depth[entries[k]] < Depth[d]
    BY DictionariesAssumption
  <2>2. Tells(item, entries[k]) /\ remap[entries[k]] = Remap(item, entries[k])
    BY <1>1, <2>1
  <2>3. value(k) = Remap(item, entries[k]).made
    BY <2>2 DEF Entry
  <2>4. IsObject(value(k))
    BY <2>2, <2>3 DEF Tells
  <2>5. ~IsObject(Undefined)
    BY DEF IsObject, Is, Undefined
  <2> QED
    BY <2>1, <2>2, <2>3, <2>4, <2>5
<1>4. \A k \in keys \ inner : /\ <<k>> \in Leaves(d)
                               /\ Place(d, <<k>>) = entries[k]
                               /\ Asked(item, d, <<k>>) = value(k)
                               /\ Place(r.made, <<k>>) = value(k)
  <2> SUFFICES ASSUME NEW k \in keys \ inner
               PROVE  /\ <<k>> \in Leaves(d)
                      /\ Place(d, <<k>>) = entries[k]
                      /\ Asked(item, d, <<k>>) = value(k)
                      /\ Place(r.made, <<k>>) = value(k)
    OBVIOUS
  <2>1. <<k>> \in Leaves(d)
    BY LeavesGoDown
  <2>2. \A v : Place(v, <<k>>) = Held(v, k)
    BY PlaceOne
  <2>3. Place(d, <<k>>) = entries[k]
    BY <2>2, DictionariesAssumption DEF Held
  <2>4. Asked(item, d, <<k>>) = value(k)
    BY <2>3 DEF Asked, Entry
  <2>5. Held(r.made, k) = value(k)
    <3> HIDE DEF value, r
    <3> QED
      BY <1>2 DEF Held, Nests, Fields, Obj, IsObject, Is
  <2> QED
    BY <2>1, <2>2, <2>3, <2>4, <2>5
<1>5. \A k \in inner : \A q \in Leaves(entries[k]) :
         /\ <<k>> \o q \in Leaves(d)
         /\ Place(d, <<k>> \o q) = Place(entries[k], q)
         /\ Asked(item, d, <<k>> \o q) = Asked(item, entries[k], q)
         /\ Place(r.made, <<k>> \o q) = Asked(item, entries[k], q)
  <2> SUFFICES ASSUME NEW k \in inner, NEW q \in Leaves(entries[k])
               PROVE  /\ <<k>> \o q \in Leaves(d)
                      /\ Place(d, <<k>> \o q) = Place(entries[k], q)
                      /\ Asked(item, d, <<k>> \o q) = Asked(item, entries[k], q)
                      /\ Place(r.made, <<k>> \o q) = Asked(item, entries[k], q)
    OBVIOUS
  <2>1. <<k>> \o q \in Leaves(d)
    BY LeavesGoDown
  <2>2. q \in Seq(DictionaryKeys) /\ k \in DictionaryKeys
    <3>1. q \in Seq(DictionaryKeys)
      BY <1>3, LeavesAre
    <3> QED
      BY <3>1 DEF DictionaryKeys
  <2>3. \A v : Place(v, <<k>> \o q) = Place(Held(v, k), q)
    BY <2>2, PlaceCons
  <2>4. Place(d, <<k>> \o q) = Place(entries[k], q)
    <3>1. Held(d, k) = entries[k]
      BY DictionariesAssumption DEF Held
    <3> QED
      BY <2>3, <3>1
  <2>5. Asked(item, d, <<k>> \o q) = Asked(item, entries[k], q)
    BY <2>4 DEF Asked
  <2>6. Held(r.made, k) = Remap(item, entries[k]).made
    <3>1. k \in found /\ value(k) = Remap(item, entries[k]).made
      BY <1>3
    <3> HIDE DEF value, r
    <3> QED
      BY <1>2, <3>1 DEF Held, Nests, Fields, Obj, IsObject, Is
  <2>7. Place(Remap(item, entries[k]).made, q) = Asked(item, entries[k], q)
    BY <1>3 DEF Tells
  <2> QED
    BY <2>1, <2>3, <2>4, <2>5, <2>6, <2>7
<1>6. \A path \in Leaves(d) : \E k \in keys :
         \/ k \notin inner /\ path = <<k>>
         \/ k \in inner /\ \E q \in Leaves(entries[k]) : path = <<k>> \o q
  BY LeavesGoDown
<1> HIDE DEF value, found, r, inner
<1>7. r.throws <=> \E path \in Leaves(d) : Place(d, path) = Null
  <2>1. \A k \in inner : remap[entries[k]].throws
           <=> \E q \in Leaves(entries[k]) : Place(entries[k], q) = Null
    BY <1>3, Zenon DEF Tells
  <2>2. \A k \in inner : entries[k] # Null
    BY DEF inner, Nests, IsObject, IsArray, Is, Null
  <2>3. ASSUME NEW k \in keys, entries[k] = Null
        PROVE  \E path \in Leaves(d) : Place(d, path) = Null
    BY <1>4, <2>2, <2>3
  <2>4. ASSUME NEW k \in inner, remap[entries[k]].throws
        PROVE  \E path \in Leaves(d) : Place(d, path) = Null
    <3>1. PICK q \in Leaves(entries[k]) : Place(entries[k], q) = Null
      BY <2>1, <2>4, Zenon
    <3> QED
      BY <1>5, <3>1
  <2>5. ASSUME NEW path \in Leaves(d), Place(d, path) = Null
        PROVE  \/ \E k \in keys : entries[k] = Null
               \/ \E k \in inner : remap[entries[k]].throws
    <3>1. PICK k \in keys :
             \/ k \notin inner /\ path = <<k>>
             \/ k \in inner /\ \E q \in Leaves(entries[k]) : path = <<k>> \o q
      BY <1>6
    <3>2. CASE k \notin inner /\ path = <<k>>
      BY <1>4, <2>5, <3>2
    <3>3. CASE k \in inner /\ \E q \in Leaves(entries[k]) : path = <<k>> \o q
      <4>1. \E q \in Leaves(entries[k]) : Place(entries[k], q) = Null
        BY <1>5, <2>5, <3>3
      <4> QED
        BY <2>1, <3>3, <4>1, Zenon
    <3> QED
      BY <3>1, <3>2, <3>3, Zenon
  <2> QED
    BY <1>2, <2>3, <2>4, <2>5, Zenon
<1>8. r.messages = {} <=> \A path \in Leaves(d) : Asked(item, d, path) # Undefined
  <2>1. \A k \in inner : remap[entries[k]].messages = {}
           <=> \A q \in Leaves(entries[k]) : Asked(item, entries[k], q) # Undefined
    BY <1>3, Zenon DEF Tells
  <2>2. r.messages = {} <=> /\ keys \ found = {}
                            /\ \A k \in inner : remap[entries[k]].messages = {}
    <3> DEFINE missed == {entries[k] : k \in keys \ found}
               told == UNION {remap[e].messages : e \in {entries[k] : k \in inner}}
    <3>1. missed = {} <=> keys \ found = {}
      OBVIOUS
    <3>2. told = {} <=> \A k \in inner : remap[entries[k]].messages = {}
      OBVIOUS
    <3>3. r.messages = missed \cup told
      BY <1>2
    <3> HIDE DEF missed, told
    <3> QED
      BY <3>1, <3>2, <3>3
  <2>3. keys \ found = {} <=> \A k \in keys \ inner : value(k) # Undefined
    BY <1>3 DEF found
  <2>4. ASSUME NEW path \in Leaves(d), r.messages = {}
        PROVE  Asked(item, d, path) # Undefined
    <3>1. PICK k \in keys :
             \/ k \notin inner /\ path = <<k>>
             \/ k \in inner /\ \E q \in Leaves(entries[k]) : path = <<k>> \o q
      BY <1>6
    <3>2. CASE k \notin inner /\ path = <<k>>
      BY <1>4, <2>2, <2>3, <2>4, <3>2
    <3>3. CASE k \in inner /\ \E q \in Leaves(entries[k]) : path = <<k>> \o q
      <4>1. PICK q \in Leaves(entries[k]) : path = <<k>> \o q
        BY <3>3
      <4> QED
        BY <1>5, <2>1, <2>2, <2>4, <3>3, <4>1
    <3> QED
      BY <3>1, <3>2, <3>3
  <2>5. ASSUME \A path \in Leaves(d) : Asked(item, d, path) # Undefined
        PROVE  r.messages = {}
    <3>1. \A k \in keys \ inner : value(k) # Undefined
      BY <1>4, <2>5
    <3>2. ASSUME NEW k \in inner
          PROVE  remap[entries[k]].messages = {}
      <4>1. \A q \in Leaves(entries[k]) : Asked(item, entries[k], q) # Undefined
        BY <1>5, <2>5
      <4> QED
        BY <2>1, <4>1
    <3> QED
      BY <2>2, <2>3, <3>1, <3>2
  <2> QED
    BY <2>4, <2>5
<1>9. /\ IsObject(r.made) /\ DOMAIN r.made.object = found
      /\ DOMAIN r.made.object = {} => \A path \in Leaves(d) : Asked(item, d, path) = Undefined
  <2>1. IsObject(r.made) /\ DOMAIN r.made.object = found
    BY <1>2 DEF Obj, IsObject, Is
  <2>2. ASSUME found = {}, NEW path \in Leaves(d)
        PROVE  Asked(item, d, path) = Undefined
    <3>1. \A k \in keys : k \notin inner /\ value(k) = Undefined
      <4>1. \A k \in keys : value(k) = Undefined
        BY <2>2 DEF found
      <4>2. \A k \in inner : k \in keys
        BY DEF inner
      <4> QED
        BY <1>3, <4>1, <4>2
    <3> QED
      BY <1>4, <1>6, <3>1
  <2> QED
    BY <2>1, <2>2
<1>10. ASSUME NEW path \in Leaves(d)
       PROVE  Place(r.made, path) = Asked(item, d, path)
  <2>1. PICK k \in keys :
           \/ k \notin inner /\ path = <<k>>
           \/ k \in inner /\ \E q \in Leaves(entries[k]) : path = <<k>> \o q
    BY <1>6
  <2>2. CASE k \notin inner /\ path = <<k>>
    BY <1>4, <2>2
  <2>3. CASE k \in inner /\ \E q \in Leaves(entries[k]) : path = <<k>> \o q
    BY <1>5, <2>3
  <2> QED
    BY <2>1, <2>2, <2>3
<1>11. found = {} <=>
         \A k \in keys : ~Nests(entries[k]) /\ Asked(item, d, <<k>>) = Undefined
  <2>1. \A k \in keys : k \in inner <=> Nests(entries[k])
    BY DEF inner
  <2>2. found = {} <=> \A k \in keys : value(k) = Undefined
    BY DEF found
  <2> HIDE DEF entries, keys
  <2> QED
    BY <1>3, <1>4, <2>1, <2>2
<1>12. DOMAIN r.made.object = {} <=>
         \A k \in DOMAIN Fields(d) :
             ~Nests(Fields(d)[k]) /\ Asked(item, d, <<k>>) = Undefined
  BY <1>9, <1>11, Zenon
<1> QED
  BY <1>7, <1>8, <1>9, <1>10, <1>12, Zenon DEF Tells, r

LEMMA EveryCallTells ==
    ASSUME NEW item, NEW d \in DOMAIN Depth
    PROVE  Tells(item, d)
<1> DEFINE Bad == {Depth[e] : e \in {e \in DOMAIN Depth : ~Tells(item, e)}}
<1> SUFFICES ASSUME Bad # {}
             PROVE  FALSE
  OBVIOUS
<1>1. \A e \in DOMAIN Depth : Depth[e] \in Nat
  BY DictionariesAssumption
<1>2. PICK n \in Bad : \A m \in Bad : n <= m
  <2>1. Bad \in SUBSET Nat
    BY <1>1
  <2> HIDE DEF Bad
  <2> QED
    BY <2>1, LeastOf
<1>3. PICK e \in DOMAIN Depth : ~Tells(item, e) /\ Depth[e] = n
  OBVIOUS
<1>4. ASSUME NEW f \in DOMAIN Depth, Depth[f] < Depth[e], ~Tells(item, f)
      PROVE  FALSE
  <2>1. Depth[f] \in Bad
    BY <1>4
  <2> QED
    BY <1>1, <1>2, <1>3, <1>4, <2>1
<1> QED
  BY <1>3, <1>4, CallTells

(***************************************************************************)
(* remapData of a list of objects and a dictionary.                        *)
(***************************************************************************)
LEMMA RemapResult ==
    ASSUME NEW v, Valid(remapDataExecution, v)
    PROVE  LET items == v.object.data.array
               made(i) == Remap(items[i], v.object.dictionary)
               named == UNION {made(i).messages : i \in DOMAIN items}
               status == IF named = {} THEN "success"
                         ELSE IF DOMAIN made(1).made.object # {} THEN "warning"
                         ELSE "error"
           IN  /\ IsObject(v) /\ {"data", "dictionary"} \subseteq DOMAIN v.object
               /\ IsArray(v.object.data)
               /\ (\E i \in DOMAIN items : made(i).throws) => remapData(v) = Throws
               /\ (1 \in DOMAIN items \/ DOMAIN items = {})
                     /\ ~(\E i \in DOMAIN items : made(i).throws) =>
                     remapData(v) = Ran(status, Arr(IF status = "error" THEN <<>>
                                                    ELSE [i \in DOMAIN items |-> made(i).made]))
<1> DEFINE items == v.object.data.array
           dictionary == v.object.dictionary
           made(i) == Remap(items[i], dictionary)
           named == UNION {made(i).messages : i \in DOMAIN items}
           remapped == Map(items, LAMBDA item : Remap(item, dictionary))
           results == Map(remapped, LAMBDA x : x.made)
           status == remapStatus(results, Messages(remapped))
<1>1. /\ IsObject(v) /\ {"data", "dictionary"} \subseteq DOMAIN v.object
      /\ Valid5(ArrayOf(Typed("object")), v.object["data"])
  BY ValidObjectWith DEF remapDataExecution
<1>2. IsArray(v.object.data)
  BY <1>1, ArrayOfAccepts
<1>3. remapped = [i \in DOMAIN items |-> made(i)]
  BY DEF Map
<1>4. results = [i \in DOMAIN items |-> made(i).made]
  BY DEF Map
<1>5. Messages(remapped) = named
  <2> HIDE DEF made, items
  <2> QED
    BY <1>3 DEF Messages
<1>6. remapData(v) = IF \E i \in DOMAIN remapped : remapped[i].throws THEN Throws
                     ELSE Ran(status, Arr(IF status = "error" THEN <<>> ELSE results))
  BY DEF remapData
<1>7. (\E i \in DOMAIN remapped : remapped[i].throws) <=> \E i \in DOMAIN items : made(i).throws
  <2>1. DOMAIN remapped = DOMAIN items /\ \A i \in DOMAIN items : remapped[i] = made(i)
    BY <1>3
  <2> HIDE DEF made, items, remapped
  <2> QED
    BY <2>1, Zenon
<1>8. ASSUME 1 \in DOMAIN items \/ DOMAIN items = {}
      PROVE  status = IF named = {} THEN "success"
                      ELSE IF DOMAIN made(1).made.object # {} THEN "warning" ELSE "error"
  <2>1. CASE 1 \in DOMAIN items
    <3>1. results[1] = made(1).made
      BY <1>4, <2>1
    <3> HIDE DEF made, items, results, remapped, named
    <3> QED
      BY <1>5, <3>1 DEF remapStatus
  <2>2. CASE DOMAIN items = {}
    <3>1. named = {}
      BY <2>2
    <3> HIDE DEF made, items, results, remapped, named
    <3> QED
      BY <1>5, <3>1 DEF remapStatus
  <2> QED
    BY <1>8, <2>1, <2>2
<1> HIDE DEF status, results, remapped, named
<1> QED
  <2>1. (\E i \in DOMAIN items : made(i).throws) => remapData(v) = Throws
    <3> HIDE DEF made, items
    <3> QED
      BY <1>6, <1>7, Zenon
  <2>2. ~(\E i \in DOMAIN items : made(i).throws) =>
            remapData(v) = Ran(status, Arr(IF status = "error" THEN <<>> ELSE results))
    <3> HIDE DEF made, items
    <3> QED
      BY <1>6, <1>7, Zenon
  <2> QED
    BY <1>1, <1>2, <1>4, <1>8, <2>1, <2>2 DEF named

LEMMA RemapAccountedHolds == ComputeInv => RemapAccounted
<1> SUFFICES ASSUME ComputeInv, Done("remapData"), Valid(remapDataExecution, data)
             PROVE  RemapAccounted
  BY DEF RemapAccounted
<1> DEFINE items == data.object.data.array
           dictionary == data.object.dictionary
           made(i) == Remap(items[i], dictionary)
           named == UNION {made(i).messages : i \in DOMAIN items}
           status == IF named = {} THEN "success"
                     ELSE IF DOMAIN made(1).made.object # {} THEN "warning"
                     ELSE "error"
           throws == \E i \in DOMAIN items : made(i).throws
           null == \E path \in Leaves(dictionary) : Place(dictionary, path) = Null
           complete == \A i \in DOMAIN items : \A path \in Leaves(dictionary) :
                          Asked(items[i], dictionary, path) # Undefined
<1>1. /\ outcome = remapData(data)
      /\ category = "remapData" /\ data \in Inputs["remapData"] /\ "remapData" \in DOMAIN Inputs
  BY DEF ComputeInv, Done
<1>2. /\ IsObject(data) /\ {"data", "dictionary"} \subseteq DOMAIN data.object
      /\ IsArray(data.object.data)
      /\ throws => remapData(data) = Throws
      /\ (1 \in DOMAIN items \/ DOMAIN items = {}) /\ ~throws =>
            remapData(data) = Ran(status, Arr(IF status = "error" THEN <<>>
                                              ELSE [i \in DOMAIN items |-> made(i).made]))
  BY RemapResult
<1>3. items \in Seq(ToSet(items))
  BY <1>1, <1>2, InputsAssumption DEF IsFinite
<1>4. /\ items = <<>> <=> DOMAIN items = {}
      /\ DOMAIN items # {} => 1 \in DOMAIN items
  <2> HIDE DEF items
  <2> QED
    BY <1>3
<1>5. dictionary \in DOMAIN Depth
  BY <1>1, RemapAssumption
<1>6. \A item : Tells(item, dictionary)
  BY <1>5, EveryCallTells
<1> HIDE DEF items, dictionary
<1>7. throws <=> items # <<>> /\ null
  <2>1. \A i \in DOMAIN items : made(i).throws <=> null
    BY <1>6, Zenon DEF Tells
  <2> HIDE DEF null, made
  <2> QED
    BY <1>4, <2>1, Zenon
<1>8. named = {} <=> complete
  <2>1. \A i \in DOMAIN items : made(i).messages = {} <=>
           \A path \in Leaves(dictionary) : Asked(items[i], dictionary, path) # Undefined
    BY <1>6, Zenon DEF Tells
  <2>2. named = {} <=> \A i \in DOMAIN items : made(i).messages = {}
    <3> HIDE DEF made
    <3> QED
      OBVIOUS
  <2> HIDE DEF made, named
  <2> QED
    BY <2>1, <2>2, Zenon
<1>9. \A i \in DOMAIN items :
         /\ DOMAIN made(i).made.object = {} =>
               \A path \in Leaves(dictionary) : Asked(items[i], dictionary, path) = Undefined
         /\ \A path \in Leaves(dictionary) :
               Place(made(i).made, path) = Asked(items[i], dictionary, path)
  BY <1>6, Zenon DEF Tells
<1> HIDE DEF throws, null, complete, named, made
<1>10. ASSUME items # <<>>, null
       PROVE  outcome = Throws
  BY <1>1, <1>2, <1>7, <1>10
<1>11. ASSUME ~(items # <<>> /\ null)
       PROVE  /\ outcome.status = "success" <=> complete
              /\ outcome.status = "error" =>
                   /\ outcome.data = Arr(<<>>)
                   /\ \A path \in Leaves(dictionary) :
                         Asked(items[1], dictionary, path) = Undefined
              /\ outcome.status # "error" =>
                   \A i \in DOMAIN items : \A path \in Leaves(dictionary) :
                       Place(outcome.data.array[i], path) = Asked(items[i], dictionary, path)
  <2>1. outcome = Ran(status, Arr(IF status = "error" THEN <<>>
                                  ELSE [i \in DOMAIN items |-> made(i).made]))
    BY <1>1, <1>2, <1>4, <1>7, <1>11
  <2>2. /\ outcome.status = status
        /\ outcome.data = Arr(IF status = "error" THEN <<>>
                              ELSE [i \in DOMAIN items |-> made(i).made])
    <3> HIDE DEF status
    <3> QED
      BY <2>1 DEF Ran
  <2>3. status = "success" <=> complete
    BY <1>8
  <2>4. ASSUME status = "error"
        PROVE  /\ outcome.data = Arr(<<>>)
               /\ \A path \in Leaves(dictionary) :
                     Asked(items[1], dictionary, path) = Undefined
    <3>1. named # {} /\ DOMAIN made(1).made.object = {}
      BY <2>4
    <3>2. 1 \in DOMAIN items
      <4>1. DOMAIN items # {}
        BY <3>1 DEF named
      <4> QED
        BY <1>4, <4>1
    <3> QED
      BY <1>9, <2>2, <2>4, <3>1, <3>2
  <2>5. ASSUME status # "error", NEW i \in DOMAIN items
        PROVE  outcome.data.array[i] = made(i).made
    BY <2>2, <2>5 DEF Arr
  <2> HIDE DEF status
  <2> QED
    BY <1>9, <2>2, <2>3, <2>4, <2>5
<1> QED
  BY <1>10, <1>11 DEF RemapAccounted, Given, items, dictionary, null, complete

(***************************************************************************)
(* For any items and a dictionary of any depth, remapData succeeds only if *)
(* every item has what every place of the dictionary names and puts it in  *)
(* its place, gives up the items only if the first has nothing, and throws *)
(* only on a null (RemapAccounted).                                        *)
(***************************************************************************)
THEOREM RemapIsAccounted == Spec => []RemapAccounted
  BY ComputeInvInit, ComputeInvInductive, RemapAccountedHolds, PTL DEF Spec

-----------------------------------------------------------------------------
(* deepCompare *)

\* A list that deepCompare makes has one entry for each place.
LEMMA PickedList ==
    ASSUME NEW s, NEW n \in Nat, DOMAIN s = 1..n, NEW P \in SUBSET (1..n), NEW keys
    PROVE  LET picked == Picks(Chosen(s, P), keys)
           IN  /\ Len(picked) = Cardinality(P)
               /\ ToSet(picked) = {Pick(s[i], keys) : i \in P}
<1> DEFINE t == Chosen(s, P)
           picked == Picks(t, keys)
<1>1. /\ Cardinality(P) \in Nat /\ DOMAIN t = 1..Cardinality(P)
      /\ ToSet(t) = {s[i] : i \in P}
  BY ChosenList
<1> HIDE DEF t
<1>2. picked = [i \in DOMAIN t |-> Pick(t[i], keys)]
  BY DEF Picks, Map
<1> HIDE DEF picked
<1>3. picked \in Seq({Pick(x, keys) : x \in ToSet(t)}) /\ DOMAIN picked = 1..Cardinality(P)
  <2>1. picked \in [1..Cardinality(P) -> {Pick(x, keys) : x \in ToSet(t)}]
    BY <1>1, <1>2 DEF ToSet
  <2> QED
    BY <1>1, <2>1
<1>4. Len(picked) = Cardinality(P)
  BY <1>1, <1>3
<1>5. ToSet(picked) = {Pick(x, keys) : x \in ToSet(t)}
  BY <1>2 DEF ToSet
<1>6. {Pick(x, keys) : x \in ToSet(t)} = {Pick(s[i], keys) : i \in P}
  BY <1>1
<1> QED
  BY <1>4, <1>5, <1>6 DEF picked, t

(***************************************************************************)
(* What is left of a list when the ignored keys are dropped.               *)
(***************************************************************************)
LEMMA WithoutList ==
    ASSUME NEW s, NEW n \in Nat, DOMAIN s = 1..n, NEW ignore
    PROVE  LET items == {Omit(item, ignore) : item \in ToSet(s)}
               list == Without(s, ignore)
           IN  /\ IsFiniteSet(items) /\ Cardinality(items) \in Nat
               /\ DOMAIN list = 1..Cardinality(items)
               /\ ToSet(list) = items /\ IsInjective(list)
<1> DEFINE t == Map(s, LAMBDA item : Omit(item, ignore))
<1>1. t = [i \in 1..n |-> Omit(s[i], ignore)]
  BY DEF Map
<1>2. ToSet(t) = {Omit(item, ignore) : item \in ToSet(s)}
  BY <1>1 DEF ToSet
<1>3. DOMAIN t = 1..n
  BY <1>1
<1> HIDE DEF t
<1>4. Without(s, ignore) = Uniq(t)
  BY DEF Without, t
<1> QED
  BY <1>2, <1>3, <1>4, UniqList

(***************************************************************************)
(* clean finds duplicates exactly if two different items of what is left   *)
(* have the same keys.                                                     *)
(***************************************************************************)
LEMMA ConflictIsConflicting ==
    ASSUME NEW s, NEW n \in Nat, DOMAIN s = 1..n, NEW keys, NEW ignore
    PROVE  Conflict(s, keys, ignore) <=> Conflicting(s, keys, ignore)
<1> DEFINE items == {Omit(item, ignore) : item \in ToSet(s)}
           list == Without(s, ignore)
           m == Cardinality(items)
           keysOnly == Picks(list, keys)
<1>1. m \in Nat /\ DOMAIN list = 1..m /\ ToSet(list) = items /\ IsInjective(list)
  BY WithoutList
<1> HIDE DEF list, m
<1>2. keysOnly = [i \in 1..m |-> Pick(list[i], keys)]
  BY <1>1 DEF Picks, Map
<1> HIDE DEF keysOnly
<1>3. keysOnly \in Surjection(1..m, ToSet(keysOnly))
  <2>1. keysOnly \in [1..m -> ToSet(keysOnly)]
    BY <1>2 DEF ToSet
  <2>2. \A x \in ToSet(keysOnly) : \E i \in 1..m : keysOnly[i] = x
    BY <1>2 DEF ToSet
  <2> QED
    BY <2>1, <2>2, Fun_IsSurj
<1>4. IsFiniteSet(1..m) /\ Cardinality(1..m) = m
  BY <1>1, FS_Interval
<1>5. /\ Cardinality(ToSet(keysOnly)) <= m
      /\ Cardinality(ToSet(keysOnly)) = m <=> keysOnly \in Injection(1..m, ToSet(keysOnly))
  BY <1>3, <1>4, FS_Surjection
<1>6. Len(Uniq(keysOnly)) = Cardinality(ToSet(keysOnly)) /\ Cardinality(ToSet(keysOnly)) \in Nat
  BY <1>1, <1>2, UniqList
<1>7. Len(keysOnly) = m
  <2>1. keysOnly \in Seq(ToSet(keysOnly)) /\ DOMAIN keysOnly = 1..m
    BY <1>1, <1>2, <1>3 DEF Surjection
  <2> QED
    BY <1>1, <2>1
<1>8. Conflict(s, keys, ignore) <=> ~(keysOnly \in Injection(1..m, ToSet(keysOnly)))
  <2>1. Conflict(s, keys, ignore) <=> Len(Uniq(keysOnly)) < Len(keysOnly)
    BY DEF Conflict, keysOnly, list
  <2> QED
    BY <1>1, <1>5, <1>6, <1>7, <2>1
<1>9. keysOnly \in Injection(1..m, ToSet(keysOnly)) <=>
        \A i, j \in 1..m : Pick(list[i], keys) = Pick(list[j], keys) => i = j
  BY <1>2, <1>3 DEF Injection, Surjection, IsInjective
<1>10. (\A i, j \in 1..m : Pick(list[i], keys) = Pick(list[j], keys) => i = j) <=>
         \A x, y \in items : Pick(x, keys) = Pick(y, keys) => x = y
  BY <1>1 DEF ToSet, IsInjective
<1>11. Conflicting(s, keys, ignore) <=>
         ~\A x, y \in items : Pick(x, keys) = Pick(y, keys) => x = y
  <2>1. Conflicting(s, keys, ignore) <=>
          \E i, j \in DOMAIN s :
             /\ Omit(s[i], ignore) # Omit(s[j], ignore)
             /\ Pick(Omit(s[i], ignore), keys) = Pick(Omit(s[j], ignore), keys)
    BY DEF Conflicting
  <2>2. \A i \in DOMAIN s : Omit(s[i], ignore) \in items
    BY DEF ToSet
  <2>3. \A x \in items : \E i \in DOMAIN s : x = Omit(s[i], ignore)
    BY DEF ToSet
  <2> HIDE DEF items
  <2> QED
    BY <2>1, <2>2, <2>3
<1> QED
  BY <1>8, <1>9, <1>10, <1>11

\* The positions of B that the loop tells of in a list.
Told(B, C, keys, name) == {i \in DOMAIN B : ListOf(B[i], C, keys) = name}

\* The positions of C that no item of B matches.
Left(B, C, keys) == {i \in DOMAIN C : \A j \in DOMAIN B : ~Matches(C[i], Pick(B[j], keys))}

\* Each item of base is told in one of three lists.
LEMMA ToldPartition ==
    ASSUME NEW B, NEW m \in Nat, DOMAIN B = 1..m, NEW C, NEW keys
    PROVE  Cardinality(Told(B, C, keys, "onlyAtBase"))
             + Cardinality(Told(B, C, keys, "unchanged"))
             + Cardinality(Told(B, C, keys, "changed")) = m
<1> DEFINE S == Told(B, C, keys, "onlyAtBase")
           T == Told(B, C, keys, "unchanged")
           U == Told(B, C, keys, "changed")
<1>1. /\ S \cup T \cup U = 1..m
      /\ S \cap T = {} /\ (S \cup T) \cap U = {}
  BY DEF Told, ListOf
<1> HIDE DEF S, T, U
<1>2. IsFiniteSet(1..m) /\ Cardinality(1..m) = m
  BY FS_Interval
<1>3. IsFiniteSet(S) /\ IsFiniteSet(T) /\ IsFiniteSet(U)
  BY <1>1, <1>2, FS_Subset
<1>4. /\ Cardinality(S) \in Nat /\ Cardinality(T) \in Nat /\ Cardinality(U) \in Nat
      /\ Cardinality({}) = 0
  BY <1>3, FS_CardinalityType, FS_EmptySet
<1>5. IsFiniteSet(S \cup T) /\ Cardinality(S \cup T) = Cardinality(S) + Cardinality(T)
  BY <1>1, <1>3, <1>4, FS_Union
<1>6. Cardinality(S \cup T \cup U) = Cardinality(S \cup T) + Cardinality(U)
  <2> DEFINE V == S \cup T
  <2>1. Cardinality(V) \in Nat /\ IsFiniteSet(V) /\ V \cap U = {}
    BY <1>1, <1>4, <1>5
  <2> HIDE DEF V
  <2>2. Cardinality(V \cup U) = Cardinality(V) + Cardinality(U) - Cardinality({})
    BY <1>3, <2>1, FS_Union
  <2> QED
    BY <1>4, <2>1, <2>2 DEF V
<1> QED
  BY <1>1, <1>2, <1>4, <1>5, <1>6 DEF S, T, U

(***************************************************************************)
(* A list without repetitions has as many places of a kind as its set has  *)
(* items of it: no base item matches them.                                 *)
(***************************************************************************)
LEMMA LeftCount ==
    ASSUME NEW B, NEW C, NEW l \in Nat, DOMAIN C = 1..l, IsInjective(C), NEW keys
    PROVE  Cardinality(Left(B, C, keys)) =
             Cardinality({c \in ToSet(C) :
                \A key \in {Pick(item, keys) : item \in ToSet(B)} : ~Matches(c, key)})
<1> DEFINE P == Left(B, C, keys)
           T == {c \in ToSet(C) :
                   \A key \in {Pick(item, keys) : item \in ToSet(B)} : ~Matches(c, key)}
           f == [i \in P |-> C[i]]
<1>1. P \subseteq 1..l
  BY DEF Left
<1>2. \A i \in DOMAIN C : i \in P <=> C[i] \in T
  BY DEF Left, ToSet
<1>3. \A c \in T : \E i \in DOMAIN C : c = C[i]
  BY DEF ToSet
<1> HIDE DEF P, T
<1>4. f \in [P -> T]
  BY <1>1, <1>2
<1>5. \A i, j \in P : f[i] = f[j] => i = j
  BY <1>1 DEF IsInjective
<1>6. \A c \in T : \E i \in P : f[i] = c
  BY <1>2, <1>3
<1>7. f \in Bijection(P, T)
  BY <1>4, <1>5, <1>6, Fun_IsBij
<1>8. IsFiniteSet(P)
  <2>1. IsFiniteSet(1..l)
    BY FS_Interval
  <2> QED
    BY <1>1, <2>1, FS_Subset
<1>9. Cardinality(T) = Cardinality(P)
  BY <1>7, <1>8, FS_Bijection DEF ExistsBijection
<1> QED
  BY <1>9 DEF P, T

(***************************************************************************)
(* Where the keys are there, and are scalars, to match is to have the same *)
(* keys.                                                                   *)
(***************************************************************************)
Flat(item, keys) == IsObject(item) /\ \A k \in keys : Is("integer", Property(item, k))

\* The first key of a path.
LEMMA WithinKey ==
    ASSUME NEW value, NEW k
    PROVE  Within(value, <<k>>) = Property(value, k)
<1> DEFINE path == <<k>>
           Walks(f) == f = [n \in 0..Len(path) |-> IF n = 0 THEN value
                                                   ELSE Property(f[n - 1], path[n])]
           g == [n \in 0..1 |-> IF n = 0 THEN value ELSE Property(value, k)]
           along == CHOOSE f : Walks(f)
<1>1. Len(path) = 1 /\ path[1] = k
  OBVIOUS
<1> HIDE DEF path
<1>2. g[0] = value /\ \A n \in 0..1 : n # 0 => n = 1 /\ n - 1 = 0
  OBVIOUS
<1>3. Walks(g)
  BY <1>1, <1>2
<1>4. Walks(along)
  <2> HIDE DEF g, Walks
  <2> QED
    BY <1>3
<1> HIDE DEF along
<1>5. along[0] = value /\ along[1] = Property(along[0], k)
  BY <1>1, <1>4
<1>6. Within(value, path) = along[Len(path)]
  BY DEF Within, along
<1> QED
  BY <1>1, <1>5, <1>6 DEF path

\* Flat items match when their keys are equal.
LEMMA FlatMatches ==
    ASSUME NEW c, NEW b, NEW keys, Flat(c, keys), Flat(b, keys)
    PROVE  Matches(c, Pick(b, keys)) <=> Pick(c, keys) = Pick(b, keys)
<1>1. ASSUME NEW item, Flat(item, keys)
      PROVE  /\ keys \subseteq DOMAIN item.object
             /\ \A k \in keys : ~IsObject(item.object[k])
             /\ Pick(item, keys) = Obj([k \in keys |-> item.object[k]])
  <2>1. ASSUME NEW k \in keys
        PROVE  /\ k \in DOMAIN item.object /\ ~IsObject(item.object[k])
               /\ PathTo(item, k) = <<k>> /\ Within(item, <<k>>) # Undefined
    <3>1. /\ k \in DOMAIN item.object /\ ~IsObject(item.object[k])
          /\ Property(item, k) # Undefined
      BY <1>1, <2>1 DEF Flat, Property, Fields, Undefined, Is, IsObject, IsArray
    <3>2. PathTo(item, k) = <<k>>
      BY <3>1 DEF PathTo
    <3> QED
      BY <3>1, <3>2, WithinKey
  <2> DEFINE paths == {path \in {PathTo(item, k) : k \in keys} : Within(item, path) # Undefined}
             inner(k) == {path[2] : path \in {p \in paths : Len(p) = 2 /\ p[1] = k}}
             heads == {path[1] : path \in paths}
  <2>2. paths = {<<k>> : k \in keys}
    BY <2>1
  <2>3. Pick(item, keys) =
          Obj([k \in heads |-> IF <<k>> \in paths THEN item.object[k]
                               ELSE Obj(Restrict(item.object[k].object, inner(k)))])
    BY DEF Pick
  <2> HIDE DEF paths, inner
  <2>4. heads = keys /\ \A k \in keys : <<k>> \in paths
    <3>1. \A k \in keys : <<k>> \in paths
      BY <2>2
    <3>2. \A k \in keys : <<k>>[1] = k
      OBVIOUS
    <3>3. \A path \in paths : \E k \in keys : path = <<k>>
      BY <2>2
    <3>4. ASSUME NEW k \in keys
          PROVE  k \in heads
      <4>1. <<k>> \in paths /\ <<k>>[1] = k
        BY <3>1, <3>2
      <4> QED
        BY <4>1
    <3>5. ASSUME NEW k \in heads
          PROVE  k \in keys
      <4>1. PICK path \in paths : k = path[1]
        OBVIOUS
      <4>2. PICK l \in keys : path = <<l>>
        BY <3>3
      <4> QED
        BY <4>1, <4>2
    <3> QED
      BY <3>1, <3>4, <3>5
  <2> HIDE DEF heads
  <2>5. [k \in heads |-> IF <<k>> \in paths THEN item.object[k]
                         ELSE Obj(Restrict(item.object[k].object, inner(k)))]
          = [k \in keys |-> item.object[k]]
    BY <2>4
  <2> QED
    BY <2>1, <2>3, <2>5
<1> DEFINE key == [k \in keys |-> b.object[k]]
           own == [k \in keys |-> c.object[k]]
<1>2. /\ Pick(b, keys) = Obj(key) /\ Pick(c, keys) = Obj(own)
      /\ keys \subseteq DOMAIN c.object /\ \A k \in keys : ~IsObject(key[k])
  BY <1>1
<1>3. Obj(key).object = key /\ Obj(own).object = own /\ IsObject(Obj(key)) /\ IsObject(c)
  BY DEF Obj, IsObject, Is, Flat
<1>4. Matches(c, Obj(key)) <=> \A k \in keys : FieldMatches(c.object[k], key[k])
  <2>1. DOMAIN key = keys
    OBVIOUS
  <2> HIDE DEF key
  <2> QED
    BY <1>2, <1>3, <2>1 DEF Matches, Agree
<1>5. \A k \in keys : FieldMatches(c.object[k], key[k]) <=> c.object[k] = key[k]
  BY <1>2 DEF FieldMatches, Agree
<1>6. own = key <=> \A k \in keys : c.object[k] = key[k]
  OBVIOUS
<1>7. Obj(own) = Obj(key) <=> own = key
  BY <1>3
<1> QED
  BY <1>2, <1>4, <1>5, <1>6, <1>7

(***************************************************************************)
(* The list an item of base goes to, when all items are flat and no two    *)
(* candidates have the same keys.                                          *)
(***************************************************************************)
LEMMA ListOfFlat ==
    ASSUME NEW C, NEW l \in Nat, DOMAIN C = 1..l, C \in Seq(ToSet(C)), NEW keys,
           \A c \in ToSet(C) : Flat(c, keys),
           \A c, d \in ToSet(C) : Pick(c, keys) = Pick(d, keys) => c = d,
           NEW item, Flat(item, keys)
    PROVE  LET known == \E c \in ToSet(C) : Pick(c, keys) = Pick(item, keys)
           IN  ListOf(item, C, keys) = IF ~known THEN "onlyAtBase"
                                       ELSE IF item \in ToSet(C) THEN "unchanged"
                                       ELSE "changed"
<1> DEFINE known == \E c \in ToSet(C) : Pick(c, keys) = Pick(item, keys)
           P == {i \in 1..Len(C) : Matches(C[i], Pick(item, keys))}
           first == IF P # {} THEN Min(P) ELSE 0
<1>1. Len(C) = l /\ \A i \in 1..l : C[i] \in ToSet(C)
  BY DEF ToSet
<1>2. \A i \in 1..l : i \in P <=> Pick(C[i], keys) = Pick(item, keys)
  BY <1>1, FlatMatches
<1>3. P \in SUBSET (1..l)
  BY <1>1
<1>4. ListOf(item, C, keys) = IF first = 0 THEN "onlyAtBase"
                              ELSE IF item = C[first] THEN "unchanged" ELSE "changed"
  BY DEF ListOf, SelectInSeq
<1> HIDE DEF P
<1>5. (first = 0 <=> P = {}) /\ (first # 0 => first \in P)
  BY <1>3, FirstOf
<1> HIDE DEF first
<1>6. P = {} <=> ~known
  BY <1>2, <1>3 DEF ToSet
<1>7. first # 0 => C[first] \in ToSet(C) /\ Pick(C[first], keys) = Pick(item, keys)
  BY <1>1, <1>2, <1>3, <1>5
<1>8. first # 0 => (item = C[first] <=> item \in ToSet(C))
  BY <1>7
<1> QED
  BY <1>4, <1>5, <1>6, <1>8

\* The keys of a set of items, and of the items of a list at the positions P.
KeySet(items, keys) == {Pick(item, keys) : item \in items}

KeysAt(s, P, keys) == {Pick(s[i], keys) : i \in P}

\* Flat items, with their keys unlike.
Comparable(B, C, keys) ==
    /\ \A item \in ToSet(B) \cup ToSet(C) : Flat(item, keys)
    /\ \A c, d \in ToSet(B) : Pick(c, keys) = Pick(d, keys) => c = d
    /\ \A c, d \in ToSet(C) : Pick(c, keys) = Pick(d, keys) => c = d

\* The lists that deepCompare makes of B and C have the keys of the two sets.
AreCompared(B, C, keys) ==
    LET base == KeySet(ToSet(B), keys)
        candidate == KeySet(ToSet(C), keys)
        both == KeySet(ToSet(B) \cap ToSet(C), keys)
    IN  /\ KeysAt(B, Told(B, C, keys, "unchanged"), keys) = both
        /\ KeysAt(B, Told(B, C, keys, "changed"), keys) = (base \cap candidate) \ both
        /\ KeysAt(B, Told(B, C, keys, "onlyAtBase"), keys) = base \ candidate
        /\ KeysAt(C, Left(B, C, keys), keys) = candidate \ base

(***************************************************************************)
(* The lists of a comparison of flat items are those of the two sets.      *)
(***************************************************************************)
LEMMA ComparedSets ==
    ASSUME NEW B, NEW m \in Nat, DOMAIN B = 1..m,
           NEW C, NEW l \in Nat, DOMAIN C = 1..l, C \in Seq(ToSet(C)), NEW keys,
           Comparable(B, C, keys)
    PROVE  AreCompared(B, C, keys)
<1> USE DEF AreCompared, Comparable
<1> USE DEF KeySet, KeysAt
<1> DEFINE Keys(items) == {Pick(item, keys) : item \in items}
           base == ToSet(B)
           candidate == ToSet(C)
           in(name) == {item \in base : ListOf(item, C, keys) = name}
           list(name) == {Pick(B[i], keys) : i \in Told(B, C, keys, name)}
           left == {c \in candidate : Pick(c, keys) \notin Keys(base)}
<1>1. \A name : list(name) = Keys(in(name))
  BY DEF Told, ToSet
<1>2. \A item \in base : ListOf(item, C, keys) =
          IF Pick(item, keys) \notin Keys(candidate) THEN "onlyAtBase"
          ELSE IF item \in candidate THEN "unchanged" ELSE "changed"
  BY ListOfFlat
<1>3. {Pick(C[i], keys) : i \in Left(B, C, keys)} = Keys(left)
  <2>1. \A i \in DOMAIN C : i \in Left(B, C, keys) <=> C[i] \in left
    BY FlatMatches DEF Left, ToSet
  <2>2. Left(B, C, keys) \subseteq DOMAIN C
    BY DEF Left
  <2>3. \A c \in left : \E i \in DOMAIN C : c = C[i]
    BY DEF ToSet
  <2> HIDE DEF left
  <2> QED
    BY <2>1, <2>2, <2>3
<1> HIDE DEF base, candidate, list
<1>4. list("unchanged") = Keys(base \cap candidate)
  BY <1>1, <1>2
<1>5. list("changed") = (Keys(base) \cap Keys(candidate)) \ Keys(base \cap candidate)
  BY <1>1, <1>2 DEF base
<1>6. list("onlyAtBase") = Keys(base) \ Keys(candidate)
  BY <1>1, <1>2
<1>7. Keys(left) = Keys(candidate) \ Keys(base)
  OBVIOUS
<1> QED
  BY <1>3, <1>4, <1>5, <1>6, <1>7 DEF base, candidate, list

(***************************************************************************)
(* What deepCompare is given, and what it returns.                         *)
(***************************************************************************)
LEMMA CompareInput ==
    ASSUME NEW v, Valid(deepCompareExecution, v)
    PROVE  /\ IsObject(v) /\ {"base", "candidate", "commonKeys"} \subseteq DOMAIN v.object
           /\ IsArray(v.object.base) /\ IsArray(v.object.candidate)
           /\ "ignoreKeys" \in DOMAIN v.object => IsArray(v.object.ignoreKeys)
<1>1. /\ IsObject(v) /\ {"base", "candidate", "commonKeys"} \subseteq DOMAIN v.object
      /\ Valid5(ArrayOf(Typed("object")), v.object["base"])
      /\ Valid5(ArrayOf(Typed("object")), v.object["candidate"])
      /\ "ignoreKeys" \in DOMAIN v.object =>
            Valid5(ArrayOf(Typed("string")), v.object["ignoreKeys"])
  BY ValidObjectWith DEF deepCompareExecution
<1> QED
  BY <1>1, ArrayOfAccepts

\* The lists of deepCompare, unless it refuses a conflict.
LEMMA CompareResult ==
    ASSUME NEW v, Valid(deepCompareExecution, v), NEW ignore,
           ignore = IgnoredIn(v.object)
    PROVE  LET keys == Names(v.object.commonKeys)
               B == Without(v.object.base.array, ignore)
               C == Without(v.object.candidate.array, ignore)
               result == deepCompare(v)
           IN  IF \/ Conflict(v.object.base.array, keys, ignore)
                  \/ Conflict(v.object.candidate.array, keys, ignore)
               THEN result = Ran("error", Arr(<<>>))
               ELSE /\ result.end = "data" /\ result.status = "none"
                    /\ \A name \in {"onlyAtBase", "unchanged", "changed"} :
                          result.data.object[name].array =
                              Picks(Chosen(B, Told(B, C, keys, name)), keys)
                    /\ result.data.object["onlyAtCandidate"].array =
                          Picks(Chosen(C, Left(B, C, keys)), keys)
<1> DEFINE keys == Names(v.object.commonKeys)
           B == Without(v.object.base.array, ignore)
           C == Without(v.object.candidate.array, ignore)
           told(name) == Arr(Picks(Chosen(B, Told(B, C, keys, name)), keys))
           left == Arr(Picks(Chosen(C, Left(B, C, keys)), keys))
           lists == [onlyAtBase |-> told("onlyAtBase"), unchanged |-> told("unchanged"),
                     changed |-> told("changed"), onlyAtCandidate |-> left]
           conflict == \/ Conflict(v.object.base.array, keys, ignore)
                       \/ Conflict(v.object.candidate.array, keys, ignore)
<1>1. deepCompare(v) =
        IF conflict THEN Ran("error", Arr(<<>>)) ELSE Ran("none", Obj(lists))
  BY DEF deepCompare, Filter, Told, Remaining, Left
<1>3. /\ Ran("none", Obj(lists)).end = "data" /\ Ran("none", Obj(lists)).status = "none"
      /\ Ran("none", Obj(lists)).data.object = lists
  <2> HIDE DEF lists
  <2> QED
    BY DEF Ran, Obj
<1>4. /\ \A name \in {"onlyAtBase", "unchanged", "changed"} : lists[name] = told(name)
      /\ lists["onlyAtCandidate"] = left
  <2> HIDE DEF told, left
  <2> QED
    OBVIOUS
<1>5. \A name : told(name).array = Picks(Chosen(B, Told(B, C, keys, name)), keys)
  <2> HIDE DEF B, C, keys
  <2> QED
    BY DEF Arr
<1>6. left.array = Picks(Chosen(C, Left(B, C, keys)), keys)
  <2> HIDE DEF B, C, keys
  <2> QED
    BY DEF Arr
<1> HIDE DEF lists, told, left, conflict
<1>7. CASE conflict
  BY <1>1, <1>7 DEF conflict
<1>8. CASE ~conflict
  <2>1. /\ deepCompare(v).end = "data" /\ deepCompare(v).status = "none"
        /\ deepCompare(v).data.object = lists
    BY <1>1, <1>3, <1>8
  <2> QED
    BY <2>1, <1>4, <1>5, <1>6, <1>8 DEF conflict
<1> QED
  BY <1>7, <1>8

\* The lists of deepCompare have what the property asks for.
LEMMA ComparePartitionHolds == ComputeInv => ComparePartition
<1> SUFFICES ASSUME ComputeInv, Done("deepCompare"), Valid(deepCompareExecution, data)
             PROVE  ComparePartition
  BY DEF ComparePartition
<1> DEFINE keys == Names(data.object.commonKeys)
           ignored == IgnoredIn(data.object)
           gb == Given("base")
           gc == Given("candidate")
           B == Without(gb, ignored)
           C == Without(gc, ignored)
           base == {Omit(item, ignored) : item \in ToSet(gb)}
           candidate == {Omit(item, ignored) : item \in ToSet(gc)}
           Keys(items) == {Pick(item, keys) : item \in items}
           flat == \A item \in base \cup candidate : \A k \in keys :
                      Is("integer", Property(item, k))
           list(name) == outcome.data.object[name].array
           conflict == Conflicting(gb, keys, ignored) \/ Conflicting(gc, keys, ignored)
<1>1. /\ outcome = deepCompare(data)
      /\ IsObject(data) /\ {"base", "candidate", "commonKeys"} \subseteq DOMAIN data.object
      /\ IsArray(data.object["base"]) /\ IsArray(data.object["candidate"])
      /\ "ignoreKeys" \in DOMAIN data.object => IsArray(data.object["ignoreKeys"])
      /\ data \in Inputs["deepCompare"] /\ "deepCompare" \in DOMAIN Inputs
  BY CompareInput DEF ComputeInv, Done
<1>2. gb \in Seq(ToSet(gb)) /\ gc \in Seq(ToSet(gc))
  BY <1>1, InputsAssumption DEF IsFinite, Given
<1>3. /\ DOMAIN gb = 1..Len(gb) /\ Len(gb) \in Nat
      /\ DOMAIN gc = 1..Len(gc) /\ Len(gc) \in Nat
  BY <1>2
<1> HIDE DEF gb, gc, keys, ignored
<1>5. /\ IsFiniteSet(base) /\ Cardinality(base) \in Nat
      /\ DOMAIN B = 1..Cardinality(base) /\ ToSet(B) = base /\ IsInjective(B)
  BY <1>3, WithoutList
<1>6. /\ IsFiniteSet(candidate) /\ Cardinality(candidate) \in Nat
      /\ DOMAIN C = 1..Cardinality(candidate) /\ ToSet(C) = candidate /\ IsInjective(C)
  BY <1>3, WithoutList
<1>7. C \in Seq(ToSet(C))
  <2>1. C = [i \in DOMAIN C |-> C[i]]
    BY DEF Without, Uniq, Chosen
  <2> DEFINE l == Cardinality(candidate)
  <2>2. l \in Nat /\ DOMAIN C = 1..l
    BY <1>6
  <2> HIDE DEF l, C
  <2>3. C \in [1..l -> ToSet(C)]
    BY <2>1, <2>2 DEF ToSet
  <2> QED
    BY <2>2, <2>3
<1> HIDE DEF B, C
<1>8. /\ Conflict(gb, keys, ignored) <=> Conflicting(gb, keys, ignored)
      /\ Conflict(gc, keys, ignored) <=> Conflicting(gc, keys, ignored)
  BY <1>3, ConflictIsConflicting
<1>4. Ran("error", Arr(<<>>)).status = "error"
  BY DEF Ran
<1>9. IF conflict THEN outcome.status = "error"
      ELSE /\ outcome.status = "none"
           /\ \A name \in {"onlyAtBase", "unchanged", "changed"} :
                 list(name) = Picks(Chosen(B, Told(B, C, keys, name)), keys)
           /\ list("onlyAtCandidate") = Picks(Chosen(C, Left(B, C, keys)), keys)
  BY <1>1, <1>4, <1>8, CompareResult DEF Given, gb, gc, B, C, keys, ignored
<1> HIDE DEF base, candidate
<1>10. ASSUME ~conflict
       PROVE  /\ outcome.status = "none"
              /\ Len(list("onlyAtBase")) + Len(list("unchanged"))
                   + Len(list("changed")) = Cardinality(base)
              /\ Len(list("onlyAtCandidate")) =
                   Cardinality({c \in candidate : \A key \in Keys(base) : ~Matches(c, key)})
              /\ flat =>
                   /\ ToSet(list("unchanged")) = Keys(base \cap candidate)
                   /\ ToSet(list("changed")) = (Keys(base) \cap Keys(candidate))
                                                 \ Keys(base \cap candidate)
                   /\ ToSet(list("onlyAtBase")) = Keys(base) \ Keys(candidate)
                   /\ ToSet(list("onlyAtCandidate")) = Keys(candidate) \ Keys(base)
  <2>1. /\ outcome.status = "none"
        /\ \A name \in {"onlyAtBase", "unchanged", "changed"} :
              list(name) = Picks(Chosen(B, Told(B, C, keys, name)), keys)
        /\ list("onlyAtCandidate") = Picks(Chosen(C, Left(B, C, keys)), keys)
    BY <1>9, <1>10
  <2>2. \A name : Told(B, C, keys, name) \in SUBSET (1..Cardinality(base))
    BY <1>5 DEF Told
  <2>3. Left(B, C, keys) \in SUBSET (1..Cardinality(candidate))
    BY <1>6 DEF Left
  <2>4. ASSUME NEW name \in {"onlyAtBase", "unchanged", "changed"}
        PROVE  /\ Len(list(name)) = Cardinality(Told(B, C, keys, name))
               /\ ToSet(list(name)) = {Pick(B[i], keys) : i \in Told(B, C, keys, name)}
    BY <1>5, <2>1, <2>2, PickedList
  <2>5. /\ Len(list("onlyAtCandidate")) = Cardinality(Left(B, C, keys))
        /\ ToSet(list("onlyAtCandidate")) = {Pick(C[i], keys) : i \in Left(B, C, keys)}
    BY <1>6, <2>1, <2>3, PickedList
  <2> HIDE DEF list
  <2>6. Len(list("onlyAtBase")) + Len(list("unchanged")) + Len(list("changed"))
          = Cardinality(base)
    BY <1>5, <2>4, ToldPartition
  <2>7. Len(list("onlyAtCandidate")) =
          Cardinality({c \in candidate : \A key \in Keys(base) : ~Matches(c, key)})
    BY <1>5, <1>6, <2>5, LeftCount
  <2>8. ASSUME flat
        PROVE  /\ ToSet(list("unchanged")) = Keys(base \cap candidate)
               /\ ToSet(list("changed")) = (Keys(base) \cap Keys(candidate))
                                             \ Keys(base \cap candidate)
               /\ ToSet(list("onlyAtBase")) = Keys(base) \ Keys(candidate)
               /\ ToSet(list("onlyAtCandidate")) = Keys(candidate) \ Keys(base)
    <3>1. \A item \in base \cup candidate : Flat(item, keys)
      <4>1. \A item : IsObject(Omit(item, ignored))
        BY DEF Omit, Obj, IsObject, Is
      <4>2. \A item \in base \cup candidate : IsObject(item)
        BY <4>1 DEF base, candidate
      <4> QED
        BY <4>2, <2>8 DEF Flat
    <3>2. ASSUME NEW s, ~Conflicting(s, keys, ignored),
                 NEW c \in {Omit(item, ignored) : item \in ToSet(s)},
                 NEW d \in {Omit(item, ignored) : item \in ToSet(s)},
                 Pick(c, keys) = Pick(d, keys)
          PROVE  c = d
      <4>1. PICK i \in DOMAIN s, j \in DOMAIN s :
                 c = Omit(s[i], ignored) /\ d = Omit(s[j], ignored)
        BY DEF ToSet
      <4> QED
        BY <3>2, <4>1 DEF Conflicting
    <3>3. /\ \A c, d \in base : Pick(c, keys) = Pick(d, keys) => c = d
          /\ \A c, d \in candidate : Pick(c, keys) = Pick(d, keys) => c = d
      BY <3>2, <1>10 DEF base, candidate
    <3> DEFINE m == Cardinality(base)
               l == Cardinality(candidate)
    <3>4. /\ m \in Nat /\ DOMAIN B = 1..m /\ ToSet(B) = base
          /\ l \in Nat /\ DOMAIN C = 1..l /\ ToSet(C) = candidate
      BY <1>5, <1>6
    <3> HIDE DEF m, l
    <3>5. /\ KeysAt(B, Told(B, C, keys, "unchanged"), keys) = KeySet(base \cap candidate, keys)
          /\ KeysAt(B, Told(B, C, keys, "changed"), keys) =
                (KeySet(base, keys) \cap KeySet(candidate, keys))
                   \ KeySet(base \cap candidate, keys)
          /\ KeysAt(B, Told(B, C, keys, "onlyAtBase"), keys) =
                KeySet(base, keys) \ KeySet(candidate, keys)
          /\ KeysAt(C, Left(B, C, keys), keys) = KeySet(candidate, keys) \ KeySet(base, keys)
      <4>1. Comparable(B, C, keys)
        BY <3>4, <3>1, <3>3 DEF Comparable
      <4>2. m \in Nat /\ DOMAIN B = 1..m /\ l \in Nat /\ DOMAIN C = 1..l
        BY <3>4
      <4>3. AreCompared(B, C, keys)
        BY <1>7, <4>1, <4>2, ComparedSets
      <4> QED
        BY <3>4, <4>3 DEF AreCompared
    <3> QED
      BY <2>4, <2>5, <3>5 DEF KeySet, KeysAt
  <2> QED
    BY <2>1, <2>6, <2>7, <2>8
<1>11. IF conflict THEN outcome.status = "error"
       ELSE /\ outcome.status = "none"
            /\ Len(list("onlyAtBase")) + Len(list("unchanged"))
                 + Len(list("changed")) = Cardinality(base)
            /\ Len(list("onlyAtCandidate")) =
                 Cardinality({c \in candidate : \A key \in Keys(base) : ~Matches(c, key)})
            /\ flat =>
                 /\ ToSet(list("unchanged")) = Keys(base \cap candidate)
                 /\ ToSet(list("changed")) = (Keys(base) \cap Keys(candidate))
                                               \ Keys(base \cap candidate)
                 /\ ToSet(list("onlyAtBase")) = Keys(base) \ Keys(candidate)
                 /\ ToSet(list("onlyAtCandidate")) = Keys(candidate) \ Keys(base)
  BY <1>9, <1>10
<1> QED
  BY <1>11 DEF ComparePartition, gb, gc, base, candidate, keys, ignored

(***************************************************************************)
(* deepCompare tells of every item of base once what became of it and of   *)
(* every candidate none of them accounts for; of flat items its lists are  *)
(* those of the two sets; and only a conflict within a list is refused     *)
(* (ComparePartition).  The items are those of ItemsAssumption: of scalars *)
(* or objects of scalars, none of them a list, compared by names with dots *)
(* or without.                                                             *)
(***************************************************************************)
THEOREM CompareIsPartition == Spec => []ComparePartition
  BY ComputeInvInit, ComputeInvInductive, ComparePartitionHolds, PTL DEF Spec

-----------------------------------------------------------------------------
(* Failures of the nodes that compute *)

\* deepCompare tells exactly a conflict as an error.
LEMMA ConflictShows ==
    ASSUME ComputeInv, Done("deepCompare"), ~Refused
    PROVE  IF \E name \in {"base", "candidate"} : InConflict(name)
           THEN outcome = Ran("error", Arr(<<>>))
           ELSE outcome.end = "data" /\ outcome.status = "none"
<1> DEFINE keys == Names(data.object.commonKeys)
           ignored == IgnoredIn(data.object)
           gb == data.object.base.array
           gc == data.object.candidate.array
<1>1. /\ Valid(deepCompareExecution, data) /\ outcome = deepCompare(data)
      /\ data \in Inputs["deepCompare"] /\ "deepCompare" \in DOMAIN Inputs
  BY DEF ComputeInv, Done, Refused, Execution
<1>2. /\ IsObject(data) /\ {"base", "candidate", "commonKeys"} \subseteq DOMAIN data.object
      /\ IsArray(data.object["base"]) /\ IsArray(data.object["candidate"])
  BY <1>1, CompareInput
<1>3. gb \in Seq(ToSet(gb)) /\ gc \in Seq(ToSet(gc))
  BY <1>1, <1>2, InputsAssumption DEF IsFinite
<1>4. IF Conflict(gb, keys, ignored) \/ Conflict(gc, keys, ignored)
      THEN outcome = Ran("error", Arr(<<>>))
      ELSE outcome.end = "data" /\ outcome.status = "none"
  BY <1>1, CompareResult
<1>5. InConflict("base") <=> Conflicting(gb, keys, ignored)
  BY DEF InConflict, Given
<1>6. InConflict("candidate") <=> Conflicting(gc, keys, ignored)
  BY DEF InConflict, Given
<1> HIDE DEF gb, gc, keys, ignored
<1>7. /\ DOMAIN gb = 1..Len(gb) /\ Len(gb) \in Nat
      /\ DOMAIN gc = 1..Len(gc) /\ Len(gc) \in Nat
  BY <1>3
<1>8. /\ Conflict(gb, keys, ignored) <=> Conflicting(gb, keys, ignored)
      /\ Conflict(gc, keys, ignored) <=> Conflicting(gc, keys, ignored)
  BY <1>7, ConflictIsConflicting
<1> QED
  BY <1>4, <1>5, <1>6, <1>8

\* remapData tells exactly a first item without anything as an error.
LEMMA NothingShows ==
    ASSUME ComputeInv, Done("remapData"), ~Refused
    PROVE  \/ outcome = Throws
           \/ NothingFound /\ outcome = Ran("error", Arr(<<>>))
           \/ ~NothingFound /\ outcome.end = "data" /\ outcome.status \in {"success", "warning"}
<1> DEFINE items == data.object.data.array
           dictionary == data.object.dictionary
           made(i) == Remap(items[i], dictionary)
           named == UNION {made(i).messages : i \in DOMAIN items}
           status == IF named = {} THEN "success"
                     ELSE IF DOMAIN made(1).made.object # {} THEN "warning"
                     ELSE "error"
           throws == \E i \in DOMAIN items : made(i).throws
           results == [i \in DOMAIN items |-> made(i).made]
           bare == \A k \in DOMAIN Fields(dictionary) :
                      /\ ~Nests(Fields(dictionary)[k])
                      /\ Asked(items[1], dictionary, <<k>>) = Undefined
<1>1. /\ outcome = remapData(data) /\ Valid(remapDataExecution, data)
      /\ category = "remapData" /\ data \in Inputs["remapData"] /\ "remapData" \in DOMAIN Inputs
  BY DEF ComputeInv, Done, Refused, Execution
<1>2. /\ IsObject(data) /\ {"data", "dictionary"} \subseteq DOMAIN data.object
      /\ IsArray(data.object.data)
      /\ throws => remapData(data) = Throws
      /\ (1 \in DOMAIN items \/ DOMAIN items = {}) /\ ~throws =>
            remapData(data) = Ran(status, Arr(IF status = "error" THEN <<>> ELSE results))
  BY <1>1, RemapResult
<1>3. items \in Seq(ToSet(items))
  BY <1>1, <1>2, InputsAssumption DEF IsFinite
<1>4. /\ items = <<>> <=> DOMAIN items = {}
      /\ DOMAIN items # {} => 1 \in DOMAIN items
  <2> HIDE DEF items
  <2> QED
    BY <1>3
<1>5. dictionary \in DOMAIN Depth
  BY <1>1, RemapAssumption
<1>6. \A item : Tells(item, dictionary)
  BY <1>5, EveryCallTells
<1>7. NothingFound <=> items # <<>> /\ DOMAIN Fields(dictionary) # {} /\ bare
  BY DEF NothingFound, Given
<1>8. /\ \A path \in Leaves(dictionary) : DOMAIN Fields(dictionary) # {}
      /\ \A k \in DOMAIN Fields(dictionary) :
            ~Nests(Fields(dictionary)[k]) => <<k>> \in Leaves(dictionary)
  BY <1>5, LeavesGoDown
<1> HIDE DEF items, dictionary
<1>9. DOMAIN made(1).made.object = {} <=> bare
  BY <1>6, Zenon DEF Tells
<1>10. \A i \in DOMAIN items : made(i).messages = {} <=>
          \A path \in Leaves(dictionary) : Asked(items[i], dictionary, path) # Undefined
  BY <1>6, Zenon DEF Tells
<1>11. ASSUME named # {}
       PROVE  items # <<>> /\ DOMAIN Fields(dictionary) # {}
  <2>1. PICK i \in DOMAIN items : made(i).messages # {}
    <3> HIDE DEF made
    <3> QED
      BY <1>11
  <2>2. \E path \in Leaves(dictionary) : Asked(items[i], dictionary, path) = Undefined
    BY <1>10, <2>1
  <2> QED
    BY <1>4, <1>8, <2>2
<1>12. ASSUME NothingFound
       PROVE  named # {} /\ DOMAIN made(1).made.object = {}
  <2>1. 1 \in DOMAIN items /\ bare /\ DOMAIN Fields(dictionary) # {}
    BY <1>4, <1>7, <1>12
  <2>2. PICK k \in DOMAIN Fields(dictionary) : TRUE
    BY <2>1
  <2>3. <<k>> \in Leaves(dictionary) /\ Asked(items[1], dictionary, <<k>>) = Undefined
    BY <1>8, <2>1
  <2>4. made(1).messages # {}
    BY <1>10, <2>1, <2>3
  <2>5. named # {}
    <3> HIDE DEF made
    <3> QED
      BY <2>1, <2>4
  <2> QED
    BY <1>9, <2>1, <2>5
<1> HIDE DEF throws, named, made, bare
<1>13. CASE throws
  BY <1>1, <1>2, <1>13
<1>14. CASE ~throws
  <2>1. outcome = Ran(status, Arr(IF status = "error" THEN <<>> ELSE results))
    BY <1>1, <1>2, <1>4, <1>14
  <2>2. status \in {"success", "warning", "error"} /\ (status = "error" <=> NothingFound)
    BY <1>7, <1>9, <1>11, <1>12
  <2> HIDE DEF status, results
  <2>3. outcome.end = "data" /\ outcome.status = status
    BY <2>1, EndOf
  <2>4. CASE status = "error"
    BY <2>1, <2>2, <2>4
  <2>5. CASE status # "error"
    BY <2>2, <2>3, <2>5
  <2> QED
    BY <2>4, <2>5
<1> QED
  BY <1>13, <1>14

LEMMA FailuresShowHolds == RunInv /\ ComputeInv => FailuresShow
<1> SUFFICES ASSUME RunInv, ComputeInv
             PROVE  FailuresShow
  OBVIOUS
<1> USE DEF RunInv
<1>1. Throws.end = "throws" /\ Running.end = "running"
  BY EndOf
<1>2. ASSUME at = "done", Failing
      PROVE  \/ outcome.end = "throws"
             \/ outcome.end = "error state" /\ category = "createIndex"
             \/ outcome = Ran("error", Arr(<<>>)) /\ category \in {"deepCompare", "remapData"}
             \/ outcome = Ran("http error", Str("answer")) /\ category = "graphQl"
  <2>1. CASE Refused
    BY <1>1, <1>2, <2>1 DEF Shown
  <2>2. CASE failed
    BY <1>1, <1>2, <2>2 DEF Shown
  <2>3. CASE ~Refused /\ category = "deepCompare"
             /\ \E name \in {"base", "candidate"} : InConflict(name)
    BY <1>2, <2>3, ConflictShows DEF Done
  <2>4. CASE ~Refused /\ category = "remapData" /\ NothingFound
    BY <1>1, <1>2, <2>4, NothingShows DEF Done
  <2> QED
    BY <1>2, <2>1, <2>2, <2>3, <2>4 DEF Failing
<1>3. ASSUME outcome.end = "data", outcome.status \in {"error", "http error"}
      PROVE  Failing
  <2>1. at = "done"
    BY <1>1, <1>3
  <2>2. CASE failed \/ Refused
    BY <2>2 DEF Failing
  <2>3. CASE ~Refused /\ category = "deepCompare"
    BY <1>3, <2>1, <2>3, ConflictShows DEF Done, Failing
  <2>4. CASE ~Refused /\ category = "remapData"
    BY <1>1, <1>3, <2>1, <2>4, NothingShows DEF Done, Failing
  <2> QED
    BY <1>3, <2>2, <2>3, <2>4 DEF Shown
<1>4. /\ Refused => called = {}
      /\ outcome = Ran("none", Undefined) => category = "kafkaPublish" /\ called = {}
  BY DEF Shown
<1> QED
  BY <1>2, <1>3, <1>4 DEF FailuresShow

(***************************************************************************)
(* No server is called with parameters the node refuses; a run that cannot *)
(* do what it is for ends with an exception, an error state or, of         *)
(* deepCompare, remapData and graphQl, a status that says so; and such a   *)
(* status is told of nothing else (FailuresShow).                          *)
(***************************************************************************)
THEOREM FailuresAlwaysShow == Spec => []FailuresShow
  BY RunInvInit, RunInvInductive, ComputeInvInit, ComputeInvInductive, FailuresShowHolds,
     PTL DEF Spec
=============================================================================
