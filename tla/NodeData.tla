------------------------------- MODULE NodeData -------------------------------
(***************************************************************************)
(* What the custom nodes deepCompare, remapData and filterData compute     *)
(* from their prepared parameters (src/src/nodes).  Bound: there are no    *)
(* names with brackets in them, nor any that every object of JavaScript    *)
(* has ("constructor").                                                    *)
(***************************************************************************)
EXTENDS NodeSchemas, SequencesExt

CONSTANTS
    Index,      \* bound: the keys of the longest list, "0", "1" ...
    Letters,    \* the texts of several characters, as lists of these
    Dotted,     \* the names with dots in them, and the keys they are made of
    Depth       \* the dictionaries of remapData and those in them: how deep each is

ASSUME IndexAssumption == IsInjective(Index) /\ "length" \notin ToSet(Index)

ASSUME DottedAssumption == \A name \in DOMAIN Dotted : Len(Dotted[name]) > 1

Undefined == [undefined |-> TRUE]

Map(s, Op(_)) == [i \in DOMAIN s |-> Op(s[i])]

\* What is under the numbers of a value: the entries of a list, the characters
\* of a text.
Listed(value) ==
    IF IsArray(value) THEN value.array
    ELSE IF ~Is("string", value) \/ value = Str("") THEN <<>>
    ELSE IF value.string \in DOMAIN Letters THEN Map(Letters[value.string], Str)
    ELSE <<value>>

\* Object.entries(value)
Fields(value) ==
    IF IsObject(value) THEN value.object
    ELSE [k \in {Index[i] : i \in DOMAIN Listed(value)} |->
            Listed(value)[CHOOSE i \in DOMAIN Index : Index[i] = k]]

\* value[key], which is undefined of a value that is no object, list or text.
Property(value, key) ==
    IF key \in DOMAIN Fields(value) THEN Fields(value)[key]
    ELSE IF key = "length" /\ (IsArray(value) \/ Is("string", value))
    THEN Num(Len(Listed(value)))
    ELSE Undefined

\* _.get(value, path)
Within(value, path) ==
    LET at[n \in 0..Len(path)] == IF n = 0 THEN value ELSE Property(at[n - 1], path[n])
    IN  at[Len(path)]

\* castPath of lodash: a name with dots is a path, unless the item has the name.
PathTo(item, name) ==
    IF name \in DOMAIN Dotted /\ name \notin DOMAIN item.object THEN Dotted[name]
    ELSE <<name>>

\* typeof value === "object", null apart.
Nests(value) == IsObject(value) \/ IsArray(value)

\* As in JSON, a dictionary is only so deep and no entry is undefined.
ASSUME DictionariesAssumption ==
    \A d \in DOMAIN Depth :
        /\ Nests(d) /\ Depth[d] \in Nat
        /\ \A k \in DOMAIN Fields(d) :
              LET entry == Fields(d)[k]
              IN  /\ entry # Undefined
                  /\ Nests(entry) => entry \in DOMAIN Depth /\ Depth[entry] < Depth[d]

\* What a run ends with: "data" (the status and data of its result) or
\* "throws".
Ran(status, data) == [end |-> "data", status |-> status, data |-> data]

Throws == [end |-> "throws"]

-----------------------------------------------------------------------------
(* deepCompare *)

\* _.pick(item, keys): the paths that lead to something, and what is there.
\* Items are no deeper than two keys (IsShallow).
Pick(item, keys) ==
    LET paths == {path \in {PathTo(item, k) : k \in keys} : Within(item, path) # Undefined}
        inner(k) == {path[2] : path \in {p \in paths : Len(p) = 2 /\ p[1] = k}}
    IN  Obj([k \in {path[1] : path \in paths} |->
               IF <<k>> \in paths THEN item.object[k]
               ELSE Obj(Restrict(item.object[k].object, inner(k)))])

\* _.omit(item, keys)
Omit(item, keys) ==
    LET paths == {PathTo(item, k) : k \in keys}
        rest(k, value) ==
            IF IsObject(value)
            THEN Obj(Restrict(value.object, {l \in DOMAIN value.object : <<k, l>> \notin paths}))
            ELSE value
    IN  Obj([k \in {k \in DOMAIN item.object : <<k>> \notin paths} |->
               rest(k, item.object[k])])

\* The items of s at the positions P, in their order.
Chosen(s, P) ==
    [n \in 1..Cardinality(P) |-> s[CHOOSE i \in P : Cardinality({j \in P : j <= i}) = n]]

Filter(s, Test(_)) == Chosen(s, {i \in DOMAIN s : Test(s[i])})

\* _.uniqWith(s, _.isEqual)
Uniq(s) == Chosen(s, {i \in DOMAIN s : \A j \in DOMAIN s : s[j] = s[i] => i <= j})

Names(value) == {name.string : name \in ToSet(value.array)}

\* The default of clean's ignore is the empty list.
IgnoredIn(given) ==
    IF "ignoreKeys" \in DOMAIN given THEN Names(given.ignoreKeys) ELSE {}

Without(data, ignore) == Uniq(Map(data, LAMBDA item : Omit(item, ignore)))

\* The keys of each of the items.
Picks(items, keys) == Map(items, LAMBDA item : Pick(item, keys))

\* Mutant of Conflict: repeated items conflict with each other.
ConflictOfRepeated(data, keys, ignore) ==
    LET keysOnly == Picks(Map(data, LAMBDA item : Omit(item, ignore)), keys)
    IN  Len(Uniq(keysOnly)) < Len(keysOnly)

\* clean(data, keys, ignore).duplicates; otherwise clean returns
\* Without(data, ignore).
Conflict(data, keys, ignore) ==
    LET keysOnly == Picks(Without(data, ignore), keys)
    IN  Len(Uniq(keysOnly)) < Len(keysOnly)

\* _.matches: objects are compared partially, and so are those in them; the items
\* (IsShallow) are no deeper.
Agree(value, source, Sub(_, _)) ==
    IF IsObject(source) /\ IsObject(value)
    THEN \A k \in DOMAIN source.object :
            k \in DOMAIN value.object /\ Sub(value.object[k], source.object[k])
    ELSE value = source

FieldMatches(value, source) == Agree(value, source, LAMBDA v, w : v = w)

Matches(value, source) == Agree(value, source, FieldMatches)

\* The list the loop over base pushes the keys of an item to: only the first
\* candidate that has its keys is compared with it.
ListOf(item, candidate, keys) ==
    LET first == SelectInSeq(candidate, LAMBDA c : Matches(c, Pick(item, keys)))
    IN  IF first = 0 THEN "onlyAtBase"
        ELSE IF item = candidate[first] THEN "unchanged" ELSE "changed"

\* What the loop leaves of candidateList.
Remaining(base, candidate, keys) ==
    Filter(candidate, LAMBDA c : \A i \in DOMAIN base : ~Matches(c, Pick(base[i], keys)))

\* _run
deepCompare(data) ==
    IF ~Valid(deepCompareExecution, data) THEN Ran("error", Arr(<<>>))
    ELSE LET given == data.object
             keys == Names(given.commonKeys)
             ignore == IgnoredIn(given)
             base == Without(given.base.array, ignore)
             candidate == Without(given.candidate.array, ignore)
             list(name) ==
                 Arr(Picks(Filter(base, LAMBDA item : ListOf(item, candidate, keys) = name),
                           keys))
         IN  IF \/ Conflict(given.base.array, keys, ignore)
                \/ Conflict(given.candidate.array, keys, ignore)
             THEN Ran("error", Arr(<<>>))
             ELSE Ran("none", Obj([onlyAtBase |-> list("onlyAtBase"),
                                   unchanged |-> list("unchanged"),
                                   changed |-> list("changed"),
                                   onlyAtCandidate |->
                                       Arr(Picks(Remaining(base, candidate, keys), keys))]))

-----------------------------------------------------------------------------
(* remapData *)

\* item[name], and _.get(item, name) of a name with dots.
Lookup(item, name) == Within(item, PathTo(item, name))

\* What an entry of a dictionary puts in its place; call[d] is what remapData
\* returns for a dictionary d in it.
Entry(item, entry, call) ==
    IF Nests(entry) THEN call[entry].made
    ELSE IF entry = Str("") THEN entry
    ELSE IF Is("string", entry) THEN Lookup(item, entry.string)
    ELSE Undefined

\* The item that is made, the entries the messages name, and whether an entry
\* that is null is reached: typeof null is "object", and its entries are asked
\* for.
RemapCall(item, dictionary, call) ==
    LET entries == Fields(dictionary)
        nested == {entries[k] : k \in {k \in DOMAIN entries : Nests(entries[k])}}
        found == {k \in DOMAIN entries : Entry(item, entries[k], call) # Undefined}
    IN  [made |-> Obj([k \in found |-> Entry(item, entries[k], call)]),
         messages |-> {entries[k] : k \in DOMAIN entries \ found}
                        \cup UNION {call[d].messages : d \in nested},
         throws |-> \/ \E k \in DOMAIN entries : entries[k] = Null
                    \/ \E d \in nested : call[d].throws]

\* remapData([item], dictionary), which calls itself.
Remap(item, dictionary) ==
    LET remap[d \in DOMAIN Depth] == RemapCall(item, d, remap)
    IN  remap[dictionary]

\* Mutant of Messages: the messages of an item replace those of the items
\* before it.
MessagesOfLast(remapped) == IF remapped = <<>> THEN {} ELSE Last(remapped).messages

Messages(remapped) == UNION {remapped[i].messages : i \in DOMAIN remapped}

\* Only the first item is looked at.
remapStatus(items, messages) ==
    IF messages = {} THEN "success"
    ELSE IF DOMAIN items[1].object # {} THEN "warning"
    ELSE "error"

\* _run
remapData(data) ==
    IF ~Valid(remapDataExecution, data) THEN Throws
    ELSE LET given == data.object
             remapped == Map(given.data.array, LAMBDA item : Remap(item, given.dictionary))
             items == Map(remapped, LAMBDA r : r.made)
             status == remapStatus(items, Messages(remapped))
         IN  IF \E i \in DOMAIN remapped : remapped[i].throws THEN Throws
             ELSE Ran(status, Arr(IF status = "error" THEN <<>> ELSE items))

-----------------------------------------------------------------------------
(* filterData *)

\* Does the item have what the alternative asks for?  Objects and lists are
\* compared by identity, so only scalars are ever the same.
Satisfies(item, alternative) ==
    \A k \in DOMAIN Fields(alternative) :
        ~Nests(Fields(alternative)[k]) /\ Property(item, k) = Fields(alternative)[k]

\* some(): the first alternative that is satisfied, or that throws, decides.
\* Object.keys of null is an exception.
ClassVerdict(item, class) ==
    IF ~IsArray(class) THEN "throws"
    ELSE LET some == SelectInSeq(class.array,
                       LAMBDA alternative : alternative = Null
                                            \/ Satisfies(item, alternative))
         IN  IF some = 0 THEN "no"
             ELSE IF class.array[some] = Null THEN "throws" ELSE "yes"

\* Mutant of FirstClass: the last class that fits.
LastClass(item, classes, order) ==
    SelectLastInSeq(order, LAMBDA name : ClassVerdict(item, classes[name]) # "no")

\* The first of the classes, in the order of their keys, that the item fits or
\* whose test throws; 0 if there is none.
FirstClass(item, classes, order) ==
    SelectInSeq(order, LAMBDA name : ClassVerdict(item, classes[name]) # "no")

\* A class may be called "unsorted" itself: it shares the list.
ClassOf(item, classes, order) ==
    IF FirstClass(item, classes, order) = 0 THEN "unsorted"
    ELSE order[FirstClass(item, classes, order)]

FilterThrows(item, classes, order) ==
    /\ FirstClass(item, classes, order) # 0
    /\ ClassVerdict(item, classes[ClassOf(item, classes, order)]) = "throws"

\* _run; order is that of the keys of primary_keys.
filterData(data, order) ==
    IF ~Valid(filterDataExecution, data) THEN Throws
    ELSE LET items == data.object.data.array
             classes == data.object.primary_keys.object
         IN  IF \E i \in DOMAIN items : FilterThrows(items[i], classes, order)
             THEN Throws
             ELSE Ran("none", Obj([c \in DOMAIN classes \cup {"unsorted"} |->
                     Arr(Filter(items,
                           LAMBDA item : ClassOf(item, classes, order) = c))]))
=============================================================================
