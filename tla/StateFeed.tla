------------------------------ MODULE StateFeed ------------------------------
(***************************************************************************)
(* What the state topics promise their subscribers, whatever the brokers   *)
(* do: the events of one process arrive at the client in the order of      *)
(* their step numbers and at most once, except the first one, which is     *)
(* held back until the process tree has answered and may arrive late or    *)
(* not at all.                                                             *)
(***************************************************************************)
EXTENDS Naturals, Sequences

CONSTANTS
    Processes,
    MaxSteps,       \* bound: states a process goes through
    Ordered         \* TRUE: no second state while the first is held

VARIABLES
    created,        \* states created so far, by process
    held,           \* processes whose first event is still held back
    feed            \* events handed to the broker, by process, in order

feedVars == <<created, held, feed>>

FeedInit ==
    /\ created = [p \in Processes |-> 0]
    /\ held = {}
    /\ feed = [p \in Processes |-> <<>>]

First(p) ==
    /\ created[p] = 0
    /\ created' = [created EXCEPT ![p] = 1]
    /\ held' = held \cup {p}
    /\ UNCHANGED feed

Later(p) ==
    /\ created[p] \in 1..(MaxSteps - 1)
    /\ Ordered => p \notin held
    /\ created' = [created EXCEPT ![p] = @ + 1]
    /\ feed' \in {feed, [feed EXCEPT ![p] = Append(@, created[p] + 1)]}
    /\ UNCHANGED held

Release(p) ==
    /\ p \in held
    /\ held' = held \ {p}
    /\ feed' \in {feed, [feed EXCEPT ![p] = Append(@, 1)]}
    /\ UNCHANGED created

\* The server stops: what it held back is never announced.
Forget ==
    /\ held' = {}
    /\ UNCHANGED <<created, feed>>

FeedNext ==
    \/ \E p \in Processes : First(p) \/ Later(p) \/ Release(p)
    \/ Forget

FeedSpec == FeedInit /\ [][FeedNext]_feedVars
=============================================================================
