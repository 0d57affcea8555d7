CONSTANTS
    p1 = p1
    p2 = p2
    n1 = n1
    n2 = n2
    Processes = {p1, p2}
    Nodes = {n1, n2}
    NoNode = NoNode
    Blueprint <- Blueprints
    Requests = {r1, r2}
    MaxStates = 4

SPECIFICATION FairSpec
CHECK_DEADLOCK FALSE
INVARIANTS
    OverwritesAreRaces
    RepliesAreCurrent
    PendingNodeIsKnown
PROPERTIES
    RequestsAnswered
