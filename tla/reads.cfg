CONSTANTS
    parent = parent
    child = child
    Processes = {parent, child}
    NoParent = NoParent
    Parent <- Parents
    NoLimit = NoLimit
    MaxReadyTimers = 0
    MaxStates = 4
    MaxTimers = 1
    MaxChanges = 2

SPECIFICATION Spec
CHECK_DEADLOCK FALSE
INVARIANTS
    RepliesAreOfOneMoment
    PartsWereTrue
    FailuresAreExplained
