CONSTANTS
    k1 = k1
    k2 = k2
    v1 = v1
    v2 = v2
    Keys = {k1, k2}
    Values = {v1, v2}
    NoValue = NoValue
    Environ <- Environment
    Requests = {r1, r2, r3}
    MaxChanges = 3
    MaxFaults = 1

SPECIFICATION Spec
CHECK_DEADLOCK FALSE
SYMMETRY Symmetry
INVARIANTS
    WritesTakeEffect
PROPERTY
    StoreImplemented
