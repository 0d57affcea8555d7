CONSTANTS
    p1 = p1
    p2 = p2
    m1 = m1
    m2 = m2
    m3 = m3
    Processes = {p1, p2}
    Managers = {m1, m2}
    Owner <- Owners
    Audience <- Audiences
    Requests = {r1}
    MaxCommits = 2
    MaxFaults = 0
    OnlyOnCreation = TRUE
    Enabled = {}
    ManagerBroker = "MQTT"

SPECIFICATION Spec
CHECK_DEADLOCK FALSE
SYMMETRY Symmetry
INVARIANTS
    CommitReachesManager
