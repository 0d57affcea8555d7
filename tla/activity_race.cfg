CONSTANTS
    p1 = p1
    p2 = p2
    m1 = m1
    m2 = m2
    m3 = m3
    Processes = {p1, p2}
    Managers = {m1, m3}
    Owner <- Owners
    Audience <- Audiences
    Requests = {r1, r2}
    MaxCommits = 1
    MaxFaults = 1
    OnlyOnCreation = TRUE
    Enabled = {"MQTT"}
    ManagerBroker = "MQTT"

SPECIFICATION Spec
CHECK_DEADLOCK FALSE
SYMMETRY Symmetry
INVARIANTS
    CommitStaysInProcess
    CreationTold
