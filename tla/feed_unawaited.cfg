CONSTANTS
    Processes = {p1, p2, p3}
    NoParent = NoParent
    MaxSteps = 3
    MaxFaults = 1
    Enabled = {"MQTT"}
    StateBroker = "MQTT"
    EngineAwaits = FALSE
    PublishStateEvents = "true"

SPECIFICATION Spec
CHECK_DEADLOCK FALSE
SYMMETRY Symmetry
INVARIANTS
    OnlyFirstIsLate
    EventsAccounted
    TreeIsForest
    FirstEventIsInTree
    MissingOnlyByOvertaking
