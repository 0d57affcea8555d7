CONSTANTS
    Processes = {p1, p2}
    NoParent = NoParent
    MaxSteps = 3
    MaxFaults = 1
    Enabled = {"AMQP", "KAFKA"}
    StateBroker = "AMQP"
    EngineAwaits = TRUE
    PublishStateEvents = "true"

SPECIFICATION FairSpec
CHECK_DEADLOCK FALSE
PROPERTIES
    FeedImplemented
    ListenersSettle
    ConnectionSettles
